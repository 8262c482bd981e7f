----------------------------- MODULE Encryption -----------------------------
(***************************************************************************)
(* crates/functions/src/encryption.  A binary is a sequence of bytes, a    *)
(* byte a tuple: <<b>> for one the query supplies.  The cipher of the      *)
(* aes_gcm crate is its contract: what was encrypted under a key, an IV    *)
(* and additional data is recovered under the same three and the tag.      *)
(***************************************************************************)
EXTENDS Columnar

CONSTANTS
    KeyLens, \* lengths of the AES keys (16, 24 and 32 bytes)
    IvLen,   \* length of an IV (12 bytes)
    TagLen   \* length of a tag (16 bytes)

Binary == "Binary"
Method == "AES-GCM"

\* A byte of ciphertext and a byte of a tag, distinct from every other byte.
Masked(key, iv, value) == [n \in DOMAIN value |-> <<key, iv, value[n]>>]
TagOf(key, iv, aad, value) == [n \in 1..TagLen |-> <<key, iv, aad, value>>]

\* Aead::decrypt: <<plaintext>>, or <<>> when the tag is not the one.
Open(combined, key, iv, aad) ==
    LET n == Len(combined) - TagLen
        ct == SubSeq(combined, 1, n)
        pt == [k \in 1..n |-> IF Len(ct[k]) = 3 THEN ct[k][3] ELSE <<0>>]
    IN  IF n < 0 THEN <<>>
        ELSE IF /\ \A k \in 1..n : Len(ct[k]) = 3
                /\ ct = Masked(key, iv, pt)
                /\ SubSeq(combined, n + 1, Len(combined)) = TagOf(key, iv, aad, pt)
             THEN <<pt>> ELSE <<>>

\* coerce_types: an untyped NULL takes the type of its place.
Places == <<Binary, Binary, Binary, Binary, "Utf8", Binary>>
Coerced(args, most) ==
    /\ Len(args) \in 3..most
    /\ \A n \in DOMAIN args : TypeOf(args[n]) \in {Places[n], "Null"}

\* A scalar is one row, which is not the length of a column of several.
SameLength(args) == \A n \in DOMAIN args : Len(args[n].vs) = Len(args[1].vs)

MethodError(m) == CASE m = Method -> <<>>
                    [] m = "malformed" -> <<"malformed method">>
                    [] OTHER -> <<"unsupported method">>

-----------------------------------------------------------------------------
encrypt_row(row, random) ==
    LET aad == IF Len(row) > 3 THEN X(row[4]) ELSE <<>>
        bad == IF Len(row) > 4 THEN MethodError(X(row[5])) ELSE <<>>
        iv == IF ~Some(row[3]) \/ X(row[3]) = <<>> THEN random ELSE X(row[3])
        value == X(row[1])
        key == X(row[2])
    IN  CASE bad # <<>> -> Err(bad[1])
          [] bad = <<>> /\ Len(iv) # IvLen -> Err("IV size")
          [] bad = <<>> /\ Len(iv) = IvLen /\ Len(key) \notin KeyLens -> Err("key size")
          [] OTHER -> Cell("Object", [ciphertext |-> Masked(key, iv, value), iv |-> iv,
                                      tag |-> TagOf(key, iv, aad, value)])

\* random is the IV a row gets whose IV is NULL or empty.
encrypt_raw(args, random) ==
    LET row(m) == [n \in DOMAIN args |-> args[n].vs[m]]
        nullIn(r) == \E n \in DOMAIN r \ {3} : ~Some(r[n])
    IN  IF ~Coerced(args, 5) THEN Fail("argument types")
        ELSE IF ~SameLength(args) THEN Fail("array length mismatch")
        ELSE EachRow(LAMBDA m : IF nullIn(row(m)) THEN Null("Object")
                                ELSE encrypt_row(row(m), random), [m \in DOMAIN args[1].vs |-> m])

\* Without a tag its bytes are the last ones of the ciphertext.
decrypt_row(row) ==
    LET ct == X(row[1])
        key == X(row[2])
        iv == X(row[3])
        aad == IF Len(row) > 3 THEN X(row[4]) ELSE <<>>
        bad == IF Len(row) > 4 THEN MethodError(X(row[5])) ELSE <<>>
        tag == IF Len(row) > 5 THEN X(row[6]) ELSE <<>>
        pt == Open(ct \o tag, key, iv, aad)
    IN  IF Len(iv) # IvLen THEN Err("IV size")
        ELSE IF bad # <<>> THEN Err(bad[1])
        ELSE IF tag = <<>> /\ Len(ct) < TagLen THEN Err("ciphertext too short")
        ELSE IF Len(key) \notin KeyLens THEN Err("key length")
        ELSE IF pt = <<>> THEN Err("decryption failed")
        ELSE Cell(Binary, pt[1])

decrypt_raw(args) ==
    LET row(m) == [n \in DOMAIN args |-> args[n].vs[m]]
        each(m) == IF ~Some(row(m)[3]) THEN Err("NULL IV")
                   ELSE IF \E n \in DOMAIN args : ~Some(row(m)[n]) THEN Null(Binary)
                   ELSE decrypt_row(row(m))
    IN  IF ~Coerced(args, 6) THEN Fail("argument types")
        ELSE IF ~SameLength(args) THEN Fail("array length mismatch")
        ELSE EachRow(each, [m \in DOMAIN args[1].vs |-> m])
=============================================================================
