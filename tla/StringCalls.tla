----------------------------- MODULE StringCalls -----------------------------
(***************************************************************************)
(* Calls of the string, binary, regular expression, conditional and        *)
(* encryption functions.                                                   *)
(***************************************************************************)
EXTENDS Calls

CONSTANTS
    Strings,    \* texts, as sequences of code points
    Binaries,   \* sequences of bytes
    HexTexts,   \* texts given to HEX_DECODE
    Numbers,    \* integers
    Subjects,   \* texts searched, as sequences of bytes
    Patterns,   \* regular expressions
    Secrets,    \* <<key, iv, additional data>> of ENCRYPT_RAW
    KeyLens, IvLen, TagLen

T == INSTANCE RegexpFunctions
C == INSTANCE ConditionalFunctions
E == INSTANCE Encryption

OneCell(ty, S) == {T!Scalar(T!Cell(ty, x)) : x \in S}
TwoCells(ty, S) == {T!Column(<<T!Cell(ty, x), T!Cell(ty, y)>>) : x, y \in S}
                   \cup {T!Column(<<T!Null(ty), T!Cell(ty, x)>>) : x \in S}
NullArg(ty) == T!Scalar(T!Null(ty))

StringArgs == OneCell("Utf8", Strings) \cup {NullArg("Utf8"), NullArg("Null")}
FewStrings == {s \in Strings : Len(s) \in {0, 2}}
StringColumns == TwoCells("Utf8", FewStrings)
BinaryArgs == OneCell("Binary", Binaries)
NumberArgs == OneCell("Int64", Numbers) \cup {NullArg("Int64")}
NumberColumns == TwoCells("Int64", {0, 1})
BooleanColumns == {T!Column(<<c, d>>) : c, d \in {T!Null("Boolean"), T!Cell("Boolean", TRUE), T!Cell("Boolean", FALSE)}}

TextUnaryOf(f, a) ==
    CASE f = "LENGTH" -> T!length(a)
      [] f = "RTRIMMED_LENGTH" -> T!rtrimmed_length(a)
      [] f = "LOWER" -> T!lower_simplify(a)
      [] f = "HEX_ENCODE" -> T!hex_encode(<<a>>)
      [] f = "SHA2" -> T!sha2(<<a>>)
      [] f = "MD5" -> T!md5(a)

TextPairOf(f, args) ==
    CASE f = "SPLIT" -> T!split(args)
      [] f = "STRTOK_TO_ARRAY" -> T!strtok_to_array(args)
      [] f = "JAROWINKLER_SIMILARITY" -> T!jarowinkler_similarity(args)

BooleanOf(f, args) ==
    CASE f = "BOOLAND" -> C!booland(args)
      [] f = "BOOLOR" -> C!boolor(args)
      [] f = "BOOLXOR" -> C!boolxor(args)

Div0Of(f, args) == C!div0(args, <<4, 0>>, <<4, 0>>, f = "DIV0NULL")

TextUnary == {"LENGTH", "RTRIMMED_LENGTH", "LOWER", "HEX_ENCODE", "SHA2", "MD5"}
TryHex == {"TRY_HEX_DECODE_STRING", "TRY_HEX_DECODE_BINARY"}
HexToString == {"HEX_DECODE_STRING", "TRY_HEX_DECODE_STRING"}
HexUnary == TryHex \cup HexToString \cup {"HEX_DECODE_BINARY"}

\* LENGTH and HEX_ENCODE take binaries, LENGTH, LOWER and MD5 numbers too.
TextUnaryArgs(f) ==
    (StringArgs \ {NullArg("Null")}) \cup StringColumns
    \cup (IF f \in {"LENGTH", "HEX_ENCODE"} THEN BinaryArgs ELSE {})
    \cup (IF f \in {"LENGTH", "LOWER", "MD5"} THEN NumberArgs \cup NumberColumns ELSE {})

CallString ==
    /\ Idle
    /\ \/ \E f \in TextUnary : \E a \in TextUnaryArgs(f) : Invoke(f, <<a>>, TextUnaryOf(f, a))
       \/ \E s \in StringArgs \cup StringColumns, n \in NumberArgs : Invoke("HEX_ENCODE", <<s, n>>, T!hex_encode(<<s, n>>))
       \/ \E f \in HexUnary, h \in OneCell("Utf8", HexTexts) \cup TwoCells("Utf8", HexTexts) :
             Invoke(f, <<h>>, IF f \in HexToString THEN T!hex_decode_string(h, f \in TryHex)
                                          ELSE T!hex_decode_binary(h, f \in TryHex))
       \/ \E s \in StringArgs \cup StringColumns \cup BinaryArgs, from, n \in NumberArgs \cup NumberColumns,
             k \in 2..3 : Invoke("SUBSTR", SubSeq(<<s, from, n>>, 1, k), T!substr_simplify(SubSeq(<<s, from, n>>, 1, k)))
       \/ \E s \in StringArgs \cup StringColumns, from \in NumberArgs \cup NumberColumns, n \in NumberArgs, t \in OneCell("Utf8", FewStrings) :
             Invoke("INSERT", <<s, from, n, t>>, T!insert(<<s, from, n, t>>))
       \/ \E f \in {"SPLIT", "STRTOK_TO_ARRAY", "JAROWINKLER_SIMILARITY"}, s \in StringArgs \cup StringColumns,
             t \in OneCell("Utf8", FewStrings) \cup StringColumns : Invoke(f, <<s, t>>, TextPairOf(f, <<s, t>>))
       \/ \E s \in StringArgs \cup StringColumns, t \in OneCell("Utf8", FewStrings), n \in NumberArgs \cup NumberColumns :
             Invoke("STRTOK", <<s, t, n>>, T!strtok(<<s, t, n>>))
       \/ \E s \in StringColumns, t \in OneCell("Utf8", FewStrings) : Invoke("STRTOK", <<s, t>>, T!strtok(<<s, t>>))
       \/ \E s \in StringArgs \cup StringColumns, t, u \in OneCell("Utf8", FewStrings) \cup {NullArg("Utf8")} :
             Invoke("REPLACE", <<s, t, u>>, T!replace(<<s, t, u>>))
       \/ \E s \in StringArgs \cup StringColumns, n \in NumberArgs \cup OneCell("Int64", {256}) : Invoke("SHA2", <<s, n>>, T!sha2(<<s, n>>))
       \/ \E m, n \in NumberArgs \cup NumberColumns : Invoke("RANDSTR", <<m, n>>, T!randstr(<<m, n>>))
       \/ \E s \in StringArgs \cup StringColumns, family \in OneCell("Utf8", {"INET", "other"}), n \in NumberArgs :
             Invoke("PARSE_IP", <<s, family, n>>, T!parse_ip(<<s, family, n>>))

SubjectArgs == OneCell("Utf8", Subjects) \cup {NullArg("Utf8")} \cup TwoCells("Utf8", {s \in Subjects : Len(s) = 2})
PatternArgs == OneCell("Pattern", Patterns)
ParamArgs == OneCell("Utf8", {<<>>, <<"c">>, <<"i">>, <<"i", "e">>, <<"x">>})
Occurrences == OneCell("Int64", {0, 1, 2})

CallRegexp ==
    /\ Idle
    /\ \E s \in SubjectArgs, p \in PatternArgs :
          \/ \E q \in ParamArgs : Invoke("REGEXP_LIKE", <<s, p, q>>, T!regexp_like(<<s, p, q>>))
          \/ \E from, n \in Occurrences, q \in ParamArgs :
                \/ Invoke("REGEXP_SUBSTR", <<s, p, from, n, q>>, T!regexp_substr(<<s, p, from, n, q>>))
                \/ Invoke("REGEXP_SUBSTR_ALL", <<s, p, from, n, q>>, T!regexp_substr_all(<<s, p, from, n, q>>))
          \/ \E from, n, option \in Occurrences, q \in ParamArgs :
                Invoke("REGEXP_INSTR", <<s, p, from, n, option, q>>, T!regexp_instr(<<s, p, from, n, option, q>>))
          \/ \E from, n \in Occurrences, r \in OneCell("Utf8", {<<>>, <<97>>}) :
                Invoke("REGEXP_REPLACE", <<s, p, r, from, n>>, T!regexp_replace(<<s, p, r, from, n>>))

CallConditional ==
    /\ Idle
    /\ \/ \E f \in {"BOOLAND", "BOOLOR", "BOOLXOR"}, a, b \in BooleanColumns \cup NumberColumns \cup NumberArgs :
             Invoke(f, <<a, b>>, BooleanOf(f, <<a, b>>))
       \/ \E S \in {BooleanColumns, NumberColumns \cup NumberArgs} : \E a, b \in S : Invoke("EQUAL_NULL", <<a, b>>, C!equal_null(<<a, b>>))
       \/ \E c \in BooleanColumns, a, b \in NumberArgs \cup NumberColumns \cup {NullArg("Null")} :
             Invoke("IFF", <<c, a, b>>, C!iff(<<c, a, b>>))
       \/ \E a \in NumberArgs \cup NumberColumns : \/ Invoke("NULLIFZERO", <<a>>, C!nullifzero(a))
                                                   \/ Invoke("ZEROIFNULL", <<a>>, C!zeroifnull(a))
       \/ \E f \in {"DIV0", "DIV0NULL"}, a, b \in NumberArgs \cup NumberColumns : Invoke(f, <<a, b>>, Div0Of(f, <<a, b>>))

\* ENCRYPT_RAW of a value, then DECRYPT_RAW of what it answered, with the tag
\* apart or as the end of the ciphertext, under the same or another secret.
Bytes(s) == [n \in DOMAIN s |-> <<s[n]>>]
EncryptArgs(value, secret) ==
    LET arg(x) == E!Scalar(E!Cell("Binary", Bytes(x)))
    IN  <<arg(value), arg(secret[1]), arg(secret[2]), arg(secret[3]), E!Scalar(E!Cell("Utf8", E!Method))>>
DecryptArgs(sealed, secret, apart) ==
    LET arg(x) == E!Scalar(E!Cell("Binary", x))
    IN  <<arg(IF apart THEN sealed.ciphertext ELSE sealed.ciphertext \o sealed.tag), arg(Bytes(secret[1])),
          arg(Bytes(secret[2])), arg(Bytes(secret[3])), E!Scalar(E!Cell("Utf8", E!Method))>>
        \o (IF apart THEN <<arg(sealed.tag)>> ELSE <<>>)

CallEncryption ==
    /\ Idle
    /\ \E value \in Binaries, secret, other \in Secrets, apart \in BOOLEAN :
          LET sealed == E!encrypt_raw(EncryptArgs(value, secret), Bytes([n \in 1..IvLen |-> 7]))
          IN  Invoke("DECRYPT_RAW", <<value, secret, other, apart>>,
                     IF E!Failed(sealed) THEN sealed
                     ELSE E!decrypt_raw(DecryptArgs(E!X(E!Of(sealed)), other, apart)))

-----------------------------------------------------------------------------
(* Properties *)

Good(r) == ~T!Failed(r)
Val(arg) == T!X(T!Of(arg))
Given(arg) == ~arg.col /\ T!Some(T!Of(arg))
Text(s) == T!Scalar(T!Cell("Utf8", s))
Number(n) == T!Scalar(T!Cell("Int64", n))
Ascii(s) == \A n \in DOMAIN s : s[n] < 128

\* The functions that repeat a literal beside a column.
Repeating == {"SUBSTR", "SPLIT", "REPLACE", "SHA2", "PARSE_IP", "IFF", "DIV0", "DIV0NULL", "REGEXP_LIKE",
              "REGEXP_SUBSTR", "REGEXP_SUBSTR_ALL", "REGEXP_INSTR", "REGEXP_REPLACE"}
RepeatingOf(f, args) ==
    CASE f = "SUBSTR" -> T!substr_simplify(args)
      [] f = "SPLIT" -> T!split(args)
      [] f = "REPLACE" -> T!replace(args)
      [] f = "SHA2" -> T!sha2(args)
      [] f = "PARSE_IP" -> T!parse_ip(args)
      [] f = "IFF" -> C!iff(args)
      [] f \in {"DIV0", "DIV0NULL"} -> Div0Of(f, args)
      [] f = "REGEXP_LIKE" -> T!regexp_like(args)
      [] f = "REGEXP_SUBSTR" -> T!regexp_substr(args)
      [] f = "REGEXP_SUBSTR_ALL" -> T!regexp_substr_all(args)
      [] f = "REGEXP_INSTR" -> T!regexp_instr(args)
      [] f = "REGEXP_REPLACE" -> T!regexp_replace(args)

\* Those that pair it with the first row only.
Pairing == {"INSERT", "STRTOK", "STRTOK_TO_ARRAY", "JAROWINKLER_SIMILARITY", "HEX_ENCODE", "RANDSTR",
            "BOOLAND", "BOOLOR", "BOOLXOR", "EQUAL_NULL"}
PairingOf(f, args) ==
    CASE f = "INSERT" -> T!insert(args)
      [] f = "STRTOK" -> T!strtok(args)
      [] f \in {"STRTOK_TO_ARRAY", "JAROWINKLER_SIMILARITY"} -> TextPairOf(f, args)
      [] f = "HEX_ENCODE" -> T!hex_encode(args)
      [] f = "RANDSTR" -> T!randstr(args)
      [] f \in {"BOOLAND", "BOOLOR", "BOOLXOR"} -> BooleanOf(f, args)
      [] f = "EQUAL_NULL" -> C!equal_null(args)

\* A row of a call over columns is answered from that row's values and the
\* literals.  The functions that repeat a literal answer every row, and fail
\* only if a row alone fails; those that do not may stop short or fail where
\* a literal stands beside a column, but give no row another's answer.
\* SUBSTR of a literal from a literal position is left out: it is evaluated
\* while planning, without the lengths of a column (substr.rs:186-195).
TextRowsStandAlone ==
    /\ call.f \in Repeating /\ (\E k \in DOMAIN call.args : Arg(k).col)
          /\ (call.f = "SUBSTR" => Arg(1).col \/ Arg(2).col) =>
          T!EveryRowAlone(LAMBDA args : RepeatingOf(call.f, args), call.args, answer)
    /\ call.f \in Pairing /\ (\E k \in DOMAIN call.args : Arg(k).col) =>
          T!NoRowOfAnother(LAMBDA args : PairingOf(call.f, args), call.args, answer)

\* SUBSTR up to a length and from there on make up the string from the start;
\* a call with literals, evaluated while planning (simplify), answers what
\* the rows would, when the length is not negative (a negative one is an
\* error of the rows and no length at all while planning).
SubstrCutsTheString ==
    call.f = "SUBSTR" /\ Len(call.args) = 3 /\ (\A n \in 1..3 : Given(Arg(n))) /\ T!TypeOf(Arg(1)) = "Utf8"
        /\ Val(Arg(3)) >= 0 =>
        LET rest(n) == Val(T!substr_simplify(<<Arg(1), Number(n)>>))
            from == Val(Arg(2))
        IN  /\ T!substr_invoke(call.args).vs[1].held = T!Of(answer).held
            /\ from >= 1 => Val(answer) \o rest(from + Val(Arg(3))) = rest(from)

\* INSERT replaces what it says it does: putting the replaced part back gives
\* the string, where a character is a byte.
InsertCanBeUndone ==
    call.f = "INSERT" /\ (\A n \in 1..4 : Given(Arg(n))) /\ Good(answer) /\ Ascii(Val(Arg(1))) /\ Ascii(Val(Arg(4))) =>
        LET pos == Val(Arg(2))
            taken == SubSeq(Val(Arg(1)), pos, pos + Val(Arg(3)) - 1)
            back == T!insert(<<T!Scalar(T!Of(answer)), Arg(2), Number(Len(Val(Arg(4)))), Text(taken)>>)
        IN  Good(back) /\ Val(back) = Val(Arg(1))

\* HEX_DECODE_STRING of HEX_ENCODE is the string, accents included, and the
\* TRY_ form differs from the other only where that one fails, with NULL.
HexRoundTrip ==
    /\ call.f = "HEX_ENCODE" /\ Given(Arg(1)) /\ T!TypeOf(Arg(1)) = "Utf8" =>
          LET back == T!hex_decode_string(answer, FALSE) IN Good(back) /\ Val(back) = Val(Arg(1))
    /\ call.f = "HEX_DECODE_STRING" /\ ~Arg(1).col =>
          LET tried == T!hex_decode_string(Arg(1), TRUE)
          IN  IF Good(answer) THEN tried = answer ELSE tried = T!Column(<<T!Null("Utf8")>>)

\* STRTOK answers the elements of STRTOK_TO_ARRAY, none of them empty or with
\* a delimiter, and together the string without its delimiters.
TokensAreTheStringCutUp ==
    call.f = "STRTOK_TO_ARRAY" /\ Given(Arg(1)) /\ Given(Arg(2)) =>
        LET tokens == T!X(answer.vs[1])
            delimiters == {Val(Arg(2))[n] : n \in DOMAIN Val(Arg(2))}
            nth(n) == T!strtok(<<Arg(1), Arg(2), Number(n)>>).vs[1]
        IN  /\ \A k \in DOMAIN tokens : /\ tokens[k] # <<>>
                                        /\ \A n \in DOMAIN tokens[k] : tokens[k][n] \notin delimiters
                                        /\ nth(k) = T!Cell("Utf8", tokens[k])
            /\ nth(Len(tokens) + 1) = T!Null("Utf8")
            /\ T!FlattenSeq(tokens) = SelectSeq(Val(Arg(1)), LAMBDA c : c \notin delimiters)

\* REGEXP_SUBSTR is the part of the subject between the positions that
\* REGEXP_INSTR answers for the start and for the end, NULL when it answers 0.
\* The positions count bytes.  regexp_instr.rs:32 and 38 and regexp_substr.rs:32
\* say characters, which is the same only where each character is one byte.
SubstrIsWhereInstrSays ==
    call.f = "REGEXP_SUBSTR" /\ Given(Arg(1)) /\ Good(answer) =>
        LET at(option) == Val(T!regexp_instr(SubSeq(call.args, 1, 4) \o <<Number(option), Arg(5)>>))
        IN  IF T!Some(answer.vs[1])
            THEN T!X(answer.vs[1]) = SubSeq(Val(Arg(1)), at(0), at(1) - 1)
            ELSE at(0) = 0 /\ at(1) = 0

\* REGEXP_SUBSTR_ALL has the matches that REGEXP_SUBSTR answers one by one
\* from the occurrence it is given on, those without the group left out.
AllIsEachOccurrence ==
    call.f = "REGEXP_SUBSTR_ALL" /\ Given(Arg(1)) /\ Good(answer) =>
        LET one(n) == T!regexp_substr([call.args EXCEPT ![4] = Number(n)]).vs[1]
            each == [k \in 1..Len(Val(Arg(1))) |-> one(Val(Arg(4)) + k - 1)]
            found == SelectSeq(each, T!Some)
        IN  T!X(answer.vs[1]) = [k \in DOMAIN found |-> T!X(found[k])]

\* DECRYPT_RAW gives back what ENCRYPT_RAW was given, the tag apart or not,
\* and under another key, IV or additional data fails: it never answers a
\* text that was not encrypted.
DecryptGivesBackOrFails ==
    call.f = "DECRYPT_RAW" /\ Arg(2)[2] # <<>> =>
        IF Arg(2) = Arg(3) /\ Len(Arg(2)[1]) \in KeyLens /\ Len(Arg(2)[2]) = IvLen
        THEN Good(answer) /\ T!X(answer.vs[1]) = Bytes(Arg(1))
        ELSE ~Good(answer)

\* The laws of the text functions: parts make up the whole, positions are
\* where the matches are, and what is encoded or encrypted comes back.
TextFunctionsAgree ==
    /\ SubstrCutsTheString /\ InsertCanBeUndone /\ HexRoundTrip
    /\ TokensAreTheStringCutUp /\ SubstrIsWhereInstrSays /\ AllIsEachOccurrence
    /\ DecryptGivesBackOrFails
=============================================================================
