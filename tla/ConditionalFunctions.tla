------------------------ MODULE ConditionalFunctions ------------------------
(***************************************************************************)
(* crates/functions/src/conditional, numeric/div0.rs, and the conversion   *)
(* to Boolean they share (lib.rs).  A number is an integer; a decimal is   *)
(* its mantissa, its precision and scale being part of the call.           *)
(***************************************************************************)
EXTENDS Columnar

IntegerTypes == {"Int8", "Int16", "Int32", "Int64", "UInt8", "UInt16", "UInt32", "UInt64"}
FloatTypes == {"Float16", "Float32", "Float64"}
NumericTypes == IntegerTypes \union FloatTypes \union {"Decimal128", "Decimal256"}

\* A Utf8View column is taken for the type of a bare NULL.
array_to_boolean(cs) ==
    LET bool(c) == CASE c.ty = "Boolean" \/ ~Some(c) -> Option("Boolean", c.held)
                     [] c.ty \in NumericTypes -> Cell("Boolean", X(c) # 0)
                     [] OTHER -> Err("unsupported type")
    IN  IF \E n \in DOMAIN cs : cs[n].ty \notin NumericTypes \union {"Null", "Boolean", "Utf8View"}
        THEN Fail("unsupported type") ELSE EachRow(bool, cs)

is_true(c) == c.held = <<TRUE>>

\* Both sides become Booleans; a scalar beside a column is one row.
BothBoolean(args, f(_, _)) ==
    LET lhs == array_to_boolean(args[1].vs)
        rhs == array_to_boolean(args[2].vs)
        rows == Shortest(<<lhs, rhs>>)
    IN  IF Failed(lhs) THEN lhs ELSE IF Failed(rhs) THEN rhs
        ELSE Column([n \in DOMAIN rows |-> f(rows[n][1], rows[n][2])])

booland(args) ==
    LET both(l, r) ==
          IF (~Some(l) /\ ~Some(r)) \/ ((~Some(l) \/ ~Some(r)) /\ (is_true(l) \/ is_true(r)))
          THEN Null("Boolean") ELSE Cell("Boolean", is_true(l) /\ is_true(r))
    IN  BothBoolean(args, both)

boolor(args) ==
    LET either(l, r) ==
          IF (~Some(l) /\ ~Some(r)) \/ ((~Some(l) \/ ~Some(r)) /\ ~is_true(l) /\ ~is_true(r))
          THEN Null("Boolean") ELSE Cell("Boolean", is_true(l) \/ is_true(r))
    IN  BothBoolean(args, either)

boolxor(args) ==
    LET one(l, r) == IF ~Some(l) \/ ~Some(r) THEN Null("Boolean")
                     ELSE Cell("Boolean", is_true(l) # is_true(r))
    IN  BothBoolean(args, one)

\* One NULL answers NULL; a scalar beside a longer column is refused.
equal_null(args) ==
    IF Len(args[1].vs) # Len(args[2].vs) THEN Fail("same length")
    ELSE Column([n \in DOMAIN args[1].vs |->
           LET l == args[1].vs[n]
               r == args[2].vs[n]
           IN  IF Some(l) /\ Some(r) THEN Cell("Boolean", X(l) = X(r))
               ELSE IF ~Some(l) /\ ~Some(r) THEN Cell("Boolean", TRUE) ELSE Null("Boolean")])

\* The branches are repeated to the condition's length; NULL takes the second.
iff(args) ==
    LET cond == array_to_boolean(args[1].vs)
        n == Len(args[1].vs)
        ty == IF TypeOf(args[3]) = "Null" THEN TypeOf(args[2]) ELSE TypeOf(args[3])
        lhs == IntoArray(args[2], n)
        rhs == IntoArray(args[3], n)
    IN  IF Failed(cond) THEN cond
        ELSE IF TypeOf(args[2]) # TypeOf(args[3]) /\ "Null" \notin {TypeOf(args[2]), TypeOf(args[3])}
             THEN Fail("same type or NULL")
        ELSE IF Len(lhs) # n \/ Len(rhs) # n THEN Fail("same length")
        ELSE Column([m \in 1..n |->
               Option(ty, IF is_true(cond.vs[m]) THEN lhs[m].held ELSE rhs[m].held)])

nullifzero(arg) ==
    IF TypeOf(arg) \notin NumericTypes THEN Fail("type not supported")
    ELSE Column([n \in DOMAIN arg.vs |->
           IF arg.vs[n].held = <<0>> THEN Null(arg.vs[n].ty) ELSE arg.vs[n]])

zeroifnull(arg) ==
    IF TypeOf(arg) \notin NumericTypes \ {"Float16", "Decimal256"} THEN Fail("only numeric types")
    ELSE Column([n \in DOMAIN arg.vs |->
           IF Some(arg.vs[n]) THEN arg.vs[n] ELSE Cell(arg.vs[n].ty, 0)])

-----------------------------------------------------------------------------
(* DIV0 and DIV0NULL                                                       *)

MaxPrecision == 38
Least(a, b) == IF a < b THEN a ELSE b
Most(a, b) == IF a < b THEN b ELSE a

\* Types (p, s) of the operands; anything but a decimal counts as (38, 0).
calculate_precision_and_scale(d1, d2) ==
    LET l1 == Most(d1[1] - d1[2], 0)
        s == Most(d1[2], Least(d1[2] + 6, 12))
    IN  <<Least(l1 + d2[2] + s, MaxPrecision), s>>

RoundDiv(a, b) ==
    LET n == IF a < 0 THEN -a ELSE a
        d == IF b < 0 THEN -b ELSE b
        q == (2 * n + d) \div (2 * d)
    IN  IF (a < 0) = (b < 0) THEN q ELSE -q

\* A zero divisor answers 0; so does a NULL operand of DIV0NULL.
div0_row(row, shift, ty, null) ==
    IF Some(row[1]) /\ Some(row[2])
    THEN Cell(ty, IF X(row[2]) = 0 THEN 0 ELSE RoundDiv(X(row[1]) * 10^shift, X(row[2])))
    ELSE IF null THEN Cell(ty, 0) ELSE Null(ty)

\* Half precision and single precision floats are not cast to Float64.
div0(args, d1, d2, null) ==
    LET t1 == TypeOf(args[1])
        t2 == TypeOf(args[2])
        rows == Broadcast(args)
        scale == calculate_precision_and_scale(d1, d2)[2]
        shift == scale + d2[2] - d1[2]
    IN  CASE "Null" \in {t1, t2} /\ ~null -> Scalar(Null("Null"))
          [] {t1, t2} \intersect {"Float16", "Float32"} # {} -> Fail("unexpected array type")
          [] "Float64" \in {t1, t2} ->
               Column([n \in DOMAIN rows |-> div0_row(rows[n], 0, "Float64", null)])
          [] OTHER ->
               Column([n \in DOMAIN rows |-> div0_row(rows[n], shift, "Decimal128", null)])
=============================================================================
