------------------------------ MODULE PlanCalls ------------------------------
(***************************************************************************)
(* What becomes of a query around its functions: the plans the optimizer   *)
(* rewrites before it runs, and the results that are converted for the     *)
(* client after it.                                                        *)
(***************************************************************************)
EXTENDS Calls

CONSTANTS
    Digits, Width, DayMillis, MaxInstant, ChronoSecs,
    ResultZones,    \* time zones of columns, [fixed, rule]
    InstantTicks,   \* counts of a unit since the epoch
    InputRows,      \* rows of the input of an aggregate
    Sorts,          \* ORDER BY lists inside aggregates
    PlanLeaves      \* leaves of physical plans

Q == INSTANCE QueryResults WITH MaxI64 <- MaxInstant
R == INSTANCE PlanRules

-----------------------------------------------------------------------------
(* Calls                                                                   *)

Units == DOMAIN Digits
NowInstants == {0, 5}

NullableRows(X) == {<<>>} \cup {<<x>> : x \in X}
TypedColumns(ty, X) == {Q!Col(ty, <<v, w>>) : v, w \in NullableRows(X)}
TimestampColumns == UNION {TypedColumns(Q!Type("Timestamp", u, tz), InstantTicks) :
                             u \in Units, tz \in {<<>>} \cup {<<z>> : z \in ResultZones}}
\* Times of a day that is two seconds long.
TimeColumns == UNION {TypedColumns(Q!Type("Time", u, <<>>), {x \in InstantTicks : x \in 0..(2 * Q!Ticks(u) - 1)}) : u \in Units}
UnsignedColumns == UNION {TypedColumns(Q!Plain(t), {0, 1, 2 ^ (Width[t] - 1), 2 ^ Width[t] - 1}) : t \in DOMAIN Width}
StructRow(e, f) == <<[epoch |-> e, fraction |-> f, timezone |-> <<1500>>]>>
UnionRow(ty, x) == [ty |-> ty, held |-> <<x>>]
OtherColumns ==
    TypedColumns(Q!Plain("Boolean"), BOOLEAN)
    \cup UNION {TypedColumns(Q!Plain(t), {-1, 0, DayMillis, -DayMillis - 1}) :
                  t \in {"Date32", "Date64", "Decimal128", "Utf8View", "BinaryView", "Int64"}}
    \cup {Q!Col(Q!Type("Struct", k, <<>>), <<StructRow(<<1>>, <<2>>), StructRow(<<>>, <<0>>)>>) :
            k \in {"timestamp", "epoch and fraction", "other"}}
    \cup {Q!Col(Q!Type("Union", k, <<>>), <<UnionRow("Int64", 1), UnionRow(t, 2)>>) :
            k \in {"dense", "sparse"}, t \in {"Int64", "Utf8"}}
\* A column of its own, or beside a number.
NumberColumn == Q!Col(Q!Plain("Int64"), <<<<1>>, <<2>>>>)
Batches == {<<c>> : c \in TimestampColumns \cup TimeColumns \cup UnsignedColumns \cup OtherColumns}
           \cup {<<NumberColumn, c>> : c \in OtherColumns}

\* A result of one batch, or of a batch and an empty one.
CallResult ==
    /\ Idle
    /\ \E batch \in Batches, fmt \in {"Json", "Arrow"}, now \in NowInstants, more \in BOOLEAN :
          LET schema == [i \in DOMAIN batch |-> batch[i].ty]
              none == [i \in DOMAIN batch |-> Q!Col(batch[i].ty, <<>>)]
              batches == IF more THEN <<batch, none>> ELSE <<batch>>
          IN  Invoke("RESULT", <<batches, fmt, now>>, Q!handle_query_ok_result(schema, batches, fmt, now))

Aggregations == {[f |-> "array_agg", ord |-> s, plain |-> TRUE] : s \in Sorts}
                \cup {[f |-> "grouping", ord |-> <<>>, plain |-> FALSE]}
Inputs(keys) == SUBSET {r \in InputRows : Len(r.key) = keys}

CallSplit ==
    /\ Idle
    /\ \E names \in {<<>>, <<"a">>, <<"a", "b">>, <<"a", "a">>, <<"B">>}, aggs \in Q!BoundedSeq(Aggregations, 3) :
       \E rows \in Inputs(Len(names)), first \in R!partition_aggregates(aggs).classes \cup {{}} :
          /\ first = {} <=> R!partition_aggregates(aggs).classes = {}
          /\ Invoke("SPLIT_AGGREGATES", <<rows, names, aggs>>, R!rewrite(rows, names, aggs, first))

Unary == {"Filter", "Sort", "Aggregate", "GroupedAggregate", "DataSink"}
Binary == {"InnerJoin", "LeftJoin", "FullJoin", "Union"}
Over(plans) == {R!Node(op, 0, <<p>>) : op \in Unary \ {"DataSink"}, p \in plans}
               \cup {R!Node(op, 0, <<p, q>>) : op \in Binary, p \in plans, q \in PlanLeaves}
PlanTrees == LET two == PlanLeaves \cup Over(PlanLeaves)
             IN  two \cup Over(two)

CallOptimize ==
    /\ Idle
    /\ \E plan \in PlanTrees, sink \in BOOLEAN :
          LET p == IF sink THEN R!Node("DataSink", 0, <<plan>>) ELSE plan
          IN  Invoke("OPTIMIZE", <<p>>, R!optimize(p))

-----------------------------------------------------------------------------
(* Properties                                                              *)

Answered == call.f = "RESULT" /\ answer.err = "none"
Asked(b, i) == Arg(1)[b][i]
Sent(b, i) == answer.v.rowset[b][i]
RowCell(col, n) == col.vs[n]
Positions == {<<b, i>> \in (DOMAIN Arg(1)) \X (1..2) : i \in DOMAIN Arg(1)[b]}
NumberIn(digits) == Q!FoldLeft(LAMBDA n, d : 10 * n + d, 0, digits)
RowsOf(b, i) == DOMAIN Asked(b, i).vs

Mixed(col) == col.ty.t = "Union" /\ \E n, m \in DOMAIN col.vs : col.vs[n].ty # col.vs[m].ty

\* Whatever the format, each row of a result is answered once and NULL stays
\* NULL; the total counts the rows; unsigned numbers keep their value.  Unions
\* of several types are the exception (convert_record_batches).
ResultKeepsRows ==
    Answered /\ (\A p \in Positions : ~Mixed(Asked(p[1], p[2]))) =>
        /\ answer.v.total = Q!FoldLeft(LAMBDA n, b : n + Len(b[1].vs), 0, Arg(1))
        /\ \A p \in Positions :
              LET a == Asked(p[1], p[2])
                  s == Sent(p[1], p[2])
              IN  /\ Len(s.vs) = Len(a.vs)
                  /\ a.ty.t \notin {"Union", "Struct", "Timestamp"} =>
                        \A n \in DOMAIN a.vs : a.vs[n] = <<>> <=> s.vs[n] = <<>>
                  /\ a.ty.t \in DOMAIN Width => s.vs = a.vs

\* A text read as a decimal number, in units of which scale make up one.
ReadDecimal(text, scale) ==
    LET sub == NumberIn(text.frac) * (scale \div 10 ^ Len(text.frac))
    IN  text.whole * scale + (IF text.whole < 0 THEN -sub ELSE sub)

\* A JSON timestamp that chrono reaches is read as a decimal number of seconds
\* and is then the instant of the row, when its fraction of a second is 0, or
\* has as many digits as its unit counts and the instant is not before 1970.
\* The zeroes another fraction starts with are not written (utils.rs:365-421),
\* and a fraction before 1970 counts from the second before: 1.005 s is
\* written 1.5 and -0.5 s is written -1.500, which are other instants to such
\* a reader.  Only one that takes the fraction for a count of the units of the
\* row type's scale, from the second on, finds every instant.
JsonKeepsInstants ==
    Answered /\ Arg(2) = "Json" =>
        \A p \in Positions : Asked(p[1], p[2]).ty.t = "Timestamp" =>
            \A n \in RowsOf(p[1], p[2]) :
                LET x == RowCell(Asked(p[1], p[2]), n)
                    text == RowCell(Sent(p[1], p[2]), n)[1]
                IN  /\ x = <<>> <=> RowCell(Sent(p[1], p[2]), n) = <<>>
                    /\ x # <<>> /\ x[1] \div Q!Ticks(Asked(p[1], p[2]).ty.of) \in -ChronoSecs..ChronoSecs =>
                         LET scale == 10 ^ answer.v.rowtype[p[2]].scale
                             sub == x[1] % scale
                         IN  /\ sub = 0 \/ (x[1] >= 0 /\ 10 * sub >= scale) => ReadDecimal(text, scale) = x[1]
                             /\ x[1] = text.whole * scale + NumberIn(text.frac)

\* A JSON time reads as a decimal number of seconds: format_time_string keeps
\* the zeroes after the point.
TimesReadAsDecimals ==
    Answered /\ Arg(2) = "Json" =>
        \A p \in Positions : Asked(p[1], p[2]).ty.t = "Time" =>
            \A n \in RowsOf(p[1], p[2]) : RowCell(Asked(p[1], p[2]), n) # <<>> =>
                LET text == RowCell(Sent(p[1], p[2]), n)[1]
                    scale == 10 ^ Len(text.frac)
                IN  (text.whole * scale + NumberIn(text.frac)) * Q!Ticks(Asked(p[1], p[2]).ty.of)
                        = RowCell(Asked(p[1], p[2]), n)[1] * scale

\* The Arrow struct of a timestamp with a time zone, written out as
\* build_timestamp_strings writes it, is the instant of the row in the offset
\* of its zone at that instant.  Left out: instants whose nanoseconds an i64
\* cannot hold, the epoch (always written in UTC), and instants before it in
\* the last second before the clocks change.
ArrowKeepsInstants ==
    Answered /\ Arg(2) = "Arrow" =>
        \A p \in Positions : Asked(p[1], p[2]).ty.t = "Timestamp" /\ Asked(p[1], p[2]).ty.tz # <<>> =>
            LET a == Asked(p[1], p[2])
                back == Q!build_timestamp_strings(Sent(p[1], p[2]).vs)
            IN  \A n \in DOMAIN a.vs :
                  /\ a.vs[n] = <<>> <=> back[n] = <<>>
                  /\ a.vs[n] # <<>> =>
                       LET nanos == a.vs[n][1] * (Q!Second \div Q!Ticks(a.ty.of))
                           rule == a.ty.tz[1].rule
                       IN  nanos \in -MaxInstant..MaxInstant =>
                             /\ back[n][1].at = nanos
                             /\ rule # <<>> /\ nanos # 0 /\ nanos \div Q!Second \in -ChronoSecs..ChronoSecs
                                  /\ nanos \div Q!Second # rule[1].at - 1 =>
                                back[n][1].offset = Q!OffsetAt(rule[1], nanos \div Q!Second)

\* Splitting the aggregates of a query by their ORDER BY changes nothing in
\* the groups without a NULL key, whichever class comes first, and adds no
\* row; it fails only on group columns of one name and on names with capitals
\* (split_ordered_aggregates.rs:144, 151, 200).
SplitKeepsTheAnswer ==
    call.f = "SPLIT_AGGREGATES" =>
        LET keys == Len(Arg(2))
            split == Cardinality(R!partition_aggregates(Arg(3)).classes) > 1
        IN  IF answer.err
            THEN ~Q!IsInjective(Arg(2)) \/ \E n \in DOMAIN Arg(2) : R!Folded(Arg(2)[n]) # Arg(2)[n]
            ELSE answer.rows = {g \in R!aggregate(Arg(1), keys, Arg(3)) :
                                  split => \A n \in DOMAIN g.key : g.key[n] # <<>>}

\* Replacing nodes above empty inputs changes neither the rows a query
\* answers nor those it writes (a sink whose input is removed answers no
\* count).
RemovalKeepsTheAnswer ==
    call.f = "OPTIMIZE" =>
        /\ R!Written(answer) = R!Written(Arg(1))
        /\ \/ R!Rows(answer) = R!Rows(Arg(1))
           \/ Arg(1).op = "DataSink" /\ R!Rows(Arg(1).kids[1]) = 0 /\ answer = R!EmptyExec

\* What a client reads in either format is what the query answered: as many
\* rows, the same numbers, the same instants (convert_record_batches).
ResultsKeepTheAnswer ==
    /\ ResultKeepsRows /\ JsonKeepsInstants /\ TimesReadAsDecimals /\ ArrowKeepsInstants

\* The optimizer rules rewrite a plan into one with the same answer.
RewritesKeepTheAnswer == SplitKeepsTheAnswer /\ RemovalKeepsTheAnswer
=============================================================================
