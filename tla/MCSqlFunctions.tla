--------------------------- MODULE MCSqlFunctions ---------------------------
EXTENDS SqlFunctions

\* Documents and their parts.
a == S!Ordered("a", 1)
b == S!Ordered("b", 2)
UpperA == S!Ordered("A", 0)
one == S!JInt(1)
two == S!JInt(2)
dotted == S!Word(<<a, S!Dot, b>>)
MCNames == (a :> a) @@ (b :> b) @@ (UpperA :> a) @@ (dotted :> dotted)
first == <<a, one>>
second == <<b, S!JArr(<<two, S!JText(a)>>)>>
pair == S!JObj(<<first, second>>)
MCDocuments == {a, S!Raw("[,]"), S!Raw("NULL"), one, S!JFloat(3), S!JNull, S!JText(a), S!JArr(<<>>), S!JArr(<<one, S!JNull, one>>),
   S!JArr(<<S!JArr(<<two>>), S!JArr(<<one, one>>)>>),
   S!JArr(<<two, one, S!JFloat(3), S!JText(a)>>), pair, S!JObj(<<<<UpperA, S!JObj(<<<<b, one>>>>)>>>>),
   S!JArr(<<pair, S!JNull>>), S!JArr(<<S!JObj(<<second, first>>)>>), S!JObj(<<<<dotted, one>>, <<a, S!JObj(<<<<b, two>>>>)>>>>)}
MCRowTexts == {a, S!JArr(<<one, S!JNull>>), S!JArr(<<two, one, two>>), pair}
MCInts == {-2, 0, 1, 3}
MCPaths == {<<>>, <<b>>, <<S!Quote, a, S!Dot, b, S!Quote>>, <<a, S!Dot, b>>, <<S!Open, S!JInt(0), S!Close>>, <<b, S!Open, S!JInt(1), S!Close>>, <<S!Open, a, S!Close>>}

\* Strings are sequences of code points: one of them is two bytes long.
MCStrings == UNION {[1..n -> {97, 233, 32}] : n \in 0..2} \cup {<<97, 32, 97>>, <<97, 98, 97, 98>>, <<233, 32, 32>>, <<32, 97, 32>>}
MCBinaries == {<<>>, <<97>>, <<195, 169>>, <<5, 255>>}
MCHexTexts == {<<>>, <<54, 49>>, <<67, 51, 65, 57>>, <<102, 102>>, <<54>>, <<54, 103>>}
MCNumbers == -2..4
MCSubjects == {<<>>, <<97>>, <<97, 98>>, <<97, 98, 97, 98>>, <<65, 97, 98, 10, 97>>, <<195, 169, 97>>}
alt(l, g) == [lit |-> l, group |-> g]
MCPatterns == {<<alt(<<97>>, <<>>)>>, <<alt(<<97, 98>>, <<2, 2>>)>>, <<alt(<<98>>, <<>>), alt(<<97>>, <<1, 1>>)>>}
MCSecrets == {<<<<1, 2>>, <<1>>, <<>>>>, <<<<1, 3>>, <<1>>, <<>>>>, <<<<1, 2>>, <<2>>, <<>>>>, <<<<1, 2>>, <<1>>, <<5>>>>, <<<<1>>, <<1>>, <<>>>>, <<<<1, 2>>, <<>>, <<>>>>, <<<<1, 2>>, <<1,1>>, <<>>>>}
MCKeyLens == {2}

\* A second is eight ticks, a day eight seconds; the calendar is the real one.
MCNanosPer == [Second |-> 8, Millisecond |-> 4, Microsecond |-> 2, Nanosecond |-> 1]
MCCoef == [Nanosecond |-> 1, Microsecond |-> 2, Millisecond |-> 4, Second |-> 8, Minute |-> 16, Hour |-> 32, Day |-> 64]
MCByteStrings == {<<>>, <<10>>, <<1, 200>>, <<97, 34>>, <<52, 49>>}
MCDecimalTexts == {<<49, 50, 46, 53>>, <<36, 49, 44, 50>>, <<45, 57, 46, 57, 57>>, <<120>>}
MCTimeTexts == {[int |-> i, digits |-> d, clock |-> c] : i \in {<<>>, <<-9>>, <<999>>}, d \in {3, 8, 17}, c \in {<<>>, <<7>>}}
Stamp(d, i, p, f) == [digits |-> d, iso |-> i, pattern |-> p, format |-> f]
MCStampTexts == {Stamp(<<>>, <<5>>, <<>>, <<5>>), Stamp(<<>>, <<>>, <<7>>, <<>>), Stamp(<<>>, <<2000>>, <<2000>>, <<2000>>),
                 Stamp(<<>>, <<-3>>, <<-3>>, <<4>>), Stamp(<<30>>, <<>>, <<>>, <<>>), Stamp(<<300>>, <<>>, <<>>, <<>>),
                 Stamp(<<1500>>, <<>>, <<>>, <<>>), Stamp(<<>>, <<4>>, <<4>>, <<4>>), Stamp(<<>>, <<>>, <<>>, <<>>)}
Read(f, y, m, d) == f :> [y |-> y, m |-> m, d |-> d]
MCDateTexts == <<65>> :> Read("%Y-%m-%d", 2001, 1, 1)
               @@ <<66>> :> (Read("%m/%d/%Y", 1969, 12, 29) @@ Read("%y", 1969, 12, 29))
               @@ <<67>> :> Read("%y", 69, 1, 10)
               @@ <<68>> :> Read("%y", 99, 1, 10) @@ <<69>> :> Read("%y", 4, 2, 29)
               @@ <<65, 84, 49>> :> <<>>
               @@ <<49, 50>> :> <<>> @@ [n \in 1..20 |-> 57] :> <<>> @@ <<120>> :> <<>>
MCDates == {D!Day(1999, 12, 31), D!Day(2000, 1, 1), D!Day(2000, 2, 29), D!Day(2001, 2, 28), D!Day(2001, 8, 31), D!Day(2004, 12, 26), D!Day(1969, 12, 31), D!Day(1970, 4, 30)}
MCZones == {[at |-> 10, before |-> 0, after |-> 8], [at |-> 16, before |-> 8, after |-> 0], [at |-> 0, before |-> -16, after |-> -16]}

\* A second has two decimal digits of microseconds and three of nanoseconds.
MCDigits == [Second |-> 0, Millisecond |-> 1, Microsecond |-> 2, Nanosecond |-> 3]
MCWidth == [UInt8 |-> 2, UInt16 |-> 3, UInt32 |-> 4, UInt64 |-> 5]
Rule(t, before, after) == <<[at |-> t, before |-> before, after |-> after]>>
MCResultZones == {[fixed |-> <<>>, rule |-> Rule(3, 60, 120)], [fixed |-> <<60>>, rule |-> Rule(-1, 120, 60)],
                  [fixed |-> <<-480>>, rule |-> <<>>], [fixed |-> <<>>, rule |-> <<>>]}
MCInstantTicks == {-2500, -105, -1, 0, 1, 5, 23, 105, 1005, 3000, 20000}
MCInputRows == {[id |-> n, key |-> k] : n \in 1..2, k \in {<<>>, <<<<>>>>, <<<<1>>>>, <<<<1>>, <<>>>>, <<<<1>>, <<2>>>>}}
               \cup {[id |-> 3, key |-> <<<<2>>>>]}
MCSorts == {<<>>, <<[by |-> "x", asc |-> TRUE]>>, <<[by |-> "x", asc |-> FALSE]>>}
MCPlanLeaves == {R!Node("Source", 0, <<>>), R!Node("Source", 2, <<>>), R!Node("PlaceholderRow", 1, <<>>), R!EmptyExec}

\* Groups of at most two partitions of at most two rows, or one of three, so
\* that a group spans batches, partitions and merges.
Null == <<>>
MCBools == {Null, <<TRUE>>, <<FALSE>>}
MCPlain == {Null, <<4>>, <<8>>}
MCTexts == {Null, <<<<"a">>>>, <<<<"b">>>>}
MCEntries == {[k |-> <<"x">>, v |-> <<[ty |-> "Utf8", j |-> <<1>>]>>],
              [k |-> <<"y">>, v |-> <<[ty |-> "Utf8", j |-> <<2>>]>>],
              [k |-> <<"z">>, v |-> <<[ty |-> "Utf8", j |-> <<>>]>>],
              [k |-> <<"y">>, v |-> <<[ty |-> "Int64", j |-> <<>>]>>],
              [k |-> <<"x">>, v |-> Null]}
MCElements == {<<[t |-> "Number", x |-> 1]>>,
               <<[t |-> "Number", x |-> 1], [t |-> "Number", x |-> 2]>>,
               <<[t |-> "String", x |-> 1], [t |-> "Null", x |-> 0]>>}
MCArrays == {<<[array |-> TRUE, xs |-> xs]>> : xs \in MCElements}
              \union {<<[array |-> FALSE, xs |-> <<>>]>>, <<>>}

MCRows(f) ==
    CASE f \in {"booland_agg", "boolor_agg", "boolxor_agg"} -> MCBools
      [] f \in {"any_value", "array_unique_agg", "percentile_cont"} -> MCPlain
      [] f \in {"listagg", "listagg distinct"} -> MCTexts
      [] f = "object_agg" -> MCEntries
      [] f = "array_union_agg" -> MCArrays

MCGroups(f) ==
    LET Part == BoundedSeq(MCRows(f), 2)
    IN  {<<p>> : p \in BoundedSeq(MCRows(f), 3)} \union {<<p, q>> : p \in Part, q \in Part}

MCFunctions == {"booland_agg", "boolor_agg", "boolxor_agg", "any_value",
                "array_unique_agg", "array_union_agg", "listagg",
                "listagg distinct", "object_agg", "percentile_cont"}
MCDelimiter == <<",">>
=============================================================================
