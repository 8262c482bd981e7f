--------------------------- MODULE RegexpFunctions ---------------------------
(***************************************************************************)
(* crates/functions/src/regexp and utils.rs.  A pattern is a sequence of   *)
(* alternatives [lit, group]: the literal bytes, and the part of them in   *)
(* parentheses as <<first, last>> (<<>> for none).  A subject is the bytes *)
(* of its UTF-8 text; a parameter string is a sequence of letters.         *)
(***************************************************************************)
EXTENDS StringFunctions

NewLine == 10
Continuation(b) == b \in 128..191

-----------------------------------------------------------------------------
(* The regex crate, for patterns of non-empty literals                     *)

Folded(b) == IF b \in 65..90 THEN b + 32 ELSE b
MatchesAt(h, alt, i, re) ==
    LET n == Len(alt.lit)
        last == i + n - 1
    IN  /\ last <= Len(h)
        /\ \A k \in 1..n : IF re.ci THEN Folded(h[i + k - 1]) = Folded(alt.lit[k])
                           ELSE h[i + k - 1] = alt.lit[k]
        /\ alt.start => i = 1 \/ (re.multi /\ h[i - 1] = NewLine)
        /\ alt.end => last = Len(h) \/ (re.multi /\ h[last + 1] = NewLine)

\* captures_iter: leftmost matches that do not overlap, as [from, to, alt].
Captures(h, re) ==
    LET f[i \in 1..(Len(h) + 1)] ==
            IF i > Len(h) THEN <<>>
            ELSE LET a == SelectInSeq(re.alts, LAMBDA alt : MatchesAt(h, alt, i, re))
                 IN  IF a = 0 THEN f[i + 1]
                     ELSE <<[from |-> i, to |-> i + Len(re.alts[a].lit) - 1, alt |-> re.alts[a]]>>
                          \o f[i + Len(re.alts[a].lit)]
    IN  f[1]

\* Captures::get: the whole match, its only group, or nothing.
Get(cap, n) ==
    CASE n = 0 -> <<cap.from, cap.to>>
      [] n = 1 /\ cap.alt.group # <<>> ->
           <<cap.from + cap.alt.group[1] - 1, cap.from + cap.alt.group[2] - 1>>
      [] OTHER -> <<>>

-----------------------------------------------------------------------------
(* utils.rs                                                                *)

pattern_to_regex(alts, params) ==
    LET cases == SelectSeq(params, LAMBDA c : c \in {"c", "i"})
    IN  [alts |-> alts, ci |-> cases # <<>> /\ cases[Len(cases)] = "i",
         multi |-> "m" \in Range(params)]

Plain(pattern) == [k \in DOMAIN pattern |->
    [lit |-> pattern[k].lit, group |-> pattern[k].group, start |-> FALSE, end |-> FALSE]]

\* The slice panics inside a character.
Haystack(s, position) ==
    LET p == IF position <= Len(s) THEN position ELSE Len(s)
    IN  IF p < Len(s) /\ Continuation(s[p + 1]) THEN <<>> ELSE <<SubSeq(s, p + 1, Len(s))>>

\* regexp(): the matches of each row, through f(subject, matches).
regexp(arg, re, position, f(_, _)) ==
    EachRow(LAMBDA c : IF ~Some(c) THEN f(<<>>, <<>>)
                       ELSE LET h == Haystack(X(c), position)
                            IN  IF h = <<>> THEN Err("panic")
                                ELSE f(<<X(c)>>, <<Captures(h[1], re)>>), arg.vs)

-----------------------------------------------------------------------------
(* take_args_values: each value is <<x>>, or <<>> for an error             *)

Supplied(args, n) == n \in DOMAIN args
IntArg(args, n, default, lowest, shift) ==
    IF ~Supplied(args, n) THEN <<default>>
    ELSE IF args[n].col \/ TypeOf(args[n]) # "Int64" \/ ~Some(Of(args[n])) THEN <<>>
    ELSE IF X(Of(args[n])) < lowest THEN <<>> ELSE <<X(Of(args[n])) - shift>>

\* One known letter is enough; an empty string is "c".
ParamsArg(args, n) ==
    IF ~Supplied(args, n) THEN <<<<"c">>>>
    ELSE IF args[n].col \/ ~Some(Of(args[n])) THEN <<>>
    ELSE LET ps == X(Of(args[n]))
         IN  IF Range(ps) \cap {"c", "i", "m", "e", "s"} # {} THEN <<ps>>
             ELSE IF ps = <<>> THEN <<<<"c">>>> ELSE <<>>

GroupArg(args, n, params) ==
    IntArg(args, n, IF params # <<>> /\ "e" \in Range(params[1]) THEN 1 ELSE 0, 0, 0)

\* A scalar pattern, a text subject and every argument valid, or an error.
Checked(args, values, f(_)) ==
    IF args[2].col \/ ~Some(Of(args[2])) THEN Fail("unsupported pattern")
    ELSE IF \E k \in DOMAIN values : values[k] = <<>> THEN Fail("wrong argument")
    ELSE IF TypeOf(args[1]) \notin StringTypes THEN Fail("unsupported subject")
    ELSE f([k \in DOMAIN values |-> values[k][1]])

-----------------------------------------------------------------------------
Nth(caps, n, group) == IF n < Len(caps) THEN Get(caps[n + 1], group) ELSE <<>>

\* Mutant: the answer counts from the position of the search.
instr_answer_slice(caps, position, occurrence, option, group) ==
    LET g == IF caps = <<>> THEN <<>> ELSE Nth(caps[1], occurrence, group)
    IN  Cell("Int64", IF g = <<>> THEN 0 ELSE IF option = 0 THEN g[1] ELSE g[2] + 1)

\* A NULL subject answers 0 too.
instr_answer(caps, position, occurrence, option, group) ==
    LET g == IF caps = <<>> THEN <<>> ELSE Nth(caps[1], occurrence, group)
    IN  Cell("Int64", IF g = <<>> THEN 0
                      ELSE IF option = 0 THEN g[1] + position ELSE g[2] + 1 + position)

regexp_instr(args) ==
    LET ps == ParamsArg(args, 6)
        option == IF IntArg(args, 5, 0, 0, 0) \in {<<0>>, <<1>>} THEN IntArg(args, 5, 0, 0, 0) ELSE <<>>
        values == <<IntArg(args, 3, 0, 1, 1), IntArg(args, 4, 0, 1, 1), option, ps,
                    GroupArg(args, 7, ps)>>
    IN  Checked(args, values, LAMBDA v :
            regexp(args[1], pattern_to_regex(Plain(X(Of(args[2]))), v[4]), v[1],
                   LAMBDA s, caps : instr_answer(caps, v[1], v[2], v[3], v[5])))

substr_answer(s, caps, position, occurrence, group) ==
    LET g == IF caps = <<>> THEN <<>> ELSE Nth(caps[1], occurrence, group)
    IN  IF g = <<>> THEN Null("Utf8")
        ELSE Cell("Utf8", SubSeq(s[1], g[1] + position, g[2] + position))

\* A position past the end searches the empty text, where nothing matches.
regexp_substr(args) ==
    LET ps == ParamsArg(args, 5)
        values == <<IntArg(args, 3, 0, 1, 1), IntArg(args, 4, 0, 1, 1), ps, GroupArg(args, 6, ps)>>
    IN  Checked(args, values, LAMBDA v :
            regexp(args[1], pattern_to_regex(Plain(X(Of(args[2]))), v[3]), v[1],
                   LAMBDA s, caps : substr_answer(s, caps, v[1], v[2], v[4])))

\* The answer is the list of quoted matches, its quotes not escaped.
all_answer(s, caps, position, occurrence, group) ==
    LET rest == SubSeq(caps[1], occurrence + 1, Len(caps[1]))
        hits == SelectSeq(rest, LAMBDA c : Get(c, group) # <<>>)
    IN  Cell("Array", [k \in DOMAIN hits |->
            SubSeq(s[1], Get(hits[k], group)[1] + position, Get(hits[k], group)[2] + position)])

regexp_substr_all(args) ==
    LET ps == ParamsArg(args, 5)
        values == <<IntArg(args, 3, 0, 1, 1), IntArg(args, 4, 0, 1, 1), ps, GroupArg(args, 6, ps)>>
    IN  Checked(args, values, LAMBDA v :
            regexp(args[1], pattern_to_regex(Plain(X(Of(args[2]))), v[3]), v[1],
                   LAMBDA s, caps : IF s = <<>> THEN Null("Array")
                                    ELSE all_answer(s, caps, v[1], v[2], v[4])))

\* Replaces in the text after the chosen match's start: the first match
\* there, or all of them.
Replaced(h, re, replacement, once) ==
    LET caps == Captures(h, re)
        some == IF once /\ caps # <<>> THEN <<caps[1]>> ELSE caps
        end(k) == IF k = 0 THEN 0 ELSE some[k].to
    IN  FlattenSeq([k \in DOMAIN some |->
            SubSeq(h, end(k - 1) + 1, some[k].from - 1) \o replacement])
        \o SubSeq(h, end(Len(some)) + 1, Len(h))

\* No match answers NULL.
replace_answer(s, caps, re, replacement, position, occurrence) ==
    LET n == IF occurrence = 0 THEN 0 ELSE occurrence - 1
    IN  IF caps = <<>> \/ n >= Len(caps[1]) THEN Null("Utf8")
        ELSE LET start == position + caps[1][n + 1].from - 1
             IN  Cell("Utf8", SubSeq(s[1], 1, start)
                              \o Replaced(SubSeq(s[1], start + 1, Len(s[1])), re, replacement,
                                          occurrence > 0))

regexp_replace(args) ==
    LET ps == ParamsArg(args, 6)
        replacement == IF ~Supplied(args, 3) THEN <<<<>>>>
                       ELSE IF args[3].col \/ ~Some(Of(args[3])) THEN <<>> ELSE <<X(Of(args[3]))>>
        values == <<replacement, IntArg(args, 4, 0, 1, 1), IntArg(args, 5, 0, 0, 0), ps>>
    IN  Checked(args, values, LAMBDA v :
            LET re == pattern_to_regex(Plain(X(Of(args[2]))), v[4])
            IN  regexp(args[1], re, v[2],
                       LAMBDA s, caps : replace_answer(s, caps, re, v[1], v[2], v[3])))

\* ^ and $ are put around the pattern: they bind to its first and to its last
\* alternative.
Anchored(pattern) == [k \in DOMAIN pattern |->
    [lit |-> pattern[k].lit, group |-> pattern[k].group,
     start |-> k = 1, end |-> k = Len(pattern)]]

regexp_like(args) ==
    LET ps == ParamsArg(args, 3)
    IN  Checked(args, <<ps>>, LAMBDA v :
            regexp(args[1], pattern_to_regex(Anchored(X(Of(args[2]))), v[1]), 0,
                   LAMBDA s, caps : IF s = <<>> THEN Null("Boolean")
                                    ELSE Cell("Boolean", caps[1] # <<>>)))
=============================================================================
