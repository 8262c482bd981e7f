---------------------------- MODULE MergeProofs ----------------------------
(***************************************************************************)
(* For any tables, statements, number of writers and size of batches: what *)
(* MERGE INTO commits and reports is right for the statements it supports, *)
(* and it never drops a row that no source row matches.                    *)
(*                                                                         *)
(* The proof joins three parts.                                            *)
(*   - Replacing the files that hold a matched row by the rows of the full *)
(*     join (Replaces) is SQL's MERGE when Supported holds                 *)
(*     (ReplacingIsMerging): SQL's joined rows are those of the plan and   *)
(*     those of the files left alone, one row is made of each, so the rows *)
(*     before and after are in a bijection.                                *)
(*   - However the stream cuts its rows into batches, the files and the    *)
(*     counts collected are those of the rows handed over (BatchMoves).    *)
(*   - The optimistic commit: a writer whose snapshot is the current one   *)
(*     has read the current table (ReadsSnapshot), because every commit    *)
(*     raises the snapshot.  So a commit replaces files of the current     *)
(*     table or ends in a conflict (CommitCases).                          *)
(* MergeInv is the inductive invariant that combines them.  RepeatInv adds *)
(* what an upsert leaves behind (Settled), from which it follows that      *)
(* sending it again changes nothing.  The facts on finite sets and least   *)
(* elements are proved from the smallest set that would be a               *)
(* counterexample.                                                         *)
(***************************************************************************)
EXTENDS Merge, FiniteSetTheorems, TLAPS

-----------------------------------------------------------------------------
(* Finite sets *)

\* A finite, non-empty set of integers has a least and a greatest element: a
\* smallest subset without them would be one element larger than one that has
\* them.
LEMMA FiniteHasExtremes ==
    ASSUME NEW S \in SUBSET Int, IsFiniteSet(S), S # {}
    PROVE  /\ \E m \in S : \A n \in S : m <= n
           /\ \E m \in S : \A n \in S : m >= n
<1> DEFINE Good(U) == /\ \E m \in U : \A n \in U : m <= n
                      /\ \E m \in U : \A n \in U : m >= n
           Bad == {U \in FiniteSubsetsOf(S) : U # {} /\ ~ Good(U)}
<1>1. SUFFICES ASSUME Bad # {} PROVE FALSE
  <2>1. S \in FiniteSubsetsOf(S)
    BY Zenon DEF FiniteSubsetsOf
  <2>2. QED
    BY Zenon, <1>1, <2>1
<1>2. IsWellFoundedOn(StrictSubsetOrdering(S), FiniteSubsetsOf(S))
  BY Zenon, FS_StrictSubsetOrderingWellFounded
<1>3. PICK U \in Bad : \A V \in Bad : ~ (<<V, U>> \in StrictSubsetOrdering(S))
  BY Zenon, <1>1, <1>2, WFMin, Bad \subseteq FiniteSubsetsOf(S)
<1>4. PICK x \in U : TRUE
  BY Zenon
<1>5. /\ U \in SUBSET S /\ IsFiniteSet(U)
      /\ x \in Int
  BY Zenon DEF FiniteSubsetsOf
<1>6. U \ {x} \in FiniteSubsetsOf(S)
  BY Zenon, <1>5, FS_RemoveElement DEF FiniteSubsetsOf
<1>7. <<U \ {x}, U>> \in StrictSubsetOrdering(S)
  BY Zenon, <1>5, <1>4 DEF StrictSubsetOrdering
<1>8. U \ {x} = {} \/ Good(U \ {x})
  BY Zenon, <1>3, <1>6, <1>7
<1>9. Good(U)
  <2>1. CASE U \ {x} = {}
    <3>1. U = {x}
      BY Zenon, <2>1, <1>4
    <3>2. QED
      BY <3>1, <1>5
  <2>2. CASE Good(U \ {x})
    <3>1. PICK a \in U \ {x} : \A n \in U \ {x} : a <= n
      BY Zenon, <2>2
    <3>2. PICK b \in U \ {x} : \A n \in U \ {x} : b >= n
      BY Zenon, <2>2
    <3>3. U \in SUBSET Int
      BY Zenon, <1>5
    <3>4. \A n \in U : (IF x <= a THEN x ELSE a) <= n
      BY <1>5, <3>1, <3>3
    <3>5. \A n \in U : (IF x >= b THEN x ELSE b) >= n
      BY <1>5, <3>2, <3>3
    <3>6. QED
      BY Zenon, <3>1, <3>2, <3>4, <3>5, <1>4
  <2>3. QED
    BY Zenon, <1>8, <2>1, <2>2
<1>10. QED
  BY Zenon, <1>9, <1>3

\* Min of a finite, non-empty set is its least element.
LEMMA FiniteMin ==
    ASSUME NEW S \in SUBSET Int, IsFiniteSet(S), S # {}
    PROVE  Min(S) \in S /\ \A n \in S : Min(S) <= n
BY Zenon, FiniteHasExtremes DEF Min

\* Max of a finite, non-empty set is its greatest element.
LEMMA FiniteMax ==
    ASSUME NEW S \in SUBSET Int, IsFiniteSet(S), S # {}
    PROVE  Max(S) \in S /\ \A n \in S : Max(S) >= n
BY Zenon, FiniteHasExtremes DEF Max

\* Min of a non-empty set of naturals, finite or not, is its least element.
LEMMA NaturalMin ==
    ASSUME NEW S \in SUBSET Nat, S # {}
    PROVE  Min(S) \in S /\ \A n \in S : Min(S) <= n
<1>1. PICK k \in S : TRUE
  BY Zenon
<1> DEFINE F == {n \in S : n <= k}
<1>2. IsFiniteSet(F)
  <2>1. F \in SUBSET Nat /\ k \in Nat /\ \A n \in F : n <= k
    BY Zenon
  <2>2. QED
    BY Zenon, <2>1, FS_BoundedSetOfNaturals
<1>3. F \in SUBSET Int /\ F # {}
  <2>1. k \in Nat /\ k <= k
    OBVIOUS
  <2>2. k \in F
    BY Zenon, <2>1
  <2>3. \A n \in F : n \in Int
    OBVIOUS
  <2>4. QED
    BY Zenon, <2>2, <2>3
<1>4. PICK m \in F : \A n \in F : m <= n
  BY Zenon, <1>2, <1>3, FiniteHasExtremes
<1>5. \A n \in S : m <= n
  BY <1>4, <1>1
<1>6. QED
  BY Zenon, <1>4, <1>5 DEF Min

\* A function has finitely many values on a finite set.
LEMMA ImageFinite ==
    ASSUME NEW S, IsFiniteSet(S), NEW f, DOMAIN f = S
    PROVE  IsFiniteSet({f[x] : x \in S})
<1> DEFINE T == {f[x] : x \in S}
           g == [x \in S |-> f[x]]
<1>1. g \in Surjection(S, T)
  BY Zenon DEF Surjection
<1>2. QED
  BY Zenon, <1>1, FS_Surjection

-----------------------------------------------------------------------------
(* Tables *)

\* A table: numbered data files with finitely many typed rows.
TableOK(tb) ==
    /\ tb.snapshot \in Nat
    /\ DOMAIN tb.files \in SUBSET (Nat \ {0})
    /\ IsFiniteSet(DOMAIN tb.files)
    /\ \A f \in DOMAIN tb.files :
          /\ IsFiniteSet(DOMAIN tb.files[f].rows)
          /\ \A i \in DOMAIN tb.files[f].rows : tb.files[f].rows[i] \in TableRows

\* A row is named by its data file and its place in it.
LEMMA RowIdShape ==
    ASSUME NEW tb, NEW t
    PROVE  t \in RowIds(tb) <=> \E f \in DOMAIN tb.files :
                                    \E i \in DOMAIN tb.files[f].rows : t = <<f, i>>
BY DEF RowIds

\* The parts of a row's name, and that no row is NoRow.
LEMMA RowIdParts ==
    ASSUME NEW tb, NEW t \in RowIds(tb)
    PROVE  /\ t[1] \in DOMAIN tb.files
           /\ t[2] \in DOMAIN tb.files[t[1]].rows
           /\ t = <<t[1], t[2]>>
           /\ t # NoRow
<1>1. PICK f \in DOMAIN tb.files : \E i \in DOMAIN tb.files[f].rows : t = <<f, i>>
  BY RowIdShape
<1>2. PICK i \in DOMAIN tb.files[f].rows : t = <<f, i>>
  BY Zenon, <1>1
<1>3. t[1] = f /\ t[2] = i
  BY Zenon, <1>2
<1>4. t # <<>>
  BY Zenon, <1>2
<1>5. QED
  BY Zenon, <1>2, <1>3, <1>4 DEF NoRow

\* A table has finitely many rows.
LEMMA RowsFinite ==
    ASSUME NEW tb, TableOK(tb)
    PROVE  IsFiniteSet(RowIds(tb))
<1> DEFINE g == [f \in DOMAIN tb.files |-> {f} \X DOMAIN tb.files[f].rows]
           T == {g[f] : f \in DOMAIN tb.files}
<1>1. IsFiniteSet(T)
  <2>1. IsFiniteSet(DOMAIN tb.files) /\ DOMAIN g = DOMAIN tb.files
    BY Zenon DEF TableOK
  <2> HIDE DEF g
  <2>2. QED
    BY Zenon, <2>1, ImageFinite
<1>2. ASSUME NEW U \in T PROVE IsFiniteSet(U)
  <2>1. PICK f \in DOMAIN tb.files : U = {f} \X DOMAIN tb.files[f].rows
    BY Zenon
  <2>2. IsFiniteSet({f}) /\ IsFiniteSet(DOMAIN tb.files[f].rows)
    BY Zenon, FS_Singleton DEF TableOK
  <2>3. QED
    BY Zenon, <2>1, <2>2, FS_Product
<1>3. IsFiniteSet(UNION T)
  BY Zenon, <1>1, <1>2, FS_UNION
<1>4. RowIds(tb) = UNION T
  BY Zenon DEF RowIds
<1>5. QED
  BY Zenon, <1>3, <1>4

\* The rows of a table are typed.
LEMMA RowOfTable ==
    ASSUME NEW tb, TableOK(tb), NEW t \in RowIds(tb)
    PROVE  RowAt(tb, t) \in TableRows
BY RowIdParts DEF TableOK, RowAt

-----------------------------------------------------------------------------
(* Joined rows *)

\* What a joined row can be.
JoinSpace(tb, st) ==
    [t : RowIds(tb) \cup {NoRow}, s : {<<i>> : i \in DOMAIN st.source.rows} \cup {NoRow}]

\* There are finitely many joined rows.
LEMMA JoinSpaceFinite ==
    ASSUME NEW tb, TableOK(tb), NEW st \in MergeStatements
    PROVE  IsFiniteSet(JoinSpace(tb, st))
<1> DEFINE D == DOMAIN st.source.rows
           one == [i \in D |-> <<i>>]
           A == RowIds(tb) \cup {NoRow}
           B == {one[i] : i \in D} \cup {NoRow}
           f == [j \in JoinSpace(tb, st) |-> <<j.t, j.s>>]
<1>1. IsFiniteSet(D)
  <2>1. D = 1..Len(st.source.rows) /\ Len(st.source.rows) \in Nat
    BY DEF MergeStatements, Sources
  <2>2. QED
    BY <2>1, FS_Interval
<1>2. IsFiniteSet(A)
  BY Zenon, RowsFinite, FS_AddElement
<1>3. IsFiniteSet(B)
  <2>1. IsFiniteSet({one[i] : i \in D})
    BY Zenon, <1>1, ImageFinite
  <2>2. QED
    BY Zenon, <2>1, FS_AddElement
<1>4. IsFiniteSet(A \X B)
  BY Zenon, <1>2, <1>3, FS_Product
<1>5. f \in Injection(JoinSpace(tb, st), A \X B)
  <2>1. f \in [JoinSpace(tb, st) -> A \X B]
    BY Zenon DEF JoinSpace
  <2>2. ASSUME NEW a \in JoinSpace(tb, st), NEW b \in JoinSpace(tb, st), f[a] = f[b]
        PROVE  a = b
    BY <2>2 DEF JoinSpace
  <2>3. QED
    BY Zenon, <2>1, <2>2 DEF Injection, IsInjective
<1>6. QED
  BY Zenon, <1>4, <1>5, FS_Injection

\* The three kinds of joined rows: a pair, a row of the target that no source
\* row matches, a row of the source that no target row matches.
IsPair(pairs, j) == \E p \in pairs : j = [t |-> p[1], s |-> <<p[2]>>]
IsTarget(pairs, T, j) == \E t \in T : (\A p \in pairs : p[1] # t) /\ j = [t |-> t, s |-> NoRow]
IsSource(pairs, S, j) == \E i \in S : (\A p \in pairs : p[2] # i) /\ j = [t |-> NoRow, s |-> <<i>>]

\* The rows of the full join over the affected files: pairs, target rows that
\* are left over, source rows that are left over.
LEMMA JoinedShape ==
    ASSUME NEW tb, NEW st, NEW j
    PROVE  j \in Joined(tb, st) <=>
              \/ IsPair(InnerJoin(tb, st), j)
              \/ IsTarget(InnerJoin(tb, st), {t \in RowIds(tb) : t[1] \in AffectedFiles(tb, st)}, j)
              \/ IsSource(InnerJoin(tb, st), DOMAIN st.source.rows, j)
BY DEF Joined, IsPair, IsTarget, IsSource

\* The same for SQL's join, over all the rows of the table.
LEMMA SQLJoinedShape ==
    ASSUME NEW tb, NEW st, NEW j
    PROVE  j \in SQLJoined(tb, st) <=>
              \/ IsPair(SQLPairs(tb, st), j)
              \/ IsTarget(SQLPairs(tb, st), RowIds(tb), j)
              \/ IsSource(SQLPairs(tb, st), DOMAIN st.source.rows, j)
BY DEF SQLJoined, IsPair, IsTarget, IsSource

\* A pair of SQL's join is a target row and a source row that match.
LEMMA PairParts ==
    ASSUME NEW tb, NEW st, NEW p \in SQLPairs(tb, st)
    PROVE  /\ p[1] \in RowIds(tb) /\ p[2] \in DOMAIN st.source.rows
           /\ p = <<p[1], p[2]>>
           /\ Matches(st.on, RowAt(tb, p[1]), st.source.rows[p[2]])
BY DEF SQLPairs

\* The rows the planner pairs are paired by SQL.
LEMMA InnerInSQL ==
    ASSUME NEW tb, NEW st
    PROVE  InnerJoin(tb, st) \subseteq SQLPairs(tb, st)
BY DEF InnerJoin, SQLPairs

\* Joined rows are in JoinSpace.
LEMMA JoinedInSpace ==
    ASSUME NEW tb, NEW st
    PROVE  /\ Joined(tb, st) \subseteq JoinSpace(tb, st)
           /\ SQLJoined(tb, st) \subseteq JoinSpace(tb, st)
<1>1. ASSUME NEW pairs \in SUBSET SQLPairs(tb, st), NEW T \in SUBSET RowIds(tb), NEW j,
             \/ IsPair(pairs, j) \/ IsTarget(pairs, T, j) \/ IsSource(pairs, DOMAIN st.source.rows, j)
      PROVE  j \in JoinSpace(tb, st)
  <2>1. CASE IsPair(pairs, j)
    BY <2>1, PairParts DEF IsPair, JoinSpace
  <2>2. CASE IsTarget(pairs, T, j)
    BY <2>2 DEF IsTarget, JoinSpace
  <2>3. CASE IsSource(pairs, DOMAIN st.source.rows, j)
    BY <2>3 DEF IsSource, JoinSpace
  <2>4. QED
    BY Zenon, <1>1, <2>1, <2>2, <2>3
<1>2. QED
  BY Zenon, <1>1, JoinedShape, SQLJoinedShape, InnerInSQL

\* The joins have finitely many rows.
LEMMA JoinedFinite ==
    ASSUME NEW tb, TableOK(tb), NEW st \in MergeStatements
    PROVE  IsFiniteSet(Joined(tb, st)) /\ IsFiniteSet(SQLJoined(tb, st))
BY JoinSpaceFinite, JoinedInSpace, FS_Subset

\* Rows that match have the same key, which is not null.
LEMMA MatchesOnKey ==
    ASSUME NEW st \in MergeStatements, NEW t, NEW s, Matches(st.on, t, s)
    PROVE  t[Key] # NULL /\ t[Key] = s[Key]
<1>1. st.on \in {"key", "window", "never"}
  BY Zenon DEF MergeStatements
<1>2. QED
  BY Zenon, <1>1 DEF Matches

\* The scan of the target opens every file that has a row to match, when the
\* bounds the source gives are the key's.
LEMMA PruningIsSound ==
    ASSUME NEW tb, TableOK(tb), NEW st \in MergeStatements,
           KeyBounds(st.source)
    PROVE  InnerJoin(tb, st) = SQLPairs(tb, st)
<1>1. SUFFICES ASSUME NEW p \in SQLPairs(tb, st)
               PROVE  p[1][1] \in ScannedFiles(tb, st.source)
  BY Zenon DEF InnerJoin, SQLPairs
<1> DEFINE t == p[1]
           src == st.source
           v == RowAt(tb, t)[Key]
           D == DOMAIN src.rows
           vs == {src.rows[i][Key] : i \in D} \ {NULL}
<1>2. /\ t \in RowIds(tb) /\ p[2] \in D
      /\ Matches(st.on, RowAt(tb, t), src.rows[p[2]])
  BY Zenon, PairParts
<1>3. t[1] \in DOMAIN tb.files /\ t[2] \in DOMAIN tb.files[t[1]].rows
  BY Zenon, <1>2, RowIdParts
<1>4. v # NULL /\ v = src.rows[p[2]][Key]
  <2> DEFINE row == RowAt(tb, t)
             srow == src.rows[p[2]]
  <2>1. Matches(st.on, row, srow)
    BY Zenon, <1>2
  <2> HIDE DEF row, srow
  <2>2. row[Key] # NULL /\ row[Key] = srow[Key]
    BY Zenon, <2>1, MatchesOnKey
  <2>3. QED
    BY Zenon, <2>2 DEF row, srow
<1>5. SUFFICES ASSUME NEW b \in target_filter_expression(src)
               PROVE  b.column = Key /\ b.min <= v /\ v <= b.max
  BY Zenon, <1>3, <1>4, <1>5 DEF ScannedFiles, RowAt
<1>6. src.kind = "table" /\ b \in partition_column_bounds(src)
  BY Zenon, <1>5 DEF target_filter_expression
<1>7. v \in vs
  BY Zenon, <1>2, <1>4
<1>8. b.column = Key /\ b.min = Min(vs) /\ b.max = Max(vs)
  <2>1. PICK f \in src.partition :
           b = [column |-> f.column, min |-> Min(PartitionValues(src, f)), max |-> Max(PartitionValues(src, f))]
    BY Zenon, <1>6 DEF partition_column_bounds
  <2>2. f.column = Key /\ f.transform = "identity"
    BY Zenon, <1>6, <2>1 DEF KeyBounds
  <2>3. \A x : PartitionValue(f, x) = x
    BY Zenon, <2>2 DEF PartitionValue
  <2>4. PartitionValues(src, f) = vs
    <3>1. PartitionValues(src, f) = {PartitionValue(f, x) : x \in vs}
      BY Zenon, <2>2 DEF PartitionValues
    <3> HIDE DEF vs
    <3>2. \A x : x \in {PartitionValue(f, y) : y \in vs} <=> x \in vs
      BY Zenon, <2>3
    <3>3. QED
      BY Zenon, <3>1, <3>2
  <2>5. QED
    BY Zenon, <2>1, <2>2, <2>4
<1>9. src.rows \in Seq(TableRows)
  BY Zenon DEF MergeStatements, Sources
<1>10. vs \in SUBSET Int
  <2>1. ASSUME NEW i \in D PROVE src.rows[i][Key] \in Int \cup {NULL}
    <3>1. src.rows[i] \in TableRows
      BY <1>9
    <3>2. QED
      BY Zenon, <3>1, ColumnsAssumption DEF TableRows, Values
  <2>2. QED
    BY Zenon, <2>1
<1>11. IsFiniteSet(vs)
  <2> DEFINE g == [i \in D |-> src.rows[i][Key]]
  <2>1. IsFiniteSet(D)
    <3>1. D = 1..Len(src.rows) /\ Len(src.rows) \in Nat
      BY <1>9
    <3>2. QED
      BY <3>1, FS_Interval
  <2>2. IsFiniteSet({g[i] : i \in D})
    BY Zenon, <2>1, ImageFinite
  <2>3. QED
    BY Zenon, <2>2, FS_Difference
<1>12. Min(vs) <= v /\ Max(vs) >= v /\ Min(vs) \in Int /\ Max(vs) \in Int /\ v \in Int
  <2> HIDE DEF vs
  <2>1. vs # {}
    BY Zenon, <1>7
  <2>2. Min(vs) \in vs /\ Max(vs) \in vs
    BY Zenon, <2>1, <1>10, <1>11, FiniteMin, FiniteMax
  <2>3. QED
    BY Zenon, <1>7, <1>10, <1>11, <2>1, <2>2, FiniteMin, FiniteMax
<1>13. QED
  <2> HIDE DEF vs, v
  <2>1. QED
    BY Zenon, <1>8, <1>12

-----------------------------------------------------------------------------
(* What is written for a joined row *)

\* The clauses that claim a joined row.
Claims(tb, st, j) == {n \in DOMAIN st.clauses : Op(tb, st, n, j)}

\* No clause claims a target row that no source row matches.
LEMMA UnmatchedUnclaimed ==
    ASSUME NEW tb, NEW st, NEW j, j.t # NoRow, j.s = NoRow
    PROVE  Claims(tb, st, j) = {}
BY DEF Claims, Op, merge_clause_expression

\* A target row that no clause claims is written as it was.
LEMMA UnclaimedKept ==
    ASSUME NEW tb, TableOK(tb), NEW st, NEW j, j.t \in RowIds(tb), Claims(tb, st, j) = {}
    PROVE  collect_merge_clause_expressions(tb, st, j) = RowAt(tb, j.t)
<1>1. j.t # NoRow
  BY Zenon, RowIdParts
<1>2. RowAt(tb, j.t) = [col \in Columns |-> RowAt(tb, j.t)[col]]
  BY Zenon, RowOfTable DEF TableRows
<1>3. \A col \in Columns : /\ {n \in Updates(st.clauses, col) : Op(tb, st, n, j)} = {}
                           /\ {n \in Inserts(st.clauses, col) : Op(tb, st, n, j)} = {}
  BY Zenon DEF Claims, Updates, Inserts
<1>4. collect_merge_clause_expressions(tb, st, j) = [col \in Columns |-> RowAt(tb, j.t)[col]]
  BY Zenon, <1>1, <1>3 DEF collect_merge_clause_expressions
<1>5. QED
  BY Zenon, <1>2, <1>4

\* The clauses are numbered from 1.
LEMMA ClausesAreASequence ==
    ASSUME NEW st \in MergeStatements
    PROVE  /\ st.clauses \in Seq(Clauses)
           /\ DOMAIN st.clauses = 1..Len(st.clauses)
           /\ Len(st.clauses) \in Nat
           /\ DOMAIN st.clauses \in SUBSET (Nat \ {0})
BY DEF MergeStatements

\* SQL applies the first of the clauses that claim a joined row.
LEMMA SQLClauseIsFirstClaim ==
    ASSUME NEW tb, NEW st \in MergeStatements, NEW j
    PROVE  SQLClause(tb, st, j) =
              IF Claims(tb, st, j) # {} THEN Min(Claims(tb, st, j)) ELSE 0
BY Zenon, ClausesAreASequence DEF SQLClause, Claims, Op, merge_clause_expression

\* The grammar's part of WorkloadsAssumption, for one statement.
WellFormed(st) ==
    /\ st \in MergeStatements
    /\ \A n \in DOMAIN st.clauses :
          LET c == st.clauses[n]
          IN  /\ c.action = "Update" => c.kind \in {"Matched", "NotMatchedBySource"}
              /\ c.action = "Insert" => c.kind = "NotMatched"
              /\ Len(c.columns) = Len(c.values)

\* Clauses that pass planning: Update only on matched, Insert only on not
\* matched rows.
LEMMA PlannedClauses ==
    ASSUME NEW st, WellFormed(st), PlanError(st) = "none", NEW n \in DOMAIN st.clauses
    PROVE  /\ st.clauses[n] \in Clauses
           /\ st.clauses[n].action \in {"Update", "Insert", "Delete"}
           /\ st.clauses[n].action = "Update" => st.clauses[n].kind = "Matched"
           /\ st.clauses[n].action = "Insert" => st.clauses[n].kind = "NotMatched"
<1> DEFINE I == {i \in DOMAIN st.clauses : ClauseError(st.clauses[i]) # "none"}
<1>1. st \in MergeStatements
  BY Zenon DEF WellFormed
<1>2. DOMAIN st.clauses = 1..Len(st.clauses) /\ I \in SUBSET Nat /\ st.clauses[n] \in Clauses
  BY <1>1, ClausesAreASequence
<1>4. ASSUME I # {} PROVE FALSE
  <2>1. Min(I) \in I
    BY Zenon, <1>2, <1>4, NaturalMin
  <2>2. ClauseError(st.clauses[Min(I)]) # "none"
    BY Zenon, <2>1
  <2>3. PlanError(st) = "none" => ClauseError(st.clauses[Min(I)]) = "none"
    BY Zenon, <1>4 DEF PlanError
  <2>4. QED
    BY Zenon, <2>2, <2>3
<1>5. ClauseError(st.clauses[n]) = "none"
  BY Zenon, <1>2, <1>4
<1>6. /\ st.clauses[n].kind # "NotMatchedBySource"
      /\ st.clauses[n].action \notin {"UpdateTuple", "InsertRow"}
  BY Zenon, <1>5 DEF ClauseError
<1>7. st.clauses[n].action \in {"Update", "UpdateTuple", "Insert", "InsertRow", "Delete"}
  BY Zenon, <1>2 DEF Clauses
<1>8. QED
  BY Zenon, <1>2, <1>6, <1>7 DEF WellFormed

\* The least element of a set of one.
LEMMA SingletonMin ==
    ASSUME NEW n \in Nat
    PROVE  Min({n}) = n
BY DEF Min

\* The conditions of Supported on one joined row and on the INSERT clauses.
ClaimedOnce(tb, st, j) ==
    /\ Claims(tb, st, j) = {} \/ \E n : Claims(tb, st, j) = {n}
    /\ j.t = NoRow => Claims(tb, st, j) # {}
    /\ \A n \in Claims(tb, st, j) : st.clauses[n].action # "Delete"

\* The INSERT clauses list the same columns.
SameColumns(st) ==
    \A m, n \in DOMAIN st.clauses :
        st.clauses[m].action = "Insert" /\ st.clauses[n].action = "Insert" =>
            Range(st.clauses[m].columns) = Range(st.clauses[n].columns)

\* The row the projection builds for a joined row is the one SQL's MERGE makes.
LEMMA WrittenIsSQLRow ==
    ASSUME NEW tb, TableOK(tb), NEW st, WellFormed(st), PlanError(st) = "none",
           NEW j \in JoinSpace(tb, st), ClaimedOnce(tb, st, j), SameColumns(st)
    PROVE  SQLBecomes(tb, st, j) = {collect_merge_clause_expressions(tb, st, j)}
<1> DEFINE row == collect_merge_clause_expressions(tb, st, j)
<1>1. st \in MergeStatements
  BY Zenon DEF WellFormed
<1>2. CASE Claims(tb, st, j) = {}
  <2>1. SQLClause(tb, st, j) = 0
    BY Zenon, <1>1, <1>2, SQLClauseIsFirstClaim
  <2>2. j.t # NoRow /\ j.t \in RowIds(tb)
    BY Zenon, <1>2 DEF ClaimedOnce, JoinSpace
  <2>3. row = RowAt(tb, j.t)
    BY Zenon, <1>2, <2>2, UnclaimedKept
  <2>4. QED
    BY Zenon, <2>1, <2>2, <2>3 DEF SQLBecomes
<1>3. CASE \E n : Claims(tb, st, j) = {n}
  <2>1. PICK n : Claims(tb, st, j) = {n}
    BY Zenon, <1>3
  <2>2. n \in DOMAIN st.clauses /\ Op(tb, st, n, j)
    BY Zenon, <2>1 DEF Claims
  <2>3. n \in Nat /\ n # 0
    BY Zenon, <1>1, <2>2, ClausesAreASequence
  <2>4. SQLClause(tb, st, j) = n
    BY Zenon, <1>1, <2>1, <2>3, SQLClauseIsFirstClaim, SingletonMin
  <2> DEFINE c == st.clauses[n]
             s == st.source.rows[j.s[1]]
  <2>5. /\ c \in Clauses
        /\ c.action \in {"Update", "Insert"}
        /\ c.action = "Update" => c.kind = "Matched"
        /\ c.action = "Insert" => c.kind = "NotMatched"
    BY Zenon, <2>1, <2>2, PlannedClauses DEF ClaimedOnce
  <2>6. SQLBecomes(tb, st, j) = {SQLRow(tb, st, c, j)}
    BY Zenon, <2>3, <2>4, <2>5 DEF SQLBecomes
  <2>7. \A m \in DOMAIN st.clauses : Op(tb, st, m, j) => m = n
    BY Zenon, <2>1 DEF Claims
  <2>8. CASE c.action = "Update"
    <3>1. j.t # NoRow
      BY Zenon, <2>2, <2>5, <2>8 DEF Op, merge_clause_expression
    <3> DEFINE all(col) == Assigning(c, col)
    <3>2. SQLRow(tb, st, c, j) =
            [col \in Columns |-> IF all(col) = {} THEN RowAt(tb, j.t)[col] ELSE s[c.set[Min(all(col))][2]]]
      BY Zenon, <2>8 DEF SQLRow
    <3>3. ASSUME NEW col \in Columns
          PROVE  row[col] = IF all(col) = {} THEN RowAt(tb, j.t)[col] ELSE s[c.set[Min(all(col))][2]]
      <4> DEFINE ups == {m \in Updates(st.clauses, col) : Op(tb, st, m, j)}
                 ins == {m \in Inserts(st.clauses, col) : Op(tb, st, m, j)}
      <4>1. ins = {}
        BY Zenon, <2>7, <2>8 DEF Inserts
      <4>2. row[col] = IF ups # {} THEN merge_clause_projection(st, Min(ups), col, j)
                       ELSE RowAt(tb, j.t)[col]
        BY Zenon, <3>1, <4>1 DEF collect_merge_clause_expressions
      <4>10. all(col) # {} <=> \E i \in DOMAIN c.set : c.set[i][1] = col
        BY Zenon DEF Assigning
      <4>3. CASE all(col) = {}
        <5> HIDE DEF all
        <5>1. ups = {}
          BY Zenon, <2>7, <4>3, <4>10 DEF Updates
        <5>2. QED
          BY Zenon, <4>2, <4>3, <5>1
      <4>4. CASE all(col) # {}
        <5> HIDE DEF all
        <5>1. ups = {n}
          BY Zenon, <2>2, <2>7, <2>8, <4>4, <4>10 DEF Updates
        <5>2. Min(ups) = n
          BY Zenon, <2>3, <5>1, SingletonMin
        <5>3. merge_clause_projection(st, n, col, j) = s[c.set[Min(all(col))][2]]
          BY Zenon, <2>8 DEF merge_clause_projection, all
        <5> HIDE DEF ups
        <5>4. QED
          BY Zenon, <4>2, <4>4, <5>1, <5>2, <5>3
      <4>5. QED
        BY Zenon, <4>3, <4>4
    <3>4. row = SQLRow(tb, st, c, j)
      <4>1. row = [col \in Columns |-> row[col]]
        BY Zenon DEF collect_merge_clause_expressions
      <4> HIDE DEF row, all
      <4>2. QED
        BY Zenon, <3>2, <3>3, <4>1
    <3>5. QED
      BY Zenon, <2>6, <3>4
  <2>9. CASE c.action = "Insert"
    <3>1. j.t = NoRow
      BY Zenon, <2>2, <2>5, <2>9 DEF Op, merge_clause_expression
    <3> DEFINE all(col) == Listing(c, col)
    <3>2. SQLRow(tb, st, c, j) =
            [col \in Columns |-> IF all(col) = {} THEN NULL ELSE s[c.values[Min(all(col))]]]
      BY Zenon, <2>9 DEF SQLRow
    <3>3. ASSUME NEW col \in Columns
          PROVE  row[col] = IF all(col) = {} THEN NULL ELSE s[c.values[Min(all(col))]]
      <4> DEFINE ups == {m \in Updates(st.clauses, col) : Op(tb, st, m, j)}
                 ins == {m \in Inserts(st.clauses, col) : Op(tb, st, m, j)}
      <4>1. ups = {}
        BY Zenon, <2>7, <2>9 DEF Updates
      <4>2. row[col] = IF ins # {} THEN merge_clause_projection(st, Min(ins), col, j) ELSE NULL
        BY Zenon, <3>1, <4>1 DEF collect_merge_clause_expressions
      <4>3. ins = {} \/ ins = {n}
        BY Zenon, <2>7 DEF Inserts
      <4>4. ins # {} => Min(ins) = n
        BY Zenon, <2>3, <4>3, SingletonMin
      <4>5. merge_clause_projection(st, n, col, j) =
              IF all(col) # {} THEN s[c.values[Min(all(col))]] ELSE NULL
        BY Zenon, <2>9 DEF merge_clause_projection
      <4>6. all(col) # {} <=> col \in Range(c.columns)
        BY Zenon DEF Listing, Range
      <4>7. ASSUME col \in Range(c.columns) PROVE ins # {}
        <5>1. \A m \in DOMAIN st.clauses :
                st.clauses[m].action = "Insert" => col \in Range(st.clauses[m].columns)
          BY Zenon, <2>2, <2>9, <4>7 DEF SameColumns
        <5>2. n \in Inserts(st.clauses, col)
          BY Zenon, <2>2, <2>9, <5>1 DEF Inserts
        <5>3. QED
          BY Zenon, <2>2, <5>2
      <4> HIDE DEF ups, ins, all, row
      <4>8. QED
        BY Zenon, <4>2, <4>4, <4>5, <4>6, <4>7
    <3>4. row = SQLRow(tb, st, c, j)
      <4>1. row = [col \in Columns |-> row[col]]
        BY DEF collect_merge_clause_expressions
      <4> HIDE DEF row, all
      <4>2. QED
        BY Zenon, <3>2, <3>3, <4>1
    <3>5. QED
      BY <2>6, <3>4
  <2>10. QED
    BY Zenon, <2>5, <2>8, <2>9
<1>4. QED
  BY Zenon, <1>2, <1>3 DEF ClaimedOnce

\* A joined row has a target or a source side.
LEMMA JoinedHasSide ==
    ASSUME NEW tb, NEW st, NEW j \in Joined(tb, st)
    PROVE  /\ j \in JoinSpace(tb, st)
           /\ j.t = NoRow => j.s # NoRow
<1>1. j \in JoinSpace(tb, st)
  BY Zenon, JoinedInSpace
<1>2. CASE IsPair(InnerJoin(tb, st), j)
  BY <1>1, <1>2 DEF IsPair, NoRow
<1>3. CASE IsTarget(InnerJoin(tb, st), {t \in RowIds(tb) : t[1] \in AffectedFiles(tb, st)}, j)
  <2>1. j.t \in RowIds(tb)
    BY <1>3 DEF IsTarget
  <2>2. QED
    BY Zenon, <1>1, <2>1, RowIdParts
<1>4. CASE IsSource(InnerJoin(tb, st), DOMAIN st.source.rows, j)
  BY <1>1, <1>4 DEF IsSource, NoRow
<1>5. QED
  BY Zenon, <1>2, <1>3, <1>4, JoinedShape

\* What a clause yields for a column is a value.
LEMMA ProjectionTyped ==
    ASSUME NEW st, WellFormed(st), NEW n \in DOMAIN st.clauses, NEW col, NEW j,
           \E i \in DOMAIN st.source.rows : j.s = <<i>>,
           \/ /\ st.clauses[n].action = "Update"
              /\ \E i \in DOMAIN st.clauses[n].set : st.clauses[n].set[i][1] = col
           \/ st.clauses[n].action = "Insert"
    PROVE  merge_clause_projection(st, n, col, j) \in Values
<1> DEFINE c == st.clauses[n]
           s == st.source.rows[j.s[1]]
<1>1. st \in MergeStatements /\ c \in Clauses /\ Len(c.columns) = Len(c.values)
  BY ClausesAreASequence DEF WellFormed
<1>2. s \in TableRows
  <2>1. st.source.rows \in Seq(TableRows)
    BY Zenon, <1>1 DEF MergeStatements, Sources
  <2>2. PICK i \in DOMAIN st.source.rows : j.s = <<i>>
    BY Zenon
  <2>3. j.s[1] = i
    BY <2>2
  <2>4. QED
    BY <2>1, <2>2, <2>3
<1>3. \A k \in Columns : s[k] \in Values
  BY Zenon, <1>2 DEF TableRows
<1>4. CASE c.action = "Update"
  <2> DEFINE I == Assigning(c, col)
             at == Min(I)
  <2>1. c.set \in Seq(Columns \X Columns)
    BY Zenon, <1>1 DEF Clauses
  <2>2. I \in SUBSET Nat /\ I # {}
    BY <1>4, <2>1 DEF Assigning
  <2>3. at \in I
    BY Zenon, <2>2, NaturalMin
  <2>4. c.set[at][2] \in Columns
    <3>1. \A i \in I : c.set[i][2] \in Columns
      BY <2>1 DEF Assigning
    <3>2. QED
      BY Zenon, <2>3, <3>1
  <2>5. merge_clause_projection(st, n, col, j) = s[c.set[at][2]]
    BY Zenon, <1>4 DEF merge_clause_projection
  <2> HIDE DEF at, s
  <2>6. QED
    BY Zenon, <1>3, <2>4, <2>5
<1>5. CASE c.action = "Insert" /\ Listing(c, col) = {}
  BY Zenon, <1>5 DEF merge_clause_projection, Values
<1>6. CASE c.action = "Insert" /\ Listing(c, col) # {}
  <2> DEFINE I == Listing(c, col)
             at == Min(I)
  <2>1. c.columns \in Seq(Columns) /\ c.values \in Seq(Columns)
    BY Zenon, <1>1 DEF Clauses
  <2>2. I \in SUBSET Nat /\ I # {}
    BY <1>6, <2>1 DEF Listing
  <2>3. at \in I
    BY Zenon, <2>2, NaturalMin
  <2>4. c.values[at] \in Columns
    <3>1. \A i \in I : c.values[i] \in Columns
      BY <1>1, <2>1 DEF Listing
    <3>2. QED
      BY Zenon, <2>3, <3>1
  <2>5. merge_clause_projection(st, n, col, j) = s[c.values[at]]
    BY Zenon, <1>6 DEF merge_clause_projection
  <2> HIDE DEF at, s
  <2>6. QED
    BY Zenon, <1>3, <2>4, <2>5
<1>7. QED
  BY Zenon, <1>4, <1>5, <1>6

\* What is written is a row of the table.
LEMMA WrittenTyped ==
    ASSUME NEW tb, TableOK(tb), NEW st, WellFormed(st), PlanError(st) = "none",
           NEW j \in Joined(tb, st)
    PROVE  collect_merge_clause_expressions(tb, st, j) \in TableRows
<1>1. j \in JoinSpace(tb, st) /\ (j.t = NoRow => j.s # NoRow)
  BY Zenon, JoinedHasSide
<1>2. SUFFICES ASSUME NEW col \in Columns
               PROVE  collect_merge_clause_expressions(tb, st, j)[col] \in Values
  BY Zenon DEF TableRows, collect_merge_clause_expressions
<1> DEFINE ups == {n \in Updates(st.clauses, col) : Op(tb, st, n, j)}
           ins == {n \in Inserts(st.clauses, col) : Op(tb, st, n, j)}
<1>3. ups \in SUBSET Nat /\ ins \in SUBSET Nat
  BY Zenon, ClausesAreASequence DEF WellFormed, Updates, Inserts
<1>4. CASE ups # {}
  <2> DEFINE n == Min(ups)
  <2>1. n \in ups
    BY Zenon, <1>3, <1>4, NaturalMin
  <2>2. /\ n \in DOMAIN st.clauses /\ Op(tb, st, n, j)
        /\ st.clauses[n].action = "Update"
        /\ \E i \in DOMAIN st.clauses[n].set : st.clauses[n].set[i][1] = col
    BY Zenon, <2>1 DEF Updates
  <2>3. j.s # NoRow
    BY Zenon, <2>2, PlannedClauses DEF Op, merge_clause_expression
  <2>4. \E i \in DOMAIN st.source.rows : j.s = <<i>>
    BY Zenon, <1>1, <2>3 DEF JoinSpace
  <2>5. collect_merge_clause_expressions(tb, st, j)[col] = merge_clause_projection(st, n, col, j)
    BY Zenon, <1>4 DEF collect_merge_clause_expressions
  <2> HIDE DEF n
  <2>6. QED
    BY Zenon, <2>2, <2>4, <2>5, ProjectionTyped
<1>5. CASE ups = {} /\ ins # {}
  <2> DEFINE n == Min(ins)
  <2>1. n \in ins
    BY Zenon, <1>3, <1>5, NaturalMin
  <2>2. n \in DOMAIN st.clauses /\ Op(tb, st, n, j) /\ st.clauses[n].action = "Insert"
    BY Zenon, <2>1 DEF Inserts
  <2>3. j.s # NoRow
    BY Zenon, <1>1, <2>2, PlannedClauses DEF Op, merge_clause_expression
  <2>4. \E i \in DOMAIN st.source.rows : j.s = <<i>>
    BY <1>1, <2>3 DEF JoinSpace
  <2>5. collect_merge_clause_expressions(tb, st, j)[col] = merge_clause_projection(st, n, col, j)
    BY Zenon, <1>5 DEF collect_merge_clause_expressions
  <2> HIDE DEF n
  <2>6. QED
    BY Zenon, <2>2, <2>4, <2>5, ProjectionTyped
<1>6. CASE ups = {} /\ ins = {} /\ j.t = NoRow
  BY Zenon, <1>6 DEF collect_merge_clause_expressions, Values
<1>7. CASE ups = {} /\ ins = {} /\ j.t # NoRow
  <2>1. j.t \in RowIds(tb)
    BY Zenon, <1>1, <1>7 DEF JoinSpace
  <2>2. RowAt(tb, j.t)[col] \in Values
    BY Zenon, <2>1, RowOfTable DEF TableRows
  <2>3. QED
    BY Zenon, <1>7, <2>2 DEF collect_merge_clause_expressions
<1>8. QED
  BY Zenon, <1>4, <1>5, <1>6, <1>7

-----------------------------------------------------------------------------
(* The files of a commit *)

\* The pairs a stream should have collected from the joined rows S.
FilesOf(tb, S) ==
    {<<f, tb.files[f].manifest>> : f \in {j.t[1] : j \in {k \in S : k.t # NoRow}}}

\* The data files of the joined rows are the affected ones.
LEMMA JoinedFiles ==
    ASSUME NEW tb, NEW st
    PROVE  {j.t[1] : j \in {k \in Joined(tb, st) : k.t # NoRow}} = AffectedFiles(tb, st)
<1> DEFINE pairs == InnerJoin(tb, st)
           T == {t \in RowIds(tb) : t[1] \in AffectedFiles(tb, st)}
<1>1. ASSUME NEW j \in Joined(tb, st), j.t # NoRow
      PROVE  j.t[1] \in AffectedFiles(tb, st)
  <2>1. CASE IsPair(pairs, j)
    <3>1. PICK p \in pairs : j = [t |-> p[1], s |-> <<p[2]>>]
      BY Zenon, <2>1 DEF IsPair
    <3>2. j.t = p[1]
      BY Zenon, <3>1
    <3>3. QED
      BY Zenon, <3>2 DEF AffectedFiles
  <2>2. CASE IsTarget(pairs, T, j)
    BY <2>2 DEF IsTarget
  <2>3. CASE IsSource(pairs, DOMAIN st.source.rows, j)
    BY <1>1, <2>3 DEF IsSource
  <2>4. QED
    BY Zenon, <2>1, <2>2, <2>3, JoinedShape
<1>2. ASSUME NEW p \in pairs
      PROVE  \E j \in Joined(tb, st) : j.t # NoRow /\ j.t[1] = p[1][1]
  <2> DEFINE j == [t |-> p[1], s |-> <<p[2]>>]
  <2>1. j \in Joined(tb, st)
    BY Zenon, JoinedShape DEF IsPair
  <2>2. p[1] \in RowIds(tb)
    BY Zenon, InnerInSQL, PairParts
  <2>3. QED
    BY Zenon, <2>1, <2>2, RowIdParts
<1>3. ASSUME NEW f \in AffectedFiles(tb, st)
      PROVE  f \in {j.t[1] : j \in {k \in Joined(tb, st) : k.t # NoRow}}
  BY Zenon, <1>2, <1>3 DEF AffectedFiles
<1>4. QED
  BY Zenon, <1>1, <1>3

\* Affected files are files of the table.
LEMMA AffectedAreFiles ==
    ASSUME NEW tb, NEW st
    PROVE  AffectedFiles(tb, st) \subseteq DOMAIN tb.files
<1>1. ASSUME NEW p \in InnerJoin(tb, st) PROVE p[1][1] \in DOMAIN tb.files
  <2>1. p[1] \in RowIds(tb)
    BY Zenon, InnerInSQL, PairParts
  <2>2. QED
    BY Zenon, <2>1, RowIdParts
<1>2. QED
  BY Zenon, <1>1 DEF AffectedFiles

\* The files listed for a manifest are the affected ones of that manifest.
LEMMA GroupedFiles ==
    ASSUME NEW tb, NEW A \in SUBSET DOMAIN tb.files, NEW files,
           files = Group({<<f, tb.files[f].manifest>> : f \in A})
    PROVE  /\ DOMAIN files = {} <=> A = {}
           /\ \A g \in DOMAIN tb.files :
                 (\/ tb.files[g].manifest \notin DOMAIN files
                  \/ g \notin files[tb.files[g].manifest]) <=> g \notin A
<1> DEFINE pairs == {<<f, tb.files[f].manifest>> : f \in A}
           M == {p[2] : p \in pairs}
<1>1. files = [m \in M |-> {p[1] : p \in {q \in pairs : q[2] = m}}]
  BY Zenon DEF Group
<1>2. DOMAIN files = M
  BY Zenon, <1>1
<1>3. \A m : m \in M <=> \E f \in A : tb.files[f].manifest = m
  <2>1. ASSUME NEW f \in A PROVE tb.files[f].manifest \in M
    <3>1. <<f, tb.files[f].manifest>> \in pairs /\ <<f, tb.files[f].manifest>>[2] = tb.files[f].manifest
      BY Zenon
    <3> HIDE DEF pairs
    <3>2. QED
      BY Zenon, <3>1
  <2>2. ASSUME NEW m \in M PROVE \E f \in A : tb.files[f].manifest = m
    <3>1. PICK p \in pairs : m = p[2]
      BY Zenon
    <3>2. PICK f \in A : p = <<f, tb.files[f].manifest>>
      BY Zenon
    <3>3. QED
      BY Zenon, <3>1, <3>2
  <2>3. QED
    BY Zenon, <2>1, <2>2
<1>4. ASSUME NEW g \in DOMAIN tb.files, tb.files[g].manifest \in M
      PROVE  g \in files[tb.files[g].manifest] <=> g \in A
  <2> DEFINE m == tb.files[g].manifest
  <2>1. files[m] = {p[1] : p \in {q \in pairs : q[2] = m}}
    BY Zenon, <1>1, <1>4
  <2>2. g \in A => <<g, m>> \in {q \in pairs : q[2] = m}
    BY Zenon
  <2>3. g \in A => g \in files[m]
    <3>1. SUFFICES ASSUME g \in A PROVE \E p \in {q \in pairs : q[2] = m} : g = p[1]
      BY Zenon, <2>1
    <3>2. <<g, m>>[1] = g
      BY Zenon
    <3>3. QED
      BY Zenon, <2>2, <3>1, <3>2
  <2>4. ASSUME NEW p \in {q \in pairs : q[2] = m}, p[1] = g
        PROVE  g \in A
    BY <2>4
  <2>5. QED
    BY Zenon, <2>1, <2>3, <2>4
<1>5. QED
  BY Zenon, <1>2, <1>3, <1>4

\* What a commit makes of a table: the affected files go, one file f with the
\* rows written for the joined rows comes.
Replaces(tb, st, f, new) ==
    /\ f \in Nat \ {0} /\ f \notin DOMAIN tb.files
    /\ new = [snapshot |-> tb.snapshot + 1,
              files |-> [g \in (DOMAIN tb.files \ AffectedFiles(tb, st)) \cup {f} |->
                  IF g = f
                  THEN [manifest |-> f,
                        rows |-> [j \in Joined(tb, st) |-> collect_merge_clause_expressions(tb, st, j)]]
                  ELSE tb.files[g]]]

\* The number the new data file gets is free.
LEMMA FreshFile ==
    ASSUME NEW tb, TableOK(tb)
    PROVE  /\ Max(DOMAIN tb.files \cup {0}) + 1 \in Nat \ {0}
           /\ Max(DOMAIN tb.files \cup {0}) + 1 \notin DOMAIN tb.files
<1> DEFINE S == DOMAIN tb.files \cup {0}
<1>1. S \in SUBSET Nat /\ S \in SUBSET Int /\ S # {} /\ IsFiniteSet(S)
  BY FS_AddElement DEF TableOK
<1> HIDE DEF S
<1>2. Max(S) \in S /\ \A n \in S : Max(S) >= n
  BY Zenon, <1>1, FiniteMax
<1>3. Max(S) \in Nat
  BY Zenon, <1>1, <1>2
<1>4. ~ (Max(S) >= Max(S) + 1)
  BY <1>3
<1>5. Max(S) + 1 \notin S
  BY Zenon, <1>2, <1>4
<1>6. QED
  BY <1>3, <1>5 DEF S

\* append_data and overwrite put the written rows in place of the affected
\* files.
LEMMA OverwriteReplaces ==
    ASSUME NEW tb, TableOK(tb), NEW st, NEW files, files = Group(FilesOf(tb, Joined(tb, st))),
           NEW rows, rows = [j \in Joined(tb, st) |-> collect_merge_clause_expressions(tb, st, j)]
    PROVE  \E f : Replaces(tb, st, f, IF DOMAIN files = {} THEN AppendData(tb, rows)
                                      ELSE Overwrite(tb, rows, files))
<1> DEFINE f == Max(DOMAIN tb.files \cup {0}) + 1
           A == AffectedFiles(tb, st)
           F == {<<g, tb.files[g].manifest>> : g \in A}
           kept == {g \in DOMAIN tb.files : tb.files[g].manifest \notin DOMAIN files
                                            \/ g \notin files[tb.files[g].manifest]}
<1>1. FilesOf(tb, Joined(tb, st)) = F
  BY Zenon, JoinedFiles DEF FilesOf
<1>2. A \in SUBSET DOMAIN tb.files
  BY Zenon, AffectedAreFiles
<1>3. /\ DOMAIN files = {} <=> A = {}
      /\ kept = DOMAIN tb.files \ A
  <2> HIDE DEF A
  <2>1. files = Group({<<g, tb.files[g].manifest>> : g \in A})
    BY Zenon, <1>1
  <2>2. /\ DOMAIN files = {} <=> A = {}
        /\ \A g \in DOMAIN tb.files :
              (\/ tb.files[g].manifest \notin DOMAIN files
               \/ g \notin files[tb.files[g].manifest]) <=> g \notin A
    BY Zenon, <1>2, <2>1, GroupedFiles
  <2>3. QED
    BY Zenon, <2>2
<1>4. f \in Nat \ {0} /\ f \notin DOMAIN tb.files
  BY Zenon, FreshFile
<1>5. CASE DOMAIN files = {}
  <2>1. DOMAIN tb.files \ A = DOMAIN tb.files
    BY Zenon, <1>3, <1>5
  <2>2. Replaces(tb, st, f, AppendData(tb, rows))
    BY Zenon, <1>4, <2>1 DEF Replaces, AppendData
  <2>3. QED
    BY Zenon, <1>5, <2>2
<1>6. CASE DOMAIN files # {}
  <2>1. Replaces(tb, st, f, Overwrite(tb, rows, files))
    BY Zenon, <1>3, <1>4 DEF Replaces, Overwrite
  <2>2. QED
    BY Zenon, <1>6, <2>1
<1>7. QED
  BY Zenon, <1>5, <1>6

\* The files of a table whose affected files have been replaced.
LEMMA ReplacedFiles ==
    ASSUME NEW tb, TableOK(tb), NEW st, WellFormed(st), PlanError(st) = "none",
           NEW f, NEW new, Replaces(tb, st, f, new)
    PROVE  /\ DOMAIN new.files = (DOMAIN tb.files \ AffectedFiles(tb, st)) \cup {f}
           /\ new.files[f].rows =
                [j \in Joined(tb, st) |-> collect_merge_clause_expressions(tb, st, j)]
           /\ \A g \in DOMAIN tb.files \ AffectedFiles(tb, st) : new.files[g] = tb.files[g]
           /\ new.snapshot = tb.snapshot + 1
           /\ f \in Nat \ {0} /\ f \notin DOMAIN tb.files
           /\ TableOK(new)
<1> DEFINE D == (DOMAIN tb.files \ AffectedFiles(tb, st)) \cup {f}
           rows == [j \in Joined(tb, st) |-> collect_merge_clause_expressions(tb, st, j)]
<1>1. /\ new.snapshot = tb.snapshot + 1
      /\ f \in Nat \ {0} /\ f \notin DOMAIN tb.files
      /\ new.files = [g \in D |-> IF g = f THEN [manifest |-> f, rows |-> rows] ELSE tb.files[g]]
  BY Zenon DEF Replaces
<1> HIDE DEF rows
<1>2. /\ DOMAIN new.files = D
      /\ new.files[f].rows = rows
      /\ \A g \in DOMAIN tb.files \ AffectedFiles(tb, st) : new.files[g] = tb.files[g]
  BY <1>1
<1>3. IsFiniteSet(D)
  <2>1. IsFiniteSet(DOMAIN tb.files \ AffectedFiles(tb, st))
    BY Zenon, FS_Difference DEF TableOK
  <2>2. QED
    BY Zenon, <2>1, FS_AddElement
<1>4. IsFiniteSet(DOMAIN rows) /\ \A j \in DOMAIN rows : rows[j] \in TableRows
  BY Zenon, JoinedFinite, WrittenTyped DEF WellFormed, rows
<1>5. ASSUME NEW g \in D
      PROVE  /\ IsFiniteSet(DOMAIN new.files[g].rows)
             /\ \A i \in DOMAIN new.files[g].rows : new.files[g].rows[i] \in TableRows
  <2>1. CASE g = f
    BY Zenon, <1>2, <1>4, <2>1
  <2>2. CASE g # f
    BY Zenon, <1>2, <2>2 DEF TableOK
  <2>3. QED
    BY Zenon, <2>1, <2>2
<1>6. tb.snapshot \in Nat /\ DOMAIN tb.files \in SUBSET (Nat \ {0})
  BY Zenon DEF TableOK
<1>7. TableOK(new)
  <2>1. new.snapshot \in Nat
    BY <1>1, <1>6
  <2>2. D \in SUBSET (Nat \ {0})
    BY Zenon, <1>1, <1>6
  <2> HIDE DEF D
  <2>3. QED
    BY Zenon, <1>2, <1>3, <1>5, <2>1, <2>2 DEF TableOK
<1>8. QED
  BY Zenon, <1>1, <1>2, <1>7 DEF rows

\* Its rows: those of the files that were left alone, and those that were
\* written.
LEMMA ReplacedRows ==
    ASSUME NEW tb, TableOK(tb), NEW st, WellFormed(st), PlanError(st) = "none",
           NEW f, NEW new, Replaces(tb, st, f, new)
    PROVE  /\ \A x : x \in RowIds(new) <=>
                 \/ x \in RowIds(tb) /\ x[1] \notin AffectedFiles(tb, st)
                 \/ \E j \in Joined(tb, st) : x = <<f, j>>
           /\ \A x \in RowIds(tb) : x[1] \notin AffectedFiles(tb, st) =>
                 RowAt(new, x) = RowAt(tb, x)
           /\ \A j \in Joined(tb, st) :
                 RowAt(new, <<f, j>>) = collect_merge_clause_expressions(tb, st, j)
<1> DEFINE A == AffectedFiles(tb, st)
           J == Joined(tb, st)
<1>1. /\ DOMAIN new.files = (DOMAIN tb.files \ A) \cup {f}
      /\ DOMAIN new.files[f].rows = J
      /\ \A j \in J : new.files[f].rows[j] = collect_merge_clause_expressions(tb, st, j)
      /\ \A g \in DOMAIN tb.files \ A : new.files[g] = tb.files[g]
      /\ f \notin DOMAIN tb.files
  <2> DEFINE rows == [j \in J |-> collect_merge_clause_expressions(tb, st, j)]
  <2>1. /\ DOMAIN new.files = (DOMAIN tb.files \ A) \cup {f}
        /\ new.files[f].rows = rows
        /\ \A g \in DOMAIN tb.files \ A : new.files[g] = tb.files[g]
        /\ f \notin DOMAIN tb.files
    BY ReplacedFiles
  <2>2. DOMAIN rows = J /\ \A j \in J : rows[j] = collect_merge_clause_expressions(tb, st, j)
    BY Zenon
  <2>3. QED
    BY Zenon, <2>1, <2>2
<1> HIDE DEF A, J
<1>2. ASSUME NEW x \in RowIds(new)
      PROVE  (x \in RowIds(tb) /\ x[1] \notin A) \/ \E j \in J : x = <<f, j>>
  <2>1. PICK g \in DOMAIN new.files : \E i \in DOMAIN new.files[g].rows : x = <<g, i>>
    BY RowIdShape
  <2>2. PICK i \in DOMAIN new.files[g].rows : x = <<g, i>>
    BY Zenon, <2>1
  <2>3. CASE g = f
    BY Zenon, <1>1, <2>2, <2>3
  <2>4. CASE g # f
    <3>1. g \in DOMAIN tb.files /\ g \notin A /\ i \in DOMAIN tb.files[g].rows /\ x[1] = g
      BY Zenon, <1>1, <2>2, <2>4
    <3>2. x \in RowIds(tb)
      BY Zenon, <2>2, <3>1, RowIdShape
    <3>3. QED
      BY Zenon, <3>1, <3>2
  <2>5. QED
    BY Zenon, <2>3, <2>4
<1>3. ASSUME NEW x \in RowIds(tb), x[1] \notin A
      PROVE  x \in RowIds(new) /\ RowAt(new, x) = RowAt(tb, x)
  <2>1. x[1] \in DOMAIN tb.files /\ x[2] \in DOMAIN tb.files[x[1]].rows /\ x = <<x[1], x[2]>>
    BY Zenon, RowIdParts
  <2>2. x[1] \in DOMAIN new.files /\ new.files[x[1]] = tb.files[x[1]]
    BY Zenon, <1>1, <1>3, <2>1
  <2>3. x \in RowIds(new)
    BY Zenon, <2>1, <2>2, RowIdShape
  <2>4. QED
    BY Zenon, <2>2, <2>3 DEF RowAt
<1>4. ASSUME NEW j \in J
      PROVE  /\ <<f, j>> \in RowIds(new)
             /\ RowAt(new, <<f, j>>) = collect_merge_clause_expressions(tb, st, j)
  <2>1. f \in DOMAIN new.files /\ j \in DOMAIN new.files[f].rows
    BY Zenon, <1>1
  <2>2. <<f, j>> \in RowIds(new)
    BY Zenon, <2>1, RowIdShape
  <2>3. RowAt(new, <<f, j>>) = new.files[f].rows[j]
    BY Zenon DEF RowAt
  <2>4. QED
    BY Zenon, <1>1, <2>2, <2>3
<1>5. QED
  BY Zenon, <1>2, <1>3, <1>4 DEF A, J

\* A target row that no source row matches stays, in its file or copied.
LEMMA UnmatchedCopied ==
    ASSUME NEW tb, TableOK(tb), NEW st, NEW u \in RowIds(tb),
           \A p \in SQLPairs(tb, st) : p[1] # u, u[1] \in AffectedFiles(tb, st)
    PROVE  /\ [t |-> u, s |-> NoRow] \in Joined(tb, st)
           /\ collect_merge_clause_expressions(tb, st, [t |-> u, s |-> NoRow]) = RowAt(tb, u)
<1> DEFINE j == [t |-> u, s |-> NoRow]
<1>1. j.t = u /\ j.s = NoRow /\ u # NoRow
  BY Zenon, RowIdParts
<1>2. IsTarget(InnerJoin(tb, st), {t \in RowIds(tb) : t[1] \in AffectedFiles(tb, st)}, j)
  BY Zenon, InnerInSQL DEF IsTarget
<1>3. j \in Joined(tb, st)
  BY Zenon, <1>2, JoinedShape
<1> HIDE DEF j
<1>4. Claims(tb, st, j) = {}
  BY Zenon, <1>1, UnmatchedUnclaimed
<1>5. collect_merge_clause_expressions(tb, st, j) = RowAt(tb, u)
  BY Zenon, <1>1, <1>4, UnclaimedKept
<1>6. QED
  BY Zenon, <1>3, <1>5 DEF j

\* How often a row is in a table.
LEMMA CountOfRow ==
    ASSUME NEW tb, NEW r
    PROVE  CountOf(Rows(tb), r) = Cardinality({t \in RowIds(tb) : RowAt(tb, t) = r})
<1> DEFINE vals == {RowAt(tb, t) : t \in RowIds(tb)}
           R == {t \in RowIds(tb) : RowAt(tb, t) = r}
<1>1. DOMAIN Rows(tb) = vals
  BY Zenon DEF Rows
<1>2. CASE r \in vals
  BY Zenon, <1>1, <1>2 DEF CountOf, Rows
<1>3. CASE r \notin vals
  <2>1. R = {}
    BY Zenon, <1>3
  <2>2. Cardinality(R) = 0
    BY Zenon, <2>1, FS_EmptySet
  <2>3. QED
    BY Zenon, <1>1, <1>3, <2>2 DEF CountOf
<1>4. QED
  BY Zenon, <1>2, <1>3

\* The rows no source row matches.
Unmatched(tb, st) == {t \in RowIds(tb) : t \notin {p[1] : p \in SQLPairs(tb, st)}}

\* Each row that no source row matches has a place of its own, with the same
\* values, in the replaced table.
LEMMA ReplacingLosesNoRow ==
    ASSUME NEW tb, TableOK(tb), NEW st, WellFormed(st), PlanError(st) = "none",
           NEW f, NEW new, Replaces(tb, st, f, new), NEW t \in Unmatched(tb, st)
    PROVE  Cardinality({u \in Unmatched(tb, st) : RowAt(tb, u) = RowAt(tb, t)})
              <= CountOf(Rows(new), RowAt(tb, t))
<1> DEFINE r == RowAt(tb, t)
           A == AffectedFiles(tb, st)
           U == {u \in Unmatched(tb, st) : RowAt(tb, u) = r}
           V == {x \in RowIds(new) : RowAt(new, x) = r}
           g == [u \in U |-> IF u[1] \notin A THEN u ELSE <<f, [t |-> u, s |-> NoRow]>>]
<1>1. ASSUME NEW u \in U PROVE g[u] \in V
  <2>1. u \in RowIds(tb) /\ RowAt(tb, u) = r /\ \A p \in SQLPairs(tb, st) : p[1] # u
    BY Zenon DEF Unmatched
  <2>2. CASE u[1] \notin A
    BY <2>1, <2>2, ReplacedRows
  <2>3. CASE u[1] \in A
    <3> DEFINE j == [t |-> u, s |-> NoRow]
    <3>1. j \in Joined(tb, st) /\ collect_merge_clause_expressions(tb, st, j) = r
      BY Zenon, <2>1, <2>3, UnmatchedCopied
    <3>2. g[u] = <<f, j>>
      BY Zenon, <2>3
    <3> HIDE DEF j
    <3>3. <<f, j>> \in RowIds(new) /\ RowAt(new, <<f, j>>) = r
      BY <3>1, ReplacedRows
    <3>4. QED
      BY Zenon, <3>2, <3>3
  <2>4. QED
    BY Zenon, <2>2, <2>3
<1>2. ASSUME NEW u \in U, NEW v \in U, g[u] = g[v] PROVE u = v
  <2>1. /\ u \in RowIds(tb) /\ v \in RowIds(tb)
        /\ u[1] \in DOMAIN tb.files /\ v[1] \in DOMAIN tb.files /\ f \notin DOMAIN tb.files
    BY Zenon, RowIdParts, ReplacedFiles DEF Unmatched
  <2> DEFINE j(x) == [t |-> x, s |-> NoRow]
  <2>2. /\ g[u] = u \/ g[u] = <<f, j(u)>>
        /\ g[v] = v \/ g[v] = <<f, j(v)>>
    BY Zenon
  <2>3. \A x, y : <<f, j(x)>> = <<f, j(y)>> => x = y
    BY Zenon
  <2>4. \A x : <<f, j(x)>>[1] = f
    BY Zenon
  <2>5. CASE g[u] = u
    <3>1. g[v] # <<f, j(v)>>
      BY Zenon, <1>2, <2>1, <2>4, <2>5
    <3>2. QED
      BY Zenon, <1>2, <2>2, <2>5, <3>1
  <2>6. CASE g[u] = <<f, j(u)>>
    <3>1. g[v] # v
      BY Zenon, <1>2, <2>1, <2>4, <2>6
    <3>2. <<f, j(u)>> = <<f, j(v)>>
      BY Zenon, <1>2, <2>2, <2>6, <3>1
    <3>3. QED
      BY Zenon, <2>3, <3>2
  <2>7. QED
    BY Zenon, <2>2, <2>5, <2>6
<1>3. g \in Injection(U, V)
  <2>1. g \in [U -> V]
    BY Zenon, <1>1
  <2> HIDE DEF U, V, g
  <2>2. \A a, b \in DOMAIN g : g[a] = g[b] => a = b
    BY Zenon, <1>2, <2>1
  <2>3. QED
    BY Zenon, <2>1, <2>2 DEF Injection, IsInjective
<1>4. IsFiniteSet(V)
  <2>1. IsFiniteSet(RowIds(new))
    BY Zenon, ReplacedFiles, RowsFinite
  <2>2. QED
    BY Zenon, <2>1, FS_Subset
<1>5. Cardinality(U) <= Cardinality(V)
  <2> HIDE DEF U, V, g
  <2>1. QED
    BY Zenon, <1>3, <1>4, FS_Injection
<1>6. QED
  BY Zenon, <1>5, CountOfRow

\* The bag of the values a function has on a set.
BagOf(v, S) == [r \in {v[x] : x \in S} |-> Cardinality({x \in S : v[x] = r})]

\* Two families of rows that a bijection carries into each other are the same bag.
LEMMA SameBag ==
    ASSUME NEW J, NEW I, IsFiniteSet(J), NEW h \in Bijection(J, I), NEW v, NEW b,
           \A j \in J : v[h[j]] = b[j]
    PROVE  BagOf(v, I) = BagOf(b, J)
<1>1. /\ h \in [J -> I]
      /\ \A a, c \in J : h[a] = h[c] => a = c
      /\ \A x \in I : \E j \in J : h[j] = x
  BY Zenon DEF Bijection, Injection, Surjection, IsInjective
<1>2. {v[x] : x \in I} = {b[j] : j \in J}
  BY <1>1
<1>3. ASSUME NEW r PROVE Cardinality({x \in I : v[x] = r}) = Cardinality({j \in J : b[j] = r})
  <2> DEFINE Jr == {j \in J : b[j] = r}
             Ir == {x \in I : v[x] = r}
             k == [j \in Jr |-> h[j]]
  <2>1. IsFiniteSet(Jr)
    BY Zenon, FS_Subset
  <2>2. k \in [Jr -> Ir]
    BY Zenon, <1>1
  <2>3. \A a, c \in Jr : k[a] = k[c] => a = c
    BY Zenon, <1>1
  <2>4. \A x \in Ir : \E j \in Jr : k[j] = x
    BY Zenon, <1>1
  <2> HIDE DEF Jr, Ir, k
  <2>5. k \in Bijection(Jr, Ir)
    BY Zenon, <2>2, <2>3, <2>4 DEF Bijection, Injection, Surjection, IsInjective
  <2>6. ExistsBijection(Jr, Ir)
    BY Zenon, <2>5 DEF ExistsBijection
  <2>7. QED
    BY Zenon, <2>1, <2>6, FS_Bijection DEF Jr, Ir
<1>4. QED
  BY Zenon, <1>2, <1>3 DEF BagOf

\* Finitely many clauses claim a row.
LEMMA ClaimsFinite ==
    ASSUME NEW tb, NEW st \in MergeStatements, NEW j
    PROVE  IsFiniteSet(Claims(tb, st, j))
<1>1. IsFiniteSet(DOMAIN st.clauses)
  BY ClausesAreASequence, FS_Interval
<1>2. QED
  BY Zenon, <1>1, FS_Subset DEF Claims

\* What Supported says of the join and of each joined row.
LEMMA SupportedParts ==
    ASSUME NEW tb, TableOK(tb), NEW st \in MergeStatements, Supported(tb, st)
    PROVE  /\ InnerJoin(tb, st) = SQLPairs(tb, st)
           /\ SameColumns(st)
           /\ \A j \in SQLJoined(tb, st) : ClaimedOnce(tb, st, j)
<1>1. InnerJoin(tb, st) = SQLPairs(tb, st)
  BY Zenon, PruningIsSound DEF Supported
<1>2. SameColumns(st)
  BY Zenon DEF Supported, SameColumns
<1>3. ASSUME NEW j \in SQLJoined(tb, st) PROVE ClaimedOnce(tb, st, j)
  <2>1. /\ Cardinality(Claims(tb, st, j)) <= 1
        /\ j.t = NoRow => Claims(tb, st, j) # {}
        /\ \A n \in Claims(tb, st, j) : st.clauses[n].action # "Delete"
    BY Zenon DEF Supported, Claims
  <2>2. IsFiniteSet(Claims(tb, st, j))
    BY Zenon, ClaimsFinite
  <2>3. Cardinality(Claims(tb, st, j)) \in Nat
    BY Zenon, <2>2, FS_CardinalityType
  <2>4. Cardinality(Claims(tb, st, j)) = 0 \/ Cardinality(Claims(tb, st, j)) = 1
    BY <2>1, <2>3
  <2>5. Claims(tb, st, j) = {} \/ \E n : Claims(tb, st, j) = {n}
    BY Zenon, <2>2, <2>4, FS_EmptySet, FS_Singleton
  <2>6. QED
    BY Zenon, <2>1, <2>5 DEF ClaimedOnce
<1>4. QED
  BY Zenon, <1>1, <1>2, <1>3

\* Without pruning, the joined rows of SQL's MERGE are those of the plan and
\* the rows of the files that are left alone.
LEMMA SQLJoinedSplit ==
    ASSUME NEW tb, NEW st, InnerJoin(tb, st) = SQLPairs(tb, st), NEW j
    PROVE  j \in SQLJoined(tb, st) <=>
              \/ j \in Joined(tb, st)
              \/ \E t \in RowIds(tb) : t[1] \notin AffectedFiles(tb, st) /\ j = [t |-> t, s |-> NoRow]
<1> DEFINE A == AffectedFiles(tb, st)
           pairs == InnerJoin(tb, st)
<1>1. \A p \in pairs : p[1][1] \in A
  BY Zenon DEF AffectedFiles
<1>2. IsTarget(pairs, RowIds(tb), j) <=>
        \/ IsTarget(pairs, {t \in RowIds(tb) : t[1] \in A}, j)
        \/ \E t \in RowIds(tb) : t[1] \notin A /\ j = [t |-> t, s |-> NoRow]
  <2> HIDE DEF A, pairs
  <2>1. ASSUME IsTarget(pairs, RowIds(tb), j)
        PROVE  \/ IsTarget(pairs, {t \in RowIds(tb) : t[1] \in A}, j)
               \/ \E t \in RowIds(tb) : t[1] \notin A /\ j = [t |-> t, s |-> NoRow]
    BY Zenon, <2>1 DEF IsTarget
  <2>2. ASSUME IsTarget(pairs, {t \in RowIds(tb) : t[1] \in A}, j)
        PROVE  IsTarget(pairs, RowIds(tb), j)
    BY Zenon, <2>2 DEF IsTarget
  <2>3. ASSUME NEW t \in RowIds(tb), t[1] \notin A, j = [t |-> t, s |-> NoRow]
        PROVE  IsTarget(pairs, RowIds(tb), j)
    <3>1. \A p \in pairs : p[1] # t
      BY Zenon, <1>1, <2>3
    <3>2. QED
      BY Zenon, <2>3, <3>1 DEF IsTarget
  <2>4. QED
    BY Zenon, <2>1, <2>2, <2>3
<1>3. QED
  BY Zenon, <1>2, JoinedShape, SQLJoinedShape

\* The rows of files that are left alone are not in the join.
LEMMA LeftAloneNotJoined ==
    ASSUME NEW tb, NEW st, NEW t \in RowIds(tb), t[1] \notin AffectedFiles(tb, st)
    PROVE  [t |-> t, s |-> NoRow] \notin Joined(tb, st)
<1> DEFINE j == [t |-> t, s |-> NoRow]
<1>1. SUFFICES ASSUME j \in Joined(tb, st) PROVE FALSE
  BY Zenon
<1>2. j.t = t /\ t # NoRow
  BY Zenon, RowIdParts
<1>3. j.t[1] \in {k.t[1] : k \in {i \in Joined(tb, st) : i.t # NoRow}}
  BY Zenon, <1>1, <1>2
<1>4. j.t[1] \in AffectedFiles(tb, st)
  BY Zenon, <1>3, JoinedFiles
<1>5. QED
  BY Zenon, <1>2, <1>4

\* One row is made of each joined row, where no two clauses claim it.
LEMMA ReplacingIsMerging ==
    ASSUME NEW tb, TableOK(tb), NEW st, WellFormed(st), PlanError(st) = "none",
           NEW f, NEW new, Replaces(tb, st, f, new), Supported(tb, st)
    PROVE  Rows(new) = SQLMerge(tb, st)
<1> DEFINE A == AffectedFiles(tb, st)
           P == Joined(tb, st)
           J == SQLJoined(tb, st)
           I == RowIds(new)
           h == [j \in J |-> IF j \in P THEN <<f, j>> ELSE j.t]
           v == [x \in I |-> RowAt(new, x)]
           b == [j \in J |-> v[h[j]]]
<1>1. st \in MergeStatements
  BY Zenon DEF WellFormed
<1>2. /\ InnerJoin(tb, st) = SQLPairs(tb, st)
      /\ SameColumns(st)
      /\ \A j \in J : ClaimedOnce(tb, st, j)
  BY Zenon, <1>1, SupportedParts
<1>3. IsFiniteSet(J)
  BY Zenon, <1>1, JoinedFinite
<1>4. \A j : j \in J <=> \/ j \in P
                         \/ \E t \in RowIds(tb) : t[1] \notin A /\ j = [t |-> t, s |-> NoRow]
  BY Zenon, <1>2, SQLJoinedSplit
<1>5. \A t \in RowIds(tb) : t[1] \notin A => [t |-> t, s |-> NoRow] \notin P
  BY Zenon, LeftAloneNotJoined
<1>6. /\ \A x : x \in I <=> \/ x \in RowIds(tb) /\ x[1] \notin A
                            \/ \E j \in P : x = <<f, j>>
      /\ \A x \in RowIds(tb) : x[1] \notin A => RowAt(new, x) = RowAt(tb, x)
      /\ \A j \in P : RowAt(new, <<f, j>>) = collect_merge_clause_expressions(tb, st, j)
  BY ReplacedRows
<1>7. f \notin DOMAIN tb.files
  BY Zenon, ReplacedFiles
<1>8. ASSUME NEW j \in J, j \notin P
      PROVE  j.t \in RowIds(tb) /\ j.t[1] \notin A /\ j = [t |-> j.t, s |-> NoRow] /\ j.t[1] # f
  <2>1. PICK t \in RowIds(tb) : t[1] \notin A /\ j = [t |-> t, s |-> NoRow]
    BY Zenon, <1>4, <1>8
  <2>2. j.t = t
    BY Zenon, <2>1
  <2>3. t[1] # f
    BY Zenon, <1>7, RowIdParts
  <2>4. QED
    BY Zenon, <2>1, <2>2, <2>3
<1>9. ASSUME NEW j \in J
      PROVE  h[j] \in I /\ SQLBecomes(tb, st, j) = {RowAt(new, h[j])}
  <2>1. CASE j \in P
    <3>1. h[j] = <<f, j>> /\ h[j] \in I
      BY Zenon, <1>6, <2>1
    <3>2. j \in JoinSpace(tb, st)
      BY Zenon, JoinedInSpace
    <3>3. SQLBecomes(tb, st, j) = {collect_merge_clause_expressions(tb, st, j)}
      BY Zenon, <1>2, <3>2, WrittenIsSQLRow
    <3>4. QED
      BY Zenon, <1>6, <2>1, <3>1, <3>3
  <2>2. CASE j \notin P
    <3>1. h[j] = j.t /\ j.t \in RowIds(tb) /\ j.t[1] \notin A /\ j.s = NoRow /\ j.t # NoRow
      BY SMTT(20), <1>8, <2>2, RowIdParts
    <3>2. h[j] \in I /\ RowAt(new, h[j]) = RowAt(tb, j.t)
      BY Zenon, <1>6, <3>1
    <3>3. Claims(tb, st, j) = {}
      BY Zenon, <3>1, UnmatchedUnclaimed
    <3>4. SQLClause(tb, st, j) = 0
      BY Zenon, <1>1, <3>3, SQLClauseIsFirstClaim
    <3>5. SQLBecomes(tb, st, j) = {RowAt(tb, j.t)}
      BY Zenon, <3>1, <3>4 DEF SQLBecomes
    <3>6. QED
      BY Zenon, <3>2, <3>5
  <2>3. QED
    BY Zenon, <2>1, <2>2
<1>10. ASSUME NEW j \in J, NEW k \in J, h[j] = h[k] PROVE j = k
  <2>1. \A i \in J : i \in P => h[i] = <<f, i>> /\ h[i][1] = f
    BY Zenon
  <2>2. \A i \in J : i \notin P => h[i] = i.t
    BY Zenon
  <2> HIDE DEF h, J, P
  <2>3. CASE j \in P /\ k \in P
    BY <1>10, <2>1, <2>3
  <2>4. CASE j \notin P /\ k \notin P
    BY Zenon, <1>8, <1>10, <2>2, <2>4
  <2>5. CASE (j \in P /\ k \notin P) \/ (j \notin P /\ k \in P)
    BY SMTT(20), <1>8, <1>10, <2>1, <2>2, <2>5
  <2>6. QED
    BY Zenon, <2>3, <2>4, <2>5
<1>11. ASSUME NEW x \in I PROVE \E j \in J : h[j] = x
  <2>1. CASE \E j \in P : x = <<f, j>>
    BY Zenon, <1>4, <2>1
  <2>2. CASE x \in RowIds(tb) /\ x[1] \notin A
    <3> DEFINE j == [t |-> x, s |-> NoRow]
    <3>1. j \in J /\ j \notin P /\ j.t = x
      BY Zenon, <1>4, <1>5, <2>2
    <3> HIDE DEF j
    <3>2. QED
      BY Zenon, <3>1
  <2>3. QED
    BY Zenon, <1>6, <2>1, <2>2
<1>12. h \in Bijection(J, I)
  <2>1. h \in [J -> I]
    BY Zenon, <1>9
  <2> HIDE DEF h, J, I
  <2>2. QED
    BY Zenon, <2>1, <1>10, <1>11 DEF Bijection, Injection, Surjection, IsInjective
<1>13. \A j \in J : v[h[j]] = b[j] /\ SQLBecomes(tb, st, j) = {b[j]}
  BY Zenon, <1>9
<1>14. Rows(new) = BagOf(v, I)
  <2>1. {v[x] : x \in I} = {RowAt(new, x) : x \in I}
    BY Zenon
  <2>2. \A r : {x \in I : v[x] = r} = {x \in I : RowAt(new, x) = r}
    BY Zenon
  <2>3. QED
    BY Zenon, <2>1, <2>2 DEF Rows, BagOf
<1>15. SQLMerge(tb, st) = BagOf(b, J)
  <2> HIDE DEF b, J
  <2>1. UNION {SQLBecomes(tb, st, j) : j \in J} = {b[j] : j \in J}
    <3>1. ASSUME NEW r, NEW j \in J PROVE r \in SQLBecomes(tb, st, j) <=> r = b[j]
      BY Zenon, <1>13
    <3>2. QED
      BY <3>1
  <2>2. \A r : {j \in J : r \in SQLBecomes(tb, st, j)} = {j \in J : b[j] = r}
    BY Zenon, <1>13
  <2>3. SQLMerge(tb, st) = [r \in UNION {SQLBecomes(tb, st, j) : j \in J} |->
                              Cardinality({j \in J : r \in SQLBecomes(tb, st, j)})]
    BY Zenon DEF SQLMerge, J
  <2>4. QED
    BY Zenon, <2>1, <2>2, <2>3 DEF BagOf
<1>16. QED
  <2> HIDE DEF b, h, v, I, J
  <2>1. \A j \in J : v[h[j]] = b[j]
    BY Zenon, <1>13
  <2>2. BagOf(v, I) = BagOf(b, J)
    BY SMTT(20), <1>3, <1>12, <2>1, SameBag
  <2>3. QED
    BY Zenon, <1>14, <1>15, <2>2

\* Where each joined row of SQL's MERGE becomes the target row it has, and no
\* target row is in two of them, the rows stay as they are.
LEMMA EachRowItself ==
    ASSUME NEW tb, TableOK(tb), NEW st \in MergeStatements,
           \A j \in SQLJoined(tb, st) : j.t \in RowIds(tb) /\ SQLBecomes(tb, st, j) = {RowAt(tb, j.t)},
           \A j, k \in SQLJoined(tb, st) : j.t = k.t => j = k
    PROVE  Rows(tb) = SQLMerge(tb, st)
<1> DEFINE I == RowIds(tb)
           J == SQLJoined(tb, st)
           h == [j \in J |-> j.t]
           v == [t \in I |-> RowAt(tb, t)]
           b == [j \in J |-> RowAt(tb, j.t)]
<1>1. IsFiniteSet(J)
  BY Zenon, JoinedFinite
<1>2. ASSUME NEW t \in I PROVE \E j \in J : j.t = t
  <2>1. CASE \E p \in SQLPairs(tb, st) : p[1] = t
    <3>1. PICK p \in SQLPairs(tb, st) : p[1] = t
      BY Zenon, <2>1
    <3> DEFINE j == [t |-> p[1], s |-> <<p[2]>>]
    <3>2. IsPair(SQLPairs(tb, st), j) /\ j.t = t
      BY Zenon, <3>1 DEF IsPair
    <3> HIDE DEF j
    <3>3. QED
      BY Zenon, <3>2, SQLJoinedShape
  <2>2. CASE \A p \in SQLPairs(tb, st) : p[1] # t
    <3> DEFINE j == [t |-> t, s |-> NoRow]
    <3>1. IsTarget(SQLPairs(tb, st), RowIds(tb), j) /\ j.t = t
      BY Zenon, <2>2 DEF IsTarget
    <3> HIDE DEF j
    <3>2. QED
      BY Zenon, <3>1, SQLJoinedShape
  <2>3. QED
    BY Zenon, <2>1, <2>2
<1>3. h \in Bijection(J, I)
  <2>1. h \in [J -> I]
    BY Zenon
  <2>2. \A x, y \in J : h[x] = h[y] => x = y
    BY Zenon
  <2>3. \A t \in I : \E j \in J : h[j] = t
    BY Zenon, <1>2
  <2> HIDE DEF h, J, I
  <2>4. QED
    BY Zenon, <2>1, <2>2, <2>3 DEF Bijection, Injection, Surjection, IsInjective
<1>4. \A j \in J : v[h[j]] = b[j] /\ SQLBecomes(tb, st, j) = {b[j]}
  BY Zenon
<1>5. Rows(tb) = BagOf(v, I)
  <2>1. {v[x] : x \in I} = {RowAt(tb, x) : x \in I}
    BY Zenon
  <2>2. \A r : {x \in I : v[x] = r} = {x \in I : RowAt(tb, x) = r}
    BY Zenon
  <2>3. QED
    BY Zenon, <2>1, <2>2 DEF Rows, BagOf
<1>6. SQLMerge(tb, st) = BagOf(b, J)
  <2> HIDE DEF b, J
  <2>1. UNION {SQLBecomes(tb, st, j) : j \in J} = {b[j] : j \in J}
    <3>1. ASSUME NEW r, NEW j \in J PROVE r \in SQLBecomes(tb, st, j) <=> r = b[j]
      BY Zenon, <1>4
    <3>2. QED
      BY <3>1
  <2>2. \A r : {j \in J : r \in SQLBecomes(tb, st, j)} = {j \in J : b[j] = r}
    BY Zenon, <1>4
  <2>3. SQLMerge(tb, st) = [r \in UNION {SQLBecomes(tb, st, j) : j \in J} |->
                              Cardinality({j \in J : r \in SQLBecomes(tb, st, j)})]
    BY Zenon DEF SQLMerge, J
  <2>4. QED
    BY Zenon, <2>1, <2>2, <2>3 DEF BagOf
<1>7. QED
  <2> HIDE DEF b, h, v, I, J
  <2>1. \A j \in J : v[h[j]] = b[j]
    BY Zenon, <1>4
  <2>2. BagOf(v, I) = BagOf(b, J)
    BY SMTT(20), <1>1, <1>3, <2>1, SameBag
  <2>3. QED
    BY Zenon, <1>5, <1>6, <2>2

\* A source without rows changes nothing.
LEMMA NothingToMerge ==
    ASSUME NEW tb, TableOK(tb), NEW st \in MergeStatements, NEW other, Joined(other, st) = {}
    PROVE  Rows(tb) = SQLMerge(tb, st)
<1> DEFINE I == RowIds(tb)
           J == SQLJoined(tb, st)
<1>1. DOMAIN st.source.rows = {}
  <2>1. SUFFICES ASSUME NEW i \in DOMAIN st.source.rows PROVE Joined(other, st) # {}
    BY Zenon
  <2>2. CASE \A p \in InnerJoin(other, st) : p[2] # i
    BY Zenon, <2>2, JoinedShape DEF IsSource
  <2>3. CASE \E p \in InnerJoin(other, st) : p[2] = i
    BY Zenon, <2>3, JoinedShape DEF IsPair
  <2>4. QED
    BY Zenon, <2>2, <2>3
<1>2. SQLPairs(tb, st) = {}
  BY Zenon, <1>1, PairParts
<1>3. J = {[t |-> t, s |-> NoRow] : t \in I}
  BY Zenon, <1>1, <1>2 DEF SQLJoined
<1>4. ASSUME NEW j \in J PROVE j.t \in I /\ SQLBecomes(tb, st, j) = {RowAt(tb, j.t)}
  <2>1. j.t \in I /\ j.s = NoRow /\ j.t # NoRow
    BY <1>3, RowIdParts
  <2>2. SQLClause(tb, st, j) = 0
    BY Zenon, <2>1, UnmatchedUnclaimed, SQLClauseIsFirstClaim
  <2>3. QED
    BY Zenon, <2>1, <2>2 DEF SQLBecomes
<1>5. \A j, k \in J : j.t = k.t => j = k
  BY <1>3
<1>6. QED
  BY Zenon, <1>4, <1>5, EachRowItself

-----------------------------------------------------------------------------
(* Repeating an upsert *)

\* An upsert by key, from a source with no null key, of a target that is
\* pruned by the key's own bounds if at all.
UpsertByKey(st) ==
    /\ st.on = "key" /\ IsUpsert(st)
    /\ \A i \in DOMAIN st.source.rows : st.source.rows[i][Key] # NULL
    /\ KeyBounds(st.source)

\* What an upsert leaves: a row that an UPDATE claims for its only source row is
\* that row already, and no INSERT claims a source row that matches nothing.
Settled(tb, st) ==
    LET pairs == SQLPairs(tb, st)
    IN  /\ \A p \in pairs : (\A q \in pairs : q[1] = p[1] => q = p) =>
              \A n \in DOMAIN st.clauses :
                 st.clauses[n].action = "Update" /\ Op(tb, st, n, [t |-> p[1], s |-> <<p[2]>>])
                    => RowAt(tb, p[1]) = st.source.rows[p[2]]
        /\ \A i \in DOMAIN st.source.rows : (\A p \in pairs : p[2] # i) =>
              \A n \in DOMAIN st.clauses :
                 st.clauses[n].action = "Insert" => ~ Op(tb, st, n, [t |-> NoRow, s |-> <<i>>])

\* A source row is a row of the table's columns.
LEMMA SourceRowTyped ==
    ASSUME NEW st \in MergeStatements, NEW i \in DOMAIN st.source.rows
    PROVE  st.source.rows[i] \in TableRows
<1>1. st.source.rows \in Seq(TableRows)
  BY Zenon DEF MergeStatements, Sources
<1>2. QED
  BY <1>1

\* Where rows have the same key and ON compares the key, they match.
LEMMA SameKeyMatches ==
    ASSUME NEW st, UpsertByKey(st), NEW tb, NEW t \in RowIds(tb), NEW i \in DOMAIN st.source.rows,
           RowAt(tb, t)[Key] = st.source.rows[i][Key]
    PROVE  <<t, i>> \in SQLPairs(tb, st)
<1>1. Matches(st.on, RowAt(tb, t), st.source.rows[i])
  BY Zenon DEF UpsertByKey, Matches
<1>2. QED
  BY <1>1 DEF SQLPairs

\* An UPDATE of an upsert writes the source row.
LEMMA UpdateWritesSource ==
    ASSUME NEW tb, NEW st, WellFormed(st), PlanError(st) = "none", UpsertByKey(st),
           NEW t \in RowIds(tb), NEW i \in DOMAIN st.source.rows,
           Matches(st.on, RowAt(tb, t), st.source.rows[i]),
           NEW j, j = [t |-> t, s |-> <<i>>],
           NEW n \in DOMAIN st.clauses, st.clauses[n].action = "Update", Op(tb, st, n, j)
    PROVE  collect_merge_clause_expressions(tb, st, j) = st.source.rows[i]
<1> DEFINE row == collect_merge_clause_expressions(tb, st, j)
           s == st.source.rows[i]
           ups(col) == {m \in Updates(st.clauses, col) : Op(tb, st, m, j)}
           ins(col) == {m \in Inserts(st.clauses, col) : Op(tb, st, m, j)}
<1>1. st \in MergeStatements /\ j.t = t /\ j.s = <<i>> /\ j.s[1] = i /\ t # NoRow
  BY Zenon, RowIdParts DEF WellFormed
<1>2. DOMAIN st.clauses \in SUBSET Nat
  BY Zenon, <1>1, ClausesAreASequence
<1>3. s = [col \in Columns |-> s[col]]
  BY Zenon, <1>1, SourceRowTyped DEF TableRows
<1>4. row = [col \in Columns |-> row[col]]
  BY Zenon DEF collect_merge_clause_expressions
<1>5. ASSUME NEW col \in Columns PROVE ins(col) = {}
  <2>1. ASSUME NEW m \in DOMAIN st.clauses, st.clauses[m].action = "Insert" PROVE ~ Op(tb, st, m, j)
    <3>1. st.clauses[m].kind = "NotMatched"
      BY Zenon, <2>1, PlannedClauses
    <3>2. QED
      BY <1>1, <3>1 DEF Op, merge_clause_expression
  <2>2. QED
    BY Zenon, <2>1 DEF Inserts
<1>6. ASSUME NEW col \in Columns
      PROVE  row[col] = IF ups(col) # {} THEN merge_clause_projection(st, Min(ups(col)), col, j)
                        ELSE RowAt(tb, t)[col]
  BY Zenon, <1>1, <1>5 DEF collect_merge_clause_expressions
<1>7. ASSUME NEW m \in DOMAIN st.clauses, st.clauses[m].action = "Update"
      PROVE  /\ \A k \in DOMAIN st.clauses[m].set : st.clauses[m].set[k][1] = st.clauses[m].set[k][2]
             /\ {st.clauses[m].set[k][1] : k \in DOMAIN st.clauses[m].set} = Columns \ {Key}
             /\ st.clauses[m].set \in Seq(Columns \X Columns)
  <2>1. st.clauses[m] \in Clauses
    BY Zenon, <1>7, PlannedClauses
  <2>2. QED
    BY Zenon, <1>7, <2>1 DEF UpsertByKey, IsUpsert, Clauses
<1>8. ASSUME NEW col \in Columns, col # Key PROVE row[col] = s[col]
  <2>1. n \in ups(col)
    <3>1. col \in {st.clauses[n].set[k][1] : k \in DOMAIN st.clauses[n].set}
      BY Zenon, <1>7, <1>8
    <3>2. \E k \in DOMAIN st.clauses[n].set : st.clauses[n].set[k][1] = col
      BY Zenon, <3>1
    <3>3. QED
      BY Zenon, <3>2 DEF Updates
  <2> DEFINE m == Min(ups(col))
  <2>2. m \in ups(col)
    <3>1. ups(col) \in SUBSET Nat /\ ups(col) # {}
      BY Zenon, <1>2, <2>1 DEF Updates
    <3> HIDE DEF ups
    <3>2. QED
      BY Zenon, <3>1, NaturalMin
  <2>3. m \in DOMAIN st.clauses /\ st.clauses[m].action = "Update"
    BY Zenon, <2>2 DEF Updates
  <2> DEFINE A == Assigning(st.clauses[m], col)
  <2>4. A \in SUBSET Nat /\ A # {}
    <3>1. DOMAIN st.clauses[m].set \in SUBSET Nat
      <4>1. st.clauses[m].set \in Seq(Columns \X Columns)
        BY Zenon, <1>7, <2>3
      <4> HIDE DEF m
      <4>2. QED
        BY <4>1
    <3>2. \E k \in DOMAIN st.clauses[m].set : st.clauses[m].set[k][1] = col
      BY Zenon, <2>2 DEF Updates
    <3>3. QED
      BY Zenon, <3>1, <3>2 DEF Assigning
  <2>5. Min(A) \in A
    <3> HIDE DEF A
    <3>1. QED
      BY Zenon, <2>4, NaturalMin
  <2>6. st.clauses[m].set[Min(A)][2] = col
    BY Zenon, <1>7, <2>3, <2>5 DEF Assigning
  <2>7. merge_clause_projection(st, m, col, j) = s[st.clauses[m].set[Min(A)][2]]
    BY Zenon, <1>1, <2>3 DEF merge_clause_projection
  <2>8. row[col] = merge_clause_projection(st, m, col, j)
    BY Zenon, <1>6, <2>1
  <2> HIDE DEF m, A, row, s
  <2>9. QED
    BY Zenon, <2>6, <2>7, <2>8
<1>9. row[Key] = s[Key]
  <2>1. ups(Key) = {}
    BY Zenon, <1>7 DEF Updates
  <2>2. row[Key] = RowAt(tb, t)[Key]
    BY Zenon, <1>6, <2>1, ColumnsAssumption
  <2>3. QED
    BY Zenon, <1>1, <2>2, MatchesOnKey
<1>10. QED
  <2> HIDE DEF row, s
  <2>1. \A col \in Columns : row[col] = s[col]
    BY Zenon, <1>8, <1>9
  <2>2. row = s
    BY Zenon, <1>3, <1>4, <2>1
  <2>3. QED
    BY Zenon, <2>2 DEF row, s

\* An INSERT of an upsert writes the source row.
LEMMA InsertWritesSource ==
    ASSUME NEW tb, NEW st, WellFormed(st), PlanError(st) = "none", UpsertByKey(st),
           NEW i \in DOMAIN st.source.rows,
           NEW j, j = [t |-> NoRow, s |-> <<i>>],
           NEW n \in DOMAIN st.clauses, st.clauses[n].action = "Insert", Op(tb, st, n, j)
    PROVE  collect_merge_clause_expressions(tb, st, j) = st.source.rows[i]
<1> DEFINE row == collect_merge_clause_expressions(tb, st, j)
           s == st.source.rows[i]
           ups(col) == {m \in Updates(st.clauses, col) : Op(tb, st, m, j)}
           ins(col) == {m \in Inserts(st.clauses, col) : Op(tb, st, m, j)}
<1>1. st \in MergeStatements /\ j.t = NoRow /\ j.s[1] = i
  BY Zenon DEF WellFormed
<1>2. DOMAIN st.clauses \in SUBSET Nat
  BY Zenon, <1>1, ClausesAreASequence
<1>3. s = [col \in Columns |-> s[col]]
  BY Zenon, <1>1, SourceRowTyped DEF TableRows
<1>4. row = [col \in Columns |-> row[col]]
  BY Zenon DEF collect_merge_clause_expressions
<1>5. ASSUME NEW col \in Columns PROVE ups(col) = {}
  <2>1. ASSUME NEW m \in DOMAIN st.clauses, st.clauses[m].action = "Update" PROVE ~ Op(tb, st, m, j)
    <3>1. st.clauses[m].kind = "Matched"
      BY Zenon, <2>1, PlannedClauses
    <3>2. QED
      BY Zenon, <1>1, <3>1 DEF Op, merge_clause_expression
  <2>2. QED
    BY Zenon, <2>1 DEF Updates
<1>6. ASSUME NEW m \in DOMAIN st.clauses, st.clauses[m].action = "Insert"
      PROVE  /\ st.clauses[m].columns = st.clauses[m].values
             /\ Range(st.clauses[m].columns) = Columns
             /\ st.clauses[m].columns \in Seq(Columns)
  <2>1. st.clauses[m] \in Clauses
    BY Zenon, <1>6, PlannedClauses
  <2>2. QED
    BY Zenon, <1>6, <2>1 DEF UpsertByKey, IsUpsert, Clauses
<1>7. ASSUME NEW col \in Columns PROVE row[col] = s[col]
  <2>1. n \in ins(col)
    BY Zenon, <1>6, <1>7 DEF Inserts
  <2> DEFINE m == Min(ins(col))
  <2>2. m \in ins(col)
    <3>1. ins(col) \in SUBSET Nat /\ ins(col) # {}
      BY Zenon, <1>2, <2>1 DEF Inserts
    <3> HIDE DEF ins
    <3>2. QED
      BY Zenon, <3>1, NaturalMin
  <2>3. m \in DOMAIN st.clauses /\ st.clauses[m].action = "Insert"
    BY Zenon, <2>2 DEF Inserts
  <2> DEFINE L == Listing(st.clauses[m], col)
  <2>4. L \in SUBSET Nat /\ L # {}
    <3>1. /\ st.clauses[m].columns \in Seq(Columns)
          /\ col \in Range(st.clauses[m].columns)
      BY Zenon, <1>6, <1>7, <2>3
    <3> HIDE DEF m
    <3>2. DOMAIN st.clauses[m].columns \in SUBSET Nat
      BY <3>1
    <3>3. QED
      BY Zenon, <3>1, <3>2 DEF Listing, Range
  <2>5. Min(L) \in L
    <3> HIDE DEF L
    <3>1. QED
      BY Zenon, <2>4, NaturalMin
  <2>6. st.clauses[m].values[Min(L)] = col
    <3>1. st.clauses[m].columns[Min(L)] = col
      BY Zenon, <2>5 DEF Listing
    <3> HIDE DEF L
    <3>2. QED
      BY Zenon, <1>6, <2>3, <3>1
  <2>7. merge_clause_projection(st, m, col, j) = s[st.clauses[m].values[Min(L)]]
    BY Zenon, <1>1, <2>3, <2>4 DEF merge_clause_projection
  <2>8. row[col] = merge_clause_projection(st, m, col, j)
    BY Zenon, <1>5, <2>1 DEF collect_merge_clause_expressions
  <2> HIDE DEF m, L, row, s
  <2>9. QED
    BY Zenon, <2>6, <2>7, <2>8
<1>8. QED
  <2> HIDE DEF row, s
  <2>1. row = s
    BY Zenon, <1>3, <1>4, <1>7
  <2>2. QED
    BY Zenon, <2>1 DEF row, s

\* A target row that no UPDATE claims is written as it was.
LEMMA NotUpdatedKept ==
    ASSUME NEW tb, TableOK(tb), NEW st, WellFormed(st), PlanError(st) = "none",
           NEW j, j.t \in RowIds(tb),
           \A n \in DOMAIN st.clauses : st.clauses[n].action = "Update" => ~ Op(tb, st, n, j)
    PROVE  collect_merge_clause_expressions(tb, st, j) = RowAt(tb, j.t)
<1>1. j.t # NoRow
  BY Zenon, RowIdParts
<1>2. RowAt(tb, j.t) = [col \in Columns |-> RowAt(tb, j.t)[col]]
  BY Zenon, RowOfTable DEF TableRows
<1>3. ASSUME NEW m \in DOMAIN st.clauses, st.clauses[m].action = "Insert" PROVE ~ Op(tb, st, m, j)
  <2>1. st.clauses[m].kind = "NotMatched"
    BY Zenon, <1>3, PlannedClauses
  <2>2. QED
    BY <1>1, <2>1 DEF Op, merge_clause_expression
<1>4. \A col \in Columns : /\ {n \in Updates(st.clauses, col) : Op(tb, st, n, j)} = {}
                           /\ {n \in Inserts(st.clauses, col) : Op(tb, st, n, j)} = {}
  BY Zenon, <1>3 DEF Updates, Inserts
<1>5. collect_merge_clause_expressions(tb, st, j) = [col \in Columns |-> RowAt(tb, j.t)[col]]
  BY Zenon, <1>1, <1>4 DEF collect_merge_clause_expressions
<1>6. QED
  BY Zenon, <1>2, <1>5

\* A source row that no INSERT claims is written without a key.
LEMMA NotInsertedNull ==
    ASSUME NEW tb, NEW st, WellFormed(st), PlanError(st) = "none", NEW j, j.t = NoRow,
           \A n \in DOMAIN st.clauses : st.clauses[n].action = "Insert" => ~ Op(tb, st, n, j)
    PROVE  collect_merge_clause_expressions(tb, st, j)[Key] = NULL
<1>1. ASSUME NEW m \in DOMAIN st.clauses, st.clauses[m].action = "Update" PROVE ~ Op(tb, st, m, j)
  <2>1. st.clauses[m].kind = "Matched"
    BY Zenon, <1>1, PlannedClauses
  <2>2. QED
    BY Zenon, <2>1 DEF Op, merge_clause_expression
<1>2. /\ {n \in Updates(st.clauses, Key) : Op(tb, st, n, j)} = {}
      /\ {n \in Inserts(st.clauses, Key) : Op(tb, st, n, j)} = {}
  BY Zenon, <1>1 DEF Updates, Inserts
<1>3. QED
  BY Zenon, <1>2, ColumnsAssumption DEF collect_merge_clause_expressions

\* Whatever is written for a pair has the key of its source row.
LEMMA PairKeepsKey ==
    ASSUME NEW tb, TableOK(tb), NEW st, WellFormed(st), PlanError(st) = "none", UpsertByKey(st),
           NEW t \in RowIds(tb), NEW i \in DOMAIN st.source.rows,
           Matches(st.on, RowAt(tb, t), st.source.rows[i]),
           NEW j, j = [t |-> t, s |-> <<i>>]
    PROVE  collect_merge_clause_expressions(tb, st, j)[Key] = st.source.rows[i][Key]
<1> DEFINE row == collect_merge_clause_expressions(tb, st, j)
<1>1. j.t = t /\ st \in MergeStatements
  BY Zenon DEF WellFormed
<1>2. RowAt(tb, t)[Key] = st.source.rows[i][Key]
  BY Zenon, <1>1, MatchesOnKey
<1>3. ASSUME NEW n \in DOMAIN st.clauses, st.clauses[n].action = "Update", Op(tb, st, n, j)
      PROVE  row = st.source.rows[i]
  BY <1>3, UpdateWritesSource
<1>4. CASE \A n \in DOMAIN st.clauses : st.clauses[n].action = "Update" => ~ Op(tb, st, n, j)
  <2>1. row = RowAt(tb, j.t)
    BY Zenon, <1>1, <1>4, NotUpdatedKept
  <2> HIDE DEF row
  <2>2. row = RowAt(tb, t)
    BY Zenon, <1>1, <2>1
  <2>3. row[Key] = st.source.rows[i][Key]
    BY Zenon, <1>2, <2>2
  <2>4. QED
    BY Zenon, <2>3 DEF row
<1>5. QED
  <2> HIDE DEF row
  <2>1. row[Key] = st.source.rows[i][Key]
    BY Zenon, <1>3, <1>4 DEF row
  <2>2. QED
    BY Zenon, <2>1 DEF row

\* A predicate looks at the rows only.
LEMMA SameRowsSameOp ==
    ASSUME NEW tb, NEW new, NEW st, NEW n, NEW j, NEW k, j.t # NoRow, k.t # NoRow, j.s = k.s,
           RowAt(tb, j.t) = RowAt(new, k.t), st.clauses[n].pred.side \in {"none", "source", "target"}
    PROVE  Op(tb, st, n, j) <=> Op(new, st, n, k)
BY DEF Op, merge_clause_expression, Predicate

\* Whether a clause claims a source row that matches nothing does not depend on
\* the table.
LEMMA SourceOpFixed ==
    ASSUME NEW tb, NEW new, NEW st, NEW n, NEW j, j.t = NoRow,
           st.clauses[n].pred.side \in {"none", "source", "target"}
    PROVE  Op(tb, st, n, j) <=> Op(new, st, n, j)
BY DEF Op, merge_clause_expression, Predicate

\* The side of a predicate.
LEMMA PredicateSide ==
    ASSUME NEW st, WellFormed(st), PlanError(st) = "none", NEW n \in DOMAIN st.clauses
    PROVE  st.clauses[n].pred.side \in {"none", "source", "target"}
<1>1. st.clauses[n] \in Clauses
  BY Zenon, PlannedClauses
<1>2. QED
  BY <1>1 DEF Clauses

\* The rows of the table an upsert has committed: a row that a source row
\* matches was written for that source row or for one with the same key.
LEMMA UpsertSettles ==
    ASSUME NEW tb, TableOK(tb), NEW st, WellFormed(st), PlanError(st) = "none", UpsertByKey(st),
           NEW f, NEW new, Replaces(tb, st, f, new)
    PROVE  Settled(new, st)
<1> DEFINE A == AffectedFiles(tb, st)
           J == Joined(tb, st)
           row(j) == collect_merge_clause_expressions(tb, st, j)
           src == st.source.rows
<1>1. st \in MergeStatements
  BY Zenon DEF WellFormed
<1>2. InnerJoin(tb, st) = SQLPairs(tb, st)
  BY Zenon, <1>1, PruningIsSound DEF UpsertByKey
<1>3. /\ \A x : x \in RowIds(new) <=> \/ x \in RowIds(tb) /\ x[1] \notin A
                                      \/ \E j \in J : x = <<f, j>>
      /\ \A x \in RowIds(tb) : x[1] \notin A => RowAt(new, x) = RowAt(tb, x)
      /\ \A j \in J : RowAt(new, <<f, j>>) = row(j)
  BY ReplacedRows
<1>4. ASSUME NEW p \in SQLPairs(tb, st)
      PROVE  /\ p[1] \in RowIds(tb) /\ p[2] \in DOMAIN src
             /\ Matches(st.on, RowAt(tb, p[1]), src[p[2]])
             /\ p[1][1] \in A
             /\ [t |-> p[1], s |-> <<p[2]>>] \in J
  <2>1. p[1][1] \in A
    BY Zenon, <1>2 DEF AffectedFiles
  <2>2. [t |-> p[1], s |-> <<p[2]>>] \in J
    BY Zenon, <1>2, JoinedShape DEF IsPair
  <2>3. QED
    BY Zenon, <2>1, <2>2, PairParts
<1>5. ASSUME NEW p \in SQLPairs(new, st), \A q \in SQLPairs(new, st) : q[1] = p[1] => q = p,
             NEW n \in DOMAIN st.clauses, st.clauses[n].action = "Update",
             Op(new, st, n, [t |-> p[1], s |-> <<p[2]>>])
      PROVE  RowAt(new, p[1]) = src[p[2]]
  <2> DEFINE x == p[1]
             i == p[2]
  <2>1. x \in RowIds(new) /\ i \in DOMAIN src /\ Matches(st.on, RowAt(new, x), src[i])
    BY Zenon, <1>5, PairParts
  <2>2. RowAt(new, x)[Key] = src[i][Key] /\ RowAt(new, x)[Key] # NULL
    <3> DEFINE r == RowAt(new, x)
               s == src[i]
    <3>1. Matches(st.on, r, s)
      BY Zenon, <2>1
    <3> HIDE DEF r, s
    <3>2. r[Key] # NULL /\ r[Key] = s[Key]
      BY Zenon, <1>1, <3>1, MatchesOnKey
    <3>3. QED
      BY Zenon, <3>2 DEF r, s
  <2>3. ASSUME NEW k \in DOMAIN src, RowAt(new, x)[Key] = src[k][Key] PROVE k = i
    <3>1. <<x, k>> \in SQLPairs(new, st)
      BY Zenon, <2>1, <2>3, SameKeyMatches
    <3>2. <<x, k>>[1] = x /\ <<x, k>>[2] = k
      BY Zenon
    <3>3. <<x, k>> = p
      BY Zenon, <1>5, <3>1, <3>2
    <3>4. QED
      BY Zenon, <3>2, <3>3
  <2>4. ASSUME NEW t \in RowIds(tb), RowAt(tb, t) = RowAt(new, x) PROVE <<t, i>> \in SQLPairs(tb, st)
    BY Zenon, <2>1, <2>2, <2>4, SameKeyMatches
  <2> HIDE DEF x, i, row, A, J, src
  <2>5. CASE x \in RowIds(tb) /\ x[1] \notin A
    <3>1. <<x, i>> \in SQLPairs(tb, st)
      BY Zenon, <1>3, <2>4, <2>5
    <3>2. <<x, i>>[1] = x
      BY Zenon
    <3>3. QED
      BY Zenon, <1>4, <2>5, <3>1, <3>2
  <2>6. ASSUME NEW j \in J, x = <<f, j>> PROVE RowAt(new, x) = src[i]
    <3>1. RowAt(new, x) = row(j)
      BY Zenon, <1>3, <2>6
    <3>2. CASE IsPair(SQLPairs(tb, st), j)
      <4>1. PICK q \in SQLPairs(tb, st) : j = [t |-> q[1], s |-> <<q[2]>>]
        BY Zenon, <3>2 DEF IsPair
      <4>2. /\ q[1] \in RowIds(tb) /\ q[2] \in DOMAIN src
            /\ Matches(st.on, RowAt(tb, q[1]), src[q[2]])
        BY Zenon, <1>4
      <4>3. row(j)[Key] = src[q[2]][Key]
        BY <4>1, <4>2, PairKeepsKey DEF row, src
      <4>4. q[2] = i
        BY Zenon, <2>3, <3>1, <4>2, <4>3
      <4>5. CASE \E m \in DOMAIN st.clauses : st.clauses[m].action = "Update" /\ Op(tb, st, m, j)
        <5>1. row(j) = src[q[2]]
          BY <4>1, <4>2, <4>5, UpdateWritesSource DEF row, src
        <5>2. QED
          BY Zenon, <3>1, <4>4, <5>1
      <4>6. CASE \A m \in DOMAIN st.clauses : st.clauses[m].action = "Update" => ~ Op(tb, st, m, j)
        <5> DEFINE k == [t |-> x, s |-> <<i>>]
        <5>1. j.t = q[1] /\ j.s = <<i>> /\ k.t = x /\ k.s = <<i>>
          BY Zenon, <4>1, <4>4
        <5>2. row(j) = RowAt(tb, j.t)
          BY Zenon, <4>2, <4>6, <5>1, NotUpdatedKept DEF row
        <5>3. j.t # NoRow /\ k.t # NoRow
          BY Zenon, <2>1, <4>2, <5>1, RowIdParts
        <5>4. Op(new, st, n, k)
          BY Zenon, <1>5 DEF x, i
        <5> HIDE DEF k
        <5>5. RowAt(tb, j.t) = RowAt(new, k.t) /\ j.s = k.s
          BY Zenon, <3>1, <5>1, <5>2
        <5>6. Op(tb, st, n, j)
          BY Zenon, <5>3, <5>4, <5>5, PredicateSide, SameRowsSameOp
        <5>7. QED
          BY Zenon, <1>5, <4>6, <5>6
      <4>7. QED
        BY Zenon, <4>5, <4>6
    <3>3. CASE IsTarget(SQLPairs(tb, st), {t \in RowIds(tb) : t[1] \in A}, j)
      <4>1. PICK t \in RowIds(tb) : (\A q \in SQLPairs(tb, st) : q[1] # t) /\ j = [t |-> t, s |-> NoRow]
        BY Zenon, <3>3 DEF IsTarget
      <4>2. j.t = t /\ j.s = NoRow /\ t # NoRow
        BY Zenon, <4>1, RowIdParts
      <4>3. row(j) = RowAt(tb, t)
        BY Zenon, <4>2, UnmatchedUnclaimed, UnclaimedKept DEF row
      <4>4. <<t, i>> \in SQLPairs(tb, st) /\ <<t, i>>[1] = t
        BY Zenon, <2>4, <3>1, <4>3
      <4>5. QED
        BY Zenon, <4>1, <4>4
    <3>4. CASE IsSource(SQLPairs(tb, st), DOMAIN src, j)
      <4>1. PICK k \in DOMAIN src : j = [t |-> NoRow, s |-> <<k>>]
        BY Zenon, <3>4 DEF IsSource
      <4>2. CASE \E m \in DOMAIN st.clauses : st.clauses[m].action = "Insert" /\ Op(tb, st, m, j)
        <5>1. row(j) = src[k]
          BY <4>1, <4>2, InsertWritesSource DEF row, src
        <5>2. k = i
          BY Zenon, <2>3, <3>1, <5>1
        <5>3. QED
          BY Zenon, <3>1, <5>1, <5>2
      <4>3. CASE \A m \in DOMAIN st.clauses : st.clauses[m].action = "Insert" => ~ Op(tb, st, m, j)
        <5>1. j.t = NoRow
          BY Zenon, <4>1
        <5>2. row(j)[Key] = NULL
          BY Zenon, <4>3, <5>1, NotInsertedNull DEF row
        <5>3. QED
          BY Zenon, <2>2, <3>1, <5>2
      <4>4. QED
        BY Zenon, <4>2, <4>3
    <3>5. QED
      BY Zenon, <1>2, <2>6, <3>2, <3>3, <3>4, JoinedShape DEF J, A, src
  <2>7. QED
    BY Zenon, <1>3, <2>1, <2>5, <2>6 DEF x, i
<1>6. ASSUME NEW i \in DOMAIN src, \A p \in SQLPairs(new, st) : p[2] # i,
             NEW n \in DOMAIN st.clauses, st.clauses[n].action = "Insert",
             Op(new, st, n, [t |-> NoRow, s |-> <<i>>])
      PROVE  FALSE
  <2>1. ASSUME NEW j \in J, row(j)[Key] = src[i][Key] PROVE FALSE
    <3>1. <<f, j>> \in RowIds(new) /\ RowAt(new, <<f, j>>)[Key] = src[i][Key]
      BY Zenon, <1>3, <2>1
    <3>2. <<<<f, j>>, i>> \in SQLPairs(new, st)
      BY Zenon, <3>1, SameKeyMatches
    <3>3. QED
      BY Zenon, <1>6, <3>2
  <2>2. CASE \E p \in SQLPairs(tb, st) : p[2] = i
    <3>1. PICK p \in SQLPairs(tb, st) : p[2] = i
      BY Zenon, <2>2
    <3> DEFINE j == [t |-> p[1], s |-> <<p[2]>>]
    <3>2. j \in J /\ p[1] \in RowIds(tb) /\ Matches(st.on, RowAt(tb, p[1]), src[p[2]])
      BY Zenon, <1>4
    <3>3. row(j)[Key] = src[p[2]][Key]
      BY <1>4, <3>2, PairKeepsKey
    <3> HIDE DEF j, row, src, J
    <3>4. QED
      BY Zenon, <2>1, <3>1, <3>2, <3>3
  <2>3. CASE \A p \in SQLPairs(tb, st) : p[2] # i
    <3> DEFINE j == [t |-> NoRow, s |-> <<i>>]
    <3>1. j \in J
      BY Zenon, <1>2, <2>3, JoinedShape DEF IsSource
    <3>2. Op(tb, st, n, j)
      <4>1. j.t = NoRow /\ Op(new, st, n, j)
        BY Zenon, <1>6
      <4> HIDE DEF j
      <4>2. QED
        BY Zenon, <4>1, PredicateSide, SourceOpFixed
    <3>3. row(j) = src[i]
      BY <1>6, <3>2, InsertWritesSource
    <3> HIDE DEF j, row, src, J
    <3>4. QED
      BY Zenon, <2>1, <3>1, <3>3
  <2>4. QED
    BY Zenon, <2>2, <2>3
<1>7. QED
  BY Zenon, <1>5, <1>6 DEF Settled

\* A supported upsert of a settled table makes each row of it what it is.
LEMMA SettledIsMerged ==
    ASSUME NEW tb, TableOK(tb), NEW st, WellFormed(st), PlanError(st) = "none", UpsertByKey(st),
           Settled(tb, st), Supported(tb, st)
    PROVE  Rows(tb) = SQLMerge(tb, st)
<1> DEFINE pairs == SQLPairs(tb, st)
           J == SQLJoined(tb, st)
<1>1. st \in MergeStatements
  BY Zenon DEF WellFormed
<1>2. SameColumns(st) /\ \A j \in J : ClaimedOnce(tb, st, j)
  BY Zenon, <1>1, SupportedParts
<1>3. \A p, q \in pairs : p[1] = q[1] => p = q
  BY Zenon DEF Supported
<1>4. ASSUME NEW i \in DOMAIN st.source.rows, \A p \in pairs : p[2] # i PROVE FALSE
  <2> DEFINE j == [t |-> NoRow, s |-> <<i>>]
  <2>1. j \in J
    BY Zenon, <1>4, SQLJoinedShape DEF IsSource
  <2>2. PICK n \in Claims(tb, st, j) : st.clauses[n].action # "Delete"
    BY Zenon, <1>2, <2>1 DEF ClaimedOnce
  <2>3. n \in DOMAIN st.clauses /\ Op(tb, st, n, j)
    BY Zenon DEF Claims
  <2>4. st.clauses[n].action = "Update" => st.clauses[n].kind = "Matched"
    BY Zenon, <2>3, PlannedClauses
  <2>5. st.clauses[n].action \in {"Update", "Insert", "Delete"}
    BY Zenon, <2>3, PlannedClauses
  <2>6. st.clauses[n].kind # "Matched"
    BY Zenon, <2>3 DEF Op, merge_clause_expression
  <2>7. st.clauses[n].action = "Insert"
    BY Zenon, <2>2, <2>4, <2>5, <2>6
  <2>8. QED
    BY Zenon, <1>4, <2>3, <2>7 DEF Settled
<1>5. ASSUME NEW j \in J
      PROVE  /\ j.t \in RowIds(tb)
             /\ \/ \E p \in pairs : j = [t |-> p[1], s |-> <<p[2]>>]
                \/ j.s = NoRow /\ j = [t |-> j.t, s |-> NoRow] /\ \A p \in pairs : p[1] # j.t
  <2>1. CASE IsPair(pairs, j)
    <3>1. PICK p \in pairs : j = [t |-> p[1], s |-> <<p[2]>>]
      BY Zenon, <2>1 DEF IsPair
    <3>2. j.t = p[1] /\ p[1] \in RowIds(tb)
      BY Zenon, <3>1, PairParts
    <3>3. QED
      BY Zenon, <3>1, <3>2
  <2>2. CASE IsTarget(pairs, RowIds(tb), j)
    <3>1. PICK t \in RowIds(tb) : (\A p \in pairs : p[1] # t) /\ j = [t |-> t, s |-> NoRow]
      BY Zenon, <2>2 DEF IsTarget
    <3>2. j.t = t /\ j.s = NoRow
      BY Zenon, <3>1
    <3>3. QED
      BY Zenon, <3>1, <3>2
  <2>3. CASE IsSource(pairs, DOMAIN st.source.rows, j)
    BY Zenon, <1>4, <2>3 DEF IsSource
  <2>4. QED
    BY Zenon, <2>1, <2>2, <2>3, SQLJoinedShape
<1>6. ASSUME NEW j \in J PROVE SQLBecomes(tb, st, j) = {RowAt(tb, j.t)}
  <2> DEFINE row == collect_merge_clause_expressions(tb, st, j)
  <2>1. j \in JoinSpace(tb, st)
    BY Zenon, JoinedInSpace
  <2>2. SQLBecomes(tb, st, j) = {row}
    BY Zenon, <1>2, <2>1, WrittenIsSQLRow
  <2>3. CASE \A n \in DOMAIN st.clauses : st.clauses[n].action = "Update" => ~ Op(tb, st, n, j)
    <3>1. row = RowAt(tb, j.t)
      BY Zenon, <1>5, <2>3, NotUpdatedKept
    <3>2. QED
      BY Zenon, <2>2, <3>1
  <2>4. ASSUME NEW n \in DOMAIN st.clauses, st.clauses[n].action = "Update", Op(tb, st, n, j)
        PROVE  row = RowAt(tb, j.t)
    <3>1. j.s # NoRow
      <4>1. st.clauses[n].kind = "Matched"
        BY Zenon, <2>4, PlannedClauses
      <4>2. QED
        BY Zenon, <2>4, <4>1 DEF Op, merge_clause_expression
    <3>2. PICK p \in pairs : j = [t |-> p[1], s |-> <<p[2]>>]
      BY Zenon, <1>5, <3>1
    <3>3. /\ p[1] \in RowIds(tb) /\ p[2] \in DOMAIN st.source.rows
          /\ Matches(st.on, RowAt(tb, p[1]), st.source.rows[p[2]])
      BY Zenon, PairParts
    <3>4. row = st.source.rows[p[2]]
      BY <2>4, <3>2, <3>3, UpdateWritesSource
    <3>5. Op(tb, st, n, [t |-> p[1], s |-> <<p[2]>>])
      BY Zenon, <2>4, <3>2
    <3>6. \A q \in pairs : q[1] = p[1] => q = p
      BY Zenon, <1>3
    <3>7. RowAt(tb, p[1]) = st.source.rows[p[2]]
      BY Zenon, <2>4, <3>5, <3>6 DEF Settled
    <3>8. j.t = p[1]
      BY Zenon, <3>2
    <3> HIDE DEF row
    <3>9. QED
      BY Zenon, <3>4, <3>7, <3>8
  <2> HIDE DEF row
  <2>5. QED
    BY Zenon, <2>2, <2>3, <2>4
<1>7. ASSUME NEW j \in J, NEW k \in J, j.t = k.t PROVE j = k
  <2> HIDE DEF J, pairs
  <2>1. ASSUME NEW p \in pairs, j = [t |-> p[1], s |-> <<p[2]>>] PROVE j = k
    <3>1. j.t = p[1]
      BY Zenon, <2>1
    <3>2. PICK q \in pairs : k = [t |-> q[1], s |-> <<q[2]>>]
      BY Zenon, <1>5, <1>7, <3>1
    <3>3. k.t = q[1]
      BY Zenon, <3>2
    <3>4. p = q
      BY Zenon, <1>3, <1>7, <3>1, <3>3
    <3>5. QED
      BY Zenon, <2>1, <3>2, <3>4
  <2>2. ASSUME j = [t |-> j.t, s |-> NoRow], \A p \in pairs : p[1] # j.t PROVE j = k
    <3>1. ASSUME NEW q \in pairs, k = [t |-> q[1], s |-> <<q[2]>>] PROVE FALSE
      <4>1. k.t = q[1]
        BY Zenon, <3>1
      <4>2. QED
        BY Zenon, <1>7, <2>2, <3>1, <4>1
    <3>2. k = [t |-> k.t, s |-> NoRow]
      BY Zenon, <1>5, <3>1
    <3>3. QED
      BY Zenon, <1>7, <2>2, <3>2
  <2>3. QED
    BY Zenon, <1>5, <2>1, <2>2
<1>8. QED
  BY Zenon, <1>1, <1>5, <1>6, <1>7, EachRowItself

-----------------------------------------------------------------------------
(* Batches *)

\* The rows of S that an action marks.
MarkedIn(tb, st, action, S) == {j \in S : Marked(tb, st, action, j)}

\* However a batch is ordered, each run of rows of one file has a first row.
LEMMA BatchFiles ==
    ASSUME NEW tb, TableOK(tb), NEW st, NEW m \in Nat, NEW batch \in [1..m -> Joined(tb, st)]
    PROVE  unique_files_and_manifests(batch, tb) = FilesOf(tb, Range(batch))
<1> DEFINE file(i) == IF batch[i].t = NoRow THEN 0 ELSE batch[i].t[1]
           first(i) == file(i) # 0 /\ (i = 1 \/ file(i) # file(i - 1))
           U == {i \in DOMAIN batch : first(i)}
           F == {j.t[1] : j \in {k \in Range(batch) : k.t # NoRow}}
<1>1. DOMAIN batch = 1..m
  BY Zenon
<1>2. ASSUME NEW i \in 1..m, batch[i].t # NoRow
      PROVE  file(i) \in Nat \ {0} /\ file(i) = batch[i].t[1]
  <2>1. batch[i] \in JoinSpace(tb, st)
    BY Zenon, JoinedInSpace
  <2>2. batch[i].t \in RowIds(tb)
    BY Zenon, <1>2, <2>1 DEF JoinSpace
  <2>3. batch[i].t[1] \in DOMAIN tb.files
    BY Zenon, <2>2, RowIdParts
  <2>4. QED
    BY Zenon, <1>2, <2>3 DEF TableOK
<1>3. F = {file(i) : i \in {k \in 1..m : file(k) # 0}}
  <2>1. \A i \in 1..m : batch[i].t # NoRow <=> file(i) # 0
    BY Zenon, <1>2
  <2>2. Range(batch) = {batch[i] : i \in 1..m}
    BY Zenon, <1>1 DEF Range
  <2>3. F = {batch[i].t[1] : i \in {k \in 1..m : batch[k].t # NoRow}}
    BY Zenon, <2>2
  <2>4. \A i \in 1..m : batch[i].t # NoRow => file(i) = batch[i].t[1]
    BY Zenon
  <2> HIDE DEF F, file
  <2>5. QED
    BY Zenon, <2>1, <2>3, <2>4
<1>4. ASSUME NEW i \in 1..m, file(i) # 0
      PROVE  \E k \in U : file(k) = file(i)
  <2> DEFINE K == {k \in 1..m : k <= i /\ \A l \in k..i : file(l) = file(i)}
             a == Min(K)
  <2> HIDE DEF file
  <2>1. i \in K /\ K \in SUBSET Nat
    OBVIOUS
  <2>2. a \in K /\ \A k \in K : a <= k
    <3> HIDE DEF K
    <3>1. QED
      BY Zenon, <2>1, NaturalMin
  <2>3. a \in 1..m /\ a <= i /\ (\A l \in a..i : file(l) = file(i)) /\ file(a) = file(i)
    BY <2>2
  <2>4. ASSUME a # 1, file(a - 1) = file(i) PROVE FALSE
    <3> HIDE DEF a
    <3>1. a - 1 \in 1..m /\ a - 1 <= i
      BY <2>3, <2>4
    <3>2. \A l \in (a - 1)..i : file(l) = file(i)
      BY <2>3, <2>4
    <3>3. a - 1 \in K
      BY Zenon, <3>1, <3>2
    <3>4. QED
      BY <2>2, <2>3, <3>1, <3>3
  <2>5. a \in U
    <3> HIDE DEF a
    <3>1. QED
      BY Zenon, <1>1, <1>4, <2>3, <2>4
  <2>6. QED
    BY Zenon, <2>3, <2>5
<1>5. F = {file(i) : i \in U}
  <2> HIDE DEF file, F
  <2>1. QED
    BY SMTT(20), <1>1, <1>3, <1>4
<1>6. unique_files_and_manifests(batch, tb) = {<<file(i), tb.files[file(i)].manifest>> : i \in U}
  BY Zenon DEF unique_files_and_manifests
<1>7. FilesOf(tb, Range(batch)) = {<<f, tb.files[f].manifest>> : f \in F}
  BY Zenon DEF FilesOf
<1>8. QED
  <2> HIDE DEF file, F, U
  <2>1. QED
    BY <1>5, <1>6, <1>7

\* Counting the marked places of a batch counts its marked rows.
LEMMA BatchCount ==
    ASSUME NEW tb, NEW st, NEW action, NEW m \in Nat, NEW S, NEW batch \in [1..m -> S], IsInjective(batch)
    PROVE  Cardinality({i \in DOMAIN batch : Marked(tb, st, action, batch[i])}) =
           Cardinality(MarkedIn(tb, st, action, Range(batch)))
<1> DEFINE P == {i \in 1..m : Marked(tb, st, action, batch[i])}
           Q == MarkedIn(tb, st, action, Range(batch))
           h == [i \in P |-> batch[i]]
<1>1. DOMAIN batch = 1..m
  BY Zenon
<1>2. IsFiniteSet(P)
  BY FS_Interval, FS_Subset
<1>3. h \in [P -> Q]
  BY Zenon, <1>1 DEF MarkedIn, Range
<1>4. \A a, b \in P : h[a] = h[b] => a = b
  BY Zenon, <1>1 DEF IsInjective
<1>5. \A j \in Q : \E i \in P : h[i] = j
  BY Zenon, <1>1 DEF MarkedIn, Range
<1> HIDE DEF P, Q, h
<1>6. h \in Bijection(P, Q)
  BY Zenon, <1>3, <1>4, <1>5 DEF Bijection, Injection, Surjection, IsInjective
<1>7. Cardinality(Q) = Cardinality(P)
  BY Zenon, <1>2, <1>6, FS_Bijection DEF ExistsBijection
<1>8. QED
  BY Zenon, <1>1, <1>7 DEF P, Q

\* What count_true_and_valid counts.
MarksOf(tb, st, action, batch) == Cardinality({i \in DOMAIN batch : Marked(tb, st, action, batch[i])})

\* Counting and collecting the rows of a batch moves them from left to done.
LEMMA BatchMoves ==
    ASSUME NEW tb, TableOK(tb), NEW st \in MergeStatements, NEW rest \in SUBSET Joined(tb, st),
           NEW batch \in Batches(rest)
    PROVE  LET J == Joined(tb, st)
               after == rest \ Range(batch)
           IN  /\ FilesOf(tb, J \ after) =
                     FilesOf(tb, J \ rest) \cup unique_files_and_manifests(batch, tb)
               /\ \A action : Cardinality(MarkedIn(tb, st, action, J \ after)) =
                     Cardinality(MarkedIn(tb, st, action, J \ rest))
                       + MarksOf(tb, st, action, batch)
<1> DEFINE J == Joined(tb, st)
           B == Range(batch)
           after == rest \ B
<1>1. PICK m \in Nat : batch \in [1..m -> rest]
  <2>1. batch \in UNION {[1..k -> rest] : k \in 1..MaxBatch}
    BY Zenon DEF Batches, Injection
  <2>2. QED
    BY SMTT(20), <2>1, BatchAssumption
<1>2. IsInjective(batch)
  BY Zenon DEF Batches, Injection
<1>3. B \in SUBSET rest
  BY Zenon, <1>1 DEF Range
<1>4. J \ after = (J \ rest) \cup B /\ (J \ rest) \cap B = {}
  BY Zenon, <1>3
<1>5. FilesOf(tb, (J \ rest) \cup B) = FilesOf(tb, J \ rest) \cup FilesOf(tb, B)
  BY Zenon DEF FilesOf
<1>6. batch \in [1..m -> J]
  BY Zenon, <1>1
<1>7. unique_files_and_manifests(batch, tb) = FilesOf(tb, B)
  BY Zenon, <1>6, BatchFiles
<1>8. ASSUME NEW action
      PROVE  Cardinality(MarkedIn(tb, st, action, J \ after)) =
                Cardinality(MarkedIn(tb, st, action, J \ rest))
                  + MarksOf(tb, st, action, batch)
  <2> DEFINE X == MarkedIn(tb, st, action, J \ rest)
             Y == MarkedIn(tb, st, action, B)
  <2>1. X \cup Y = MarkedIn(tb, st, action, J \ after) /\ X \cap Y = {}
    BY Zenon, <1>4 DEF MarkedIn
  <2>2. IsFiniteSet(X) /\ IsFiniteSet(Y)
    <3>1. IsFiniteSet(J)
      BY Zenon, JoinedFinite
    <3>2. X \in SUBSET J /\ Y \in SUBSET J
      BY Zenon, <1>3 DEF MarkedIn
    <3>3. QED
      BY Zenon, <3>1, <3>2, FS_Subset
  <2>3. Cardinality(X \cup Y) = Cardinality(X) + Cardinality(Y) - Cardinality(X \cap Y)
    BY Zenon, <2>2, FS_Union
  <2>4. Cardinality(X \cap Y) = 0
    BY Zenon, <2>1, FS_EmptySet
  <2>5. Cardinality(X) \in Nat /\ Cardinality(Y) \in Nat
    BY Zenon, <2>2, FS_CardinalityType
  <2>6. Cardinality(Y) = MarksOf(tb, st, action, batch)
    BY Zenon, <1>1, <1>2, BatchCount DEF MarksOf
  <2> HIDE DEF X, Y
  <2>7. Cardinality(X \cup Y) = Cardinality(X) + Cardinality(Y)
    BY SMTT(20), <2>3, <2>4, <2>5
  <2>8. QED
    BY Zenon, <2>1, <2>6, <2>7 DEF X
<1>9. QED
  BY Zenon, <1>4, <1>5, <1>7, <1>8

-----------------------------------------------------------------------------
(* The invariant *)

\* The states of a writer.
Control == {"idle", "stream", "commit", "done"}

\* What the stream of a statement has counted and collected so far.
Streamed(w) ==
    LET J == Joined(base[w], stmt[w])
    IN  /\ left[w] \in SUBSET J
        /\ matching[w] = FilesOf(base[w], J \ left[w])
        /\ updated[w] = Cardinality(MarkedIn(base[w], stmt[w], "Update", J \ left[w]))
        /\ inserted[w] = Cardinality(MarkedIn(base[w], stmt[w], "Insert", J \ left[w]))

\* What it hands to the sink.
Handed(w) ==
    LET J == Joined(base[w], stmt[w])
    IN  /\ grouped[w] = <<Group(FilesOf(base[w], J))>>
        /\ updated[w] = Cardinality(MarkedIn(base[w], stmt[w], "Update", J))
        /\ inserted[w] = Cardinality(MarkedIn(base[w], stmt[w], "Insert", J))

\* What the client has been told.
Told(w) ==
    LET J == Joined(base[w], stmt[w])
    IN  /\ PlanError(stmt[w]) = "none"
        /\ result[w].updated = Cardinality(MarkedIn(base[w], stmt[w], "Update", J))
        /\ result[w].inserted = Cardinality(MarkedIn(base[w], stmt[w], "Insert", J))

\* A statement that read the current snapshot read the current table.
ReadsSnapshot(w) ==
    /\ TableOK(base[w])
    /\ base[w].snapshot <= table.snapshot
    /\ base[w].snapshot = table.snapshot => base[w] = table

\* The invariant of one writer, by its state.
WriterOK(w) ==
    /\ ReadsSnapshot(w)
    /\ pc[w] \in {"stream", "commit"} => PlanError(stmt[w]) = "none"
    /\ pc[w] = "stream" => Streamed(w)
    /\ pc[w] = "commit" => Handed(w)
    /\ (pc[w] = "done" /\ result[w].status = "ok") => Told(w)

\* The variables are functions of the writers.
FunctionsOfWriters ==
    /\ pc \in [Writers -> Control]
    /\ DOMAIN base = Writers /\ DOMAIN left = Writers /\ DOMAIN matching = Writers
    /\ DOMAIN grouped = Writers /\ DOMAIN updated = Writers /\ DOMAIN inserted = Writers
    /\ DOMAIN result = Writers

\* The inductive invariant.
MergeInv ==
    /\ TableOK(table)
    /\ stmt \in Workloads
    /\ FunctionsOfWriters
    /\ \A w \in Writers : WriterOK(w)

\* The statement of each writer is well formed.
LEMMA WorkloadWellFormed ==
    ASSUME stmt \in Workloads, NEW w \in Writers
    PROVE  WellFormed(stmt[w]) /\ stmt[w] \in MergeStatements
BY SMTT(20), WorkloadsAssumption DEF WellFormed

\* The initial tables are well formed.
LEMMA InitialTableOK ==
    ASSUME NEW content \in Tables
    PROVE  TableOK([snapshot |-> 0, files |-> content])
<1>1. content \in Seq([manifest : Nat, rows : Seq(TableRows)])
  BY Zenon, TablesAssumption
<1>2. DOMAIN content = 1..Len(content) /\ Len(content) \in Nat
  BY <1>1
<1>3. IsFiniteSet(DOMAIN content)
  BY <1>2, FS_Interval
<1>4. ASSUME NEW f \in DOMAIN content
      PROVE  /\ IsFiniteSet(DOMAIN content[f].rows)
             /\ \A i \in DOMAIN content[f].rows : content[f].rows[i] \in TableRows
  <2> DEFINE Files == [manifest : Nat, rows : Seq(TableRows)]
  <2>1. content[f] \in Files
    <3> HIDE DEF Files
    <3>1. content \in Seq(Files)
      BY Zenon, <1>1 DEF Files
    <3>2. QED
      BY <1>2, <3>1
  <2>2. content[f].rows \in Seq(TableRows)
    BY Zenon, <2>1
  <2>3. DOMAIN content[f].rows = 1..Len(content[f].rows) /\ Len(content[f].rows) \in Nat
    BY <2>2
  <2>4. IsFiniteSet(1..Len(content[f].rows))
    BY <2>3, FS_Interval
  <2>5. QED
    BY <2>2, <2>3, <2>4
<1>5. DOMAIN content \in SUBSET (Nat \ {0})
  BY <1>2
<1>6. QED
  BY Zenon, <1>3, <1>4, <1>5 DEF TableOK

\* MergeInv holds initially.
LEMMA InitMergeInv == Init => MergeInv
<1>1. SUFFICES ASSUME Init PROVE MergeInv
  BY Zenon
<1>2. TableOK(table) /\ table.snapshot \in Nat
  BY Zenon, <1>1, InitialTableOK DEF Init, TableOK
<1>3. stmt \in Workloads /\ FunctionsOfWriters
  BY Zenon, <1>1 DEF Init, FunctionsOfWriters, Control
<1>4. ASSUME NEW w \in Writers PROVE WriterOK(w)
  <2>1. base[w] = table /\ pc[w] = "idle"
    BY Zenon, <1>1 DEF Init
  <2>2. QED
    BY <1>2, <2>1 DEF WriterOK, ReadsSnapshot
<1>5. QED
  BY Zenon, <1>2, <1>3, <1>4 DEF MergeInv

\* A step of one writer leaves the others alone, whether it commits or not.
LEMMA OtherWriterKept ==
    ASSUME NEW x \in Writers, WriterOK(x), TableOK(table),
           table' = table \/ (table'.snapshot \in Nat /\ table'.snapshot > table.snapshot),
           stmt' = stmt, pc'[x] = pc[x], base'[x] = base[x], left'[x] = left[x],
           matching'[x] = matching[x], grouped'[x] = grouped[x],
           updated'[x] = updated[x], inserted'[x] = inserted[x], result'[x] = result[x]
    PROVE  WriterOK(x)'
<1>1. ReadsSnapshot(x)'
  <2>1. base[x].snapshot \in Nat /\ table.snapshot \in Nat
    BY Zenon DEF WriterOK, ReadsSnapshot, TableOK
  <2>2. QED
    BY SMTT(20), <2>1 DEF WriterOK, ReadsSnapshot
<1>2. QED
  BY Zenon, <1>1 DEF WriterOK, Streamed, Handed, Told

\* Planning and loading the table keeps MergeInv.
LEMMA PlanKeepsInv ==
    ASSUME MergeInv, NEW w \in Writers, Plan(w)
    PROVE  MergeInv'
<1>1. table' = table /\ stmt' = stmt
  BY Zenon DEF Plan
<1>2. TableOK(table) /\ stmt \in Workloads /\ FunctionsOfWriters
  BY Zenon DEF MergeInv
<1>3. FunctionsOfWriters'
  BY Zenon, <1>2 DEF Plan, FunctionsOfWriters, Control
<1>4. ASSUME NEW x \in Writers, x # w PROVE WriterOK(x)'
  <2>1. WriterOK(x)
    BY Zenon DEF MergeInv
  <2>2. /\ pc'[x] = pc[x] /\ base'[x] = base[x] /\ left'[x] = left[x]
        /\ matching'[x] = matching[x] /\ grouped'[x] = grouped[x]
        /\ updated'[x] = updated[x] /\ inserted'[x] = inserted[x] /\ result'[x] = result[x]
    BY <1>2, <1>4 DEF Plan, FunctionsOfWriters
  <2>3. QED
    BY Zenon, <1>1, <1>2, <2>1, <2>2, OtherWriterKept
<1>5. WriterOK(w)'
  <2>1. WriterOK(w)
    BY Zenon DEF MergeInv
  <2>2. CASE PlanError(stmt[w]) # "none"
    <3>1. /\ pc'[w] = "done" /\ result'[w] = Failed(PlanError(stmt[w])) /\ base'[w] = base[w]
      BY Zenon, <1>2, <2>2 DEF Plan, FunctionsOfWriters
    <3>2. PlanError(stmt[w]) # "ok"
      BY Zenon DEF PlanError, ClauseError
    <3>3. QED
      BY SMTT(20), <1>1, <2>1, <3>1, <3>2 DEF WriterOK, ReadsSnapshot, Failed
  <2>3. CASE PlanError(stmt[w]) = "none"
    <3> DEFINE J == Joined(table, stmt[w])
    <3>1. /\ pc'[w] = "stream" /\ base'[w] = table /\ left'[w] = J
          /\ matching'[w] = {} /\ updated'[w] = 0 /\ inserted'[w] = 0
      BY Zenon, <1>2, <2>3 DEF Plan, FunctionsOfWriters
    <3>2. J \ J = {} /\ FilesOf(table, {}) = {}
      BY Zenon DEF FilesOf
    <3>3. \A a : Cardinality(MarkedIn(table, stmt[w], a, {})) = 0
      BY Zenon, FS_EmptySet DEF MarkedIn
    <3>4. Streamed(w)'
      BY Zenon, <1>1, <3>1, <3>2, <3>3 DEF Streamed
    <3>5. ReadsSnapshot(w)'
      BY SMTT(20), <1>1, <1>2, <3>1 DEF ReadsSnapshot, TableOK
    <3>6. QED
      BY Zenon, <1>1, <2>3, <3>1, <3>4, <3>5 DEF WriterOK
  <2>4. QED
    BY Zenon, <2>2, <2>3
<1>6. QED
  BY Zenon, <1>1, <1>2, <1>3, <1>4, <1>5 DEF MergeInv

\* A batch keeps MergeInv.
LEMMA PollBatchKeepsInv ==
    ASSUME MergeInv, NEW w \in Writers, PollBatch(w)
    PROVE  MergeInv'
<1>1. table' = table /\ stmt' = stmt
  BY Zenon DEF PollBatch
<1>2. TableOK(table) /\ stmt \in Workloads /\ FunctionsOfWriters
  BY DEF MergeInv
<1>3. FunctionsOfWriters'
  BY Zenon, <1>2 DEF PollBatch, FunctionsOfWriters, Control
<1>4. ASSUME NEW x \in Writers, x # w PROVE WriterOK(x)'
  <2>1. WriterOK(x)
    BY DEF MergeInv
  <2>2. /\ pc'[x] = pc[x] /\ base'[x] = base[x] /\ left'[x] = left[x]
        /\ matching'[x] = matching[x] /\ grouped'[x] = grouped[x]
        /\ updated'[x] = updated[x] /\ inserted'[x] = inserted[x] /\ result'[x] = result[x]
    BY Zenon, <1>2, <1>4 DEF PollBatch, FunctionsOfWriters
  <2>3. QED
    BY SMTT(20), <1>1, <1>2, <2>1, <2>2, OtherWriterKept
<1>5. WriterOK(w)'
  <2>1. WriterOK(w) /\ pc[w] = "stream" /\ Streamed(w) /\ TableOK(base[w])
    BY Zenon DEF MergeInv, PollBatch, WriterOK, ReadsSnapshot
  <2>2. stmt[w] \in MergeStatements
    BY Zenon, <1>2, WorkloadWellFormed
  <2>3. PICK batch \in Batches(left[w]) :
          /\ left' = [left EXCEPT ![w] = @ \ Range(batch)]
          /\ matching' = [matching EXCEPT ![w] = @ \cup unique_files_and_manifests(batch, base[w])]
          /\ updated' = [updated EXCEPT ![w] = @ + count_true_and_valid(w, batch, "Update")]
          /\ inserted' = [inserted EXCEPT ![w] = @ + count_true_and_valid(w, batch, "Insert")]
    BY Zenon DEF PollBatch
  <2>4. /\ left'[w] = left[w] \ Range(batch)
        /\ matching'[w] = matching[w] \cup unique_files_and_manifests(batch, base[w])
        /\ updated'[w] = updated[w] + count_true_and_valid(w, batch, "Update")
        /\ inserted'[w] = inserted[w] + count_true_and_valid(w, batch, "Insert")
        /\ pc'[w] = "stream" /\ base'[w] = base[w]
    BY Zenon, <1>2, <2>1, <2>3 DEF FunctionsOfWriters, PollBatch
  <2> DEFINE J == Joined(base[w], stmt[w])
             after == left[w] \ Range(batch)
  <2>5. left[w] \in SUBSET J
    BY Zenon, <2>1 DEF Streamed
  <2>6. /\ FilesOf(base[w], J \ after) =
              FilesOf(base[w], J \ left[w]) \cup unique_files_and_manifests(batch, base[w])
        /\ \A action : Cardinality(MarkedIn(base[w], stmt[w], action, J \ after)) =
              Cardinality(MarkedIn(base[w], stmt[w], action, J \ left[w]))
                + MarksOf(base[w], stmt[w], action, batch)
    BY Zenon, <2>1, <2>2, <2>5, BatchMoves
  <2>7. Streamed(w)'
    BY Zenon, <1>1, <2>1, <2>4, <2>5, <2>6 DEF Streamed, MarksOf, count_true_and_valid
  <2>8. QED
    BY Zenon, <1>1, <2>1, <2>4, <2>7 DEF WriterOK, ReadsSnapshot
<1>6. QED
  BY <1>1, <1>2, <1>3, <1>4, <1>5 DEF MergeInv

\* An error of the stream keeps MergeInv.
LEMMA PollErrorKeepsInv ==
    ASSUME MergeInv, NEW w \in Writers, PollError(w)
    PROVE  MergeInv'
<1>1. table' = table /\ stmt' = stmt
  BY Zenon DEF PollError
<1>2. TableOK(table) /\ stmt \in Workloads /\ FunctionsOfWriters
  BY DEF MergeInv
<1>3. FunctionsOfWriters'
  BY Zenon, <1>2 DEF PollError, FunctionsOfWriters, Control
<1>4. ASSUME NEW x \in Writers, x # w PROVE WriterOK(x)'
  <2>1. WriterOK(x)
    BY DEF MergeInv
  <2>2. /\ pc'[x] = pc[x] /\ base'[x] = base[x] /\ left'[x] = left[x]
        /\ matching'[x] = matching[x] /\ grouped'[x] = grouped[x]
        /\ updated'[x] = updated[x] /\ inserted'[x] = inserted[x] /\ result'[x] = result[x]
    BY Zenon, <1>2, <1>4 DEF PollError, FunctionsOfWriters
  <2>3. QED
    BY <1>1, <1>2, <2>1, <2>2, OtherWriterKept
<1>5. WriterOK(w)'
  <2>1. ReadsSnapshot(w)
    BY Zenon DEF MergeInv, WriterOK
  <2>2. pc'[w] = "done" /\ result'[w] = Failed("stream_error") /\ base'[w] = base[w]
    BY Zenon, <1>2 DEF PollError, FunctionsOfWriters
  <2>3. QED
    BY SMTT(20), <1>1, <2>1, <2>2 DEF WriterOK, ReadsSnapshot, Failed
<1>6. QED
  BY <1>1, <1>2, <1>3, <1>4, <1>5 DEF MergeInv

\* The end of the stream keeps MergeInv.
LEMMA PollEndKeepsInv ==
    ASSUME MergeInv, NEW w \in Writers, PollEnd(w)
    PROVE  MergeInv'
<1>1. table' = table /\ stmt' = stmt
  BY Zenon DEF PollEnd
<1>2. TableOK(table) /\ stmt \in Workloads /\ FunctionsOfWriters
  BY DEF MergeInv
<1>3. FunctionsOfWriters'
  BY Zenon, <1>2 DEF PollEnd, FunctionsOfWriters, Control
<1>4. ASSUME NEW x \in Writers, x # w PROVE WriterOK(x)'
  <2>1. WriterOK(x)
    BY DEF MergeInv
  <2>2. /\ pc'[x] = pc[x] /\ base'[x] = base[x] /\ left'[x] = left[x]
        /\ matching'[x] = matching[x] /\ grouped'[x] = grouped[x]
        /\ updated'[x] = updated[x] /\ inserted'[x] = inserted[x] /\ result'[x] = result[x]
    BY Zenon, <1>2, <1>4 DEF PollEnd, FunctionsOfWriters
  <2>3. QED
    BY <1>1, <1>2, <2>1, <2>2, OtherWriterKept
<1>5. WriterOK(w)'
  <2>1. /\ ReadsSnapshot(w) /\ Streamed(w) /\ PlanError(stmt[w]) = "none" /\ left[w] = {}
    BY Zenon DEF MergeInv, WriterOK, PollEnd
  <2>2. /\ pc'[w] = "commit" /\ base'[w] = base[w]
        /\ grouped'[w] = <<Group(matching[w])>>
        /\ updated'[w] = updated[w] /\ inserted'[w] = inserted[w]
    BY Zenon, <1>2 DEF PollEnd, FunctionsOfWriters
  <2>3. \A S : S \ {} = S
    BY Zenon
  <2>4. Handed(w)'
    BY Zenon, <1>1, <2>1, <2>2, <2>3 DEF Streamed, Handed
  <2>5. QED
    BY Zenon, <1>1, <2>1, <2>2, <2>4 DEF WriterOK, ReadsSnapshot
<1>6. QED
  BY <1>1, <1>2, <1>3, <1>4, <1>5 DEF MergeInv

\* Sending the statement again keeps MergeInv.
LEMMA AgainKeepsInv ==
    ASSUME MergeInv, NEW w \in Writers, Again(w)
    PROVE  MergeInv'
<1>1. table' = table /\ stmt' = stmt
  BY Zenon DEF Again
<1>2. TableOK(table) /\ stmt \in Workloads /\ FunctionsOfWriters
  BY DEF MergeInv
<1>3. FunctionsOfWriters'
  BY Zenon, <1>2 DEF Again, FunctionsOfWriters, Control
<1>4. ASSUME NEW x \in Writers, x # w PROVE WriterOK(x)'
  <2>1. WriterOK(x)
    BY DEF MergeInv
  <2>2. /\ pc'[x] = pc[x] /\ base'[x] = base[x] /\ left'[x] = left[x]
        /\ matching'[x] = matching[x] /\ grouped'[x] = grouped[x]
        /\ updated'[x] = updated[x] /\ inserted'[x] = inserted[x] /\ result'[x] = result[x]
    BY Zenon, <1>2, <1>4 DEF Again, FunctionsOfWriters
  <2>3. QED
    BY <1>1, <1>2, <2>1, <2>2, OtherWriterKept
<1>5. WriterOK(w)'
  <2>1. ReadsSnapshot(w) /\ base' = base /\ pc'[w] = "idle"
    BY Zenon, <1>2 DEF MergeInv, WriterOK, Again, FunctionsOfWriters
  <2>2. QED
    BY Zenon, <1>1, <2>1 DEF WriterOK, ReadsSnapshot
<1>6. QED
  BY <1>1, <1>2, <1>3, <1>4, <1>5 DEF MergeInv

\* What a commit finds and what it does to the table.
LEMMA CommitCases ==
    ASSUME MergeInv, NEW w \in Writers, Commit(w)
    PROVE  /\ WellFormed(stmt[w]) /\ PlanError(stmt[w]) = "none"
           /\ \/ Joined(base[w], stmt[w]) = {} /\ table' = table /\ result'[w] = Answer(w)
              \/ table' = table /\ result'[w] = Failed("conflict")
              \/ /\ base[w] = table /\ result'[w] = Answer(w)
                 /\ \E f : Replaces(table, stmt[w], f, table')
<1> DEFINE rows == Written(w)
           files == grouped[w][1]
           J == Joined(base[w], stmt[w])
<1>1. /\ WriterOK(w) /\ pc[w] = "commit" /\ Handed(w) /\ TableOK(base[w])
      /\ PlanError(stmt[w]) = "none" /\ FunctionsOfWriters /\ stmt \in Workloads
  BY Zenon DEF MergeInv, Commit, WriterOK, ReadsSnapshot
<1>2. WellFormed(stmt[w])
  BY Zenon, <1>1, WorkloadWellFormed
<1>3. files = Group(FilesOf(base[w], J))
  BY SMTT(20), <1>1 DEF Handed
<1>4. rows = [j \in J |-> collect_merge_clause_expressions(base[w], stmt[w], j)]
  BY Zenon DEF Written
<1>5. rows = <<>> => J = {}
  <2>1. DOMAIN rows = J
    BY Zenon, <1>4
  <2>2. DOMAIN <<>> = {}
    BY SMTT(20)
  <2>3. QED
    BY Zenon, <2>1, <2>2
<1> HIDE DEF rows, files
<1>6. \/ /\ rows = <<>> /\ table' = table /\ result'[w] = Answer(w)
      \/ /\ rows # <<>> /\ table.snapshot = base[w].snapshot
         /\ table' = IF DOMAIN files = {} THEN AppendData(base[w], rows)
                     ELSE Overwrite(base[w], rows, files)
         /\ result'[w] = Answer(w)
      \/ table' = table /\ result'[w] = Failed("conflict")
  BY Zenon, <1>1 DEF Commit, rows, files, FunctionsOfWriters
<1>7. CASE /\ table.snapshot = base[w].snapshot
           /\ table' = IF DOMAIN files = {} THEN AppendData(base[w], rows)
                       ELSE Overwrite(base[w], rows, files)
           /\ result'[w] = Answer(w)
  <2>1. base[w] = table
    BY Zenon, <1>1, <1>7 DEF WriterOK, ReadsSnapshot
  <2>2. \E f : Replaces(base[w], stmt[w], f, IF DOMAIN files = {} THEN AppendData(base[w], rows)
                                             ELSE Overwrite(base[w], rows, files))
    BY Zenon, <1>1, <1>3, <1>4, OverwriteReplaces
  <2>3. QED
    BY Zenon, <1>1, <1>2, <1>7, <2>1, <2>2
<1>8. QED
  BY Zenon, <1>1, <1>2, <1>5, <1>6, <1>7

\* A replaced table is well formed and has the next snapshot.
LEMMA ReplacedTable ==
    ASSUME NEW tb, TableOK(tb), NEW st, WellFormed(st), PlanError(st) = "none",
           NEW f, NEW new, Replaces(tb, st, f, new)
    PROVE  TableOK(new) /\ new.snapshot = tb.snapshot + 1
<1>1. TableOK(new)
  BY Zenon, ReplacedFiles
<1>2. new.snapshot = tb.snapshot + 1
  BY Zenon DEF Replaces
<1>3. QED
  BY Zenon, <1>1, <1>2

\* The result row holds the counts of marked rows, 0 for an action the
\* statement does not have.
LEMMA AnswerIsCounts ==
    ASSUME NEW w \in Writers, Handed(w)
    PROVE  LET J == Joined(base[w], stmt[w])
           IN  /\ Answer(w).updated = Cardinality(MarkedIn(base[w], stmt[w], "Update", J))
               /\ Answer(w).inserted = Cardinality(MarkedIn(base[w], stmt[w], "Insert", J))
<1> DEFINE J == Joined(base[w], stmt[w])
           has(a) == \E n \in DOMAIN stmt[w].clauses : stmt[w].clauses[n].action = a
<1>1. ASSUME NEW a, ~ has(a) PROVE Cardinality(MarkedIn(base[w], stmt[w], a, J)) = 0
  <2>1. MarkedIn(base[w], stmt[w], a, J) = {}
    BY Zenon, <1>1 DEF MarkedIn, Marked
  <2>2. QED
    BY Zenon, <2>1, FS_EmptySet
<1>2. /\ Answer(w).updated = IF has("Update") THEN updated[w] ELSE 0
      /\ Answer(w).inserted = IF has("Insert") THEN inserted[w] ELSE 0
  BY Zenon DEF Answer
<1>3. /\ updated[w] = Cardinality(MarkedIn(base[w], stmt[w], "Update", J))
      /\ inserted[w] = Cardinality(MarkedIn(base[w], stmt[w], "Insert", J))
  BY Zenon DEF Handed
<1> HIDE DEF J, has
<1>4. QED
  BY Zenon, <1>1, <1>2, <1>3 DEF J

\* A commit, also one that fails for a conflict, keeps MergeInv.
LEMMA CommitKeepsInv ==
    ASSUME MergeInv, NEW w \in Writers, Commit(w)
    PROVE  MergeInv'
<1>1. /\ TableOK(table) /\ stmt \in Workloads /\ FunctionsOfWriters /\ stmt' = stmt
      /\ Handed(w) /\ ReadsSnapshot(w)
  BY Zenon DEF MergeInv, WriterOK, Commit
<1>2. /\ WellFormed(stmt[w]) /\ PlanError(stmt[w]) = "none"
      /\ \/ table' = table /\ result'[w] = Answer(w)
         \/ table' = table /\ result'[w] = Failed("conflict")
         \/ /\ base[w] = table /\ result'[w] = Answer(w)
            /\ \E f : Replaces(table, stmt[w], f, table')
  BY Zenon, CommitCases
<1>3. \/ table' = table
      \/ /\ TableOK(table') /\ table'.snapshot \in Nat /\ table'.snapshot > table.snapshot
  <2>1. ASSUME NEW f, Replaces(table, stmt[w], f, table')
        PROVE  /\ TableOK(table') /\ table'.snapshot \in Nat /\ table'.snapshot > table.snapshot
    <3>1. TableOK(table') /\ table'.snapshot = table.snapshot + 1
      <4>1. ASSUME NEW new, Replaces(table, stmt[w], f, new)
            PROVE  TableOK(new) /\ new.snapshot = table.snapshot + 1
        BY Zenon, <1>1, <1>2, <4>1, ReplacedTable
      <4>2. QED
        BY Zenon, <2>1, <4>1
    <3>2. table.snapshot \in Nat
      BY Zenon, <1>1 DEF TableOK
    <3>3. QED
      BY <3>1, <3>2
  <2>2. QED
    BY Zenon, <1>2, <2>1
<1>4. FunctionsOfWriters'
  BY Zenon, <1>1 DEF Commit, FunctionsOfWriters, Control
<1>5. ASSUME NEW x \in Writers, x # w PROVE WriterOK(x)'
  <2>1. WriterOK(x)
    BY DEF MergeInv
  <2>2. /\ pc'[x] = pc[x] /\ base'[x] = base[x] /\ left'[x] = left[x]
        /\ matching'[x] = matching[x] /\ grouped'[x] = grouped[x]
        /\ updated'[x] = updated[x] /\ inserted'[x] = inserted[x] /\ result'[x] = result[x]
    BY Zenon, <1>1, <1>5 DEF Commit, FunctionsOfWriters
  <2>3. QED
    BY Zenon, <1>1, <1>3, <2>1, <2>2, OtherWriterKept
<1>6. WriterOK(w)'
  <2>1. pc'[w] = "done" /\ base' = base
    BY Zenon, <1>1 DEF Commit, FunctionsOfWriters
  <2>2. ReadsSnapshot(w)'
    <3>1. base[w].snapshot \in Nat /\ table.snapshot \in Nat
      BY Zenon, <1>1 DEF ReadsSnapshot, TableOK
    <3>2. QED
      BY SMTT(20), <1>1, <1>3, <2>1, <3>1 DEF ReadsSnapshot
  <2>3. CASE result'[w] = Failed("conflict")
    BY SMTT(20), <2>1, <2>2, <2>3 DEF WriterOK, Failed
  <2>4. CASE result'[w] = Answer(w)
    <3>1. Told(w)'
      BY Zenon, <1>1, <1>2, <2>1, <2>4, AnswerIsCounts DEF Told
    <3>2. QED
      BY Zenon, <2>1, <2>2, <3>1 DEF WriterOK
  <2>5. QED
    BY Zenon, <1>2, <2>3, <2>4
<1>7. TableOK(table')
  BY Zenon, <1>1, <1>3
<1>8. QED
  BY Zenon, <1>1, <1>4, <1>5, <1>6, <1>7 DEF MergeInv

\* Every step keeps MergeInv.
LEMMA NextMergeInv ==
    ASSUME MergeInv, [Next]_vars
    PROVE  MergeInv'
<1>1. CASE UNCHANGED vars
  <2>1. ASSUME NEW x \in Writers PROVE WriterOK(x)'
    BY Zenon, <1>1, <2>1 DEF MergeInv, WriterOK, ReadsSnapshot, Streamed, Handed, Told, vars
  <2>2. QED
    BY Zenon, <1>1, <2>1 DEF MergeInv, FunctionsOfWriters, vars
<1>2. ASSUME NEW w \in Writers, Step(w) PROVE MergeInv'
  BY Zenon, <1>2, PlanKeepsInv, PollBatchKeepsInv, PollErrorKeepsInv, PollEndKeepsInv, CommitKeepsInv,
     AgainKeepsInv DEF Step
<1>3. CASE Done
  BY Zenon, <1>1, <1>3 DEF Done
<1>4. QED
  BY Zenon, <1>1, <1>2, <1>3 DEF Next

\* MergeInv always holds: what a writer has collected, counted and grouped is
\* that of the rows it has been handed of the join over the snapshot it read,
\* and a writer whose snapshot is current has read the current table.
THEOREM MergeInvariant == Spec => []MergeInv
<1>1. Init => MergeInv
  BY Zenon, InitMergeInv
<1>2. MergeInv /\ [Next]_vars => MergeInv'
  BY Zenon, NextMergeInv
<1>3. QED
  BY <1>1, <1>2, PTL DEF Spec

-----------------------------------------------------------------------------
(* The results *)

\* Under Supported the marked rows of the plan are those SQL's MERGE updates
\* or inserts.
LEMMA MarkedIsClaimed ==
    ASSUME NEW tb, TableOK(tb), NEW st, WellFormed(st), Supported(tb, st), NEW a
    PROVE  MarkedIn(tb, st, a, Joined(tb, st)) =
             {j \in SQLJoined(tb, st) :
                 \E n \in DOMAIN st.clauses : st.clauses[n].action = a /\ SQLClause(tb, st, j) = n}
<1>1. st \in MergeStatements
  BY Zenon DEF WellFormed
<1>2. /\ InnerJoin(tb, st) = SQLPairs(tb, st)
      /\ \A j \in SQLJoined(tb, st) : ClaimedOnce(tb, st, j)
  BY Zenon, <1>1, SupportedParts
<1>3. ASSUME NEW j \in SQLJoined(tb, st)
      PROVE  Marked(tb, st, a, j) <=>
               \E n \in DOMAIN st.clauses : st.clauses[n].action = a /\ SQLClause(tb, st, j) = n
  <2>1. Marked(tb, st, a, j) <=> \E n \in Claims(tb, st, j) : st.clauses[n].action = a
    BY Zenon DEF Marked, Claims
  <2>2. CASE Claims(tb, st, j) = {}
    <3>1. SQLClause(tb, st, j) = 0
      BY Zenon, <1>1, <2>2, SQLClauseIsFirstClaim
    <3>2. 0 \notin DOMAIN st.clauses
      BY Zenon, <1>1, ClausesAreASequence
    <3>3. QED
      BY Zenon, <2>1, <2>2, <3>1, <3>2
  <2>3. CASE \E n : Claims(tb, st, j) = {n}
    <3>1. PICK n : Claims(tb, st, j) = {n}
      BY Zenon, <2>3
    <3>2. n \in DOMAIN st.clauses /\ n \in Nat
      BY Zenon, <1>1, <3>1, ClausesAreASequence DEF Claims
    <3>3. SQLClause(tb, st, j) = n
      BY Zenon, <1>1, <3>1, <3>2, SQLClauseIsFirstClaim, SingletonMin
    <3>4. QED
      BY Zenon, <2>1, <3>1, <3>2, <3>3
  <2>4. QED
    BY Zenon, <1>2, <2>2, <2>3 DEF ClaimedOnce
<1>4. ASSUME NEW j \in SQLJoined(tb, st), Marked(tb, st, a, j) PROVE j \in Joined(tb, st)
  <2>1. SUFFICES ASSUME NEW t \in RowIds(tb), j = [t |-> t, s |-> NoRow] PROVE FALSE
    BY Zenon, <1>2, SQLJoinedSplit
  <2>2. j.t # NoRow /\ j.s = NoRow
    BY Zenon, <2>1, RowIdParts
  <2>3. Claims(tb, st, j) = {}
    BY Zenon, <2>2, UnmatchedUnclaimed
  <2>4. QED
    BY Zenon, <1>4, <2>3 DEF Marked, Claims
<1>5. Joined(tb, st) \subseteq SQLJoined(tb, st)
  BY Zenon, <1>2, SQLJoinedSplit
<1>6. QED
  BY Zenon, <1>3, <1>4, <1>5 DEF MarkedIn

\* The counts that a client reads of a supported statement are the numbers of
\* rows SQL's MERGE updates and inserts, however the rows came in batches and
\* whatever other writers committed meanwhile.
THEOREM CountsExact == Spec => []CountsAreExact
<1>1. MergeInv => CountsAreExact
  <2>1. SUFFICES ASSUME MergeInv, NEW w \in Writers,
                        pc[w] = "done", result[w].status = "ok", Supported(base[w], stmt[w])
                 PROVE  LET claimed(a) == {j \in SQLJoined(base[w], stmt[w]) :
                              \E n \in DOMAIN stmt[w].clauses :
                                 stmt[w].clauses[n].action = a /\ SQLClause(base[w], stmt[w], j) = n}
                        IN  /\ result[w].updated = Cardinality(claimed("Update"))
                            /\ result[w].inserted = Cardinality(claimed("Insert"))
    BY Zenon DEF CountsAreExact
  <2>2. TableOK(base[w]) /\ Told(w) /\ stmt \in Workloads
    BY Zenon, <2>1 DEF MergeInv, WriterOK, ReadsSnapshot
  <2>3. WellFormed(stmt[w])
    BY Zenon, <2>2, WorkloadWellFormed
  <2>4. ASSUME NEW a
        PROVE  MarkedIn(base[w], stmt[w], a, Joined(base[w], stmt[w])) =
                 {j \in SQLJoined(base[w], stmt[w]) :
                     \E n \in DOMAIN stmt[w].clauses :
                        stmt[w].clauses[n].action = a /\ SQLClause(base[w], stmt[w], j) = n}
    BY SMTT(20), <2>1, <2>2, <2>3, MarkedIsClaimed
  <2>5. QED
    BY Zenon, <2>1, <2>2, <2>4 DEF Told
<1>2. QED
  BY <1>1, MergeInvariant, PTL

\* A table that a commit leaves as it is keeps all its rows.
LEMMA UnchangedLosesNoRow ==
    ASSUME NEW tb, TableOK(tb), NEW st, NEW t \in Unmatched(tb, st)
    PROVE  Cardinality({u \in Unmatched(tb, st) : RowAt(tb, u) = RowAt(tb, t)})
              <= CountOf(Rows(tb), RowAt(tb, t))
<1> DEFINE U == {u \in Unmatched(tb, st) : RowAt(tb, u) = RowAt(tb, t)}
           V == {u \in RowIds(tb) : RowAt(tb, u) = RowAt(tb, t)}
<1>1. U \subseteq V /\ V \subseteq RowIds(tb)
  BY Zenon DEF Unmatched
<1>2. IsFiniteSet(V)
  BY Zenon, <1>1, RowsFinite, FS_Subset
<1>3. Cardinality(U) <= Cardinality(V)
  BY Zenon, <1>1, <1>2, FS_Subset
<1>4. CountOf(Rows(tb), RowAt(tb, t)) = Cardinality(V)
  BY Zenon, CountOfRow
<1>5. QED
  BY Zenon, <1>3, <1>4

\* No commit, of whatever statement the planner accepts, drops a row of the
\* table that no source row matches.
THEOREM NoRowLost == Spec => NoTargetRowLost
<1> DEFINE Keeps(w, new) ==
      LET hit == {p[1] : p \in SQLPairs(table, stmt[w])}
          kept == {t \in RowIds(table) : t \notin hit}
      IN  \A t \in kept :
             Cardinality({u \in kept : RowAt(table, u) = RowAt(table, t)})
               <= CountOf(Rows(new), RowAt(table, t))
<1>1. ASSUME MergeInv, NEW w \in Writers, Commit(w) PROVE Keeps(w, table')
  <2>1. TableOK(table)
    BY Zenon, <1>1 DEF MergeInv
  <2>2. /\ WellFormed(stmt[w]) /\ PlanError(stmt[w]) = "none"
        /\ table' = table \/ \E f : Replaces(table, stmt[w], f, table')
    BY Zenon, <1>1, CommitCases
  <2>3. ASSUME NEW new, NEW f, Replaces(table, stmt[w], f, new) PROVE Keeps(w, new)
    BY Zenon, <2>1, <2>2, <2>3, ReplacingLosesNoRow DEF Unmatched
  <2>4. Keeps(w, table)
    BY Zenon, <2>1, UnchangedLosesNoRow DEF Unmatched
  <2> HIDE DEF Keeps
  <2>5. QED
    BY Zenon, <2>2, <2>3, <2>4
<1>2. MergeInv /\ [Next]_vars =>
        [\A w \in Writers : Commit(w) =>
            LET hit == {p[1] : p \in SQLPairs(table, stmt[w])}
                kept == {t \in RowIds(table) : t \notin hit}
            IN  \A t \in kept :
                   Cardinality({u \in kept : RowAt(table, u) = RowAt(table, t)})
                     <= CountOf(Rows(table'), RowAt(table, t))]_vars
  BY Zenon, <1>1
<1>3. QED
  BY <1>2, MergeInvariant, PTL DEF Spec, NoTargetRowLost

\* A commit that answers a supported statement makes of the rows that are
\* current what SQL's MERGE makes of them, in whatever order writers plan,
\* stream and commit.
THEOREM CommitMerges == Spec => CommitIsSQLMerge
<1>1. ASSUME MergeInv, NEW w \in Writers,
             Commit(w), result'[w].status = "ok", Supported(table, stmt[w])
      PROVE  Rows(table') = SQLMerge(table, stmt[w])
  <2>1. TableOK(table)
    BY Zenon, <1>1 DEF MergeInv
  <2>2. WellFormed(stmt[w]) /\ PlanError(stmt[w]) = "none" /\ stmt[w] \in MergeStatements
    BY Zenon, <1>1, CommitCases DEF WellFormed
  <2>3. \/ Joined(base[w], stmt[w]) = {} /\ table' = table
        \/ \E f : Replaces(table, stmt[w], f, table')
    <3>1. result'[w] # Failed("conflict")
      BY SMTT(20), <1>1 DEF Failed
    <3>2. QED
      BY Zenon, <1>1, <3>1, CommitCases
  <2>4. ASSUME NEW new, NEW f, Replaces(table, stmt[w], f, new)
        PROVE  Rows(new) = SQLMerge(table, stmt[w])
    BY Zenon, <1>1, <2>1, <2>2, <2>4, ReplacingIsMerging
  <2>5. ASSUME Joined(base[w], stmt[w]) = {} PROVE Rows(table) = SQLMerge(table, stmt[w])
    BY Zenon, <2>1, <2>2, <2>5, NothingToMerge
  <2>6. QED
    BY Zenon, <2>3, <2>4, <2>5
<1>2. MergeInv /\ [Next]_vars =>
        [\A w \in Writers :
            (Commit(w) /\ result'[w].status = "ok" /\ Supported(table, stmt[w]))
                => Rows(table') = SQLMerge(table, stmt[w])]_vars
  BY Zenon, <1>1
<1>3. QED
  BY <1>2, MergeInvariant, PTL DEF Spec, CommitIsSQLMerge

-----------------------------------------------------------------------------
(* The invariant of repetition *)

\* While only w has run statements, each commit was its own.
RepeatInv ==
    /\ \A w \in Writers : runs[w] \in Nat
    /\ DOMAIN runs = Writers
    /\ \A w \in Writers : runs[w] = 0 => pc[w] = "idle"
    /\ \A w \in Writers :
          (/\ \A x \in Writers \ {w} : runs[x] = 0
           /\ table.snapshot # 0 /\ UpsertByKey(stmt[w]))
              => Settled(table, stmt[w])

\* RepeatInv holds initially, when nothing has been committed.
LEMMA InitRepeatInv == Init => RepeatInv
<1>1. SUFFICES ASSUME Init PROVE RepeatInv
  BY Zenon
<1>2. table.snapshot = 0
  BY <1>1 DEF Init
<1>3. runs = [w \in Writers |-> 0] /\ pc = [w \in Writers |-> "idle"]
  BY Zenon, <1>1 DEF Init
<1>4. 0 \in Nat
  BY SMTT(20)
<1>5. QED
  BY Zenon, <1>2, <1>3, <1>4 DEF RepeatInv

\* A step that leaves the table and counts no run keeps RepeatInv, and so does
\* one that counts a run.
LEMMA SameTableRepeats ==
    ASSUME MergeInv, RepeatInv, NEW w \in Writers, table' = table, stmt' = stmt,
           runs' = runs \/ runs' = [runs EXCEPT ![w] = @ + 1],
           runs'[w] # 0, \A x \in Writers : x # w => pc'[x] = pc[x]
    PROVE  RepeatInv'
<1>1. ASSUME NEW x \in Writers PROVE runs'[x] \in Nat /\ (runs'[x] = 0 => runs[x] = 0 /\ x # w)
  BY <1>1 DEF RepeatInv
<1>2. DOMAIN runs' = Writers
  BY Zenon DEF RepeatInv
<1>3. QED
  BY Zenon, <1>1, <1>2 DEF RepeatInv

\* A commit keeps RepeatInv: one of w settles the table, one of another writer
\* has been counted.
LEMMA CommitRepeats ==
    ASSUME MergeInv, RepeatInv, NEW w \in Writers, Commit(w)
    PROVE  RepeatInv'
<1>1. /\ stmt' = stmt /\ runs' = runs /\ pc[w] = "commit" /\ pc' = [pc EXCEPT ![w] = "done"]
  BY Zenon DEF Commit
<1>2. runs[w] # 0
  BY Zenon, <1>1 DEF RepeatInv
<1>3. TableOK(table) /\ FunctionsOfWriters
  BY Zenon DEF MergeInv
<1>4. /\ WellFormed(stmt[w]) /\ PlanError(stmt[w]) = "none"
      /\ table' = table \/ \E f : Replaces(table, stmt[w], f, table')
  BY Zenon, CommitCases
<1>5. ASSUME NEW f, NEW new, Replaces(table, stmt[w], f, new), UpsertByKey(stmt[w])
      PROVE  Settled(new, stmt[w])
  BY Zenon, <1>3, <1>4, <1>5, UpsertSettles
<1>6. ASSUME NEW x \in Writers, \A y \in Writers \ {x} : runs[y] = 0, table'.snapshot # 0, UpsertByKey(stmt[x])
      PROVE  Settled(table', stmt[x])
  <2>1. x = w
    BY Zenon, <1>2, <1>6
  <2>2. QED
    BY Zenon, <1>4, <1>5, <1>6, <2>1 DEF RepeatInv
<1>7. \A x \in Writers : runs[x] = 0 => pc'[x] = "idle"
  BY Zenon, <1>1, <1>2, <1>3 DEF RepeatInv, FunctionsOfWriters
<1>8. QED
  BY Zenon, <1>1, <1>6, <1>7 DEF RepeatInv

\* Every step keeps RepeatInv.
LEMMA NextRepeatInv ==
    ASSUME MergeInv, RepeatInv, [Next]_vars
    PROVE  RepeatInv'
<1>1. CASE UNCHANGED vars
  BY Zenon, <1>1 DEF RepeatInv, vars
<1>2. ASSUME NEW w \in Writers, Step(w) PROVE RepeatInv'
  <2>1. pc \in [Writers -> Control]
    BY Zenon DEF MergeInv, FunctionsOfWriters
  <2>2. ASSUME pc[w] # "idle" PROVE runs[w] # 0
    BY Zenon, <2>2 DEF RepeatInv
  <2>3. CASE Plan(w)
    <3>1. /\ table' = table /\ stmt' = stmt /\ runs' = [runs EXCEPT ![w] = @ + 1]
          /\ \A x \in Writers : x # w => pc'[x] = pc[x]
      BY Zenon, <2>1, <2>3 DEF Plan
    <3>2. runs'[w] # 0
      <4>1. runs[w] \in Nat /\ runs'[w] = runs[w] + 1
        BY Zenon, <3>1 DEF RepeatInv
      <4>2. QED
        BY <4>1
    <3>3. QED
      BY Zenon, <3>1, <3>2, SameTableRepeats
  <2>4. CASE PollBatch(w) \/ PollError(w) \/ PollEnd(w) \/ Again(w)
    <3>1. /\ table' = table /\ stmt' = stmt /\ runs' = runs /\ pc[w] # "idle"
          /\ \A x \in Writers : x # w => pc'[x] = pc[x]
      BY Zenon, <2>1, <2>4 DEF PollBatch, PollError, PollEnd, Again
    <3>2. QED
      BY Zenon, <2>2, <3>1, SameTableRepeats
  <2>5. CASE Commit(w)
    BY Zenon, <2>5, CommitRepeats
  <2>6. QED
    BY Zenon, <1>2, <2>3, <2>4, <2>5 DEF Step
<1>3. CASE Done
  BY Zenon, <1>1, <1>3 DEF Done
<1>4. QED
  BY Zenon, <1>1, <1>2, <1>3 DEF Next

\* Sending a supported upsert by key again, any number of times and however it
\* is streamed, changes no row while nobody else commits.
THEOREM RepeatsIdempotent == Spec => RepeatIsIdempotent
<1>1. ASSUME MergeInv, RepeatInv, NEW w \in Writers, Commit(w), runs[w] > 1, table'.snapshot = runs[w],
             \A x \in Writers \ {w} : runs[x] = 0,
             stmt[w].on = "key", IsUpsert(stmt[w]), Supported(table, stmt[w]),
             \A i \in DOMAIN stmt[w].source.rows : stmt[w].source.rows[i][Key] # NULL
      PROVE  Rows(table') = Rows(table)
  <2>1. TableOK(table) /\ table.snapshot \in Nat
    BY Zenon, <1>1 DEF MergeInv, TableOK
  <2>2. UpsertByKey(stmt[w])
    BY Zenon, <1>1 DEF UpsertByKey, Supported
  <2>3. /\ WellFormed(stmt[w]) /\ PlanError(stmt[w]) = "none"
        /\ table' = table \/ \E f : Replaces(table, stmt[w], f, table')
    BY Zenon, <1>1, CommitCases
  <2>4. ASSUME NEW f, NEW new, Replaces(table, stmt[w], f, new), new.snapshot = runs[w]
        PROVE  Rows(new) = Rows(table)
    <3>1. new.snapshot = table.snapshot + 1
      BY Zenon, <2>1, <2>3, <2>4, ReplacedTable
    <3>2. table.snapshot # 0
      <4>1. runs[w] \in Nat
        BY Zenon, <1>1 DEF RepeatInv
      <4>2. QED
        BY <1>1, <2>1, <2>4, <3>1, <4>1
    <3>3. Settled(table, stmt[w])
      BY Zenon, <1>1, <2>2, <3>2 DEF RepeatInv
    <3>4. Rows(table) = SQLMerge(table, stmt[w])
      BY Zenon, <1>1, <2>1, <2>2, <2>3, <3>3, SettledIsMerged
    <3>5. Rows(new) = SQLMerge(table, stmt[w])
      BY Zenon, <1>1, <2>1, <2>3, <2>4, ReplacingIsMerging
    <3>6. QED
      BY Zenon, <3>4, <3>5
  <2>5. QED
    BY Zenon, <1>1, <2>3, <2>4
<1>2. MergeInv /\ RepeatInv /\ [Next]_vars =>
        [\A w \in Writers :
            (/\ Commit(w) /\ runs[w] > 1 /\ table'.snapshot = runs[w]
             /\ \A x \in Writers \ {w} : runs[x] = 0
             /\ stmt[w].on = "key" /\ IsUpsert(stmt[w]) /\ Supported(table, stmt[w])
             /\ \A i \in DOMAIN stmt[w].source.rows : stmt[w].source.rows[i][Key] # NULL)
                => Rows(table') = Rows(table)]_vars
  BY Zenon, <1>1
<1>3. Init => RepeatInv
  BY Zenon, InitRepeatInv
<1>4. MergeInv /\ RepeatInv /\ [Next]_vars => RepeatInv'
  BY Zenon, NextRepeatInv
<1>5. QED
  BY <1>2, <1>3, <1>4, MergeInvariant, PTL DEF Spec, RepeatIsIdempotent

=============================================================================
