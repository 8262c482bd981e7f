---------------------------- MODULE SqlFunctions ----------------------------
(***************************************************************************)
(* The SQL functions of crates/functions.  A scalar or table function is   *)
(* called one at a time and answered from its arguments alone; the         *)
(* properties relate what one function answers to what another does with   *)
(* the answer.  An aggregate runs over a group in many steps (module        *)
(* Aggregates); no scalar call is in progress meanwhile.  PlanCalls adds    *)
(* the optimizer rules and the conversion of results, which are functions   *)
(* of their input too.                                                      *)
(***************************************************************************)
EXTENDS VariantCalls, StringCalls, TemporalCalls, PlanCalls, Aggregates

Init == CallInit /\ AggregateInit

\* A step of a scalar call.
Scalar == fn = "none" /\ UNCHANGED aggregateVars

Next ==
    \/ Scalar /\ CallArray
    \/ Scalar /\ CallObject
    \/ Scalar /\ CallEncode
    \/ Scalar /\ CallFlatten
    \/ Scalar /\ CallString
    \/ Scalar /\ CallRegexp
    \/ Scalar /\ CallConditional
    \/ Scalar /\ CallEncryption
    \/ Scalar /\ CallConversion
    \/ Scalar /\ CallTimestamp
    \/ Scalar /\ CallDate
    \/ Scalar /\ CallFromParts
    \/ Scalar /\ CallTimezone
    \/ Scalar /\ CallResult
    \/ Scalar /\ CallSplit
    \/ Scalar /\ CallOptimize
    \/ Scalar /\ Return
    \/ Idle /\ UNCHANGED callVars /\ AggregateNext

Spec == Init /\ [][Next]_<<callVars, aggregateVars>>

\* A column is answered row by row, as literals are, with the literals beside
\* it: no row is answered from another row's values, however a function
\* brings its arguments to one length.
ColumnsAndLiteralsAgree == ColumnsAnswerLikeLiterals /\ TextRowsStandAlone /\ DateRowsStandAlone
=============================================================================
