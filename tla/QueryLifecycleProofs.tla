------------------------ MODULE QueryLifecycleProofs ------------------------
(***************************************************************************)
(* Proofs about QueryLifecycle for every set of requests and request ids,  *)
(* every concurrency limit, with and without retry-disable.                *)
(*                                                                         *)
(* LifecycleInv is inductive: one lemma per action says that the action    *)
(* preserves it, with a step for each conjunct the action can disturb and  *)
(* one for the rest.  The safety properties, the action property and the   *)
(* refinement of QueryPromise follow from it.                              *)
(***************************************************************************)
EXTENDS QueryLifecycle, TLAPS

USE DEF handlerVars, registryVars, taskVars

\* The invariant holds in the empty registry the service starts with.
LEMMA InitInv == Init => LifecycleInv
  BY ConstantsAssumption
  DEF Init, LifecycleInv, TypeOK, Assigned, EntryInv, WaiterInv, OutcomeInv,
      RequestIdInv, TargetHasRequestId, ResultClaimedOnce, Claims,
      NoBrokenStatusChannel, AbortWaitsForEnd, HandlerPCs, Outcomes, Statuses, Replies

\* handle_query_request preserves the invariant: a fresh request is
\* nobody's target yet.
LEMMA ArriveQueryInv ==
  ASSUME LifecycleInv, NEW h \in Requests, NEW r \in RequestIds, ArriveQuery(h, r)
  PROVE  LifecycleInv'
<1> USE ConstantsAssumption DEF LifecycleInv, ArriveQuery, Goto, Respond
<1>1. TypeOK'
  BY DEF TypeOK, Assigned, HandlerPCs, Outcomes, Statuses, Replies
<1>2. Assigned'
  BY DEF TypeOK, Assigned, EntryInv, HandlerPCs, Outcomes, Statuses, Replies
<1>3. EntryInv'
  BY DEF TypeOK, Assigned, EntryInv, WaiterInv, HandlerPCs, Outcomes,
     Statuses, Replies
<1>4. WaiterInv'
  BY DEF TypeOK, Assigned, EntryInv, WaiterInv, HandlerPCs, Outcomes,
     Statuses, Replies
<1>5. RequestIdInv'
  BY DEF TypeOK, Assigned, RequestIdInv, TargetHasRequestId
<1>6. ResultClaimedOnce'
  BY DEF TypeOK, Assigned, EntryInv, WaiterInv, ResultClaimedOnce, Claims,
     HandlerPCs, Outcomes, Statuses, Replies
<1>7. NoBrokenStatusChannel'
  BY DEF TypeOK, Assigned, WaiterInv, NoBrokenStatusChannel, HandlerPCs,
     Outcomes, Statuses, Replies
<1>8. AbortWaitsForEnd'
  BY DEF TypeOK, Assigned, EntryInv, WaiterInv, AbortWaitsForEnd, HandlerPCs,
     Outcomes, Statuses, Replies
<1>9. OutcomeInv'
  BY DEF OutcomeInv
<1> QED
  BY <1>1, <1>2, <1>3, <1>4, <1>5, <1>6, <1>7, <1>8, <1>9

\* The abort handler's lookup preserves the invariant.
LEMMA ArriveAbortInv ==
  ASSUME LifecycleInv, NEW h \in Requests, NEW r \in RequestIds, ArriveAbort(h, r)
  PROVE  LifecycleInv'
<1> USE ConstantsAssumption DEF LifecycleInv, ArriveAbort, Goto, Respond
<1>1. TypeOK'
  BY DEF TypeOK, Assigned, HandlerPCs, Outcomes, Statuses, Replies
<1>2. Assigned'
  BY DEF TypeOK, Assigned, EntryInv, HandlerPCs, Outcomes, Statuses, Replies
<1>3. EntryInv'
  BY DEF TypeOK, Assigned, EntryInv, WaiterInv, HandlerPCs, Outcomes,
     Statuses, Replies
<1>4. WaiterInv'
  BY DEF TypeOK, Assigned, EntryInv, WaiterInv, HandlerPCs, Outcomes,
     Statuses, Replies
<1>5. RequestIdInv'
  BY DEF TypeOK, Assigned, RequestIdInv, TargetHasRequestId
<1>6. ResultClaimedOnce'
  BY DEF TypeOK, Assigned, EntryInv, WaiterInv, ResultClaimedOnce, Claims,
     HandlerPCs, Outcomes, Statuses, Replies
<1>7. NoBrokenStatusChannel'
  BY DEF TypeOK, Assigned, WaiterInv, NoBrokenStatusChannel, HandlerPCs,
     Outcomes, Statuses, Replies
<1>8. AbortWaitsForEnd'
  BY DEF TypeOK, Assigned, EntryInv, WaiterInv, AbortWaitsForEnd, HandlerPCs,
     Outcomes, Statuses, Replies
<1>9. OutcomeInv'
  BY DEF OutcomeInv
<1> QED
  BY <1>1, <1>2, <1>3, <1>4, <1>5, <1>6, <1>7, <1>8, <1>9

\* Dropping a handler's future preserves the invariant: it owns nothing
\* another needs.
LEMMA DropHandlerInv ==
  ASSUME LifecycleInv, NEW h \in Requests, DropHandler(h)
  PROVE  LifecycleInv'
<1> USE ConstantsAssumption DEF LifecycleInv, DropHandler, Goto, Respond
<1>1. TypeOK'
  BY DEF TypeOK, Assigned, HandlerPCs, Outcomes, Statuses, Replies
<1>2. Assigned'
  BY DEF TypeOK, Assigned, EntryInv, HandlerPCs, Outcomes, Statuses, Replies
<1>3. EntryInv'
  BY DEF TypeOK, Assigned, EntryInv, WaiterInv, HandlerPCs, Outcomes,
     Statuses, Replies
<1>4. WaiterInv'
  BY DEF TypeOK, Assigned, EntryInv, WaiterInv, HandlerPCs, Outcomes,
     Statuses, Replies
<1>5. RequestIdInv'
  BY DEF TypeOK, Assigned, RequestIdInv, TargetHasRequestId
<1>6. ResultClaimedOnce'
  BY DEF TypeOK, Assigned, EntryInv, WaiterInv, ResultClaimedOnce, Claims,
     HandlerPCs, Outcomes, Statuses, Replies
<1>7. NoBrokenStatusChannel'
  BY DEF TypeOK, Assigned, WaiterInv, NoBrokenStatusChannel, HandlerPCs,
     Outcomes, Statuses, Replies
<1>8. AbortWaitsForEnd'
  BY DEF TypeOK, Assigned, EntryInv, WaiterInv, AbortWaitsForEnd, HandlerPCs,
     Outcomes, Statuses, Replies
<1>9. OutcomeInv'
  BY DEF OutcomeInv
<1> QED
  BY <1>1, <1>2, <1>3, <1>4, <1>5, <1>6, <1>7, <1>8, <1>9

\* SYSTEM$CANCEL_QUERY preserves the invariant.
LEMMA CancelQueryInv ==
  ASSUME LifecycleInv, NEW h \in Requests, CancelQuery(h)
  PROVE  LifecycleInv'
<1> USE ConstantsAssumption DEF LifecycleInv, CancelQuery
<1>1. TypeOK'
  BY DEF TypeOK, Assigned, HandlerPCs, Outcomes, Statuses, Replies
<1>2. WaiterInv'
  BY DEF TypeOK, Assigned, EntryInv, WaiterInv, HandlerPCs, Outcomes,
     Statuses, Replies
<1>3. OutcomeInv'
  BY DEF TypeOK, Assigned, EntryInv, OutcomeInv, HandlerPCs, Outcomes,
     Statuses, Replies
<1>4. AbortWaitsForEnd'
  BY DEF TypeOK, Assigned, EntryInv, WaiterInv, AbortWaitsForEnd, HandlerPCs,
     Outcomes, Statuses, Replies
<1>5. Assigned' /\ EntryInv' /\ RequestIdInv' /\ ResultClaimedOnce' /\
     NoBrokenStatusChannel'
  BY DEF Assigned, EntryInv, RequestIdInv, TargetHasRequestId,
     ResultClaimedOnce, Claims, NoBrokenStatusChannel
<1> QED
  BY <1>1, <1>2, <1>3, <1>4, <1>5

\* submit up to the spawn preserves the invariant.
LEMMA SubmitCheckInv ==
  ASSUME LifecycleInv, NEW h \in Requests, SubmitCheck(h)
  PROVE  LifecycleInv'
<1> USE ConstantsAssumption DEF LifecycleInv, SubmitCheck, Goto, Respond
<1>1. TypeOK'
  BY DEF TypeOK, Assigned, HandlerPCs, Outcomes, Statuses, Replies
<1>2. Assigned'
  BY DEF TypeOK, Assigned, EntryInv, HandlerPCs, Outcomes, Statuses, Replies
<1>3. EntryInv'
  BY DEF TypeOK, Assigned, EntryInv, WaiterInv, HandlerPCs, Outcomes,
     Statuses, Replies
<1>4. WaiterInv'
  BY DEF TypeOK, Assigned, EntryInv, WaiterInv, HandlerPCs, Outcomes,
     Statuses, Replies
<1>5. RequestIdInv'
  BY DEF TypeOK, Assigned, RequestIdInv, TargetHasRequestId
<1>6. ResultClaimedOnce'
  BY DEF TypeOK, Assigned, EntryInv, WaiterInv, ResultClaimedOnce, Claims,
     HandlerPCs, Outcomes, Statuses, Replies
<1>7. NoBrokenStatusChannel'
  BY DEF TypeOK, Assigned, WaiterInv, NoBrokenStatusChannel, HandlerPCs,
     Outcomes, Statuses, Replies
<1>8. AbortWaitsForEnd'
  BY DEF TypeOK, Assigned, EntryInv, WaiterInv, AbortWaitsForEnd, HandlerPCs,
     Outcomes, Statuses, Replies
<1>9. OutcomeInv'
  BY DEF OutcomeInv
<1> QED
  BY <1>1, <1>2, <1>3, <1>4, <1>5, <1>6, <1>7, <1>8, <1>9

\* The first insert of add preserves the invariant.
LEMMA AddRequestIdInv ==
  ASSUME LifecycleInv, NEW h \in Requests, AddRequestId(h)
  PROVE  LifecycleInv'
<1> USE ConstantsAssumption DEF LifecycleInv, AddRequestId, Goto
<1>1. TypeOK'
  BY DEF TypeOK, Assigned, HandlerPCs, Outcomes, Statuses, Replies
<1>2. Assigned'
  BY DEF TypeOK, Assigned, EntryInv, HandlerPCs, Outcomes, Statuses, Replies
<1>3. EntryInv'
  BY DEF TypeOK, Assigned, EntryInv, WaiterInv, HandlerPCs, Outcomes,
     Statuses, Replies
<1>4. WaiterInv'
  BY DEF TypeOK, Assigned, EntryInv, WaiterInv, HandlerPCs, Outcomes,
     Statuses, Replies
<1>5. RequestIdInv'
  BY DEF TypeOK, Assigned, RequestIdInv, TargetHasRequestId
<1>6. ResultClaimedOnce'
  BY DEF TypeOK, Assigned, EntryInv, WaiterInv, ResultClaimedOnce, Claims,
     HandlerPCs, Outcomes, Statuses, Replies
<1>7. OutcomeInv' /\ NoBrokenStatusChannel' /\ AbortWaitsForEnd'
  BY DEF OutcomeInv, NoBrokenStatusChannel, AbortWaitsForEnd
<1> QED
  BY <1>1, <1>2, <1>3, <1>4, <1>5, <1>6, <1>7

\* The second insert of add preserves the invariant: a query is never added
\* again after it was claimed.
LEMMA AddQueryInv ==
  ASSUME LifecycleInv, NEW h \in Requests, AddQuery(h)
  PROVE  LifecycleInv'
<1> USE ConstantsAssumption DEF LifecycleInv, AddQuery, Goto
<1>1. TypeOK'
  BY DEF TypeOK, Assigned, HandlerPCs, Outcomes, Statuses, Replies
<1>2. Assigned'
  BY DEF TypeOK, Assigned, EntryInv, HandlerPCs, Outcomes, Statuses, Replies
<1>3. EntryInv'
  BY DEF TypeOK, Assigned, EntryInv, WaiterInv, HandlerPCs, Outcomes,
     Statuses, Replies
<1>4. WaiterInv'
  BY DEF TypeOK, Assigned, EntryInv, WaiterInv, HandlerPCs, Outcomes,
     Statuses, Replies
<1>5. RequestIdInv'
  BY DEF TypeOK, Assigned, RequestIdInv, TargetHasRequestId
<1>6. ResultClaimedOnce'
  BY DEF TypeOK, Assigned, EntryInv, WaiterInv, ResultClaimedOnce, Claims,
     HandlerPCs, Outcomes, Statuses, Replies
<1>7. OutcomeInv' /\ NoBrokenStatusChannel' /\ AbortWaitsForEnd'
  BY DEF OutcomeInv, NoBrokenStatusChannel, AbortWaitsForEnd
<1> QED
  BY <1>1, <1>2, <1>3, <1>4, <1>5, <1>6, <1>7

\* start_tx.send preserves the invariant: the entry is there before the
\* gate opens.
LEMMA SubmitStartInv ==
  ASSUME LifecycleInv, NEW h \in Requests, SubmitStart(h)
  PROVE  LifecycleInv'
<1> USE ConstantsAssumption DEF LifecycleInv, SubmitStart, Goto
<1>1. TypeOK'
  BY DEF TypeOK, Assigned, HandlerPCs, Outcomes, Statuses, Replies
<1>2. Assigned'
  BY DEF TypeOK, Assigned, EntryInv, HandlerPCs, Outcomes, Statuses, Replies
<1>3. EntryInv'
  BY DEF TypeOK, Assigned, EntryInv, WaiterInv, HandlerPCs, Outcomes,
     Statuses, Replies
<1>4. WaiterInv'
  BY DEF TypeOK, Assigned, EntryInv, WaiterInv, HandlerPCs, Outcomes,
     Statuses, Replies
<1>5. RequestIdInv'
  BY DEF TypeOK, Assigned, RequestIdInv, TargetHasRequestId
<1>6. ResultClaimedOnce'
  BY DEF TypeOK, Assigned, EntryInv, WaiterInv, ResultClaimedOnce, Claims,
     HandlerPCs, Outcomes, Statuses, Replies
<1>7. OutcomeInv' /\ NoBrokenStatusChannel' /\ AbortWaitsForEnd'
  BY DEF OutcomeInv, NoBrokenStatusChannel, AbortWaitsForEnd
<1> QED
  BY <1>1, <1>2, <1>3, <1>4, <1>5, <1>6, <1>7

\* wait's lookup of the receiver preserves the invariant.
LEMMA WaitSubscribeInv ==
  ASSUME LifecycleInv, NEW h \in Requests, WaitSubscribe(h)
  PROVE  LifecycleInv'
<1> USE ConstantsAssumption DEF LifecycleInv, WaitSubscribe, Subscribe, Goto,
   Respond
<1>1. TypeOK'
  BY DEF TypeOK, Assigned, HandlerPCs, Outcomes, Statuses, Replies
<1>2. Assigned'
  BY DEF TypeOK, Assigned, EntryInv, HandlerPCs, Outcomes, Statuses, Replies
<1>3. EntryInv'
  BY DEF TypeOK, Assigned, EntryInv, WaiterInv, HandlerPCs, Outcomes,
     Statuses, Replies
<1>4. WaiterInv'
  BY DEF TypeOK, Assigned, EntryInv, WaiterInv, HandlerPCs, Outcomes,
     Statuses, Replies
<1>5. RequestIdInv'
  BY DEF TypeOK, Assigned, RequestIdInv, TargetHasRequestId
<1>6. ResultClaimedOnce'
  BY DEF TypeOK, Assigned, EntryInv, WaiterInv, ResultClaimedOnce, Claims,
     HandlerPCs, Outcomes, Statuses, Replies
<1>7. NoBrokenStatusChannel'
  BY DEF TypeOK, Assigned, WaiterInv, NoBrokenStatusChannel, HandlerPCs,
     Outcomes, Statuses, Replies
<1>8. AbortWaitsForEnd'
  BY DEF TypeOK, Assigned, EntryInv, WaiterInv, AbortWaitsForEnd, HandlerPCs,
     Outcomes, Statuses, Replies
<1>9. OutcomeInv'
  BY DEF OutcomeInv
<1> QED
  BY <1>1, <1>2, <1>3, <1>4, <1>5, <1>6, <1>7, <1>8, <1>9

\* wait's return from the channel preserves the invariant.
LEMMA WaitNotifiedInv ==
  ASSUME LifecycleInv, NEW h \in Requests, WaitNotified(h)
  PROVE  LifecycleInv'
<1> USE ConstantsAssumption DEF LifecycleInv, WaitNotified, Goto, Respond,
   SenderDropped
<1>1. TypeOK'
  BY DEF TypeOK, Assigned, HandlerPCs, Outcomes, Statuses, Replies
<1>2. Assigned'
  BY DEF TypeOK, Assigned, EntryInv, HandlerPCs, Outcomes, Statuses, Replies
<1>3. EntryInv'
  BY DEF TypeOK, Assigned, EntryInv, WaiterInv, HandlerPCs, Outcomes,
     Statuses, Replies
<1>4. WaiterInv'
  BY DEF TypeOK, Assigned, EntryInv, WaiterInv, HandlerPCs, Outcomes,
     Statuses, Replies
<1>5. RequestIdInv'
  BY DEF TypeOK, Assigned, RequestIdInv, TargetHasRequestId
<1>6. ResultClaimedOnce'
  BY DEF TypeOK, Assigned, EntryInv, WaiterInv, ResultClaimedOnce, Claims,
     HandlerPCs, Outcomes, Statuses, Replies
<1>7. NoBrokenStatusChannel'
  BY DEF TypeOK, Assigned, WaiterInv, NoBrokenStatusChannel, HandlerPCs,
     Outcomes, Statuses, Replies
<1>8. AbortWaitsForEnd'
  BY DEF TypeOK, Assigned, EntryInv, WaiterInv, AbortWaitsForEnd, HandlerPCs,
     Outcomes, Statuses, Replies
<1>9. OutcomeInv'
  BY DEF OutcomeInv
<1> QED
  BY <1>1, <1>2, <1>3, <1>4, <1>5, <1>6, <1>7, <1>8, <1>9

\* remove preserves the invariant: the status is out, and the remover is
\* the only claimant.
LEMMA WaitRemoveInv ==
  ASSUME LifecycleInv, NEW h \in Requests, WaitRemove(h)
  PROVE  LifecycleInv'
<1> USE ConstantsAssumption DEF LifecycleInv, WaitRemove, Goto, Respond
<1>1. TypeOK'
  BY DEF TypeOK, Assigned, HandlerPCs, Outcomes, Statuses, Replies
<1>2. Assigned'
  BY DEF TypeOK, Assigned, EntryInv, HandlerPCs, Outcomes, Statuses, Replies
<1>3. EntryInv'
  BY DEF TypeOK, Assigned, EntryInv, WaiterInv, HandlerPCs, Outcomes,
     Statuses, Replies
<1>4. WaiterInv'
  BY DEF TypeOK, Assigned, EntryInv, WaiterInv, HandlerPCs, Outcomes,
     Statuses, Replies
<1>5. RequestIdInv'
  BY DEF TypeOK, Assigned, RequestIdInv, TargetHasRequestId
<1>6. ResultClaimedOnce'
  BY DEF TypeOK, Assigned, EntryInv, WaiterInv, ResultClaimedOnce, Claims,
     HandlerPCs, Outcomes, Statuses, Replies
<1>7. NoBrokenStatusChannel'
  BY DEF TypeOK, Assigned, WaiterInv, NoBrokenStatusChannel, HandlerPCs,
     Outcomes, Statuses, Replies
<1>8. AbortWaitsForEnd'
  BY DEF TypeOK, Assigned, EntryInv, WaiterInv, AbortWaitsForEnd, HandlerPCs,
     Outcomes, Statuses, Replies
<1>9. OutcomeInv'
  BY DEF OutcomeInv
<1> QED
  BY <1>1, <1>2, <1>3, <1>4, <1>5, <1>6, <1>7, <1>8, <1>9

\* Awaiting the result handle preserves the invariant.
LEMMA WaitJoinInv ==
  ASSUME LifecycleInv, NEW h \in Requests, WaitJoin(h)
  PROVE  LifecycleInv'
<1> USE ConstantsAssumption DEF LifecycleInv, WaitJoin, Goto, Respond
<1>1. TypeOK'
  BY DEF TypeOK, Assigned, HandlerPCs, Outcomes, Statuses, Replies
<1>2. Assigned'
  BY DEF TypeOK, Assigned, EntryInv, HandlerPCs, Outcomes, Statuses, Replies
<1>3. EntryInv'
  BY DEF TypeOK, Assigned, EntryInv, WaiterInv, HandlerPCs, Outcomes,
     Statuses, Replies
<1>4. WaiterInv'
  BY DEF TypeOK, Assigned, EntryInv, WaiterInv, HandlerPCs, Outcomes,
     Statuses, Replies
<1>5. RequestIdInv'
  BY DEF TypeOK, Assigned, RequestIdInv, TargetHasRequestId
<1>6. ResultClaimedOnce'
  BY DEF TypeOK, Assigned, EntryInv, WaiterInv, ResultClaimedOnce, Claims,
     HandlerPCs, Outcomes, Statuses, Replies
<1>7. NoBrokenStatusChannel'
  BY DEF TypeOK, Assigned, WaiterInv, NoBrokenStatusChannel, HandlerPCs,
     Outcomes, Statuses, Replies
<1>8. AbortWaitsForEnd'
  BY DEF TypeOK, Assigned, EntryInv, WaiterInv, AbortWaitsForEnd, HandlerPCs,
     Outcomes, Statuses, Replies
<1>9. OutcomeInv'
  BY DEF OutcomeInv
<1> QED
  BY <1>1, <1>2, <1>3, <1>4, <1>5, <1>6, <1>7, <1>8, <1>9

\* RunningQueriesRegistry::abort preserves the invariant.
LEMMA AbortCancelInv ==
  ASSUME LifecycleInv, NEW h \in Requests, AbortCancel(h)
  PROVE  LifecycleInv'
<1> USE ConstantsAssumption DEF LifecycleInv, AbortCancel, Goto, Respond
<1>1. TypeOK'
  <2>1. token' \in [Requests -> BOOLEAN]
    BY DEF TypeOK
  <2>2. pc' \in [Requests -> HandlerPCs] /\ reply' \in [Requests -> Replies \cup {None}]
    BY DEF TypeOK, HandlerPCs, Replies
  <2> QED
    BY <2>1, <2>2 DEF TypeOK
<1>2. Assigned'
  BY DEF TypeOK, Assigned, EntryInv, HandlerPCs, Outcomes, Statuses, Replies
<1>3. EntryInv'
  BY DEF TypeOK, Assigned, EntryInv, WaiterInv, HandlerPCs, Outcomes,
     Statuses, Replies
<1>4. WaiterInv'
  BY DEF TypeOK, Assigned, EntryInv, WaiterInv, HandlerPCs, Outcomes,
     Statuses, Replies
<1>5. OutcomeInv'
  BY DEF TypeOK, Assigned, EntryInv, OutcomeInv, HandlerPCs, Outcomes,
     Statuses, Replies
<1>6. RequestIdInv'
  BY DEF TypeOK, Assigned, RequestIdInv, TargetHasRequestId
<1>7. ResultClaimedOnce'
  BY DEF TypeOK, Assigned, EntryInv, WaiterInv, ResultClaimedOnce, Claims,
     HandlerPCs, Outcomes, Statuses, Replies
<1>8. NoBrokenStatusChannel'
  BY DEF TypeOK, Assigned, WaiterInv, NoBrokenStatusChannel, HandlerPCs,
     Outcomes, Statuses, Replies
<1>9. AbortWaitsForEnd'
  BY DEF TypeOK, Assigned, EntryInv, WaiterInv, AbortWaitsForEnd, HandlerPCs,
     Outcomes, Statuses, Replies
<1> QED
  BY <1>1, <1>2, <1>3, <1>4, <1>5, <1>6, <1>7, <1>8, <1>9

\* abort's lookup of the receiver preserves the invariant.
LEMMA AbortSubscribeInv ==
  ASSUME LifecycleInv, NEW h \in Requests, AbortSubscribe(h)
  PROVE  LifecycleInv'
<1> USE ConstantsAssumption DEF LifecycleInv, AbortSubscribe, Subscribe, Goto,
   Respond
<1>1. TypeOK'
  BY DEF TypeOK, Assigned, HandlerPCs, Outcomes, Statuses, Replies
<1>2. Assigned'
  BY DEF TypeOK, Assigned, EntryInv, HandlerPCs, Outcomes, Statuses, Replies
<1>3. EntryInv'
  BY DEF TypeOK, Assigned, EntryInv, WaiterInv, HandlerPCs, Outcomes,
     Statuses, Replies
<1>4. WaiterInv'
  BY DEF TypeOK, Assigned, EntryInv, WaiterInv, HandlerPCs, Outcomes,
     Statuses, Replies
<1>5. RequestIdInv'
  BY DEF TypeOK, Assigned, RequestIdInv, TargetHasRequestId
<1>6. ResultClaimedOnce'
  BY DEF TypeOK, Assigned, EntryInv, WaiterInv, ResultClaimedOnce, Claims,
     HandlerPCs, Outcomes, Statuses, Replies
<1>7. NoBrokenStatusChannel'
  BY DEF TypeOK, Assigned, WaiterInv, NoBrokenStatusChannel, HandlerPCs,
     Outcomes, Statuses, Replies
<1>8. AbortWaitsForEnd'
  BY DEF TypeOK, Assigned, EntryInv, WaiterInv, AbortWaitsForEnd, HandlerPCs,
     Outcomes, Statuses, Replies
<1>9. OutcomeInv'
  BY DEF OutcomeInv
<1> QED
  BY <1>1, <1>2, <1>3, <1>4, <1>5, <1>6, <1>7, <1>8, <1>9

\* abort's return from the channel preserves the invariant.
LEMMA AbortNotifiedInv ==
  ASSUME LifecycleInv, NEW h \in Requests, AbortNotified(h)
  PROVE  LifecycleInv'
<1> USE ConstantsAssumption DEF LifecycleInv, AbortNotified, Goto, Respond,
   SenderDropped
<1>1. TypeOK'
  BY DEF TypeOK, Assigned, HandlerPCs, Outcomes, Statuses, Replies
<1>2. Assigned'
  BY DEF TypeOK, Assigned, EntryInv, HandlerPCs, Outcomes, Statuses, Replies
<1>3. EntryInv'
  BY DEF TypeOK, Assigned, EntryInv, WaiterInv, HandlerPCs, Outcomes,
     Statuses, Replies
<1>4. WaiterInv'
  BY DEF TypeOK, Assigned, EntryInv, WaiterInv, HandlerPCs, Outcomes,
     Statuses, Replies
<1>5. RequestIdInv'
  BY DEF TypeOK, Assigned, RequestIdInv, TargetHasRequestId
<1>6. ResultClaimedOnce'
  BY DEF TypeOK, Assigned, EntryInv, WaiterInv, ResultClaimedOnce, Claims,
     HandlerPCs, Outcomes, Statuses, Replies
<1>7. NoBrokenStatusChannel'
  BY DEF TypeOK, Assigned, WaiterInv, NoBrokenStatusChannel, HandlerPCs,
     Outcomes, Statuses, Replies
<1>8. AbortWaitsForEnd'
  BY DEF TypeOK, Assigned, EntryInv, WaiterInv, AbortWaitsForEnd, HandlerPCs,
     Outcomes, Statuses, Replies
<1>9. OutcomeInv'
  BY DEF OutcomeInv
<1> QED
  BY <1>1, <1>2, <1>3, <1>4, <1>5, <1>6, <1>7, <1>8, <1>9

\* Opening the start gate preserves the invariant.
LEMMA TaskStartInv ==
  ASSUME LifecycleInv, NEW h \in Requests, TaskStart(h)
  PROVE  LifecycleInv'
<1> USE ConstantsAssumption DEF LifecycleInv, TaskStart
<1>1. TypeOK'
  BY DEF TypeOK, Assigned, HandlerPCs, Outcomes, Statuses, Replies
<1>2. Assigned'
  BY DEF TypeOK, Assigned, EntryInv, HandlerPCs, Outcomes, Statuses, Replies
<1>3. EntryInv'
  BY DEF TypeOK, Assigned, EntryInv, WaiterInv, HandlerPCs, Outcomes,
     Statuses, Replies
<1>4. OutcomeInv'
  BY DEF TypeOK, Assigned, EntryInv, OutcomeInv, HandlerPCs, Outcomes,
     Statuses, Replies
<1>5. AbortWaitsForEnd'
  BY DEF TypeOK, Assigned, EntryInv, WaiterInv, AbortWaitsForEnd, HandlerPCs,
     Outcomes, Statuses, Replies
<1>6. WaiterInv' /\ RequestIdInv' /\ ResultClaimedOnce' /\
     NoBrokenStatusChannel'
  BY DEF WaiterInv, RequestIdInv, TargetHasRequestId, ResultClaimedOnce,
     Claims, NoBrokenStatusChannel
<1> QED
  BY <1>1, <1>2, <1>3, <1>4, <1>5, <1>6

\* The end of the statement preserves the invariant.
LEMMA SubtaskEndInv ==
  ASSUME LifecycleInv, NEW h \in Requests, SubtaskEnd(h)
  PROVE  LifecycleInv'
<1> USE ConstantsAssumption DEF LifecycleInv, SubtaskEnd
<1>1. TypeOK'
  BY DEF TypeOK, Assigned, HandlerPCs, Outcomes, Statuses, Replies
<1>2. OutcomeInv'
  BY DEF TypeOK, Assigned, EntryInv, OutcomeInv, HandlerPCs, Outcomes,
     Statuses, Replies
<1>3. Assigned' /\ EntryInv' /\ WaiterInv' /\ RequestIdInv' /\
     ResultClaimedOnce' /\ NoBrokenStatusChannel' /\ AbortWaitsForEnd'
  BY DEF Assigned, EntryInv, WaiterInv, RequestIdInv, TargetHasRequestId,
     ResultClaimedOnce, Claims, NoBrokenStatusChannel, AbortWaitsForEnd
<1> QED
  BY <1>1, <1>2, <1>3

\* select! on a finished statement preserves the invariant.
LEMMA SelectFinishedInv ==
  ASSUME LifecycleInv, NEW h \in Requests, SelectFinished(h)
  PROVE  LifecycleInv'
<1> USE ConstantsAssumption DEF LifecycleInv, SelectFinished, Selected, OutcomeOf
<1>1. TypeOK'
  BY DEF TypeOK, Assigned, HandlerPCs, Outcomes, Statuses, Replies
<1>2. Assigned'
  BY DEF TypeOK, Assigned, EntryInv, HandlerPCs, Outcomes, Statuses, Replies
<1>3. EntryInv'
  BY DEF TypeOK, Assigned, EntryInv, WaiterInv, HandlerPCs, Outcomes,
     Statuses, Replies
<1>4. WaiterInv'
  BY DEF TypeOK, Assigned, EntryInv, WaiterInv, HandlerPCs, Outcomes,
     Statuses, Replies
<1>5. OutcomeInv'
  BY DEF TypeOK, Assigned, EntryInv, OutcomeInv, HandlerPCs, Outcomes,
     Statuses, Replies
<1>6. AbortWaitsForEnd'
  BY DEF TypeOK, Assigned, EntryInv, WaiterInv, AbortWaitsForEnd, HandlerPCs,
     Outcomes, Statuses, Replies
<1>7. RequestIdInv' /\ ResultClaimedOnce' /\ NoBrokenStatusChannel'
  BY DEF RequestIdInv, TargetHasRequestId, ResultClaimedOnce, Claims,
     NoBrokenStatusChannel
<1> QED
  BY <1>1, <1>2, <1>3, <1>4, <1>5, <1>6, <1>7

\* select! on the cancelled token preserves the invariant.
LEMMA SelectCancelledInv ==
  ASSUME LifecycleInv, NEW h \in Requests, SelectCancelled(h)
  PROVE  LifecycleInv'
<1> USE ConstantsAssumption DEF LifecycleInv, SelectCancelled, Selected,
   AbortSubtask
<1>1. TypeOK'
  BY DEF TypeOK, Assigned, HandlerPCs, Outcomes, Statuses, Replies
<1>2. Assigned'
  BY DEF TypeOK, Assigned, EntryInv, HandlerPCs, Outcomes, Statuses, Replies
<1>3. EntryInv'
  BY DEF TypeOK, Assigned, EntryInv, WaiterInv, HandlerPCs, Outcomes,
     Statuses, Replies
<1>4. WaiterInv'
  BY DEF TypeOK, Assigned, EntryInv, WaiterInv, HandlerPCs, Outcomes,
     Statuses, Replies
<1>5. OutcomeInv'
  BY DEF TypeOK, Assigned, EntryInv, OutcomeInv, HandlerPCs, Outcomes,
     Statuses, Replies
<1>6. AbortWaitsForEnd'
  BY DEF TypeOK, Assigned, EntryInv, WaiterInv, AbortWaitsForEnd, HandlerPCs,
     Outcomes, Statuses, Replies
<1>7. RequestIdInv' /\ ResultClaimedOnce' /\ NoBrokenStatusChannel'
  BY DEF RequestIdInv, TargetHasRequestId, ResultClaimedOnce, Claims,
     NoBrokenStatusChannel
<1> QED
  BY <1>1, <1>2, <1>3, <1>4, <1>5, <1>6, <1>7

\* select! on the query timeout preserves the invariant.
LEMMA SelectTimeoutInv ==
  ASSUME LifecycleInv, NEW h \in Requests, SelectTimeout(h)
  PROVE  LifecycleInv'
<1> USE ConstantsAssumption DEF LifecycleInv, SelectTimeout, Selected,
   AbortSubtask
<1>1. TypeOK'
  BY DEF TypeOK, Assigned, HandlerPCs, Outcomes, Statuses, Replies
<1>2. Assigned'
  BY DEF TypeOK, Assigned, EntryInv, HandlerPCs, Outcomes, Statuses, Replies
<1>3. EntryInv'
  BY DEF TypeOK, Assigned, EntryInv, WaiterInv, HandlerPCs, Outcomes,
     Statuses, Replies
<1>4. WaiterInv'
  BY DEF TypeOK, Assigned, EntryInv, WaiterInv, HandlerPCs, Outcomes,
     Statuses, Replies
<1>5. OutcomeInv'
  BY DEF TypeOK, Assigned, EntryInv, OutcomeInv, HandlerPCs, Outcomes,
     Statuses, Replies
<1>6. AbortWaitsForEnd'
  BY DEF TypeOK, Assigned, EntryInv, WaiterInv, AbortWaitsForEnd, HandlerPCs,
     Outcomes, Statuses, Replies
<1>7. RequestIdInv' /\ ResultClaimedOnce' /\ NoBrokenStatusChannel'
  BY DEF RequestIdInv, TargetHasRequestId, ResultClaimedOnce, Claims,
     NoBrokenStatusChannel
<1> QED
  BY <1>1, <1>2, <1>3, <1>4, <1>5, <1>6, <1>7

\* notify_query_finished preserves the invariant: the entry is always
\* found.
LEMMA TaskNotifyInv ==
  ASSUME LifecycleInv, NEW h \in Requests, TaskNotify(h)
  PROVE  LifecycleInv'
<1> USE ConstantsAssumption DEF LifecycleInv, TaskNotify, StatusOf
<1>1. TypeOK'
  BY DEF TypeOK, Assigned, HandlerPCs, Outcomes, Statuses, Replies
<1>2. Assigned'
  BY DEF TypeOK, Assigned, EntryInv, HandlerPCs, Outcomes, Statuses, Replies
<1>3. EntryInv'
  BY DEF TypeOK, Assigned, EntryInv, WaiterInv, HandlerPCs, Outcomes,
     Statuses, Replies
<1>4. WaiterInv'
  BY DEF TypeOK, Assigned, EntryInv, WaiterInv, HandlerPCs, Outcomes,
     Statuses, Replies
<1>5. AbortWaitsForEnd'
  BY DEF TypeOK, Assigned, EntryInv, WaiterInv, AbortWaitsForEnd, HandlerPCs,
     Outcomes, Statuses, Replies
<1>6. OutcomeInv' /\ RequestIdInv' /\ ResultClaimedOnce' /\
     NoBrokenStatusChannel'
  BY DEF OutcomeInv, RequestIdInv, TargetHasRequestId, ResultClaimedOnce,
     Claims, NoBrokenStatusChannel
<1> QED
  BY <1>1, <1>2, <1>3, <1>4, <1>5, <1>6

\* The end of the query task, which spawns the discard task, preserves the
\* invariant.
LEMMA TaskReturnInv ==
  ASSUME LifecycleInv, NEW h \in Requests, TaskReturn(h)
  PROVE  LifecycleInv'
<1> USE ConstantsAssumption DEF LifecycleInv, TaskReturn
<1>1. TypeOK'
  BY DEF TypeOK, Assigned, HandlerPCs, Outcomes, Statuses, Replies
<1>2. Assigned'
  BY DEF TypeOK, Assigned
<1>3. EntryInv'
  BY DEF TypeOK, Assigned, EntryInv
<1>4. AbortWaitsForEnd'
  BY DEF TypeOK, Assigned, EntryInv, WaiterInv, AbortWaitsForEnd
<1>5. WaiterInv' /\ OutcomeInv' /\ RequestIdInv' /\ ResultClaimedOnce' /\
     NoBrokenStatusChannel'
  BY DEF WaiterInv, OutcomeInv, RequestIdInv, TargetHasRequestId,
     ResultClaimedOnce, Claims, NoBrokenStatusChannel
<1> QED
  BY <1>1, <1>2, <1>3, <1>4, <1>5

\* The discard task preserves the invariant: it removes only finished
\* queries.
LEMMA DiscardFireInv ==
  ASSUME LifecycleInv, NEW h \in Requests, DiscardFire(h)
  PROVE  LifecycleInv'
<1> USE ConstantsAssumption DEF LifecycleInv, DiscardFire
<1>1. TypeOK'
  BY DEF TypeOK, Assigned, HandlerPCs, Outcomes, Statuses, Replies
<1>2. EntryInv'
  BY DEF TypeOK, Assigned, EntryInv, WaiterInv, HandlerPCs, Outcomes,
     Statuses, Replies
<1>3. WaiterInv'
  BY DEF TypeOK, Assigned, EntryInv, WaiterInv, HandlerPCs, Outcomes,
     Statuses, Replies
<1>4. ResultClaimedOnce'
  BY DEF TypeOK, Assigned, EntryInv, WaiterInv, ResultClaimedOnce, Claims,
     HandlerPCs, Outcomes, Statuses, Replies
<1>5. Assigned' /\ OutcomeInv' /\ RequestIdInv' /\ NoBrokenStatusChannel' /\
     AbortWaitsForEnd'
  BY DEF Assigned, OutcomeInv, RequestIdInv, TargetHasRequestId,
     NoBrokenStatusChannel, AbortWaitsForEnd
<1> QED
  BY <1>1, <1>2, <1>3, <1>4, <1>5

-----------------------------------------------------------------------------
\* Every step of the system, and every stuttering step, preserves the
\* invariant.
LEMMA StepInv == LifecycleInv /\ [Next]_<<vars, retry_disable>> => LifecycleInv'
<1> SUFFICES ASSUME LifecycleInv, [Next]_<<vars, retry_disable>>
             PROVE  LifecycleInv'
  OBVIOUS
<1>1. ASSUME NEW h \in Requests, HandlerStep(h)
      PROVE  LifecycleInv'
  BY <1>1, SubmitCheckInv, AddRequestIdInv, AddQueryInv, SubmitStartInv,
     WaitSubscribeInv, WaitNotifiedInv, WaitRemoveInv, WaitJoinInv,
     AbortCancelInv, AbortSubscribeInv, AbortNotifiedInv
  DEF HandlerStep
<1>2. ASSUME NEW h \in Requests, ClientStep(h)
      PROVE  LifecycleInv'
  BY <1>2, ArriveQueryInv, ArriveAbortInv, DropHandlerInv, CancelQueryInv
  DEF ClientStep
<1>3. ASSUME NEW h \in Requests, TaskStep(h)
      PROVE  LifecycleInv'
  BY <1>3, TaskStartInv, SelectFinishedInv, SelectCancelledInv,
     SelectTimeoutInv, TaskNotifyInv, TaskReturnInv
  DEF TaskStep
<1>4. CASE UNCHANGED vars
  BY <1>4
  DEF vars, LifecycleInv, TypeOK, Assigned, EntryInv, WaiterInv, OutcomeInv,
      RequestIdInv, TargetHasRequestId, ResultClaimedOnce, Claims,
      NoBrokenStatusChannel, AbortWaitsForEnd
<1> QED
  BY <1>1, <1>2, <1>3, <1>4, SubtaskEndInv, DiscardFireInv DEF Next

\* The inductive invariant holds in every reachable state of submit, wait,
\* abort, the registry and the query tasks.
THEOREM LifecycleInvariant == Spec => []LifecycleInv
<1> QED
  BY InitInv, StepInv, PTL DEF Spec

\* Every variable keeps its type.
THEOREM TypeCorrect == Spec => []TypeOK
<1>1. LifecycleInv => TypeOK
  BY DEF LifecycleInv
<1> QED
  BY <1>1, LifecycleInvariant, PTL

\* notify_query_finished always finds the entry of its query: the `?` that
\* would make the query task return without a notification is dead code.
THEOREM NotifyAlwaysFindsEntry == Spec => []NotifyFindsEntry
<1>1. LifecycleInv => NotifyFindsEntry
  BY DEF LifecycleInv, EntryInv, NotifyFindsEntry
<1> QED
  BY <1>1, LifecycleInvariant, PTL

\* No waiter and no aborter ever gets ExecutionStatusRecv.
THEOREM StatusChannelNeverBreaks == Spec => []NoBrokenStatusChannel
<1>1. LifecycleInv => NoBrokenStatusChannel
  BY DEF LifecycleInv
<1> QED
  BY <1>1, LifecycleInvariant, PTL

\* The result of a query is handed out at most once.
THEOREM ResultHandedOutOnce == Spec => []ResultClaimedOnce
<1>1. LifecycleInv => ResultClaimedOnce
  BY DEF LifecycleInv
<1> QED
  BY <1>1, LifecycleInvariant, PTL

\* What a handler answers is how the statement of its query ended.
THEOREM AnswersAreTruthful == Spec => []AnswerMatchesExecution
<1>1. LifecycleInv => AnswerMatchesExecution
  BY DEF LifecycleInv, TypeOK, WaiterInv, OutcomeInv, Outcomes, AnswerMatchesExecution
<1> QED
  BY <1>1, LifecycleInvariant, PTL

\* abort answers only after the query it aborts has ended.
THEOREM AbortWaits == Spec => []AbortWaitsForEnd
<1>1. LifecycleInv => AbortWaitsForEnd
  BY DEF LifecycleInv
<1> QED
  BY <1>1, LifecycleInvariant, PTL

\* A retry or an abort only touches queries of its own requestId.
THEOREM TargetsMatchRequestIds == Spec => []TargetHasRequestId
<1>1. LifecycleInv => TargetHasRequestId
  BY DEF LifecycleInv, RequestIdInv
<1> QED
  BY <1>1, LifecycleInvariant, PTL

-----------------------------------------------------------------------------
(* Steps seen through the refinement mapping *)

\* Only add, wait and the discard task change the registry, and only the
\* query task publishes a status.
LEMMA MappedStep ==
  ASSUME LifecycleInv, NEW h \in Requests,
         HandlerStep(h) \/ ClientStep(h) \/ TaskStep(h) \/ SubtaskEnd(h) \/ DiscardFire(h)
  PROVE  \/ AddQuery(h) \/ WaitRemove(h) \/ DiscardFire(h) \/ TaskNotify(h)
         \/ UNCHANGED <<queries, status>>
  BY DEF HandlerStep, ClientStep, TaskStep, ArriveQuery, ArriveAbort, DropHandler,
     CancelQuery, SubmitCheck, AddRequestId, SubmitStart, WaitSubscribe, Subscribe,
     WaitNotified, WaitJoin, AbortCancel, AbortSubscribe, AbortNotified, TaskStart,
     SubtaskEnd, SelectFinished, SelectCancelled, SelectTimeout, TaskReturn

\* An entry leaves the registry only after its status was published.
THEOREM RemovalAfterStatus == Spec => RemovedOnlyFinished
<1>1. LifecycleInv /\ [Next]_<<vars, retry_disable>> => [\A q \in queries \ queries' : status[q] # None]_vars
  <2> SUFFICES ASSUME LifecycleInv, NEW h \in Requests,
                      HandlerStep(h) \/ ClientStep(h) \/ TaskStep(h)
                        \/ SubtaskEnd(h) \/ DiscardFire(h)
               PROVE  \A q \in queries \ queries' : status[q] # None
    BY DEF Next
  <2>1. CASE AddQuery(h)
    BY <2>1 DEF AddQuery
  <2>2. CASE WaitRemove(h)
    BY <2>2 DEF WaitRemove, Goto, Respond, LifecycleInv, WaiterInv
  <2>3. CASE DiscardFire(h)
    BY <2>3 DEF DiscardFire, LifecycleInv, EntryInv
  <2>4. CASE TaskNotify(h)
    BY <2>4 DEF TaskNotify
  <2> QED
    BY <2>1, <2>2, <2>3, <2>4, MappedStep
<1> QED
  BY <1>1, LifecycleInvariant, PTL DEF Spec, RemovedOnlyFinished

\* The service implements QueryPromise: a query becomes visible once,
\* finishes once with one status, and its result leaves once.
THEOREM ServiceImplementsPromise == Spec => ImplementsPromise
<1>1. Init => Promise!Init
  BY DEF Init, Promise!Init, phase
<1>2. LifecycleInv /\ [Next]_<<vars, retry_disable>> => [Promise!Next]_(Promise!vars)
  <2> SUFFICES ASSUME LifecycleInv, [Next]_<<vars, retry_disable>>
               PROVE  Promise!Next \/ UNCHANGED Promise!vars
    BY DEF Promise!vars
  <2>1. CASE UNCHANGED vars
    BY <2>1 DEF vars, Promise!vars, phase
  <2>2. ASSUME NEW h \in Requests,
               HandlerStep(h) \/ ClientStep(h) \/ TaskStep(h)
                 \/ SubtaskEnd(h) \/ DiscardFire(h)
        PROVE  Promise!Next \/ UNCHANGED Promise!vars
    <3>1. CASE AddQuery(h)
      <4>1. h \notin queries /\ status[h] = None
        BY <3>1 DEF AddQuery, Goto, LifecycleInv, EntryInv
      <4>2. Promise!Submit(h)
        BY <3>1, <4>1 DEF AddQuery, LifecycleInv, TypeOK, Promise!Submit, phase
      <4> QED
        BY <4>2 DEF Promise!Next
    <3>2. CASE WaitRemove(h)
      <4>1. CASE queries' = queries
        BY <3>2, <4>1 DEF WaitRemove, Promise!vars, phase
      <4>2. CASE target[h] \in queries /\ queries' = queries \ {target[h]}
        <5>1. target[h] \in Requests /\ status[target[h]] # None
          BY <3>2, <4>2 DEF WaitRemove, Goto, Respond, LifecycleInv, TypeOK, WaiterInv
        <5>2. phase[target[h]] = "finished" /\ UNCHANGED status
          BY <3>2, <4>2, <5>1 DEF WaitRemove, phase
        <5>3. phase' = [phase EXCEPT ![target[h]] = "taken"]
          BY <4>2, <5>1, <5>2 DEF phase
        <5>4. Promise!Take(target[h])
          BY <5>2, <5>3 DEF Promise!Take
        <5> QED
          BY <5>1, <5>4 DEF Promise!Next
      <4> QED
        BY <3>2, <4>1, <4>2 DEF WaitRemove
    <3>3. CASE DiscardFire(h)
      <4>1. status[h] # None
        BY <3>3 DEF DiscardFire, LifecycleInv, EntryInv
      <4>2. CASE h \in queries
        <5>1. Promise!Take(h)
          BY <3>3, <4>1, <4>2 DEF DiscardFire, LifecycleInv, TypeOK, Promise!Take, phase
        <5> QED
          BY <5>1 DEF Promise!Next
      <4>3. CASE h \notin queries
        BY <3>3, <4>3 DEF DiscardFire, Promise!vars, phase
      <4> QED
        BY <4>2, <4>3
    <3>4. CASE TaskNotify(h)
      <4>1. h \in queries /\ status[h] = None /\ outcome[h] \in Outcomes
        BY <3>4 DEF TaskNotify, LifecycleInv, TypeOK, EntryInv, Assigned
      <4>2. StatusOf(outcome[h]) \in Statuses
        BY <4>1 DEF StatusOf, Statuses, Outcomes
      <4>3. queries' = queries /\ status' = [status EXCEPT ![h] = StatusOf(outcome[h])]
        BY <3>4, <4>1 DEF TaskNotify
      <4>4. StatusOf(outcome[h]) # None
        BY <4>2, ConstantsAssumption
      <4>5. phase[h] = "running"
        BY <4>1 DEF phase
      <4>6. phase' = [phase EXCEPT ![h] = "finished"]
        BY <4>1, <4>3, <4>4 DEF phase, LifecycleInv, TypeOK
      <4>7. Promise!Finish(h)
        BY <4>2, <4>3, <4>5, <4>6 DEF Promise!Finish
      <4> QED
        BY <4>7 DEF Promise!Next
    <3>5. CASE UNCHANGED <<queries, status>>
      BY <3>5 DEF Promise!vars, phase
    <3> QED
      BY <2>2, <3>1, <3>2, <3>3, <3>4, <3>5, MappedStep
  <2> QED
    BY <2>1, <2>2 DEF Next
<1> QED
  BY <1>1, <1>2, LifecycleInvariant, PTL DEF Spec, ImplementsPromise, Promise!Spec

=============================================================================
