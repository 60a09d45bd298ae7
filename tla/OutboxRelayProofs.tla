-------------------------- MODULE OutboxRelayProofs --------------------------
(***************************************************************************)
(* Theorems about the outbox relay, for any finite set of events, any      *)
(* replicas, batch size and batches per run, any kinds and number of       *)
(* faults.                                                                 *)
(***************************************************************************)
EXTENDS OutboxRelay, FiniteSetTheorems, TLAPS

-----------------------------------------------------------------------------
(* The inductive invariant.                                                *)

\* Rows are locked by one open transaction at most, while they are NEW.
RowsLocked ==
    /\ \A p \in Publishers :
        /\ toSend[p] \subseteq batch[p]
        /\ mode[p] # "open" => batch[p] = {}
        /\ \A e \in batch[p] : status[e] = "NEW"
    /\ \A p, q \in Publishers : p # q => batch[p] \cap batch[q] = {}

\* Nobody has heard of an event before its row is there.
NothingBefore ==
    \A e \in Events : status[e] = "none" =>
        topic[e] = 0 /\ \A p \in Publishers : inFlight[p][e] = 0

\* The next transaction that has e will hand it over, or hand it over again.
Fresh(e) ==
    /\ status[e] \in {"none", "NEW"}
    /\ \A p \in Publishers : e \in batch[p] => e \in toSend[p]

\* Every copy but the one of the transaction that counts took a fault.
CopiesBounded == \A e \in Events : copies[e] <= (IF Fresh(e) THEN 0 ELSE 1) + faults

Sent(e) == topic[e] > 0 \/ \E p \in Publishers : inFlight[p][e] > 0

\* Without failed sends and dead replicas, what was handed over is on its way.
HandedOverIsSent ==
    happened \cap {"sendFails", "crash"} = {} => \A e \in Events : Fresh(e) \/ Sent(e)

Inv == TypeOK /\ RowsLocked /\ NothingBefore

-----------------------------------------------------------------------------
(* Types, locks and rows.                                                  *)

LEMMA TypeInit == Init => TypeOK
<1> SUFFICES ASSUME Init PROVE TypeOK
  OBVIOUS
<1>1. ASSUME NEW e \in Events PROVE 0 \in Times
  <2>1. Cardinality(Events) \in Nat /\ Cardinality(Events) # 0
    BY RelayAssumption, FS_CardinalityType, FS_EmptySet DEF RelayAssumption
  <2> QED BY <2>1 DEF Times
<1> QED BY <1>1, RelayAssumption DEF RelayAssumption, Init, TypeOK, Statuses

LEMMA TypeStep == TypeOK /\ [Next]_vars => TypeOK'
<1> SUFFICES ASSUME TypeOK, [Next]_vars PROVE TypeOK'
  OBVIOUS
<1> USE RelayAssumption DEF RelayAssumption, TypeOK, publisherVars, brokerVars, faultVars
<1>1. ASSUME NEW e \in Events, CreateNotification(e) PROVE TypeOK'
  BY <1>1 DEF CreateNotification, Statuses
<1>2. ASSUME NEW p \in Publishers, NEW B \in SUBSET Events, LockBatch(p, B) PROVE TypeOK'
  BY <1>2 DEF LockBatch
<1>3. ASSUME NEW p \in Publishers, FindNothing(p) PROVE TypeOK'
  BY <1>3 DEF FindNothing
<1>4. ASSUME NEW p \in Publishers, Commit(p) PROVE TypeOK'
  <2>1. (IF EndsRun(p) THEN 0 ELSE batchNumber[p] + 1) \in 0 .. MaxBatchesPerRun - 1
    BY DEF EndsRun
  <2> QED BY <1>4, <2>1 DEF Commit, Statuses
<1>5. ASSUME NEW p \in Publishers, Rollback(p) PROVE TypeOK'
  BY <1>5 DEF Rollback, Fault, CloseTransaction
<1>6. ASSUME NEW p \in Publishers, Crash(p) PROVE TypeOK'
  BY <1>6 DEF Crash, Fault, CloseTransaction
<1>7. ASSUME NEW p \in Publishers, NEW e \in Events, Publish(p, e) PROVE TypeOK'
  BY <1>7 DEF Publish
<1>8. ASSUME NEW p \in Publishers, NEW e \in Events, Store(p, e) PROVE TypeOK'
  BY <1>8 DEF Store
<1>9. ASSUME NEW p \in Publishers, NEW e \in Events, StoreUnanswered(p, e) PROVE TypeOK'
  BY <1>9 DEF StoreUnanswered, Fault
<1>10. ASSUME NEW p \in Publishers, NEW e \in Events, SendFails(p, e) PROVE TypeOK'
  BY <1>10 DEF SendFails, Fault
<1>11. CASE UNCHANGED vars
  BY <1>11 DEF vars
<1> QED
  BY <1>1, <1>2, <1>3, <1>4, <1>5, <1>6, <1>7, <1>8, <1>9, <1>10, <1>11 DEF Next

LEMMA LockStep == TypeOK /\ RowsLocked /\ [Next]_vars => RowsLocked'
<1> SUFFICES ASSUME TypeOK, RowsLocked, [Next]_vars PROVE RowsLocked'
  OBVIOUS
<1> USE DEF TypeOK, RowsLocked, publisherVars, brokerVars, faultVars
<1>1. ASSUME NEW e \in Events, CreateNotification(e) PROVE RowsLocked'
  BY <1>1 DEF CreateNotification
<1>2. ASSUME NEW p \in Publishers, NEW B \in SUBSET Events, LockBatch(p, B) PROVE RowsLocked'
  BY <1>2 DEF LockBatch, IsNextBatch, Available
<1>3. ASSUME NEW p \in Publishers, FindNothing(p) PROVE RowsLocked'
  BY <1>3 DEF FindNothing
<1>4. ASSUME NEW p \in Publishers, Commit(p) PROVE RowsLocked'
  BY <1>4 DEF Commit
<1>5. ASSUME NEW p \in Publishers, Rollback(p) PROVE RowsLocked'
  BY <1>5 DEF Rollback, CloseTransaction
<1>6. ASSUME NEW p \in Publishers, Crash(p) PROVE RowsLocked'
  BY <1>6 DEF Crash, CloseTransaction
<1>7. ASSUME NEW p \in Publishers, NEW e \in Events, Publish(p, e) PROVE RowsLocked'
  BY <1>7 DEF Publish
<1>8. ASSUME NEW p \in Publishers, NEW e \in Events,
             Store(p, e) \/ StoreUnanswered(p, e) \/ SendFails(p, e)
      PROVE  RowsLocked'
  BY <1>8 DEF Store, StoreUnanswered, SendFails
<1>9. CASE UNCHANGED vars
  BY <1>9 DEF vars
<1> QED BY <1>1, <1>2, <1>3, <1>4, <1>5, <1>6, <1>7, <1>8, <1>9 DEF Next

LEMMA BeforeStep == Inv /\ [Next]_vars => NothingBefore'
<1> SUFFICES ASSUME Inv, [Next]_vars PROVE NothingBefore'
  OBVIOUS
<1> USE DEF Inv, TypeOK, RowsLocked, NothingBefore, publisherVars, brokerVars, faultVars
<1>1. ASSUME NEW e \in Events, CreateNotification(e) PROVE NothingBefore'
  BY <1>1 DEF CreateNotification
<1>2. ASSUME NEW p \in Publishers, NEW B \in SUBSET Events, LockBatch(p, B) PROVE NothingBefore'
  BY <1>2 DEF LockBatch
<1>3. ASSUME NEW p \in Publishers, FindNothing(p) PROVE NothingBefore'
  BY <1>3 DEF FindNothing
<1>4. ASSUME NEW p \in Publishers, Commit(p) PROVE NothingBefore'
  BY <1>4 DEF Commit
<1>5. ASSUME NEW p \in Publishers, Rollback(p) PROVE NothingBefore'
  BY <1>5 DEF Rollback, CloseTransaction
<1>6. ASSUME NEW p \in Publishers, Crash(p) PROVE NothingBefore'
  BY <1>6 DEF Crash, CloseTransaction
<1>7. ASSUME NEW p \in Publishers, NEW e \in Events, Publish(p, e) PROVE NothingBefore'
  BY <1>7 DEF Publish
<1>8. ASSUME NEW p \in Publishers, NEW e \in Events,
             Store(p, e) \/ StoreUnanswered(p, e) \/ SendFails(p, e)
      PROVE  NothingBefore'
  BY <1>8 DEF Store, StoreUnanswered, SendFails
<1>9. CASE UNCHANGED vars
  BY <1>9 DEF vars
<1> QED BY <1>1, <1>2, <1>3, <1>4, <1>5, <1>6, <1>7, <1>8, <1>9 DEF Next

LEMMA InvCorrect == Spec => []Inv
<1>1. Init => Inv
  BY TypeInit DEF Init, Inv, RowsLocked, NothingBefore
<1>2. Inv /\ [Next]_vars => Inv'
  BY TypeStep, LockStep, BeforeStep DEF Inv
<1> QED BY <1>1, <1>2, PTL DEF Spec

\* Every reachable state is well typed; in particular no run goes on for more
\* batches than it may.
THEOREM TypeCorrect == Spec => []TypeOK
<1>1. Inv => TypeOK
  BY DEF Inv
<1> QED BY <1>1, InvCorrect, PTL

\* FOR UPDATE SKIP LOCKED: no two replicas have a row at the same time, and
\* none has one that is published already.
THEOREM LocksExclude == Spec => []RowsLocked
<1>1. Inv => RowsLocked
  BY DEF Inv
<1> QED BY <1>1, InvCorrect, PTL

-----------------------------------------------------------------------------
(* Copies and losses.                                                      *)

\* What the steps do to Fresh: only Publish and Commit end it, and only a
\* fault gives it back.
LEMMA FreshSteps ==
    ASSUME Inv, [Next]_vars, NEW e \in Events
    PROVE  /\ Fresh(e)' /\ ~Fresh(e) => faults' = faults + 1 /\ copies'[e] = copies[e]
           /\ ~Fresh(e)' /\ Fresh(e) =>
                 \E p \in Publishers : Publish(p, e)
<1> USE DEF Inv, TypeOK, RowsLocked, publisherVars, brokerVars, faultVars
<1>1. ASSUME NEW d \in Events, CreateNotification(d) PROVE Fresh(e)' <=> Fresh(e)
  BY <1>1 DEF CreateNotification, Fresh
<1>2. ASSUME NEW p \in Publishers, NEW B \in SUBSET Events, LockBatch(p, B)
      PROVE  Fresh(e)' <=> Fresh(e)
  <2>1. CASE e \in B
    BY <1>2, <2>1 DEF LockBatch, IsNextBatch, Available, Fresh
  <2>2. CASE e \notin B
    BY <1>2, <2>2 DEF LockBatch, Fresh
  <2> QED BY <2>1, <2>2
<1>3. ASSUME NEW p \in Publishers, FindNothing(p) PROVE Fresh(e)' <=> Fresh(e)
  BY <1>3 DEF FindNothing, Fresh
<1>4. ASSUME NEW p \in Publishers, Commit(p) PROVE Fresh(e)' <=> Fresh(e)
  <2>1. CASE e \in batch[p]
    BY <1>4, <2>1 DEF Commit, Fresh
  <2>2. CASE e \notin batch[p]
    BY <1>4, <2>2 DEF Commit, Fresh
  <2> QED BY <2>1, <2>2
<1>5. ASSUME NEW p \in Publishers, Rollback(p) \/ Crash(p)
      PROVE  (Fresh(e) => Fresh(e)') /\ faults' = faults + 1 /\ copies' = copies
  <2>1. /\ batch' = [batch EXCEPT ![p] = {}] /\ toSend' = [toSend EXCEPT ![p] = {}]
        /\ status' = status /\ copies' = copies /\ faults' = faults + 1
    BY <1>5 DEF Rollback, Crash, CloseTransaction, Fault
  <2>2. \A q \in Publishers : e \in batch'[q] => q # p /\ e \in batch[q] /\ toSend'[q] = toSend[q]
    BY <2>1
  <2> QED BY <2>1, <2>2 DEF Fresh
<1>6. ASSUME NEW p \in Publishers, NEW d \in Events, Publish(p, d)
      PROVE  (Fresh(e)' => Fresh(e)) /\ (~Fresh(e)' /\ Fresh(e) => Publish(p, e))
  <2>1. CASE d = e
    BY <1>6, <2>1 DEF Publish, Fresh
  <2>2. CASE d # e
    BY <1>6, <2>2 DEF Publish, Fresh
  <2> QED BY <2>1, <2>2
<1>7. ASSUME NEW p \in Publishers, NEW d \in Events,
             Store(p, d) \/ StoreUnanswered(p, d) \/ SendFails(p, d)
      PROVE  Fresh(e)' <=> Fresh(e)
  BY <1>7 DEF Store, StoreUnanswered, SendFails, Fresh
<1>8. CASE UNCHANGED vars
  BY <1>8 DEF vars, Fresh
<1> QED BY <1>1, <1>2, <1>3, <1>4, <1>5, <1>6, <1>7, <1>8 DEF Next

\* Whose copies a step adds to, and that it is a fault if a lost answer does.
LEMMA CopySteps ==
    ASSUME Inv, [Next]_vars, NEW e \in Events
    PROVE  /\ faults' >= faults
           /\ \/ copies'[e] = copies[e]
              \/ copies'[e] = copies[e] + 1 /\ faults' = faults + 1
              \/ /\ copies'[e] = copies[e] + 1
                 /\ \E p \in Publishers : Publish(p, e)
<1> USE DEF Inv, TypeOK, publisherVars, brokerVars, faultVars
<1>1. ASSUME NEW p \in Publishers, NEW d \in Events, Publish(p, d)
      PROVE  /\ faults' = faults
             /\ copies'[e] = copies[e] \/ (copies'[e] = copies[e] + 1 /\ d = e)
  BY <1>1 DEF Publish
<1>2. ASSUME NEW p \in Publishers, NEW d \in Events, StoreUnanswered(p, d)
      PROVE  /\ faults' = faults + 1
             /\ copies'[e] = copies[e] \/ copies'[e] = copies[e] + 1
  BY <1>2 DEF StoreUnanswered, Fault
<1>3. \/ copies' = copies /\ (faults' = faults \/ faults' = faults + 1)
      \/ \E p \in Publishers, d \in Events : Publish(p, d) \/ StoreUnanswered(p, d)
  BY DEF Next, CreateNotification, LockBatch, FindNothing, Commit, Rollback, Crash, Store,
         SendFails, Fault, vars
<1> QED BY <1>1, <1>2, <1>3

LEMMA CopiesStep == Inv /\ CopiesBounded /\ [Next]_vars => CopiesBounded'
<1> SUFFICES ASSUME Inv, CopiesBounded, [Next]_vars, NEW e \in Events
             PROVE  copies'[e] <= (IF Fresh(e)' THEN 0 ELSE 1) + faults'
  BY DEF CopiesBounded
<1>1. /\ copies[e] \in Nat /\ faults \in Nat /\ faults' \in Nat
      /\ copies[e] <= (IF Fresh(e) THEN 0 ELSE 1) + faults
  BY TypeStep, RelayAssumption DEF Inv, TypeOK, CopiesBounded, RelayAssumption
<1>2. ASSUME NEW p \in Publishers, Publish(p, e)
      PROVE  Fresh(e) /\ ~Fresh(e)' /\ faults' = faults
  BY <1>2 DEF Publish, Fresh, Inv, TypeOK, RowsLocked, faultVars
<1> QED BY <1>1, <1>2, FreshSteps, CopySteps

\* What was on its way still is, but for a failed send or a dead replica.
LEMMA SentStep ==
    ASSUME Inv, [Next]_vars, NEW e \in Events, Sent(e)
    PROVE  Sent(e)' \/ happened' \cap {"sendFails", "crash"} # {}
<1> USE DEF Inv, TypeOK, publisherVars, brokerVars, faultVars
<1>1. ASSUME NEW p \in Publishers, NEW d \in Events, Publish(p, d) PROVE Sent(e)'
  <2>1. topic' = topic /\ inFlight' = [inFlight EXCEPT ![p][d] = inFlight[p][d] + 1]
    BY <1>1 DEF Publish
  <2>2. \A q \in Publishers : inFlight[q][e] > 0 => inFlight'[q][e] > 0
    BY <2>1
  <2> QED BY <2>1, <2>2 DEF Sent
<1>2. ASSUME NEW p \in Publishers, NEW d \in Events, Store(p, d) PROVE Sent(e)'
  <2>1. CASE d = e
    BY <1>2, <2>1 DEF Store, Sent
  <2>2. CASE d # e
    BY <1>2, <2>2 DEF Store, Sent
  <2> QED BY <2>1, <2>2
<1>3. ASSUME NEW p \in Publishers, NEW d \in Events, StoreUnanswered(p, d) PROVE Sent(e)'
  BY <1>3 DEF StoreUnanswered, Sent
<1>4. \/ topic' = topic /\ inFlight' = inFlight
      \/ happened' \cap {"sendFails", "crash"} # {}
      \/ \E p \in Publishers, d \in Events : Publish(p, d) \/ Store(p, d) \/ StoreUnanswered(p, d)
  BY DEF Next, CreateNotification, LockBatch, FindNothing, Commit, Rollback, Crash, SendFails,
         Fault, vars
<1> QED BY <1>1, <1>2, <1>3, <1>4 DEF Sent

LEMMA SentInvStep == Inv /\ HandedOverIsSent /\ [Next]_vars => HandedOverIsSent'
<1> SUFFICES ASSUME Inv, HandedOverIsSent, [Next]_vars, NEW e \in Events,
                    happened' \cap {"sendFails", "crash"} = {}
             PROVE  Fresh(e)' \/ Sent(e)'
  BY DEF HandedOverIsSent
<1>1. happened \subseteq happened'
  BY DEF Next, CreateNotification, LockBatch, FindNothing, Commit, Rollback, Crash, Publish,
         Store, StoreUnanswered, SendFails, Fault, vars, faultVars
<1>2. Fresh(e) \/ Sent(e)
  BY <1>1 DEF HandedOverIsSent
<1>3. CASE Sent(e)
  BY <1>3, SentStep
<1>4. CASE Fresh(e) /\ ~Fresh(e)'
  <2> PICK p \in Publishers : Publish(p, e)
    BY <1>4, FreshSteps
  <2>1. inFlight'[p][e] = inFlight[p][e] + 1 /\ inFlight[p][e] \in Nat
    BY DEF Publish, Inv, TypeOK
  <2> QED BY <2>1 DEF Sent
<1> QED BY <1>2, <1>3, <1>4

\* A second copy of an event takes a failed transaction, a dead replica or a
\* lost answer, a third one two of them, and so on.
THEOREM EveryCopyHasACause == Spec => []CopiesHaveCause
<1>1. Init => CopiesBounded
  BY DEF Init, CopiesBounded
<1>2. Inv /\ CopiesBounded /\ [Next]_vars => CopiesBounded'
  BY CopiesStep
<1>3. Inv /\ CopiesBounded => CopiesHaveCause
  BY RelayAssumption DEF Inv, TypeOK, CopiesBounded, CopiesHaveCause, RelayAssumption
<1> QED BY <1>1, <1>2, <1>3, InvCorrect, PTL DEF Spec

\* A row is PUBLISHED without its record being stored, or about to be, only
\* after a send failed or a replica died: rollbacks, lost answers and other
\* replicas lose nothing.
THEOREM OnlyFailedSendsLose == Spec => []LossNeedsFailedSend
<1>1. Init => HandedOverIsSent
  BY DEF Init, HandedOverIsSent, Fresh
<1>2. Inv /\ HandedOverIsSent /\ [Next]_vars => HandedOverIsSent'
  BY SentInvStep
<1>3. HandedOverIsSent => LossNeedsFailedSend
  BY DEF HandedOverIsSent, LossNeedsFailedSend, PublishedIsSent, Fresh, Sent
<1> QED BY <1>1, <1>2, <1>3, InvCorrect, PTL DEF Spec

-----------------------------------------------------------------------------
(* The abstract relay.                                                     *)

\* Every step accepts one event, relays one accepted event for the first time,
\* or is invisible from the two ends.
LEMMA RelayStep == Inv /\ [Next]_vars => [Relay!Next]_(Relay!vars)
<1> SUFFICES ASSUME Inv, [Next]_vars PROVE [Relay!Next]_(Relay!vars)
  OBVIOUS
<1> USE DEF Inv, TypeOK, publisherVars, brokerVars, faultVars
<1> DEFINE accepted == {e \in Events : status[e] # "none"}
           relayed == {e \in Events : topic[e] > 0}
<1>1. ASSUME NEW e \in Events, CreateNotification(e) PROVE Relay!Accept(e)
  <2>1. accepted' = accepted \cup {e} /\ e \notin accepted
    BY <1>1 DEF CreateNotification
  <2>2. relayed' = relayed
    BY <1>1 DEF CreateNotification
  <2> QED BY <2>1, <2>2 DEF Relay!Accept
<1>2. ASSUME NEW p \in Publishers, NEW e \in Events, Store(p, e) \/ StoreUnanswered(p, e)
      PROVE  Relay!RelayEvent(e) \/ UNCHANGED Relay!vars
  <2>1. status' = status /\ inFlight[p][e] > 0 /\ topic' = [topic EXCEPT ![e] = topic[e] + 1]
    BY <1>2 DEF Store, StoreUnanswered
  <2>2. e \in accepted /\ accepted' = accepted
    BY <2>1 DEF NothingBefore
  <2>3. relayed' = relayed \cup {e}
    BY <2>1
  <2> QED BY <2>2, <2>3 DEF Relay!RelayEvent, Relay!vars
<1>3. ASSUME NEW p \in Publishers, Commit(p) PROVE UNCHANGED Relay!vars
  <2>1. accepted' = accepted
    BY <1>3 DEF Commit, RowsLocked
  <2>2. topic' = topic
    BY <1>3 DEF Commit
  <2> QED BY <2>1, <2>2 DEF Relay!vars
<1>4. \/ status' = status /\ topic' = topic
      \/ \E e \in Events : CreateNotification(e)
      \/ \E p \in Publishers : Commit(p)
      \/ \E p \in Publishers, e \in Events : Store(p, e) \/ StoreUnanswered(p, e)
  BY DEF Next, LockBatch, FindNothing, Rollback, Crash, Publish, SendFails, vars
<1>5. status' = status /\ topic' = topic => UNCHANGED Relay!vars
  BY DEF Relay!vars
<1> QED BY <1>1, <1>2, <1>3, <1>4, <1>5 DEF Relay!Next

\* Seen from its two ends the outbox is a relay: nothing is relayed before it
\* is accepted, nothing accepted is taken back, whatever fails.
THEOREM OutboxIsARelay == Spec => Relay!Spec
<1>1. Init => Relay!Init
  BY DEF Init, Relay!Init
<1>2. Inv /\ [Next]_vars => [Relay!Next]_(Relay!vars)
  BY RelayStep
<1> QED BY <1>1, <1>2, InvCorrect, PTL DEF Spec, Relay!Spec
=============================================================================
