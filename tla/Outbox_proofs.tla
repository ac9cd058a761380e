----------------------------- MODULE Outbox_proofs -----------------------------
(***************************************************************************)
(* Proofs about Outbox for any events, pollers, batch size and retry       *)
(* limit, and any number of failed calls and of pollers that die.          *)
(***************************************************************************)
EXTENDS Outbox, TLAPS

\* arq has made one job of every event it knows, and none of the others.
JobPerKnownId ==
    \A e \in Events : queued[e] + started[e] = (IF known[e] THEN 1 ELSE 0)

\* What a poller has recorded as handed over, and what is PROCESSED, arq knows.
HandedIsKnown ==
    \A e \in Tasks : /\ row[e].status = "PROCESSED" => known[e]
                     /\ \A p \in Pollers : outcome[p][e] = "ok" => known[e]

\* Locks: batches are disjoint, and a locked row stays as the poller found it.
LocksHold ==
    /\ \A p, q \in Pollers : p # q => batch[p] \cap batch[q] = {}
    /\ \A p \in Pollers : \A e \in batch[p] : Due(e)
    /\ \A p \in Pollers : todo[p] \subseteq batch[p]

\* A row at the limit is skipped.
LimitIsSkipped ==
    \A p \in Pollers : \A e \in batch[p] :
        GivenUp(e) => outcome[p][e] \in {"unseen", "skipped"}

IInv == TypeOK /\ JobPerKnownId /\ HandedIsKnown /\ LocksHold /\ LimitIsSkipped

-----------------------------------------------------------------------------
LEMMA InitIInv == Init => IInv
<1> SUFFICES ASSUME Init PROVE IInv
  OBVIOUS
<1>1. NoRow \in Row
  BY LimitsAssumption DEF NoRow, Row
<1>2. Unseen \in [Events -> {"unseen", "skipped", "ok", "error"}]
  BY DEF Unseen
<1>3. TypeOK
  BY <1>1, <1>2, BoundsAssumption DEF Init, TypeOK
<1>4. JobPerKnownId /\ LocksHold /\ LimitIsSkipped
  BY DEF Init, JobPerKnownId, LocksHold, LimitIsSkipped
<1>5. HandedIsKnown
  BY DEF Init, HandedIsKnown, Unseen, NoRow, Events
<1>6. QED
  BY <1>3, <1>4, <1>5 DEF IInv

LEMMA CommitEventsKeeps ==
    ASSUME IInv, NEW time, CommitEvents(time)
    PROVE  IInv'
<1> USE DEF IInv
<1>1. NewRow \in Row
  BY LimitsAssumption DEF NewRow, Row
<1>2. row' \in [Events -> Row]
  BY <1>1 DEF CommitEvents, TypeOK
<1>3. TypeOK'
  BY <1>2 DEF CommitEvents, TypeOK, redis
<1>4. \A e \in Events : row'[e] = row[e] \/ (row[e] = NoRow /\ row'[e].status = "PENDING")
  BY DEF CommitEvents, NewRow
<1>5. JobPerKnownId'
  BY DEF CommitEvents, JobPerKnownId, redis
<1>6. HandedIsKnown'
  BY <1>4 DEF CommitEvents, HandedIsKnown, redis, Events
<1>7. \A p \in Pollers : \A e \in batch[p] : row'[e] = row[e]
  BY <1>4 DEF LocksHold, Due, NoRow, TypeOK
<1>8. LocksHold' /\ LimitIsSkipped'
  BY <1>7 DEF CommitEvents, LocksHold, LimitIsSkipped, Due, GivenUp
<1>9. QED
  BY <1>3, <1>5, <1>6, <1>8

LEMMA PollKeeps ==
    ASSUME IInv, NEW p \in Pollers, Poll(p)
    PROVE  IInv'
<1> USE DEF IInv
<1>1. PICK B \in SUBSET Unlocked :
         /\ B \subseteq {e \in Unlocked : Due(e)}
         /\ batch' = [batch EXCEPT ![p] = B]
         /\ todo' = [todo EXCEPT ![p] = B]
         /\ outcome' = [outcome EXCEPT ![p] = Unseen]
  BY DEF Poll, Oldest
<1>2. B \subseteq Events /\ \A q \in Pollers : batch[q] \cap B = {}
  BY <1>1 DEF Unlocked
<1>3. Unseen \in [Events -> {"unseen", "skipped", "ok", "error"}]
      /\ \A e \in Events : Unseen[e] = "unseen"
  BY DEF Unseen
<1>4. TypeOK'
  BY <1>1, <1>2, <1>3 DEF Poll, TypeOK, redis
<1>5. JobPerKnownId'
  BY DEF Poll, JobPerKnownId, redis
<1>6. HandedIsKnown'
  BY <1>1, <1>3 DEF Poll, HandedIsKnown, redis, TypeOK, Events
<1>7. LocksHold'
  BY <1>1, <1>2 DEF Poll, LocksHold, Due, TypeOK
<1>8. LimitIsSkipped'
  BY <1>1, <1>2, <1>3 DEF Poll, LimitIsSkipped, GivenUp, TypeOK
<1>9. QED
  BY <1>4, <1>5, <1>6, <1>7, <1>8

\* Looking at a row of the batch records one outcome for it.
LEMMA SeeKeeps ==
    ASSUME IInv, NEW p \in Pollers, NEW e \in Events, NextInBatch(p, e),
           NEW result \in {"skipped", "ok", "error"}, See(p, e, result)
    PROVE  /\ todo' \in [Pollers -> SUBSET Events]
           /\ outcome' \in [Pollers -> [Events -> {"unseen", "skipped", "ok", "error"}]]
           /\ e \in batch[p]
           /\ \A q \in Pollers : todo'[q] \subseteq batch[q]
           /\ \A q \in Pollers, f \in Events :
                 outcome'[q][f] = IF q = p /\ f = e THEN result ELSE outcome[q][f]
BY DEF IInv, TypeOK, LocksHold, NextInBatch, See

\* It leaves rows and locks alone; a row at the limit is recorded as skipped.
LEMMA SeeKeepsLocks ==
    ASSUME IInv, NEW p \in Pollers, NEW e \in Events, NextInBatch(p, e),
           NEW result \in {"skipped", "ok", "error"}, See(p, e, result),
           row' = row, batch' = batch, GivenUp(e) => result = "skipped"
    PROVE  LocksHold' /\ LimitIsSkipped'
<1>1. \A f \in Events : (Due(f)' <=> Due(f)) /\ (GivenUp(f)' <=> GivenUp(f))
  BY DEF Due, GivenUp
<1>2. \A q \in Pollers : batch[q] \subseteq Events
  BY DEF IInv, TypeOK
<1>3. LocksHold'
  <2>1. \A q \in Pollers : todo'[q] \subseteq batch[q]
    BY SeeKeeps
  <2>2. QED
    BY <1>1, <1>2, <2>1 DEF IInv, LocksHold
<1>4. ASSUME NEW q \in Pollers, NEW f \in batch[q], GivenUp(f)
      PROVE  outcome'[q][f] \in {"unseen", "skipped"}
  <2>1. f \in Events /\ outcome[q][f] \in {"unseen", "skipped"}
    BY <1>2, <1>4 DEF IInv, LimitIsSkipped
  <2>2. outcome'[q][f] = IF q = p /\ f = e THEN result ELSE outcome[q][f]
    BY <2>1, SeeKeeps
  <2>3. CASE q = p /\ f = e
    BY <1>4, <2>2, <2>3
  <2>4. CASE ~(q = p /\ f = e)
    BY <2>1, <2>2, <2>4
  <2>5. QED
    BY <2>3, <2>4
<1>5. LimitIsSkipped'
  BY <1>1, <1>2, <1>4 DEF LimitIsSkipped
<1>6. QED
  BY <1>3, <1>5

LEMMA EnqueueKeeps ==
    ASSUME IInv, NEW e \in Events, Enqueue(e), UNCHANGED started
    PROVE  /\ queued' \in [Events -> Nat] /\ known' \in [Events -> BOOLEAN]
           /\ JobPerKnownId'
           /\ known'[e]
           /\ \A f \in Events : known[f] => known'[f]
<1> USE DEF IInv, TypeOK
<1>1. CASE known[e]
  BY <1>1 DEF Enqueue, JobPerKnownId
<1>2. CASE ~known[e]
  <2>1. queued[e] = 0 /\ started[e] = 0
    BY <1>2 DEF JobPerKnownId
  <2>2. queued' = [queued EXCEPT ![e] = queued[e] + 1] /\ known' = [known EXCEPT ![e] = TRUE]
    BY <1>2 DEF Enqueue
  <2>3. JobPerKnownId'
    BY <2>1, <2>2 DEF JobPerKnownId
  <2>4. QED
    BY <2>2, <2>3
<1>3. QED
  BY <1>1, <1>2

LEMMA CommitBatchKeeps ==
    ASSUME IInv, NEW p \in Pollers, CommitBatch(p)
    PROVE  IInv'
<1> USE DEF IInv
<1>1. ASSUME NEW e \in batch[p]
      PROVE  /\ e \in Events /\ row[e] \in Row /\ Due(e)
             /\ SettledRow(row[e], outcome[p][e]) \in Row
             /\ SettledRow(row[e], outcome[p][e]).status = "PROCESSED" => outcome[p][e] = "ok"
  <2>1. e \in Events /\ row[e] \in Row /\ Due(e) /\ outcome[p][e] \in {"unseen", "skipped", "ok", "error"}
    BY <1>1 DEF TypeOK, LocksHold
  <2>2. CASE outcome[p][e] = "ok"
    BY <2>1, <2>2 DEF SettledRow, Row
  <2>3. CASE outcome[p][e] = "error"
    <3>1. row[e].tries \in 0..MaxRetries /\ row[e].tries # MaxRetries
      BY <1>1, <2>1, <2>3 DEF LimitIsSkipped, GivenUp, Row
    <3>2. row[e].tries + 1 \in 0..MaxRetries
      BY <3>1, LimitsAssumption
    <3>3. QED
      BY <2>1, <2>3, <3>2 DEF SettledRow, Row
  <2>4. CASE outcome[p][e] \notin {"ok", "error"}
    BY <2>1, <2>4 DEF SettledRow, Due
  <2>5. QED
    BY <2>1, <2>2, <2>3, <2>4
<1>2. /\ \A e \in batch[p] : row'[e] = SettledRow(row[e], outcome[p][e])
      /\ \A e \in Events \ batch[p] : row'[e] = row[e]
  BY <1>1 DEF CommitBatch
<1>3. TypeOK'
  <2>1. row' \in [Events -> Row]
    BY <1>1 DEF CommitBatch, TypeOK
  <2>2. Unseen \in [Events -> {"unseen", "skipped", "ok", "error"}]
    BY DEF Unseen
  <2>3. QED
    BY <2>1, <2>2 DEF CommitBatch, TypeOK, redis
<1>4. JobPerKnownId'
  BY DEF CommitBatch, JobPerKnownId, redis
<1>5. HandedIsKnown'
  <2>1. \A q \in Pollers, e \in Tasks : outcome'[q][e] = "ok" => outcome[q][e] = "ok"
    BY DEF CommitBatch, TypeOK, Unseen, Events
  <2>2. \A e \in Tasks : row'[e].status = "PROCESSED" => known[e]
    BY <1>1, <1>2 DEF HandedIsKnown, Events
  <2>3. QED
    BY <2>1, <2>2 DEF CommitBatch, HandedIsKnown, redis
<1>6. \A q \in Pollers \ {p} : \A e \in batch[q] : row'[e] = row[e]
  BY <1>2 DEF LocksHold, TypeOK
<1>7. /\ batch'[p] = {} /\ todo' = todo /\ todo[p] = {}
      /\ \A q \in Pollers \ {p} : batch'[q] = batch[q] /\ outcome'[q] = outcome[q]
  BY DEF CommitBatch, TypeOK
<1>8. LocksHold'
  BY <1>6, <1>7 DEF LocksHold, Due
<1>9. LimitIsSkipped'
  BY <1>6, <1>7 DEF LimitIsSkipped, GivenUp
<1>10. QED
  BY <1>3, <1>4, <1>5, <1>8, <1>9

LEMMA BatchStepKeeps ==
    ASSUME IInv, NEW p \in Pollers, BatchStep(p)
    PROVE  IInv'
<1> USE DEF IInv
<1>1. ASSUME NEW e \in Events, Skip(p, e)
      PROVE  IInv'
  <2>1. NextInBatch(p, e) /\ See(p, e, "skipped")
    BY <1>1 DEF Skip
  <2>2. TypeOK'
    BY <1>1, <2>1, SeeKeeps DEF Skip, TypeOK, redis
  <2>3. JobPerKnownId' /\ HandedIsKnown'
    BY <1>1, <2>1, SeeKeeps DEF Skip, JobPerKnownId, HandedIsKnown, redis, Events
  <2>4. LocksHold' /\ LimitIsSkipped'
    BY <1>1, <2>1, SeeKeepsLocks DEF Skip
  <2>5. QED
    BY <2>2, <2>3, <2>4
<1>2. ASSUME NEW e \in Events, HandOver(p, e)
      PROVE  IInv'
  <2>1. NextInBatch(p, e) /\ See(p, e, "ok") /\ Enqueue(e) /\ UNCHANGED started
    BY <1>2 DEF HandOver
  <2>2. TypeOK'
    BY <1>2, <2>1, SeeKeeps, EnqueueKeeps DEF HandOver, TypeOK
  <2>3. JobPerKnownId'
    BY <2>1, EnqueueKeeps
  <2>4. HandedIsKnown'
    BY <1>2, <2>1, SeeKeeps, EnqueueKeeps DEF HandOver, HandedIsKnown, Events
  <2>5. LocksHold' /\ LimitIsSkipped'
    BY <1>2, <2>1, SeeKeepsLocks DEF HandOver
  <2>6. QED
    BY <2>2, <2>3, <2>4, <2>5
<1>3. ASSUME NEW e \in Events, HandOverFails(p, e)
      PROVE  IInv'
  <2>1. NextInBatch(p, e) /\ See(p, e, "error") /\ UNCHANGED started
    BY <1>3 DEF HandOverFails
  <2>2. /\ queued' \in [Events -> Nat] /\ known' \in [Events -> BOOLEAN]
        /\ JobPerKnownId'
        /\ \A f \in Events : known[f] => known'[f]
    <3>1. CASE Enqueue(e)
      BY <2>1, <3>1, EnqueueKeeps
    <3>2. CASE UNCHANGED <<queued, known>>
      BY <2>1, <3>2 DEF TypeOK, JobPerKnownId
    <3>3. QED
      BY <1>3, <3>1, <3>2 DEF HandOverFails
  <2>3. faults' \in 0..MaxFaults
    BY <1>3, BoundsAssumption DEF HandOverFails, TypeOK
  <2>4. TypeOK'
    BY <1>3, <2>1, <2>2, <2>3, SeeKeeps DEF HandOverFails, TypeOK
  <2>5. HandedIsKnown'
    BY <1>3, <2>1, <2>2, SeeKeeps DEF HandOverFails, HandedIsKnown, Events
  <2>6. LocksHold' /\ LimitIsSkipped'
    BY <1>3, <2>1, SeeKeepsLocks DEF HandOverFails
  <2>7. QED
    BY <2>2, <2>4, <2>5, <2>6
<1>4. ASSUME NEW e \in Events, Broadcast(p, e)
      PROVE  IInv'
  <2>1. NextInBatch(p, e) /\ See(p, e, "ok") /\ ~(e \in Tasks)
    BY <1>4, EventsAssumption DEF Broadcast
  <2>2. published' \in [Events -> Nat]
    BY <1>4 DEF Broadcast, TypeOK
  <2>3. TypeOK'
    BY <1>4, <2>1, <2>2, SeeKeeps DEF Broadcast, TypeOK
  <2>4. JobPerKnownId' /\ HandedIsKnown'
    BY <1>4, <2>1, SeeKeeps DEF Broadcast, JobPerKnownId, HandedIsKnown, Events
  <2>5. LocksHold' /\ LimitIsSkipped'
    BY <1>4, <2>1, SeeKeepsLocks DEF Broadcast
  <2>6. QED
    BY <2>3, <2>4, <2>5
<1>5. CASE CommitBatch(p)
  BY <1>5, CommitBatchKeeps
<1>6. QED
  BY <1>1, <1>2, <1>3, <1>4, <1>5 DEF BatchStep

LEMMA PollerDiesKeeps ==
    ASSUME IInv, NEW p \in Pollers, PollerDies(p)
    PROVE  IInv'
<1> USE DEF IInv
<1>1. crashes' \in 0..MaxCrashes
  BY BoundsAssumption DEF PollerDies, TypeOK
<1>2. TypeOK'
  BY <1>1 DEF PollerDies, TypeOK, redis, Unseen
<1>3. JobPerKnownId' /\ HandedIsKnown'
  BY DEF PollerDies, JobPerKnownId, HandedIsKnown, TypeOK, redis, Unseen, Events
<1>4. LocksHold' /\ LimitIsSkipped'
  BY DEF PollerDies, LocksHold, LimitIsSkipped, Due, GivenUp, TypeOK
<1>5. QED
  BY <1>2, <1>3, <1>4

LEMMA RetryDelayKeeps ==
    ASSUME IInv, NEW e \in Events, RetryDelayElapses(e)
    PROVE  IInv'
<1> USE DEF IInv
<1>1. /\ row' \in [Events -> Row]
      /\ \A f \in Events : row'[f].status = row[f].status /\ row'[f].tries = row[f].tries
      /\ \A f \in Events \ {e} : row'[f] = row[f]
  BY DEF RetryDelayElapses, TypeOK, Row
<1>2. \A p \in Pollers : e \notin batch[p]
  BY DEF RetryDelayElapses, LocksHold, Due
<1>3. TypeOK' /\ JobPerKnownId'
  BY <1>1 DEF RetryDelayElapses, TypeOK, JobPerKnownId, redis
<1>4. HandedIsKnown'
  BY <1>1 DEF RetryDelayElapses, HandedIsKnown, Events, redis
<1>5. \A p \in Pollers : \A f \in batch[p] : row'[f] = row[f]
  BY <1>1, <1>2 DEF TypeOK
<1>6. LocksHold' /\ LimitIsSkipped'
  BY <1>5 DEF RetryDelayElapses, LocksHold, LimitIsSkipped, Due, GivenUp
<1>7. QED
  BY <1>3, <1>4, <1>6

LEMMA StartJobKeeps ==
    ASSUME IInv, NEW e \in Events, StartJob(e)
    PROVE  IInv'
<1> USE DEF IInv
<1>1. TypeOK' /\ JobPerKnownId'
  BY DEF StartJob, TypeOK, JobPerKnownId
<1>2. HandedIsKnown' /\ LocksHold' /\ LimitIsSkipped'
  BY DEF StartJob, HandedIsKnown, LocksHold, LimitIsSkipped, Due, GivenUp
<1>3. QED
  BY <1>1, <1>2

LEMMA NextKeeps == IInv /\ [Next]_vars => IInv'
<1> SUFFICES ASSUME IInv, [Next]_vars
             PROVE  IInv'
  OBVIOUS
<1>1. CASE UNCHANGED vars
  BY <1>1 DEF vars, IInv, TypeOK, JobPerKnownId, HandedIsKnown, LocksHold, LimitIsSkipped,
              Due, GivenUp
<1>2. QED
  BY <1>1, CommitEventsKeeps, PollKeeps, BatchStepKeeps, PollerDiesKeeps, RetryDelayKeeps,
     StartJobKeeps DEF Next

\* Jobs, hand-overs and locks agree at every step of every poller: the inductive
\* invariant of the outbox.
THEOREM Inductive == Spec => []IInv
<1>1. QED
  BY InitIInv, NextKeeps, PTL DEF Spec

\* Rows, batches and counters keep their shape; no row records more attempts than
\* MaxRetries.
THEOREM TypeInvariant == Spec => []TypeOK
<1>1. IInv => TypeOK
  BY DEF IInv
<1>2. QED
  BY <1>1, Inductive, PTL

\* However polls overlap, fail and die, an event becomes at most one arq job.
THEOREM OneJob == Spec => []OneJobPerEvent
<1>1. IInv => OneJobPerEvent
  BY DEF IInv, TypeOK, JobPerKnownId, OneJobPerEvent
<1>2. QED
  BY <1>1, Inductive, PTL

\* A task whose row is PROCESSED is with arq.
THEOREM Processed == Spec => []ProcessedWasHandedOver
<1>1. IInv => ProcessedWasHandedOver
  BY DEF IInv, JobPerKnownId, HandedIsKnown, ProcessedWasHandedOver, Events
<1>2. QED
  BY <1>1, Inductive, PTL

\* Rows that were handed over or given up are never written again.
THEOREM Settled == Spec => SettledIsFinal
<1> DEFINE Final(e) == row[e].status = "PROCESSED" \/ (GivenUp(e) /\ ~row[e].cooling)
<1>1. IInv /\ [Next]_vars => [\A e \in Events : Final(e) => row'[e] = row[e]]_vars
  <2> SUFFICES ASSUME IInv, Next, NEW e \in Events, Final(e)
               PROVE  row'[e] = row[e]
    BY DEF vars
  <2>1. ASSUME NEW f \in Events, CommitEvents(Created[f])
        PROVE  row'[e] = row[e]
    <3>1. row[e] # NoRow
      BY LimitsAssumption DEF NoRow, GivenUp
    <3>2. QED
      BY <2>1, <3>1 DEF CommitEvents
  <2>2. ASSUME NEW f \in Events, RetryDelayElapses(f)
        PROVE  row'[e] = row[e]
    BY <2>2 DEF RetryDelayElapses, IInv, TypeOK
  <2>3. ASSUME NEW p \in Pollers, CommitBatch(p)
        PROVE  row'[e] = row[e]
    <3>1. CASE e \in batch[p]
      <4>1. row[e].status # "PROCESSED"
        BY <3>1 DEF IInv, LocksHold, Due
      <4>2. outcome[p][e] \in {"unseen", "skipped"}
        BY <3>1, <4>1 DEF IInv, LimitIsSkipped
      <4>3. QED
        BY <2>3, <3>1, <4>2 DEF CommitBatch, SettledRow
    <3>2. QED
      BY <2>3, <3>1 DEF CommitBatch
  <2>4. ASSUME NEW p \in Pollers, Poll(p) \/ PollerDies(p)
        PROVE  row'[e] = row[e]
    BY <2>4 DEF Poll, PollerDies
  <2>5. ASSUME NEW p \in Pollers, NEW f \in Events,
               Skip(p, f) \/ HandOver(p, f) \/ HandOverFails(p, f) \/ Broadcast(p, f)
        PROVE  row'[e] = row[e]
    BY <2>5 DEF Skip, HandOver, HandOverFails, Broadcast
  <2>6. ASSUME NEW f \in Events, StartJob(f)
        PROVE  row'[e] = row[e]
    BY <2>6 DEF StartJob
  <2>7. QED
    BY <2>1, <2>2, <2>3, <2>4, <2>5, <2>6 DEF Next, BatchStep
<1>2. QED
  BY <1>1, Inductive, PTL DEF Spec, SettledIsFinal

-----------------------------------------------------------------------------
(* Broadcasts *)

\* A row that is still to be looked at has no outcome; a broadcast that is neither
\* PROCESSED nor about to be was published by pollers that died, at most once each.
TodoIsUnseen == \A p \in Pollers : \A e \in todo[p] : outcome[p][e] = "unseen"
Open(e) == row[e].status # "PROCESSED" /\ \A p \in Pollers : e \in batch[p] => outcome[p][e] # "ok"
PublishedOnce ==
    \A e \in Broadcasts : published[e] <= 1 + crashes /\ (Open(e) => published[e] <= crashes)

PubInv == TodoIsUnseen /\ PublishedOnce

\* Looking at a row gives an outcome to that row alone.
LEMMA SeeKeepsTodo ==
    ASSUME IInv, TodoIsUnseen, NEW p \in Pollers, NEW e \in Events, NextInBatch(p, e),
           NEW result \in {"skipped", "ok", "error"}, See(p, e, result)
    PROVE  TodoIsUnseen'
<1>1. \A q \in Pollers : \A f \in todo'[q] : f \in todo[q] /\ f \in Events /\ ~(q = p /\ f = e)
  BY DEF See, IInv, TypeOK
<1>2. QED
  BY <1>1, SeeKeeps DEF TodoIsUnseen

\* What is published, and what is committed of it, stays within the count.
LEMMA PubKeeps == IInv /\ PubInv /\ [Next]_vars => PubInv'
<1> SUFFICES ASSUME IInv, PubInv, [Next]_vars
             PROVE  PubInv'
  OBVIOUS
<1> USE DEF PubInv
<1>0. /\ \A e \in Broadcasts : e \in Events /\ published[e] \in Nat /\ row[e] \in Row
      /\ crashes \in Nat
  BY BoundsAssumption DEF IInv, TypeOK, Events
<1>1. ASSUME NEW f \in Events, CommitEvents(Created[f])
      PROVE  PubInv'
  <2>1. \A e \in Broadcasts : Open(e)' => Open(e)
    BY <1>0, <1>1 DEF CommitEvents, Open, NoRow
  <2>2. QED
    BY <1>1, <2>1 DEF CommitEvents, redis, TodoIsUnseen, PublishedOnce
<1>2. ASSUME NEW f \in Events, RetryDelayElapses(f)
      PROVE  PubInv'
  <2>1. \A e \in Events : row'[e].status = row[e].status
    BY <1>2 DEF RetryDelayElapses, IInv, TypeOK, Row
  <2>2. \A e \in Broadcasts : Open(e)' => Open(e)
    BY <1>0, <1>2, <2>1 DEF RetryDelayElapses, Open
  <2>3. QED
    BY <1>2, <2>2 DEF RetryDelayElapses, redis, TodoIsUnseen, PublishedOnce
<1>3. ASSUME NEW f \in Events, StartJob(f)
      PROVE  PubInv'
  BY <1>3 DEF StartJob, Open, TodoIsUnseen, PublishedOnce
<1>4. ASSUME NEW p \in Pollers, Poll(p)
      PROVE  PubInv'
  <2>1. PICK B \in SUBSET Unlocked :
           /\ batch' = [batch EXCEPT ![p] = B]
           /\ todo' = [todo EXCEPT ![p] = B]
           /\ outcome' = [outcome EXCEPT ![p] = Unseen]
    BY <1>4 DEF Poll
  <2>2. batch[p] = {} /\ UNCHANGED <<row, published, crashes>>
    BY <1>4 DEF Poll, redis
  <2>3. B \subseteq Events
    BY DEF Unlocked
  <2>4. TodoIsUnseen'
    BY <2>1, <2>3 DEF TodoIsUnseen, Unseen, IInv, TypeOK
  <2>5. \A e \in Broadcasts : Open(e)' => Open(e)
    BY <2>1, <2>2 DEF Open, IInv, TypeOK
  <2>6. QED
    BY <2>2, <2>4, <2>5 DEF PublishedOnce
<1>5. ASSUME NEW p \in Pollers, NEW f \in Events,
             Skip(p, f) \/ HandOver(p, f) \/ HandOverFails(p, f)
      PROVE  PubInv'
  <2>1. PICK result \in {"skipped", "ok", "error"} :
           NextInBatch(p, f) /\ See(p, f, result) /\ (f \in Tasks \/ result = "skipped")
    BY <1>5 DEF Skip, HandOver, HandOverFails
  <2>2. UNCHANGED <<row, batch, published, crashes>>
    BY <1>5 DEF Skip, HandOver, HandOverFails, redis
  <2>3. \A e \in Broadcasts : Open(e)' => Open(e)
    <3>1. \A e \in Broadcasts, q \in Pollers : outcome'[q][e] = outcome[q][e] \/ (q = p /\ f = e /\ outcome[q][e] = "unseen")
      BY <1>0, <2>1, SeeKeeps DEF TodoIsUnseen, NextInBatch
    <3>2. QED
      BY <2>2, <3>1 DEF Open
  <2>4. QED
    BY <2>1, <2>2, <2>3, SeeKeepsTodo DEF PublishedOnce
<1>6. ASSUME NEW p \in Pollers, NEW f \in Events, Broadcast(p, f)
      PROVE  PubInv'
  <2>1. NextInBatch(p, f) /\ See(p, f, "ok") /\ f \in Broadcasts /\ UNCHANGED <<row, batch, crashes>>
    BY <1>6 DEF Broadcast
  <2>2. f \in batch[p] /\ outcome'[p][f] = "ok"
        /\ \A q \in Pollers, e \in Events : ~(q = p /\ e = f) => outcome'[q][e] = outcome[q][e]
    BY <2>1, SeeKeeps
  <2>3. Open(f)
    <3>1. row[f].status # "PROCESSED" /\ outcome[p][f] = "unseen"
      BY <2>1, <2>2 DEF IInv, LocksHold, Due, TodoIsUnseen, NextInBatch
    <3>2. \A q \in Pollers \ {p} : f \notin batch[q]
      BY <2>2 DEF IInv, LocksHold
    <3>3. QED
      BY <3>1, <3>2 DEF Open
  <2>4. ~Open(f)'
    BY <2>1, <2>2 DEF Open
  <2>5. \A e \in Broadcasts \ {f} : published'[e] = published[e] /\ (Open(e)' => Open(e))
    BY <1>0, <1>6, <2>1, <2>2 DEF Broadcast, Open, IInv, TypeOK
  <2>6. published'[f] <= published[f] + 1
    BY <1>0, <1>6, <2>1 DEF Broadcast, IInv, TypeOK
  <2>7. published'[f] <= 1 + crashes
    BY <1>0, <1>6, <2>1, <2>3, <2>6 DEF PublishedOnce, Broadcast, IInv, TypeOK
  <2>8. PublishedOnce'
    BY <2>1, <2>4, <2>5, <2>7 DEF PublishedOnce
  <2>9. QED
    BY <2>1, <2>8, SeeKeepsTodo
<1>7. ASSUME NEW p \in Pollers, CommitBatch(p)
      PROVE  PubInv'
  <2>1. UNCHANGED <<todo, published, crashes>> /\ todo[p] = {}
        /\ batch'[p] = {} /\ \A q \in Pollers \ {p} : batch'[q] = batch[q] /\ outcome'[q] = outcome[q]
    BY <1>7 DEF CommitBatch, redis, IInv, TypeOK
  <2>2. TodoIsUnseen'
    BY <2>1 DEF TodoIsUnseen
  <2>3. ASSUME NEW e \in Broadcasts, Open(e)'
        PROVE  Open(e)
    <3>1. row'[e] = IF e \in batch[p] THEN SettledRow(row[e], outcome[p][e]) ELSE row[e]
      BY <1>0, <1>7 DEF CommitBatch
    <3>2. CASE e \in batch[p]
      <4>1. outcome[p][e] # "ok"
        BY <1>0, <2>3, <3>1, <3>2 DEF SettledRow, Open, Row
      <4>2. row[e].status # "PROCESSED"
        BY <3>2 DEF IInv, LocksHold, Due
      <4>3. QED
        BY <2>1, <2>3, <4>1, <4>2 DEF Open
    <3>3. CASE e \notin batch[p]
      BY <2>1, <2>3, <3>1, <3>3 DEF Open
    <3>4. QED
      BY <3>2, <3>3
  <2>4. QED
    BY <2>1, <2>2, <2>3 DEF PublishedOnce
<1>8. ASSUME NEW p \in Pollers, PollerDies(p)
      PROVE  PubInv'
  <2>1. crashes' = crashes + 1 /\ UNCHANGED published
    BY <1>8 DEF PollerDies, redis
  <2>2. TodoIsUnseen'
    BY <1>8 DEF PollerDies, TodoIsUnseen, IInv, TypeOK
  <2>3. QED
    BY <1>0, <2>1, <2>2 DEF PublishedOnce
<1>9. CASE UNCHANGED vars
  BY <1>9 DEF vars, Open, TodoIsUnseen, PublishedOnce
<1>10. QED
  BY <1>1, <1>2, <1>3, <1>4, <1>5, <1>6, <1>7, <1>8, <1>9 DEF Next, BatchStep

\* A message reaches the browsers twice only when a poller died after publishing
\* it, and once more for each poller that did.
THEOREM Repeated == Spec => []RepeatedOnlyByCrash
<1>1. Init => PubInv
  BY DEF Init, Events, PubInv, TodoIsUnseen, PublishedOnce
<1>2. PubInv => RepeatedOnlyByCrash
  BY DEF PubInv, PublishedOnce, RepeatedOnlyByCrash
<1>3. QED
  BY <1>1, <1>2, Inductive, PubKeeps, PTL DEF Spec

-----------------------------------------------------------------------------
(* Rows that are given up *)

\* A row counts no more attempts than calls raised, and fewer while an error of it
\* waits for the commit of its batch; a broadcast never counts one.
FaultsCover ==
    \A e \in Events :
       /\ row[e].tries <= faults
       /\ \A p \in Pollers : e \in batch[p] /\ outcome[p][e] = "error" => row[e].tries < faults
BroadcastsRaiseNothing ==
    \A e \in Broadcasts : row[e].tries = 0 /\ \A p \in Pollers : outcome[p][e] # "error"

FaultInv == FaultsCover /\ BroadcastsRaiseNothing

\* An event is given up only if it was to become a task and arq's queue raised at
\* least MaxRetries times: polls that die, overlap or skip do not use up attempts.
GivenUpByFaults == \A e \in Events : GivenUp(e) => e \in Tasks /\ faults >= MaxRetries

\* What a step that leaves the rows alone and at most forgets errors keeps.
LEMMA ForgettingKeepsFaults ==
    ASSUME IInv, FaultInv, faults' = faults,
           \A e \in Events : row'[e].tries = row[e].tries,
           \A q \in Pollers, e \in Events :
              e \in batch'[q] /\ outcome'[q][e] = "error" => e \in batch[q] /\ outcome[q][e] = "error",
           \A q \in Pollers, e \in Events : outcome'[q][e] = "error" => outcome[q][e] = "error"
    PROVE  FaultInv'
<1>1. FaultsCover'
  BY DEF FaultInv, FaultsCover
<1>2. BroadcastsRaiseNothing'
  BY DEF FaultInv, BroadcastsRaiseNothing, Events
<1>3. QED
  BY <1>1, <1>2 DEF FaultInv

LEMMA CommitBatchKeepsFaults ==
    ASSUME IInv, FaultInv, NEW p \in Pollers, CommitBatch(p)
    PROVE  FaultInv'
<1>0. faults' = faults /\ faults \in Nat
  BY BoundsAssumption DEF CommitBatch, IInv, TypeOK
<1>1. /\ batch'[p] = {} /\ \A q \in Pollers \ {p} : batch'[q] = batch[q] /\ outcome'[q] = outcome[q]
      /\ \A e \in Events : outcome'[p][e] = "unseen"
  BY DEF CommitBatch, IInv, TypeOK, Unseen
<1>2. ASSUME NEW e \in Events
      PROVE  \/ row'[e].tries = row[e].tries
             \/ e \in batch[p] /\ outcome[p][e] = "error" /\ row'[e].tries = row[e].tries + 1
  <2>1. row'[e] = IF e \in batch[p] THEN SettledRow(row[e], outcome[p][e]) ELSE row[e]
    BY DEF CommitBatch
  <2>2. row[e] \in Row
    BY DEF IInv, TypeOK
  <2>3. CASE outcome[p][e] = "ok"
    BY <2>1, <2>2, <2>3 DEF SettledRow, Row
  <2>4. CASE outcome[p][e] = "error"
    BY <2>1, <2>4 DEF SettledRow
  <2>5. CASE outcome[p][e] \notin {"ok", "error"}
    BY <2>1, <2>5 DEF SettledRow
  <2>6. QED
    BY <2>3, <2>4, <2>5
<1>3. \A e \in Events : row[e].tries \in Nat
  BY LimitsAssumption DEF IInv, TypeOK, Row
<1>4. ASSUME NEW e \in Events
      PROVE  row'[e].tries <= faults
  BY <1>0, <1>2, <1>3 DEF FaultInv, FaultsCover
<1>5. ASSUME NEW e \in Events, NEW q \in Pollers, e \in batch'[q], outcome'[q][e] = "error"
      PROVE  row'[e].tries < faults
  <2>1. q # p /\ e \in batch[q] /\ outcome[q][e] = "error"
    BY <1>1, <1>5
  <2>2. e \notin batch[p]
    BY <2>1 DEF IInv, LocksHold
  <2>3. QED
    BY <1>2, <2>1, <2>2 DEF FaultInv, FaultsCover
<1>6. BroadcastsRaiseNothing'
  BY <1>1, <1>2 DEF FaultInv, BroadcastsRaiseNothing, Events
<1>7. QED
  BY <1>0, <1>4, <1>5, <1>6 DEF FaultInv, FaultsCover

LEMMA FaultsKept == IInv /\ FaultInv /\ [Next]_vars => FaultInv'
<1> SUFFICES ASSUME IInv, FaultInv, [Next]_vars
             PROVE  FaultInv'
  OBVIOUS
<1>1. ASSUME NEW f \in Events, CommitEvents(Created[f])
      PROVE  FaultInv'
  <2>1. \A e \in Events : row'[e] = row[e] \/ (row[e] = NoRow /\ row'[e] = NewRow)
    BY <1>1 DEF CommitEvents
  <2>2. \A e \in Events : row'[e].tries = row[e].tries
    BY <2>1 DEF NoRow, NewRow
  <2>3. QED
    BY <1>1, <2>2, ForgettingKeepsFaults DEF CommitEvents
<1>2. ASSUME NEW f \in Events, RetryDelayElapses(f)
      PROVE  FaultInv'
  <2>1. \A e \in Events : row'[e].tries = row[e].tries
    BY <1>2 DEF RetryDelayElapses, IInv, TypeOK, Row
  <2>2. QED
    BY <1>2, <2>1, ForgettingKeepsFaults DEF RetryDelayElapses
<1>3. ASSUME NEW f \in Events, StartJob(f)
      PROVE  FaultInv'
  BY <1>3, ForgettingKeepsFaults DEF StartJob
<1>4. ASSUME NEW p \in Pollers, Poll(p) \/ PollerDies(p)
      PROVE  FaultInv'
  <2>1. faults' = faults /\ row' = row /\ outcome' = [outcome EXCEPT ![p] = Unseen]
        /\ \A q \in Pollers \ {p} : batch'[q] = batch[q]
    BY <1>4 DEF Poll, PollerDies, IInv, TypeOK
  <2>2. /\ \A q \in Pollers \ {p} : outcome'[q] = outcome[q]
        /\ \A e \in Events : outcome'[p][e] = "unseen"
    BY <2>1 DEF IInv, TypeOK, Unseen
  <2>3. QED
    BY <2>1, <2>2, ForgettingKeepsFaults
<1>5. ASSUME NEW p \in Pollers, NEW f \in Events, Skip(p, f) \/ HandOver(p, f) \/ Broadcast(p, f)
      PROVE  FaultInv'
  <2>1. PICK result \in {"skipped", "ok"} : NextInBatch(p, f) /\ See(p, f, result)
    BY <1>5 DEF Skip, HandOver, Broadcast
  <2>2. UNCHANGED <<row, batch, faults>>
    BY <1>5 DEF Skip, HandOver, Broadcast
  <2>3. \A q \in Pollers, e \in Events : outcome'[q][e] = "error" => outcome[q][e] = "error"
    BY <2>1, SeeKeeps
  <2>4. QED
    BY <2>2, <2>3, ForgettingKeepsFaults
<1>6. ASSUME NEW p \in Pollers, NEW f \in Events, HandOverFails(p, f)
      PROVE  FaultInv'
  <2>1. f \in Tasks /\ NextInBatch(p, f) /\ See(p, f, "error") /\ UNCHANGED <<row, batch>>
        /\ faults' = faults + 1
    BY <1>6 DEF HandOverFails
  <2>2. faults \in Nat /\ \A e \in Events : row[e].tries \in Nat
    BY BoundsAssumption, LimitsAssumption DEF IInv, TypeOK, Row
  <2>3. FaultsCover'
    BY <2>1, <2>2 DEF FaultInv, FaultsCover
  <2>4. \A q \in Pollers, e \in Events \ {f} : outcome'[q][e] = outcome[q][e]
    BY <2>1, SeeKeeps
  <2>5. BroadcastsRaiseNothing'
    BY <2>1, <2>4, EventsAssumption DEF FaultInv, BroadcastsRaiseNothing, Events
  <2>6. QED
    BY <2>3, <2>5 DEF FaultInv
<1>7. ASSUME NEW p \in Pollers, CommitBatch(p)
      PROVE  FaultInv'
  BY <1>7, CommitBatchKeepsFaults
<1>8. CASE UNCHANGED vars
  BY <1>8 DEF vars, FaultInv, FaultsCover, BroadcastsRaiseNothing
<1>9. QED
  BY <1>1, <1>2, <1>3, <1>4, <1>5, <1>6, <1>7, <1>8 DEF Next, BatchStep

\* A row is given up for calls that raised and for nothing else, and a message for
\* the browsers never is: its exceptions are swallowed.
THEOREM OnlyFaultsGiveUp == Spec => []GivenUpByFaults
<1>1. Init => FaultInv
  BY DEF Init, FaultInv, FaultsCover, BroadcastsRaiseNothing, NoRow, Events, Unseen
<1>2. FaultInv => GivenUpByFaults
  BY LimitsAssumption DEF FaultInv, FaultsCover, BroadcastsRaiseNothing, GivenUp, GivenUpByFaults, Events
<1>3. QED
  BY <1>1, <1>2, Inductive, FaultsKept, PTL DEF Spec
===============================================================================
