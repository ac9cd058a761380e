-------------------------------- MODULE Outbox --------------------------------
(***************************************************************************)
(* The transactional outbox.  A unit of work inserts the outbox rows of    *)
(* its domain events in the transaction that saves its entities; pollers   *)
(* (the cron task, and the review route after its commit) lock a batch of  *)
(* rows, hand each one to arq or to the WebSocket channel, and record the  *)
(* outcomes in one commit at the end of the batch.  A poller may die at    *)
(* any moment in between: Redis then knows what the rows do not say.       *)
(***************************************************************************)
EXTENDS Naturals, FiniteSets

CONSTANTS
    Tasks,        \* events mapped to an arq task
    Broadcasts,   \* events mapped to websocket_broadcast
    Created,      \* created_at of each event's row; one transaction, one time
    Pollers,      \* calls of process_pending_events that may overlap
    Limit,        \* rows a poll takes
    MaxRetries,   \* failed attempts after which a row is given up
    MaxFaults,    \* bound: enqueue calls that raise
    MaxCrashes    \* bound: pollers that die before their commit

Events == Tasks \cup Broadcasts

ASSUME EventsAssumption == Tasks \cap Broadcasts = {} /\ Created \in [Events -> Nat]
ASSUME LimitsAssumption == Limit \in Nat \ {0} /\ MaxRetries \in Nat \ {0}
ASSUME BoundsAssumption == MaxFaults \in Nat /\ MaxCrashes \in Nat

VARIABLES
    row,        \* row[e]: the outbox row of e
    batch,      \* batch[p]: rows poller p holds locked
    todo,       \* todo[p]: rows of its batch it has not looked at yet
    outcome,    \* outcome[p][e]: what became of e, not committed yet
    queued,     \* queued[e]: jobs arq holds for e
    known,      \* known[e]: arq has the job or result key of e
    started,    \* started[e]: jobs of e a worker has taken
    published,  \* published[e]: messages of e on the channel ws_updates
    faults, crashes

vars == <<row, batch, todo, outcome, queued, known, started, published, faults, crashes>>

redis == <<queued, known, started, published>>

-----------------------------------------------------------------------------
(* Rows *)

\* tries counts the attempts named in the column error; cooling while
\* processed_at lies less than RETRY_DELAY_SECONDS back.
Row == [status : {"NONE", "PENDING", "FAILED", "PROCESSED"},
        tries : 0..MaxRetries, cooling : BOOLEAN]

NoRow == [status |-> "NONE", tries |-> 0, cooling |-> FALSE]
NewRow == [status |-> "PENDING", tries |-> 0, cooling |-> FALSE]

\* Slip: the limit is never reached.
GivenUpNever(e) == FALSE
GivenUp(e) == row[e].tries = MaxRetries

\* Slip: rows with a failed attempt are not selected again.
DuePendingOnly(e) == row[e].status = "PENDING" /\ ~row[e].cooling
Due(e) == row[e].status \in {"PENDING", "FAILED"} /\ ~row[e].cooling

\* Slip: no FOR UPDATE SKIP LOCKED, a poller may take the rows of another one.
UnlockedIgnored == Events

Unlocked == Events \ UNION {batch[p] : p \in Pollers}

\* ORDER BY created_at LIMIT limit; rows of one transaction come in any order.
Oldest(E, B) ==
    /\ B \subseteq E
    /\ Cardinality(B) = IF Cardinality(E) < Limit THEN Cardinality(E) ELSE Limit
    /\ \A e \in B, f \in E \ B : Created[e] <= Created[f]

Unseen == [e \in Events |-> "unseen"]

-----------------------------------------------------------------------------
(* Actions *)

\* SqlAlchemyUnitOfWork.commit: the rows of one transaction appear together,
\* and not in the order of created_at, which is the start of the transaction.
CommitEvents(time) ==
    /\ \A e \in Events : Created[e] = time => row[e] = NoRow
    /\ row' = [e \in Events |-> IF Created[e] = time THEN NewRow ELSE row[e]]
    /\ UNCHANGED <<batch, todo, outcome, redis, faults, crashes>>

\* SELECT ... FOR UPDATE SKIP LOCKED
Poll(p) ==
    /\ batch[p] = {}
    /\ \E B \in SUBSET Unlocked :
          /\ B # {}
          /\ Oldest({e \in Unlocked : Due(e)}, B)
          /\ batch' = [batch EXCEPT ![p] = B]
          /\ todo' = [todo EXCEPT ![p] = B]
          /\ outcome' = [outcome EXCEPT ![p] = Unseen]
    /\ UNCHANGED <<row, redis, faults, crashes>>

NextInBatch(p, e) == e \in todo[p] /\ \A f \in todo[p] : Created[e] <= Created[f]

See(p, e, result) ==
    /\ todo' = [todo EXCEPT ![p] = @ \ {e}]
    /\ outcome' = [outcome EXCEPT ![p][e] = result]

\* Slip: enqueue_job without _job_id.
EnqueueAgain(e) ==
    /\ queued' = [queued EXCEPT ![e] = @ + 1]
    /\ known' = [known EXCEPT ![e] = TRUE]

\* enqueue_job with _job_id = the row's id is a no-op while arq knows that id;
\* results are kept longer than any retry of the row.
Enqueue(e) ==
    IF known[e]
    THEN UNCHANGED <<queued, known>>
    ELSE /\ queued' = [queued EXCEPT ![e] = @ + 1]
         /\ known' = [known EXCEPT ![e] = TRUE]

\* 'Retry limit reached': the row is left as it is, and stays in every batch.
Skip(p, e) ==
    /\ NextInBatch(p, e)
    /\ GivenUp(e)
    /\ See(p, e, "skipped")
    /\ UNCHANGED <<row, batch, redis, faults, crashes>>

HandOver(p, e) ==
    /\ e \in Tasks
    /\ NextInBatch(p, e)
    /\ ~GivenUp(e)
    /\ Enqueue(e)
    /\ See(p, e, "ok")
    /\ UNCHANGED <<row, batch, started, published, faults, crashes>>

\* Slip: the exception is swallowed, as it is for broadcasts.
HandOverFailsSilently(p, e) ==
    /\ e \in Tasks
    /\ NextInBatch(p, e)
    /\ faults < MaxFaults
    /\ faults' = faults + 1
    /\ UNCHANGED <<queued, known>>
    /\ See(p, e, "ok")
    /\ UNCHANGED <<row, batch, started, published, crashes>>

\* Redis raised, before or after it took the job.
HandOverFails(p, e) ==
    /\ e \in Tasks
    /\ NextInBatch(p, e)
    /\ ~GivenUp(e)
    /\ faults < MaxFaults
    /\ faults' = faults + 1
    /\ Enqueue(e) \/ UNCHANGED <<queued, known>>
    /\ See(p, e, "error")
    /\ UNCHANGED <<row, batch, started, published, crashes>>

\* WebSocketEventPublisher.publish swallows the exceptions of Redis: the row is
\* PROCESSED whether or not the message left.
Broadcast(p, e) ==
    /\ e \in Broadcasts
    /\ NextInBatch(p, e)
    /\ ~GivenUp(e)
    /\ \/ published' = [published EXCEPT ![e] = @ + 1]
       \/ UNCHANGED published
    /\ See(p, e, "ok")
    /\ UNCHANGED <<row, batch, queued, known, started, faults, crashes>>

SettledRow(r, result) ==
    CASE result = "ok"    -> [r EXCEPT !.status = "PROCESSED", !.cooling = TRUE]
      [] result = "error" -> [status |-> "FAILED", tries |-> r.tries + 1, cooling |-> TRUE]
      [] OTHER            -> r

\* One commit for the whole batch.
CommitBatch(p) ==
    /\ batch[p] # {}
    /\ todo[p] = {}
    /\ row' = [e \in Events |-> IF e \in batch[p] THEN SettledRow(row[e], outcome[p][e])
                                                  ELSE row[e]]
    /\ batch' = [batch EXCEPT ![p] = {}]
    /\ outcome' = [outcome EXCEPT ![p] = Unseen]
    /\ UNCHANGED <<todo, redis, faults, crashes>>

\* The process dies or the commit fails: the locks are released, nothing is kept.
PollerDies(p) ==
    /\ batch[p] # {}
    /\ crashes < MaxCrashes
    /\ crashes' = crashes + 1
    /\ batch' = [batch EXCEPT ![p] = {}]
    /\ todo' = [todo EXCEPT ![p] = {}]
    /\ outcome' = [outcome EXCEPT ![p] = Unseen]
    /\ UNCHANGED <<row, redis, faults>>

\* RETRY_DELAY_SECONDS have passed.
RetryDelayElapses(e) ==
    /\ row[e].status = "FAILED" /\ row[e].cooling
    /\ row' = [row EXCEPT ![e].cooling = FALSE]
    /\ UNCHANGED <<batch, todo, outcome, redis, faults, crashes>>

\* An arq worker takes a job; its result key keeps the id known.
StartJob(e) ==
    /\ queued[e] > 0
    /\ queued' = [queued EXCEPT ![e] = @ - 1]
    /\ started' = [started EXCEPT ![e] = @ + 1]
    /\ UNCHANGED <<row, batch, todo, outcome, known, published, faults, crashes>>

-----------------------------------------------------------------------------
Init ==
    /\ row = [e \in Events |-> NoRow]
    /\ batch = [p \in Pollers |-> {}]
    /\ todo = [p \in Pollers |-> {}]
    /\ outcome = [p \in Pollers |-> Unseen]
    /\ queued = [e \in Events |-> 0]
    /\ known = [e \in Events |-> FALSE]
    /\ started = [e \in Events |-> 0]
    /\ published = [e \in Events |-> 0]
    /\ faults = 0
    /\ crashes = 0

BatchStep(p) ==
    \/ \E e \in Events : Skip(p, e) \/ HandOver(p, e) \/ HandOverFails(p, e) \/ Broadcast(p, e)
    \/ CommitBatch(p)

Next ==
    \/ \E e \in Events : \/ CommitEvents(Created[e])
                         \/ RetryDelayElapses(e)
                         \/ StartJob(e)
    \/ \E p \in Pollers : Poll(p) \/ BatchStep(p) \/ PollerDies(p)

Spec == Init /\ [][Next]_vars

(* Fairness.  Cron starts a poll every second, a poll that runs reaches its  *)
(* commit unless it dies, time passes, and arq workers take what is queued.  *)
Fairness ==
    /\ \A p \in Pollers : WF_vars(Poll(p)) /\ WF_vars(BatchStep(p))
    /\ \A e \in Events : WF_vars(RetryDelayElapses(e)) /\ WF_vars(StartJob(e))

FairSpec == Spec /\ Fairness
-----------------------------------------------------------------------------
(* Properties *)

\* Rows, batches and jobs keep their shape; no row is tried more than MaxRetries
\* times.
TypeOK ==
    /\ row \in [Events -> Row]
    /\ batch \in [Pollers -> SUBSET Events]
    /\ todo \in [Pollers -> SUBSET Events]
    /\ outcome \in [Pollers -> [Events -> {"unseen", "skipped", "ok", "error"}]]
    /\ queued \in [Events -> Nat] /\ known \in [Events -> BOOLEAN]
    /\ started \in [Events -> Nat] /\ published \in [Events -> Nat]
    /\ faults \in 0..MaxFaults /\ crashes \in 0..MaxCrashes

\* Overlapping polls, retries and polls that died after enqueue give arq one job
\* per event at most: the id of the row is the id of the job.
OneJobPerEvent == \A e \in Events : queued[e] + started[e] <= 1

\* A task whose row says PROCESSED has reached arq.
ProcessedWasHandedOver ==
    \A e \in Tasks : row[e].status = "PROCESSED" => queued[e] + started[e] = 1

\* A broadcast is published twice only if a poller died after publishing it.
RepeatedOnlyByCrash == \A e \in Broadcasts : published[e] <= 1 + crashes

\* A row that was handed over or given up never changes again: overlapping polls
\* do not turn PROCESSED into FAILED, and a row at the limit is not retried.
SettledIsFinal ==
    [][\A e \in Events : row[e].status = "PROCESSED" \/ (GivenUp(e) /\ ~row[e].cooling)
                            => row'[e] = row[e]]_vars

\* A committed event is handed over or given up, while rows that were given up
\* cannot fill a batch.
EventuallySettled ==
    \A e \in Events : row[e].status = "PENDING" ~> row[e].status = "PROCESSED" \/ GivenUp(e)

\* The comment in the review route: "Cron van retry nhu safety net" (cron still
\* retries, as a safety net): a committed event is at least tried.
CronIsSafetyNet ==
    \A e \in Tasks : row[e].status = "PENDING" ~> row[e].status # "PENDING"
===============================================================================
