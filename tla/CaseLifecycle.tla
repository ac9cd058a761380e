---------------------------- MODULE CaseLifecycle ----------------------------
(***************************************************************************)
(* The life of an intervention case: the rows of the tables cases and      *)
(* intervention_emails, the HTTP handlers of CaseCommandHandler, and the   *)
(* worker tasks that draft, send, enrich and auto-resolve.                 *)
(*                                                                         *)
(* A handler reads the case row (and, for some, the email row), checks the *)
(* domain rules on its copy, and ends in one database transaction whose    *)
(* UPDATEs carry "WHERE version = <version read>" (optimistic locking); a  *)
(* handler whose check fails leaves no trace.  So a handler is two or      *)
(* three steps here, its reads and its commit, and between them any other  *)
(* handler or worker may run.  A transaction commits the rows it writes    *)
(* and the outbox rows of its events together.                             *)
(***************************************************************************)
EXTENDS Naturals, Sequences, FiniteSets

CONSTANTS
    Cases,        \* intervention cases
    Advisors,     \* users with an advisor profile
    NoAdvisor,    \* assigned_advisor_id is NULL
    Requests,     \* HTTP requests the API serves at the same time
    Workers,      \* worker coroutines that run overview and auto-resolve tasks
    MaxMail,      \* bound: no edit or new draft once an email row has this version
    MaxFaults     \* bound: faults in a behaviour

ASSUME NoAdvisorAssumption == NoAdvisor \notin Advisors
ASSUME SlotsAssumption == Requests \cap Workers = {}
ASSUME BoundsAssumption == MaxMail \in Nat /\ MaxFaults \in Nat

VARIABLES
    cases,        \* cases[c]: the row of case c
    emails,       \* emails[c]: the row of its intervention email
    session,      \* session[s]: what the handler running in slot s has read
    tasks,        \* draft and dispatch tasks: in the outbox, queued or running
    overviewDue,  \* overviewDue[c]: an overview task of c is queued
    reviewTask,   \* reviewTask[c]: where the review round of c stands
    events,       \* events[c]: statuses announced by committed outbox rows
    approved,     \* approved[c]: the email content its advisor asked to send
    mailbox,      \* mailbox[c]: contents SMTP delivered to the student
    faults        \* workers that died, tasks that were lost or raised, so far

vars == <<cases, emails, session, tasks, overviewDue, reviewTask,
          events, approved, mailbox, faults>>

Slots == Requests \cup Workers

-----------------------------------------------------------------------------
(* Rows *)

\* domain/value_objects/status.py and the matrix of domain/entities/case.py
Successors ==
    [new            |-> {"accepted", "dismissed"},
     accepted       |-> {"sent", "expired"},
     sent           |-> {"booked", "expired"},
     booked         |-> {"supporting", "expired"},
     supporting     |-> {"pending_review", "expired"},
     pending_review |-> {"resolved", "failed"},
     resolved       |-> {},
     failed         |-> {},
     dismissed      |-> {},
     expired        |-> {}]

Status == DOMAIN Successors

CaseRow == [status : Status, advisor : Advisors \cup {NoAdvisor},
            summary : BOOLEAN, version : Nat]

NewCase == [status |-> "new", advisor |-> NoAdvisor, summary |-> FALSE, version |-> 0]

\* Email content: who wrote it, and the row version that first held it.
Content == [author : {"ai", "advisor"}, at : Nat]
NoBody == [author |-> "none", at |-> 0]
EmailRow == [status : {"none", "unavailable", "generating", "draft", "sent"},
             body : Content \cup {NoBody}, version : Nat]

NoEmail == [status |-> "none", body |-> NoBody, version |-> 0]

IsActive(row) == row.status \notin {"dismissed", "expired", "resolved", "failed"}
IsAssigned(row) == row.status = "accepted" /\ row.advisor # NoAdvisor
\* Slip: drafts may also be requested once the email was sent.
CanGenerateDraftAfterSend(row) == row.status \in {"accepted", "sent"}
CanGenerateDraft(row) == row.status = "accepted"
MayMoveTo(row, next) == next \in Successors[row.status]

-----------------------------------------------------------------------------
(* Handlers *)

AdvisorOps == {"accept", "trigger", "send", "update", "support", "resolve"}
StudentOps == {"book", "review_good", "review_bad"}
WorkerOps == {"overview", "autoresolve"}
MailOps == {"trigger", "send", "update"}    \* handlers that read the email row
ReviewOps == {"review_good", "review_bad", "autoresolve"}

Idle == [pc |-> "idle"]

Session == [pc : {"loading", "ready"}, op : AdvisorOps \cup StudentOps \cup WorkerOps,
            case : Cases, actor : Advisors \cup {NoAdvisor},
            row : CaseRow, mail : EmailRow]

Outcome(op) == IF op = "review_bad" THEN "failed" ELSE "resolved"

\* What each handler requires of the case it has read, for user a.
Allowed(op, row, a) ==
    /\ op = "accept"   => ~IsAssigned(row) /\ MayMoveTo(row, "accepted")
    /\ op = "trigger"  => row.advisor = a /\ CanGenerateDraft(row)
    /\ op = "send"     => row.advisor = a /\ IsActive(row) /\ MayMoveTo(row, "sent")
    /\ op = "update"   => row.advisor = a
    /\ op = "book"     => MayMoveTo(row, "booked")
    /\ op = "support"  => row.advisor = a /\ MayMoveTo(row, "supporting")
    /\ op = "resolve"  => row.advisor = a /\ MayMoveTo(row, "pending_review")
    /\ op \in ReviewOps => MayMoveTo(row, Outcome(op))

\* Slip: handle_trigger_draft without the is_generating early return.
MailAllowsGenerating(op, mail) ==
    /\ op = "trigger" => mail.status # "none"
    /\ op = "send"    => mail.status = "draft"
    /\ op = "update"  => mail.status \in {"draft", "unavailable"}

\* What a handler requires of the email it has read.
MailAllows(op, mail) ==
    /\ op = "trigger" => mail.status \notin {"none", "generating"}
    /\ op = "send"    => mail.status = "draft"
    /\ op = "update"  => mail.status \in {"draft", "unavailable"}

Load(s, op, c, a) ==
    /\ session[s] = Idle
    /\ Allowed(op, cases[c], a)
    /\ session' = [session EXCEPT ![s] =
                     [pc |-> IF op \in MailOps THEN "loading" ELSE "ready",
                      op |-> op, case |-> c, actor |-> a,
                      row |-> cases[c], mail |-> NoEmail]]

AdvisorRequest(s, c, a) ==
    /\ \E op \in AdvisorOps : Load(s, op, c, a)
    /\ UNCHANGED <<cases, emails, tasks, overviewDue, reviewTask,
                   events, approved, mailbox, faults>>

BookRequest(s, c) ==
    /\ Load(s, "book", c, NoAdvisor)
    /\ UNCHANGED <<cases, emails, tasks, overviewDue, reviewTask,
                   events, approved, mailbox, faults>>

\* POST /cases/review needs the token mailed by initiate_case_review; the token
\* expires before the auto-resolve task scheduled with it may start.
ReviewRequest(s, c) ==
    /\ reviewTask[c] \in {"scheduled", "undeferred"}
    /\ \E op \in {"review_good", "review_bad"} : Load(s, op, c, NoAdvisor)
    /\ UNCHANGED <<cases, emails, tasks, overviewDue, reviewTask,
                   events, approved, mailbox, faults>>

\* The second read; a request its email row refuses ends here.
ReadMail(s) ==
    /\ session[s].pc = "loading"
    /\ LET m == emails[session[s].case]
       IN  session' = [session EXCEPT ![s] =
                         IF MailAllows(session[s].op, m)
                         THEN [@ EXCEPT !.pc = "ready", !.mail = m]
                         ELSE Idle]
    /\ UNCHANGED <<cases, emails, tasks, overviewDue, reviewTask,
                   events, approved, mailbox, faults>>

-----------------------------------------------------------------------------
(* Commits *)

Ready(s, op) == session[s].pc = "ready" /\ session[s].op = op

\* Slip: save without "WHERE version = ...".
FreshUnchecked(s) == TRUE

\* UPDATE cases ... WHERE version = <version read>
CaseFresh(s) == cases[session[s].case].version = session[s].row.version
MailFresh(s) == emails[session[s].case].version = session[s].mail.version

\* Slip: the version goes down.
SaveCaseDown(s, row) ==
    cases' = [cases EXCEPT ![session[s].case] =
                [row EXCEPT !.version = session[s].row.version - 1]]

\* CaseRepository.save: the whole row is written from the handler's copy.
SaveCase(s, row) ==
    cases' = [cases EXCEPT ![session[s].case] =
                [row EXCEPT !.version = session[s].row.version + 1]]

SaveMail(s, status, body) ==
    emails' = [emails EXCEPT ![session[s].case] =
                 [status |-> status, body |-> body, version |-> session[s].mail.version + 1]]

Announce(c, status) == events' = [events EXCEPT ![c] = Append(@, status)]

Return(s) == session' = [session EXCEPT ![s] = Idle]

\* The effect shared by every handler that moves its case along the matrix.
Transition(s, op, next) ==
    /\ Ready(s, op)
    /\ CaseFresh(s)
    /\ SaveCase(s, [session[s].row EXCEPT !.status = next])
    /\ Announce(session[s].case, next)
    /\ Return(s)

NewTask(kind, c, job) ==
    [kind |-> kind, case |-> c, job |-> job, phase |-> "queued", ver |-> 0, body |-> NoBody]

CommitAccept(s) ==
    /\ Ready(s, "accept")
    /\ CaseFresh(s)
    /\ emails[session[s].case].status = "none"     \* UNIQUE (case_id)
    /\ SaveCase(s, [session[s].row EXCEPT !.status = "accepted",
                                          !.advisor = session[s].actor])
    /\ emails' = [emails EXCEPT ![session[s].case] = [NoEmail EXCEPT !.status = "unavailable"]]
    /\ Announce(session[s].case, "accepted")
    /\ Return(s)
    /\ UNCHANGED <<tasks, overviewDue, reviewTask, approved, mailbox, faults>>

\* Slip: handle_trigger_draft saves the email only.
CommitTriggerMailOnly(s) ==
    /\ Ready(s, "trigger")
    /\ MailFresh(s)
    /\ session[s].mail.version < MaxMail
    /\ SaveMail(s, "generating", NoBody)
    /\ tasks' = tasks \cup {NewTask("draft", session[s].case, session[s].row.version)}
    /\ Return(s)
    /\ UNCHANGED <<cases, overviewDue, reviewTask, events, approved, mailbox, faults>>

\* The case row is saved although only its version changes; the new job is
\* known by the version the case had.
CommitTrigger(s) ==
    /\ Ready(s, "trigger")
    /\ CaseFresh(s)
    /\ MailFresh(s)
    /\ session[s].mail.version < MaxMail
    /\ SaveCase(s, session[s].row)
    /\ SaveMail(s, "generating", NoBody)
    /\ tasks' = tasks \cup {NewTask("draft", session[s].case, session[s].row.version)}
    /\ Return(s)
    /\ UNCHANGED <<overviewDue, reviewTask, events, approved, mailbox, faults>>

\* The email row is read but neither saved nor compared.
CommitSend(s) ==
    /\ Transition(s, "send", "sent")
    /\ tasks' = tasks \cup {NewTask("send", session[s].case, session[s].row.version)}
    /\ approved' = [approved EXCEPT ![session[s].case] = session[s].mail.body]
    /\ UNCHANGED <<emails, overviewDue, reviewTask, mailbox, faults>>

\* The case row is read but neither saved nor compared.
CommitUpdate(s) ==
    /\ Ready(s, "update")
    /\ MailFresh(s)
    /\ session[s].mail.version < MaxMail
    /\ SaveMail(s, "draft", [author |-> "advisor", at |-> session[s].mail.version + 1])
    /\ Return(s)
    /\ UNCHANGED <<cases, tasks, overviewDue, reviewTask, events, approved, mailbox, faults>>

CommitBook(s) ==
    /\ Transition(s, "book", "booked")
    /\ UNCHANGED <<emails, tasks, overviewDue, reviewTask, approved, mailbox, faults>>

CommitSupport(s) ==
    /\ Transition(s, "support", "supporting")
    /\ UNCHANGED <<emails, tasks, overviewDue, reviewTask, approved, mailbox, faults>>

CommitResolve(s) ==
    /\ Transition(s, "resolve", "pending_review")
    /\ reviewTask' = [reviewTask EXCEPT ![session[s].case] = "requested"]
    /\ UNCHANGED <<emails, tasks, overviewDue, approved, mailbox, faults>>

CommitReview(s) ==
    /\ \E op \in ReviewOps : Transition(s, op, Outcome(op))
    /\ UNCHANGED <<emails, tasks, overviewDue, reviewTask, approved, mailbox, faults>>

CommitOverview(s) ==
    /\ Ready(s, "overview")
    /\ CaseFresh(s)
    /\ SaveCase(s, [session[s].row EXCEPT !.summary = TRUE])
    /\ Return(s)
    /\ UNCHANGED <<emails, tasks, overviewDue, reviewTask, events, approved, mailbox, faults>>

\* ConcurrencyError: an UPDATE matched no row and the transaction rolls back.
\* Not retried, neither by the API nor by the worker.
Conflict(s) ==
    /\ session[s].pc = "ready"
    /\ \/ session[s].op # "update" /\ ~CaseFresh(s)
       \/ session[s].op \in {"trigger", "update"} /\ ~MailFresh(s)
    /\ Return(s)
    /\ UNCHANGED <<cases, emails, tasks, overviewDue, reviewTask,
                   events, approved, mailbox, faults>>

\* An HTTP request that never commits: the client left, or the API died.
Abandon(s) ==
    /\ s \in Requests
    /\ session[s] # Idle
    /\ Return(s)
    /\ UNCHANGED <<cases, emails, tasks, overviewDue, reviewTask,
                   events, approved, mailbox, faults>>

-----------------------------------------------------------------------------
(* Untracked worker tasks: AI overviews and the review round *)

TaskVars == <<cases, emails, events, approved, mailbox>>

\* Something that happens to tasks, at most MaxFaults times.
Fault == faults < MaxFaults /\ faults' = faults + 1

\* The cron task queues an overview for each NEW case that has none; the case
\* may still be NEW without one at the next tick, and be queued again.
BatchOverviews(c) ==
    /\ cases[c].status = "new"
    /\ ~cases[c].summary
    /\ ~overviewDue[c]
    /\ overviewDue' = [overviewDue EXCEPT ![c] = TRUE]
    /\ UNCHANGED <<TaskVars, session, tasks, reviewTask, faults>>

\* The row is read again after the model answered, whatever its status is by then.
OverviewStart(w, c) ==
    /\ overviewDue[c]
    /\ Load(w, "overview", c, NoAdvisor)
    /\ overviewDue' = [overviewDue EXCEPT ![c] = FALSE]
    /\ UNCHANGED <<TaskVars, tasks, reviewTask, faults>>

\* The model, its guardrail or a read raised: the case keeps no overview.
OverviewFails(c) ==
    /\ overviewDue[c]
    /\ overviewDue' = [overviewDue EXCEPT ![c] = FALSE]
    /\ UNCHANGED <<TaskVars, session, tasks, reviewTask, faults>>

\* initiate_case_review mails the review link and defers the auto-resolve task.
InitiateReview(c) ==
    /\ reviewTask[c] = "requested"
    /\ reviewTask' = [reviewTask EXCEPT ![c] = "scheduled"]
    /\ UNCHANGED <<TaskVars, session, tasks, overviewDue, faults>>

\* The outbox gives up the row of a task after MAX_RETRIES calls of Redis raised,
\* and what initiate_case_review raises (no secret is configured) is not retried.
ReviewLost(c) ==
    /\ reviewTask[c] = "requested"
    /\ Fault
    /\ reviewTask' = [reviewTask EXCEPT ![c] = "lost"]
    /\ UNCHANGED <<TaskVars, session, tasks, overviewDue>>

\* The outbox gives up the row of the auto-resolve task: the link may be mailed.
DeferralLost(c) ==
    /\ reviewTask[c] = "scheduled"
    /\ Fault
    /\ reviewTask' = [reviewTask EXCEPT ![c] = "undeferred"]
    /\ UNCHANGED <<TaskVars, session, tasks, overviewDue>>

\* _defer_by is seven days: no overview task queued while the case was NEW is
\* left when it elapses (a job is cancelled after worker_job_timeout_sec).
DeferralElapsed(c) ==
    /\ reviewTask[c] = "scheduled"
    /\ ~overviewDue[c]
    /\ \A w \in Workers : session[w] # Idle => session[w].case # c

AutoResolveStart(w, c) ==
    /\ DeferralElapsed(c)
    /\ Load(w, "autoresolve", c, NoAdvisor)
    /\ reviewTask' = [reviewTask EXCEPT ![c] = "taken"]
    /\ UNCHANGED <<TaskVars, tasks, overviewDue, faults>>

\* The student has reviewed the case in time: nothing to do.
AutoResolveSkip(c) ==
    /\ DeferralElapsed(c)
    /\ cases[c].status # "pending_review"
    /\ reviewTask' = [reviewTask EXCEPT ![c] = "taken"]
    /\ UNCHANGED <<TaskVars, session, tasks, overviewDue, faults>>

\* Slip: the job of a dead worker is gone.
WorkerCrashLosesJob(w) ==
    /\ session[w] # Idle
    /\ Fault
    /\ Return(w)
    /\ UNCHANGED <<TaskVars, tasks, overviewDue, reviewTask>>

\* arq delivers the job of a dead worker again.
WorkerCrash(w) ==
    /\ session[w] # Idle
    /\ Fault
    /\ LET c == session[w].case
       IN  IF session[w].op = "overview"
           THEN overviewDue' = [overviewDue EXCEPT ![c] = TRUE] /\ UNCHANGED reviewTask
           ELSE reviewTask' = [reviewTask EXCEPT ![c] = "scheduled"] /\ UNCHANGED overviewDue
    /\ Return(w)
    /\ UNCHANGED <<TaskVars, tasks>>

\* An untracked task that raises before its commit is not retried.
WorkerRaises(w) ==
    /\ session[w] # Idle
    /\ Fault
    /\ IF session[w].op = "overview"
       THEN UNCHANGED reviewTask
       ELSE reviewTask' = [reviewTask EXCEPT ![session[w].case] = "lost"]
    /\ Return(w)
    /\ UNCHANGED <<TaskVars, tasks, overviewDue>>

-----------------------------------------------------------------------------
(* Tracked worker tasks: email drafts and dispatch *)

TaskPhases == {"queued", "running", "loaded", "failing", "reverting",
               "mailed", "closing", "dead"}

Task == [kind : {"draft", "send"}, case : Cases, job : Nat, phase : TaskPhases,
         ver : Nat, body : Content \cup {NoBody}]

Move(t, u) == tasks' = (tasks \ {t}) \cup {u}
Finish(t) == tasks' = tasks \ {t}

RowVars == <<cases, session, overviewDue, reviewTask, events, approved>>

\* JobTracker.started commits RUNNING before the task body runs.
TaskStart(t) ==
    /\ t.phase = "queued"
    /\ Move(t, [t EXCEPT !.phase = "running"])
    /\ UNCHANGED <<RowVars, emails, mailbox, faults>>

\* Slip: JobTracker.started accepts a job that is RUNNING.
TaskCrashRestarts(t) ==
    /\ t.phase \notin {"queued", "dead"}
    /\ Fault
    /\ Move(t, [t EXCEPT !.phase = "queued"])
    /\ UNCHANGED <<RowVars, emails, mailbox>>

\* The outbox gives up the row of the task, or JobTracker.started raises: the body
\* of the task never runs.
TaskLost(t) ==
    /\ t.phase = "queued"
    /\ Fault
    /\ Move(t, [t EXCEPT !.phase = "dead"])
    /\ UNCHANGED <<RowVars, emails, mailbox>>

\* A crash or the job timeout after that: the job is delivered again, but a
\* RUNNING job cannot be started twice, so its body never runs again.  It is the
\* same when the except branch of a draft raises.
TaskCrash(t) ==
    /\ t.phase \notin {"queued", "dead"}
    /\ Fault
    /\ Move(t, [t EXCEPT !.phase = "dead"])
    /\ UNCHANGED <<RowVars, emails, mailbox>>

DraftLoad(t) ==
    /\ t.kind = "draft" /\ t.phase = "running"
    /\ Move(t, [t EXCEPT !.ver = emails[t.case].version,
                         !.phase = IF emails[t.case].status = "sent" THEN "failing" ELSE "loaded"])
    /\ UNCHANGED <<RowVars, emails, mailbox, faults>>

\* Two saves in one transaction, the second with the generated content.
DraftSave(t) ==
    /\ t.kind = "draft" /\ t.phase = "loaded"
    /\ emails[t.case].version = t.ver
    /\ emails' = [emails EXCEPT ![t.case] =
                    [status |-> "draft", version |-> t.ver + 2,
                     body |-> [author |-> "ai", at |-> t.ver + 2]]]
    /\ Finish(t)
    /\ UNCHANGED <<RowVars, mailbox, faults>>

\* The model call, a guardrail, missing data or a version conflict raised.
DraftFail(t) ==
    /\ t.kind = "draft" /\ t.phase = "loaded"
    /\ Move(t, [t EXCEPT !.phase = "failing"])
    /\ UNCHANGED <<RowVars, emails, mailbox, faults>>

DraftRevertLoad(t) ==
    /\ t.kind = "draft" /\ t.phase = "failing"
    /\ Move(t, [t EXCEPT !.phase = "reverting", !.ver = emails[t.case].version])
    /\ UNCHANGED <<RowVars, emails, mailbox, faults>>

\* Slip: the failed task leaves the email GENERATING.
DraftRevertKeepsStatus(t) ==
    /\ t.kind = "draft" /\ t.phase = "reverting"
    /\ Finish(t)
    /\ UNCHANGED <<RowVars, emails, mailbox, faults>>

\* prepare_for_regeneration, whatever the status of the email is.
DraftRevert(t) ==
    /\ t.kind = "draft" /\ t.phase = "reverting"
    /\ emails' = IF emails[t.case].version = t.ver
                 THEN [emails EXCEPT ![t.case] = [status |-> "unavailable", body |-> NoBody,
                                                  version |-> t.ver + 1]]
                 ELSE emails
    /\ Finish(t)
    /\ UNCHANGED <<RowVars, mailbox, faults>>

\* send_intervention_email reads the content to send; a sent email ends the job.
SendLoad(t) ==
    /\ t.kind = "send" /\ t.phase = "running"
    /\ IF emails[t.case].status = "sent"
       THEN Finish(t)
       ELSE Move(t, [t EXCEPT !.phase = "loaded", !.body = emails[t.case].body])
    /\ UNCHANGED <<RowVars, emails, mailbox, faults>>

Deliver(t) == mailbox' = [mailbox EXCEPT ![t.case] = Append(@, t.body)]

SendMail(t) ==
    /\ t.kind = "send" /\ t.phase = "loaded"
    /\ Deliver(t)
    /\ Move(t, [t EXCEPT !.phase = "mailed"])
    /\ UNCHANGED <<RowVars, emails, faults>>

\* SMTP raised, before or after the server took the message: the job is ERROR.
SendMailFails(t) ==
    /\ t.kind = "send" /\ t.phase = "loaded"
    /\ Deliver(t) \/ UNCHANGED mailbox
    /\ Finish(t)
    /\ UNCHANGED <<RowVars, emails, faults>>

SendReload(t) ==
    /\ t.kind = "send" /\ t.phase = "mailed"
    /\ Move(t, [t EXCEPT !.phase = "closing", !.ver = emails[t.case].version])
    /\ UNCHANGED <<RowVars, emails, mailbox, faults>>

\* mark_as_sent, on the row read by SendReload.  An edit since then makes the save
\* fail, as the student's row or the points of the same transaction may: the job
\* is ERROR although the message left.
SendClose(t) ==
    /\ t.kind = "send" /\ t.phase = "closing"
    /\ \/ /\ emails[t.case].version = t.ver /\ emails[t.case].status = "draft"
          /\ emails' = [emails EXCEPT ![t.case] = [@ EXCEPT !.status = "sent", !.version = t.ver + 1]]
       \/ UNCHANGED emails
    /\ Finish(t)
    /\ UNCHANGED <<RowVars, mailbox, faults>>

-----------------------------------------------------------------------------
Init ==
    /\ cases = [c \in Cases |-> NewCase]
    /\ emails = [c \in Cases |-> NoEmail]
    /\ session = [s \in Slots |-> Idle]
    /\ tasks = {}
    /\ overviewDue = [c \in Cases |-> FALSE]
    /\ reviewTask = [c \in Cases |-> "none"]
    /\ events = [c \in Cases |-> <<>>]
    /\ approved = [c \in Cases |-> NoBody]
    /\ mailbox = [c \in Cases |-> <<>>]
    /\ faults = 0

RequestStep(s) ==
    \/ \E c \in Cases : \/ \E a \in Advisors : AdvisorRequest(s, c, a)
                        \/ BookRequest(s, c)
                        \/ ReviewRequest(s, c)
    \/ Abandon(s)

Commit(s) ==
    \/ CommitAccept(s) \/ CommitTrigger(s) \/ CommitSend(s) \/ CommitUpdate(s)
    \/ CommitBook(s) \/ CommitSupport(s) \/ CommitResolve(s) \/ CommitReview(s)
    \/ CommitOverview(s)

HandlerStep(s) == ReadMail(s) \/ Commit(s) \/ Conflict(s)

WorkerStep(w) ==
    \/ \E c \in Cases : OverviewStart(w, c) \/ AutoResolveStart(w, c)
    \/ WorkerCrash(w) \/ WorkerRaises(w)

CaseTaskStep(c) ==
    \/ BatchOverviews(c) \/ OverviewFails(c)
    \/ InitiateReview(c) \/ ReviewLost(c) \/ DeferralLost(c)
    \/ AutoResolveSkip(c)

TaskStep(t) ==
    \/ TaskStart(t)
    \/ DraftLoad(t) \/ DraftSave(t) \/ DraftFail(t) \/ DraftRevertLoad(t) \/ DraftRevert(t)
    \/ SendLoad(t) \/ SendMail(t) \/ SendMailFails(t) \/ SendReload(t) \/ SendClose(t)

TaskFault(t) == TaskLost(t) \/ TaskCrash(t)

Next ==
    \/ \E s \in Requests : RequestStep(s)
    \/ \E s \in Slots : HandlerStep(s)
    \/ \E w \in Workers : WorkerStep(w)
    \/ \E c \in Cases : CaseTaskStep(c)
    \/ \E t \in tasks : TaskStep(t) \/ TaskFault(t)

Spec == Init /\ [][Next]_vars

(* Fairness.  A handler that has started runs to its commit or its conflict;  *)
(* the outbox is polled every second and arq runs what is queued, unless it   *)
(* is lost first: no action that is fair here excludes a fault that ends it.  *)
(* Nobody is obliged to send a request, and faults are not fair.              *)
DraftStep(c) == \E t \in tasks : t.kind = "draft" /\ t.case = c /\ TaskStep(t)
SendStep(c) == \E t \in tasks : t.kind = "send" /\ t.case = c /\ TaskStep(t)
AutoResolve(c) == \E w \in Workers : AutoResolveStart(w, c)
Overview(c) == \E w \in Workers : OverviewStart(w, c)

Fairness ==
    /\ \A s \in Slots : WF_vars(HandlerStep(s))
    /\ \A c \in Cases : /\ WF_vars(InitiateReview(c))
                        /\ WF_vars(AutoResolve(c))
                        /\ WF_vars(Overview(c))
                        /\ WF_vars(DraftStep(c))
                        /\ WF_vars(SendStep(c))

FairSpec == Spec /\ Fairness
-----------------------------------------------------------------------------
(* Properties *)

\* Every row, handler and task has the shape the code gives it; nobody ever
\* dismisses or expires a case.
TypeOK ==
    /\ cases \in [Cases -> CaseRow]
    /\ emails \in [Cases -> EmailRow]
    /\ session \in [Slots -> Session \cup {Idle}]
    /\ tasks \subseteq Task
    /\ overviewDue \in [Cases -> BOOLEAN]
    /\ reviewTask \in [Cases -> {"none", "requested", "scheduled", "undeferred", "taken", "lost"}]
    /\ events \in [Cases -> Seq(Status)]
    /\ approved \in [Cases -> Content \cup {NoBody}]
    /\ mailbox \in [Cases -> Seq(Content \cup {NoBody})]
    /\ faults \in Nat

\* A case that was sent has an email with content, although handle_send_email
\* neither locks nor compares the email row it has read: a regeneration between
\* its read and its commit would send an empty email.
SentHasMail ==
    \A c \in Cases :
        cases[c].status \notin {"new", "accepted"} =>
            emails[c].status \in {"draft", "sent"} /\ emails[c].body # NoBody

\* What reaches the student is the content its advisor asked to send, or a later
\* edit of an advisor: never a draft the model finished after the approval.
HumanApproved ==
    \A c \in Cases : \A i \in 1..Len(mailbox[c]) :
        mailbox[c][i] = approved[c] \/ mailbox[c][i].author = "advisor"

\* No interleaving of send requests, deliveries and crashes mails a student twice.
MailedAtMostOnce == \A c \in Cases : Len(mailbox[c]) <= 1

\* While a draft task exists its email is GENERATING and no second draft task of
\* the case exists, so the unconditional reset of a failing task loses nothing.
DraftOwnsMail ==
    \A t \in tasks : t.kind = "draft" =>
        /\ emails[t.case].status = "generating"
        /\ \A u \in tasks : u.kind = "draft" /\ u.case = t.case => u = t

\* A sent email is a record of what was done: no handler or task that read it
\* earlier changes it any more.
SentMailIsFinal ==
    [][\A c \in Cases : emails[c].status = "sent" => emails'[c] = emails[c]]_vars

\* The handlers, each checking a copy it read earlier, have the effects of the
\* atomic operations of CaseBoard: one owner, no skipped or repeated status, no
\* lost overview, one event per change of status.
Board == INSTANCE CaseBoard WITH
    board <- [c \in Cases |-> [status |-> cases[c].status, advisor |-> cases[c].advisor,
                              summary |-> cases[c].summary]],
    log <- events

ImplementsBoard == Board!Spec

\* A requested resolution ends: the student reviews or the deferred task does,
\* even when workers die and conflicts are not retried, unless a task of the
\* round was given up by the outbox or raised.
ReviewCloses ==
    \A c \in Cases :
        cases[c].status = "pending_review" ~>
            ~IsActive(cases[c]) \/ reviewTask[c] \in {"undeferred", "lost"}

\* A draft that was requested is delivered or given up, unless its task is lost on
\* its way to a worker or with one.
DraftSettles ==
    \A c \in Cases :
        emails[c].status = "generating" ~>
            \/ emails[c].status # "generating"
            \/ \E t \in tasks : t.kind = "draft" /\ t.case = c /\ t.phase = "dead"

\* handle_trigger_draft answers with the existing job when the email is
\* GENERATING: "Already in progress, just find the job_id".
GeneratingIsInProgress ==
    \A c \in Cases : emails[c].status = "generating" =>
        \E t \in tasks : t.kind = "draft" /\ t.case = c /\ t.phase # "dead"

\* mark_as_sent of a case: "The intervention email has been sent."
SentWasMailed ==
    \A c \in Cases :
        \/ cases[c].status \in {"new", "accepted"}
        \/ mailbox[c] # <<>>
        \/ \E t \in tasks : t.kind = "send" /\ t.case = c /\ t.phase # "dead"
==============================================================================
