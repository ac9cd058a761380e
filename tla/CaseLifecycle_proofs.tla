------------------------- MODULE CaseLifecycle_proofs -------------------------
(***************************************************************************)
(* Proofs about CaseLifecycle for every set of cases, advisors, requests   *)
(* and workers: its type invariant, the validity of what handlers hold,    *)
(* and that optimistic locking makes it implement CaseBoard.               *)
(***************************************************************************)
EXTENDS CaseLifecycle, TLAPS

\* A handler's copy of the row passed the handler's check when it was read, and
\* is the current row as long as the versions agree.
Snapshot(s) ==
    session[s] # Idle =>
        /\ Allowed(session[s].op, session[s].row, session[s].actor)
        /\ session[s].op = "accept" => session[s].actor \in Advisors
        /\ session[s].row.version <= cases[session[s].case].version
        /\ CaseFresh(s) => session[s].row = cases[session[s].case]

SnapshotInv == \A s \in Slots : Snapshot(s)

-----------------------------------------------------------------------------
(* Type correctness *)

LEMMA LoadType ==
    ASSUME TypeOK, NEW s \in Slots, NEW c \in Cases,
           NEW op \in AdvisorOps \cup StudentOps \cup WorkerOps,
           NEW a \in Advisors \cup {NoAdvisor}, Load(s, op, c, a)
    PROVE  session' \in [Slots -> Session \cup {Idle}]
<1>1. cases[c] \in CaseRow
  BY DEF TypeOK
<1>2. NoEmail \in EmailRow
  BY DEF NoEmail, EmailRow
<1>3. [pc |-> IF op \in MailOps THEN "loading" ELSE "ready", op |-> op, case |-> c,
       actor |-> a, row |-> cases[c], mail |-> NoEmail] \in Session
  BY <1>1, <1>2 DEF Session
<1>4. QED
  BY <1>3 DEF Load, TypeOK

LEMMA BusySession ==
    ASSUME TypeOK, NEW s \in Slots, session[s].pc \in {"loading", "ready"}
    PROVE  session[s] \in Session /\ session[s] # Idle
BY DEF TypeOK, Idle

LEMMA ReturnType ==
    ASSUME TypeOK, NEW s \in Slots, Return(s)
    PROVE  session' \in [Slots -> Session \cup {Idle}]
BY DEF TypeOK, Return

LEMMA AnnounceType ==
    ASSUME TypeOK, NEW c \in Cases, NEW status \in Status, Announce(c, status)
    PROVE  events' \in [Cases -> Seq(Status)]
BY DEF TypeOK, Announce

LEMMA SaveCaseType ==
    ASSUME TypeOK, NEW s \in Slots, session[s] \in Session,
           NEW row \in CaseRow, SaveCase(s, row)
    PROVE  cases' \in [Cases -> CaseRow]
<1>1. session[s].row.version + 1 \in Nat
  BY DEF Session, CaseRow
<1>2. [row EXCEPT !.version = session[s].row.version + 1] \in CaseRow
  BY <1>1 DEF CaseRow
<1>3. QED
  BY <1>2 DEF SaveCase, TypeOK

LEMMA SaveMailType ==
    ASSUME TypeOK, NEW s \in Slots, session[s] \in Session,
           NEW status \in {"none", "unavailable", "generating", "draft", "sent"},
           NEW body \in Content \cup {NoBody}, SaveMail(s, status, body)
    PROVE  emails' \in [Cases -> EmailRow]
<1>1. session[s].mail.version + 1 \in Nat
  BY DEF Session, EmailRow
<1>2. [status |-> status, body |-> body, version |-> session[s].mail.version + 1] \in EmailRow
  BY <1>1 DEF EmailRow
<1>3. QED
  BY <1>2 DEF SaveMail, TypeOK

LEMMA NewTaskType ==
    ASSUME NEW kind \in {"draft", "send"}, NEW c \in Cases, NEW job \in Nat
    PROVE  NewTask(kind, c, job) \in Task
BY DEF NewTask, Task, TaskPhases

LEMMA TransitionType ==
    ASSUME TypeOK, NEW s \in Slots, NEW op, NEW next \in Status, Transition(s, op, next)
    PROVE  /\ cases' \in [Cases -> CaseRow]
           /\ events' \in [Cases -> Seq(Status)]
           /\ session' \in [Slots -> Session \cup {Idle}]
           /\ session[s] \in Session
           /\ session[s].case \in Cases
<1>1. session[s] \in Session
  BY BusySession DEF Transition, Ready
<1>2. [session[s].row EXCEPT !.status = next] \in CaseRow
  BY <1>1 DEF Session, CaseRow
<1>3. cases' \in [Cases -> CaseRow]
  BY <1>1, <1>2, SaveCaseType DEF Transition
<1>4. session[s].case \in Cases
  BY <1>1 DEF Session
<1>5. events' \in [Cases -> Seq(Status)]
  BY <1>4, AnnounceType DEF Transition
<1>6. QED
  BY <1>1, <1>3, <1>4, <1>5, ReturnType DEF Transition

\* What the steps of the handlers, and those of the tasks, leave well typed.
LEMMA RequestType ==
    ASSUME TypeOK, NEW s \in Requests, RequestStep(s)
    PROVE  TypeOK'
<1>0. s \in Slots
  BY DEF Slots
<1>1. ASSUME NEW c \in Cases, NEW a \in Advisors, AdvisorRequest(s, c, a)
      PROVE  TypeOK'
  <2>1. PICK op \in AdvisorOps : Load(s, op, c, a)
    BY <1>1 DEF AdvisorRequest
  <2>2. session' \in [Slots -> Session \cup {Idle}]
    BY <1>0, <2>1, LoadType
  <2>3. QED
    BY <1>1, <2>2 DEF AdvisorRequest, TypeOK
<1>2. ASSUME NEW c \in Cases, BookRequest(s, c)
      PROVE  TypeOK'
  <2>1. session' \in [Slots -> Session \cup {Idle}]
    BY <1>0, <1>2, LoadType DEF BookRequest, StudentOps
  <2>2. QED
    BY <1>2, <2>1 DEF BookRequest, TypeOK
<1>3. ASSUME NEW c \in Cases, ReviewRequest(s, c)
      PROVE  TypeOK'
  <2>1. PICK op \in {"review_good", "review_bad"} : Load(s, op, c, NoAdvisor)
    BY <1>3 DEF ReviewRequest
  <2>2. session' \in [Slots -> Session \cup {Idle}]
    BY <1>0, <2>1, LoadType DEF StudentOps
  <2>3. QED
    BY <1>3, <2>2 DEF ReviewRequest, TypeOK
<1>4. ASSUME Abandon(s)
      PROVE  TypeOK'
  BY <1>0, <1>4, ReturnType DEF Abandon, TypeOK
<1>5. QED
  BY <1>1, <1>2, <1>3, <1>4 DEF RequestStep

LEMMA ReadMailType ==
    ASSUME TypeOK, NEW s \in Slots, ReadMail(s)
    PROVE  TypeOK'
<1>1. session[s] \in Session
  BY BusySession DEF ReadMail
<1>2. emails[session[s].case] \in EmailRow
  BY <1>1 DEF TypeOK, Session
<1>3. [session[s] EXCEPT !.pc = "ready", !.mail = emails[session[s].case]] \in Session
  BY <1>1, <1>2 DEF Session
<1>4. session' \in [Slots -> Session \cup {Idle}]
  BY <1>3 DEF ReadMail, TypeOK
<1>5. QED
  BY <1>4 DEF ReadMail, TypeOK

LEMMA CommitType ==
    ASSUME TypeOK, NEW s \in Slots, Commit(s)
    PROVE  TypeOK'
<1>1. CASE CommitAccept(s)
  <2>1. session[s] \in Session /\ session[s].case \in Cases
    BY <1>1, BusySession DEF CommitAccept, Ready, Session
  <2>2. [session[s].row EXCEPT !.status = "accepted", !.advisor = session[s].actor] \in CaseRow
    BY <2>1 DEF Session, CaseRow, Status, Successors
  <2>3. cases' \in [Cases -> CaseRow]
    BY <1>1, <2>1, <2>2, SaveCaseType DEF CommitAccept
  <2>4. [NoEmail EXCEPT !.status = "unavailable"] \in EmailRow
    BY DEF NoEmail, EmailRow
  <2>5. emails' \in [Cases -> EmailRow]
    BY <1>1, <2>4 DEF CommitAccept, TypeOK
  <2>6. events' \in [Cases -> Seq(Status)]
    <3>1. "accepted" \in Status
      BY DEF Status, Successors
    <3>2. QED
      BY <1>1, <2>1, <3>1, AnnounceType DEF CommitAccept
  <2>7. session' \in [Slots -> Session \cup {Idle}]
    BY <1>1, ReturnType DEF CommitAccept
  <2>8. QED
    BY <1>1, <2>3, <2>5, <2>6, <2>7 DEF CommitAccept, TypeOK
<1>2. CASE CommitTrigger(s)
  <2>1. session[s] \in Session /\ session[s].case \in Cases
    BY <1>2, BusySession DEF CommitTrigger, Ready, Session
  <2>2. session[s].row \in CaseRow /\ session[s].row.version \in Nat
    BY <2>1 DEF Session, CaseRow
  <2>3. cases' \in [Cases -> CaseRow]
    BY <1>2, <2>1, <2>2, SaveCaseType DEF CommitTrigger
  <2>4. emails' \in [Cases -> EmailRow]
    BY <1>2, <2>1, SaveMailType DEF CommitTrigger
  <2>5. NewTask("draft", session[s].case, session[s].row.version) \in Task
    BY <2>1, <2>2, NewTaskType
  <2>6. session' \in [Slots -> Session \cup {Idle}]
    BY <1>2, ReturnType DEF CommitTrigger
  <2>7. QED
    BY <1>2, <2>3, <2>4, <2>5, <2>6 DEF CommitTrigger, TypeOK
<1>3. CASE CommitSend(s)
  <2>1. "sent" \in Status
    BY DEF Status, Successors
  <2>2. Transition(s, "send", "sent")
    BY <1>3 DEF CommitSend
  <2>3. /\ cases' \in [Cases -> CaseRow]
        /\ events' \in [Cases -> Seq(Status)]
        /\ session' \in [Slots -> Session \cup {Idle}]
        /\ session[s] \in Session
        /\ session[s].case \in Cases
    BY <2>1, <2>2, TransitionType
  <2>4. session[s].row.version \in Nat /\ session[s].mail.body \in Content \cup {NoBody}
    BY <2>3 DEF Session, CaseRow, EmailRow
  <2>5. NewTask("send", session[s].case, session[s].row.version) \in Task
    BY <2>3, <2>4, NewTaskType
  <2>6. approved' \in [Cases -> Content \cup {NoBody}]
    BY <1>3, <2>3, <2>4 DEF CommitSend, TypeOK
  <2>7. QED
    BY <1>3, <2>3, <2>5, <2>6 DEF CommitSend, TypeOK
<1>4. CASE CommitUpdate(s)
  <2>1. session[s] \in Session
    BY <1>4, BusySession DEF CommitUpdate, Ready
  <2>2. [author |-> "advisor", at |-> session[s].mail.version + 1] \in Content
    BY <2>1 DEF Session, EmailRow, Content
  <2>3. emails' \in [Cases -> EmailRow]
    BY <1>4, <2>1, <2>2, SaveMailType DEF CommitUpdate
  <2>4. session' \in [Slots -> Session \cup {Idle}]
    BY <1>4, ReturnType DEF CommitUpdate
  <2>5. QED
    BY <1>4, <2>3, <2>4 DEF CommitUpdate, TypeOK
<1>5. CASE CommitBook(s)
  <2>1. "booked" \in Status
    BY DEF Status, Successors
  <2>2. QED
    BY <1>5, <2>1, TransitionType DEF CommitBook, TypeOK
<1>6. CASE CommitSupport(s)
  <2>1. "supporting" \in Status
    BY DEF Status, Successors
  <2>2. QED
    BY <1>6, <2>1, TransitionType DEF CommitSupport, TypeOK
<1>7. CASE CommitResolve(s)
  <2>1. "pending_review" \in Status
    BY DEF Status, Successors
  <2>2. QED
    BY <1>7, <2>1, TransitionType DEF CommitResolve, TypeOK
<1>8. CASE CommitReview(s)
  <2>1. \A op : Outcome(op) \in Status
    BY DEF Outcome, Status, Successors
  <2>2. QED
    BY <1>8, <2>1, TransitionType DEF CommitReview, TypeOK
<1>9. CASE CommitOverview(s)
  <2>1. session[s] \in Session
    BY <1>9, BusySession DEF CommitOverview, Ready
  <2>2. [session[s].row EXCEPT !.summary = TRUE] \in CaseRow
    BY <2>1 DEF Session, CaseRow
  <2>3. cases' \in [Cases -> CaseRow]
    BY <1>9, <2>1, <2>2, SaveCaseType DEF CommitOverview
  <2>4. session' \in [Slots -> Session \cup {Idle}]
    BY <1>9, ReturnType DEF CommitOverview
  <2>5. QED
    BY <1>9, <2>3, <2>4 DEF CommitOverview, TypeOK
<1>10. QED
  BY <1>1, <1>2, <1>3, <1>4, <1>5, <1>6, <1>7, <1>8, <1>9 DEF Commit

LEMMA WorkerType ==
    ASSUME TypeOK, NEW w \in Workers, WorkerStep(w)
    PROVE  TypeOK'
<1>0. w \in Slots
  BY DEF Slots
<1>1. ASSUME NEW c \in Cases, OverviewStart(w, c)
      PROVE  TypeOK'
  <2>1. session' \in [Slots -> Session \cup {Idle}]
    BY <1>0, <1>1, LoadType DEF OverviewStart, WorkerOps
  <2>2. QED
    BY <1>1, <2>1 DEF OverviewStart, TypeOK, TaskVars
<1>2. ASSUME NEW c \in Cases, AutoResolveStart(w, c)
      PROVE  TypeOK'
  <2>1. session' \in [Slots -> Session \cup {Idle}]
    BY <1>0, <1>2, LoadType DEF AutoResolveStart, WorkerOps
  <2>2. QED
    BY <1>2, <2>1 DEF AutoResolveStart, TypeOK, TaskVars
<1>3. CASE WorkerCrash(w) \/ WorkerRaises(w)
  <2>1. session' \in [Slots -> Session \cup {Idle}]
    BY <1>0, <1>3, ReturnType DEF WorkerCrash, WorkerRaises, Fault
  <2>2. /\ overviewDue' \in [Cases -> BOOLEAN]
        /\ reviewTask' \in [Cases -> {"none", "requested", "scheduled", "undeferred", "taken", "lost"}]
    BY <1>3 DEF WorkerCrash, WorkerRaises, Fault, TypeOK
  <2>3. QED
    BY <1>3, <2>1, <2>2 DEF WorkerCrash, WorkerRaises, Fault, TypeOK, TaskVars
<1>4. QED
  BY <1>1, <1>2, <1>3 DEF WorkerStep

LEMMA MoveType ==
    ASSUME TypeOK, NEW t \in tasks, NEW u \in Task, Move(t, u)
    PROVE  tasks' \subseteq Task
BY DEF TypeOK, Move

LEMMA TaskType ==
    ASSUME TypeOK, NEW t \in tasks, TaskStep(t) \/ TaskFault(t)
    PROVE  TypeOK'
<1> USE DEF RowVars
<1>0. /\ t \in Task /\ t.case \in Cases /\ t.ver \in Nat /\ t.body \in Content \cup {NoBody}
      /\ emails[t.case] \in EmailRow /\ emails[t.case].version \in Nat
      /\ emails[t.case].body \in Content \cup {NoBody}
  BY DEF TypeOK, Task, EmailRow
<1>1. CASE TaskStart(t)
  <2>1. [t EXCEPT !.phase = "running"] \in Task
    BY <1>0 DEF Task, TaskPhases
  <2>2. QED
    BY <1>1, <2>1, MoveType DEF TaskStart, TypeOK
<1>2. CASE TaskFault(t)
  <2>1. [t EXCEPT !.phase = "dead"] \in Task
    BY <1>0 DEF Task, TaskPhases
  <2>2. QED
    BY <1>2, <2>1, MoveType DEF TaskFault, TaskLost, TaskCrash, Fault, TypeOK
<1>3. CASE DraftLoad(t)
  <2>1. [t EXCEPT !.ver = emails[t.case].version,
                  !.phase = IF emails[t.case].status = "sent" THEN "failing" ELSE "loaded"] \in Task
    BY <1>0 DEF Task, TaskPhases
  <2>2. QED
    BY <1>3, <2>1, MoveType DEF DraftLoad, TypeOK
<1>4. CASE DraftSave(t)
  <2>1. t.ver + 2 \in Nat
    BY <1>0
  <2>2. [status |-> "draft", version |-> t.ver + 2,
         body |-> [author |-> "ai", at |-> t.ver + 2]] \in EmailRow
    BY <2>1 DEF EmailRow, Content
  <2>3. emails' \in [Cases -> EmailRow]
    BY <1>4, <2>2 DEF DraftSave, TypeOK
  <2>4. QED
    BY <1>4, <2>3 DEF DraftSave, Finish, TypeOK
<1>5. CASE DraftFail(t)
  <2>1. [t EXCEPT !.phase = "failing"] \in Task
    BY <1>0 DEF Task, TaskPhases
  <2>2. QED
    BY <1>5, <2>1, MoveType DEF DraftFail, TypeOK
<1>6. CASE DraftRevertLoad(t)
  <2>1. [t EXCEPT !.phase = "reverting", !.ver = emails[t.case].version] \in Task
    BY <1>0 DEF Task, TaskPhases
  <2>2. QED
    BY <1>6, <2>1, MoveType DEF DraftRevertLoad, TypeOK
<1>7. CASE DraftRevert(t)
  <2>1. [status |-> "unavailable", body |-> NoBody, version |-> t.ver + 1] \in EmailRow
    BY <1>0 DEF EmailRow
  <2>2. emails' \in [Cases -> EmailRow]
    BY <1>7, <2>1 DEF DraftRevert, TypeOK
  <2>3. QED
    BY <1>7, <2>2 DEF DraftRevert, Finish, TypeOK
<1>8. CASE SendLoad(t)
  <2>1. [t EXCEPT !.phase = "loaded", !.body = emails[t.case].body] \in Task
    BY <1>0 DEF Task, TaskPhases
  <2>2. tasks' \subseteq Task
    BY <1>8, <2>1, MoveType DEF SendLoad, Finish, TypeOK
  <2>3. QED
    BY <1>8, <2>2 DEF SendLoad, TypeOK
<1>9. CASE SendMail(t)
  <2>1. [t EXCEPT !.phase = "mailed"] \in Task
    BY <1>0 DEF Task, TaskPhases
  <2>2. mailbox' \in [Cases -> Seq(Content \cup {NoBody})]
    BY <1>0, <1>9 DEF SendMail, Deliver, TypeOK, Task
  <2>3. QED
    BY <1>9, <2>1, <2>2, MoveType DEF SendMail, TypeOK
<1>10. CASE SendMailFails(t)
  <2>1. mailbox' \in [Cases -> Seq(Content \cup {NoBody})]
    <3>1. CASE Deliver(t)
      BY <1>0, <3>1 DEF Deliver, TypeOK
    <3>2. CASE UNCHANGED mailbox
      BY <3>2 DEF TypeOK
    <3>3. QED
      BY <1>10, <3>1, <3>2 DEF SendMailFails
  <2>2. QED
    BY <1>10, <2>1 DEF SendMailFails, Finish, TypeOK
<1>11. CASE SendReload(t)
  <2>1. [t EXCEPT !.phase = "closing", !.ver = emails[t.case].version] \in Task
    BY <1>0 DEF Task, TaskPhases
  <2>2. QED
    BY <1>11, <2>1, MoveType DEF SendReload, TypeOK
<1>12. CASE SendClose(t)
  <2>0. t.ver + 1 \in Nat
    BY <1>0
  <2>1. \A m \in EmailRow : [m EXCEPT !.status = "sent", !.version = t.ver + 1] \in EmailRow
    BY <2>0 DEF EmailRow
  <2>2. emails' \in [Cases -> EmailRow]
    BY <1>0, <1>12, <2>1 DEF SendClose, TypeOK
  <2>3. QED
    BY <1>12, <2>2 DEF SendClose, Finish, TypeOK
<1>13. QED
  BY <1>1, <1>2, <1>3, <1>4, <1>5, <1>6, <1>7, <1>8, <1>9, <1>10, <1>11, <1>12 DEF TaskStep

\* Whatever the interleaving of requests, workers and crashes, rows, handlers and
\* tasks keep the shape of the code's entities.
THEOREM TypeInvariant == Spec => []TypeOK
<1>1. Init => TypeOK
  <2>1. NewCase \in CaseRow
    BY DEF NewCase, CaseRow, Status, Successors
  <2>2. NoEmail \in EmailRow
    BY DEF NoEmail, EmailRow
  <2>3. QED
    BY <2>1, <2>2 DEF Init, TypeOK
<1>2. TypeOK /\ [Next]_vars => TypeOK'
  <2> SUFFICES ASSUME TypeOK, [Next]_vars
               PROVE  TypeOK'
    OBVIOUS
  <2>1. ASSUME NEW s \in Slots, HandlerStep(s)
        PROVE  TypeOK'
    <3>1. CASE Conflict(s)
      BY <3>1, ReturnType DEF Conflict, TypeOK
    <3>2. QED
      BY <2>1, <3>1, ReadMailType, CommitType DEF HandlerStep
  <2>2. ASSUME NEW c \in Cases, CaseTaskStep(c)
        PROVE  TypeOK'
    <3>1. /\ reviewTask' \in [Cases -> {"none", "requested", "scheduled", "undeferred", "taken", "lost"}]
          /\ overviewDue' \in [Cases -> BOOLEAN]
      BY <2>2 DEF CaseTaskStep, BatchOverviews, InitiateReview, AutoResolveSkip, OverviewFails, ReviewLost,
                  DeferralLost, TypeOK
    <3>2. faults' \in Nat /\ UNCHANGED <<TaskVars, session, tasks>>
      BY <2>2 DEF CaseTaskStep, BatchOverviews, InitiateReview, AutoResolveSkip, OverviewFails, ReviewLost,
                  DeferralLost, Fault, TypeOK
    <3>3. QED
      BY <3>1, <3>2 DEF TypeOK, TaskVars
  <2>3. CASE UNCHANGED vars
    BY <2>3 DEF vars, TypeOK
  <2>4. QED
    BY <2>1, <2>2, <2>3, RequestType, WorkerType, TaskType DEF Next
<1>3. QED
  BY <1>1, <1>2, PTL DEF Spec

-----------------------------------------------------------------------------
(* What a handler holds *)

\* A step leaves a handler's copy alone, or drops it.
KeepsCopies ==
    \A s \in Slots :
        \/ session'[s] = Idle
        \/ /\ session[s] # Idle
           /\ session'[s].op = session[s].op
           /\ session'[s].actor = session[s].actor
           /\ session'[s].case = session[s].case
           /\ session'[s].row = session[s].row

\* A step that writes a case row raises its version.
RaisesVersions ==
    \A c \in Cases : cases'[c] = cases[c] \/ cases'[c].version = cases[c].version + 1

LEMMA LoadSnapshot ==
    ASSUME TypeOK, SnapshotInv, NEW s \in Slots, NEW c \in Cases,
           NEW op \in AdvisorOps \cup StudentOps \cup WorkerOps,
           NEW a \in Advisors \cup {NoAdvisor}, Load(s, op, c, a),
           op = "accept" => a \in Advisors, UNCHANGED cases
    PROVE  SnapshotInv'
<1>1. cases[c].version \in Nat
  BY DEF TypeOK, CaseRow
<1>2. Snapshot(s)'
  <2>1. /\ session'[s].op = op /\ session'[s].actor = a /\ session'[s].case = c
        /\ session'[s].row = cases[c]
    BY DEF Load, TypeOK
  <2>2. Allowed(session'[s].op, session'[s].row, session'[s].actor)
    BY <2>1 DEF Load
  <2>3. QED
    BY <1>1, <2>1, <2>2 DEF Snapshot, CaseFresh
<1>3. ASSUME NEW u \in Slots, u # s
      PROVE  Snapshot(u)'
  <2>1. session'[u] = session[u]
    BY <1>3 DEF Load, TypeOK
  <2>2. Snapshot(u)
    BY DEF SnapshotInv
  <2>3. QED
    BY <2>1, <2>2 DEF Snapshot, CaseFresh
<1>4. QED
  BY <1>2, <1>3 DEF SnapshotInv

LEMMA KeptSnapshot ==
    ASSUME TypeOK, SnapshotInv, KeepsCopies, RaisesVersions
    PROVE  SnapshotInv'
<1>1. SUFFICES ASSUME NEW s \in Slots, session'[s] # Idle
               PROVE  /\ Allowed(session'[s].op, session'[s].row, session'[s].actor)
                      /\ session'[s].op = "accept" => session'[s].actor \in Advisors
                      /\ session'[s].row.version <= cases'[session'[s].case].version
                      /\ CaseFresh(s)' => session'[s].row = cases'[session'[s].case]
  BY DEF SnapshotInv, Snapshot
<1>2. /\ session[s] # Idle
      /\ session'[s].op = session[s].op
      /\ session'[s].actor = session[s].actor
      /\ session'[s].case = session[s].case
      /\ session'[s].row = session[s].row
  BY <1>1 DEF KeepsCopies
<1>3. Snapshot(s)
  BY DEF SnapshotInv
<1>4. PICK c \in Cases : session[s].case = c
  BY <1>2 DEF TypeOK, Session
<1>5. session[s].row.version \in Nat /\ cases[c].version \in Nat
  BY <1>2 DEF TypeOK, Session, CaseRow
<1>6. CASE cases'[c] = cases[c]
  BY <1>2, <1>3, <1>4, <1>6 DEF Snapshot, CaseFresh
<1>7. CASE cases'[c].version = cases[c].version + 1
  <2>1. session[s].row.version <= cases[c].version
    BY <1>2, <1>3, <1>4 DEF Snapshot
  <2>2. session[s].row.version <= cases'[c].version /\ session[s].row.version # cases'[c].version
    BY <1>5, <1>7, <2>1
  <2>3. QED
    BY <1>2, <1>3, <1>4, <2>2 DEF Snapshot, CaseFresh
<1>8. QED
  BY <1>4, <1>6, <1>7 DEF RaisesVersions

LEMMA ReturnKeeps ==
    ASSUME TypeOK, NEW s \in Slots, Return(s)
    PROVE  KeepsCopies
BY DEF TypeOK, Return, KeepsCopies

LEMMA SameKeeps ==
    ASSUME UNCHANGED session
    PROVE  KeepsCopies
BY DEF KeepsCopies

LEMMA SaveRaises ==
    ASSUME TypeOK, NEW s \in Slots, NEW row \in CaseRow, SaveCase(s, row), CaseFresh(s)
    PROVE  RaisesVersions
BY DEF TypeOK, SaveCase, CaseFresh, RaisesVersions, CaseRow

\* A commit writes its case only while the version it read is the current one.
LEMMA CommitRaises ==
    ASSUME TypeOK, NEW s \in Slots, Commit(s)
    PROVE  KeepsCopies /\ RaisesVersions
<1>1. ASSUME NEW op, NEW next \in Status, Transition(s, op, next)
      PROVE  KeepsCopies /\ RaisesVersions
  <2>1. session[s] \in Session
    BY <1>1, BusySession DEF Transition, Ready
  <2>2. [session[s].row EXCEPT !.status = next] \in CaseRow
    BY <2>1 DEF Session, CaseRow
  <2>3. QED
    BY <1>1, <2>2, SaveRaises, ReturnKeeps DEF Transition
<1>2. CASE CommitAccept(s)
  <2>1. session[s] \in Session
    BY <1>2, BusySession DEF CommitAccept, Ready
  <2>2. [session[s].row EXCEPT !.status = "accepted", !.advisor = session[s].actor] \in CaseRow
    BY <2>1 DEF Session, CaseRow, Status, Successors
  <2>3. QED
    BY <1>2, <2>2, SaveRaises, ReturnKeeps DEF CommitAccept
<1>3. CASE CommitTrigger(s)
  <2>1. session[s].row \in CaseRow
    BY <1>3, BusySession DEF CommitTrigger, Ready, Session
  <2>2. QED
    BY <1>3, <2>1, SaveRaises, ReturnKeeps DEF CommitTrigger
<1>4. CASE CommitOverview(s)
  <2>1. session[s] \in Session
    BY <1>4, BusySession DEF CommitOverview, Ready
  <2>2. [session[s].row EXCEPT !.summary = TRUE] \in CaseRow
    BY <2>1 DEF Session, CaseRow
  <2>3. QED
    BY <1>4, <2>2, SaveRaises, ReturnKeeps DEF CommitOverview
<1>5. CASE CommitUpdate(s)
  BY <1>5, ReturnKeeps DEF CommitUpdate, RaisesVersions
<1>6. CASE CommitSend(s) \/ CommitBook(s) \/ CommitSupport(s) \/ CommitResolve(s)
  <2>1. {"sent", "booked", "supporting", "pending_review"} \subseteq Status
    BY DEF Status, Successors
  <2>2. QED
    BY <1>1, <1>6, <2>1 DEF CommitSend, CommitBook, CommitSupport, CommitResolve
<1>7. CASE CommitReview(s)
  <2>1. \A op : Outcome(op) \in Status
    BY DEF Outcome, Status, Successors
  <2>2. QED
    BY <1>1, <1>7, <2>1 DEF CommitReview
<1>8. QED
  BY <1>2, <1>3, <1>4, <1>5, <1>6, <1>7 DEF Commit

\* The draft and dispatch tasks touch neither case rows, handlers nor events.
LEMMA TaskFrame ==
    ASSUME NEW t, TaskStep(t) \/ TaskFault(t)
    PROVE  UNCHANGED <<cases, session, events>>
BY DEF TaskStep, TaskFault, TaskLost, TaskCrash, Fault, TaskStart, DraftLoad, DraftSave, DraftFail, DraftRevertLoad, DraftRevert,
       SendLoad, SendMail, SendMailFails, SendReload, SendClose, RowVars

LEMMA SnapshotStep ==
    ASSUME TypeOK, SnapshotInv, [Next]_vars
    PROVE  SnapshotInv'
<1>1. ASSUME NEW s \in Requests, RequestStep(s)
      PROVE  SnapshotInv'
  <2>0. s \in Slots
    BY DEF Slots
  <2>1. ASSUME NEW c \in Cases, NEW a \in Advisors, AdvisorRequest(s, c, a)
        PROVE  SnapshotInv'
    BY <2>0, <2>1, LoadSnapshot DEF AdvisorRequest
  <2>2. ASSUME NEW c \in Cases, BookRequest(s, c)
        PROVE  SnapshotInv'
    BY <2>0, <2>2, LoadSnapshot DEF BookRequest, StudentOps
  <2>3. ASSUME NEW c \in Cases, ReviewRequest(s, c)
        PROVE  SnapshotInv'
    BY <2>0, <2>3, LoadSnapshot DEF ReviewRequest, StudentOps
  <2>4. CASE Abandon(s)
    BY <2>0, <2>4, KeptSnapshot, ReturnKeeps DEF Abandon, RaisesVersions
  <2>5. QED
    BY <1>1, <2>1, <2>2, <2>3, <2>4 DEF RequestStep
<1>2. ASSUME NEW s \in Slots, HandlerStep(s)
      PROVE  SnapshotInv'
  <2>1. CASE ReadMail(s)
    <3>1. session[s] \in Session /\ session[s] # Idle
      BY <2>1, BusySession DEF ReadMail
    <3>2. KeepsCopies
      BY <2>1, <3>1 DEF ReadMail, KeepsCopies, TypeOK, Session
    <3>3. QED
      BY <2>1, <3>2, KeptSnapshot DEF ReadMail, RaisesVersions
  <2>2. CASE Conflict(s)
    BY <2>2, KeptSnapshot, ReturnKeeps DEF Conflict, RaisesVersions
  <2>3. QED
    BY <1>2, <2>1, <2>2, CommitRaises, KeptSnapshot DEF HandlerStep
<1>3. ASSUME NEW w \in Workers, WorkerStep(w)
      PROVE  SnapshotInv'
  <2>0. w \in Slots
    BY DEF Slots
  <2>1. ASSUME NEW c \in Cases, OverviewStart(w, c)
        PROVE  SnapshotInv'
    BY <2>0, <2>1, LoadSnapshot DEF OverviewStart, WorkerOps, TaskVars
  <2>2. ASSUME NEW c \in Cases, AutoResolveStart(w, c)
        PROVE  SnapshotInv'
    BY <2>0, <2>2, LoadSnapshot DEF AutoResolveStart, WorkerOps, TaskVars
  <2>3. CASE WorkerCrash(w) \/ WorkerRaises(w)
    BY <2>0, <2>3, KeptSnapshot, ReturnKeeps DEF WorkerCrash, WorkerRaises, Fault, RaisesVersions, TaskVars
  <2>4. QED
    BY <1>3, <2>1, <2>2, <2>3 DEF WorkerStep
<1>4. ASSUME UNCHANGED <<cases, session>>
      PROVE  SnapshotInv'
  <2>1. \A s \in Slots : Snapshot(s)' <=> Snapshot(s)
    BY <1>4 DEF Snapshot, CaseFresh
  <2>2. QED
    BY <1>4, <2>1 DEF SnapshotInv, Slots
<1>5. ASSUME NEW c \in Cases, CaseTaskStep(c)
      PROVE  SnapshotInv'
  BY <1>4, <1>5 DEF CaseTaskStep, BatchOverviews, InitiateReview, AutoResolveSkip,
              OverviewFails, ReviewLost, DeferralLost, Fault, TaskVars
<1>6. ASSUME NEW t \in tasks, TaskStep(t) \/ TaskFault(t)
      PROVE  SnapshotInv'
  BY <1>4, <1>6, TaskFrame
<1>7. QED
  BY <1>1, <1>2, <1>3, <1>4, <1>5, <1>6 DEF Next, vars

\* A handler never commits a decision taken on a row that has changed: its copy
\* passed its check, and equals the row whenever the version test of save passes.
THEOREM CopiesAreSound == Spec => []SnapshotInv
<1>1. Init => SnapshotInv
  BY DEF Init, SnapshotInv, Snapshot
<1>2. TypeOK /\ SnapshotInv /\ [Next]_vars => SnapshotInv'
  BY SnapshotStep
<1>3. QED
  BY <1>1, <1>2, TypeInvariant, PTL DEF Spec

-----------------------------------------------------------------------------
(* The rows implement the board *)

\* What SnapshotInv gives a handler at its commit.
LEMMA CommittedCopy ==
    ASSUME TypeOK, SnapshotInv, NEW s \in Slots, session[s].pc = "ready", CaseFresh(s)
    PROVE  /\ session[s].case \in Cases
           /\ session[s].row = cases[session[s].case]
           /\ cases[session[s].case] \in CaseRow
           /\ Allowed(session[s].op, session[s].row, session[s].actor)
           /\ session[s].op = "accept" => session[s].actor \in Advisors
BY BusySession DEF SnapshotInv, Snapshot, Session, TypeOK

\* The matrix of the entity, without dismissal and expiry, is the board's path.
LEMMA MatrixIsPath ==
    ASSUME NEW status \in Status,
           NEW next \in {"sent", "booked", "supporting", "pending_review", "resolved", "failed"},
           next \in Successors[status]
    PROVE  status \in DOMAIN Board!Path /\ next \in Board!Path[status]
BY DEF Status, Successors, Board!Path

LEMMA TransitionAdvances ==
    ASSUME TypeOK, SnapshotInv, NEW s \in Slots, NEW op,
           NEW next \in {"sent", "booked", "supporting", "pending_review", "resolved", "failed"},
           Transition(s, op, next),
           \A row, a : Allowed(op, row, a) => MayMoveTo(row, next)
    PROVE  Board!Next
<1> DEFINE c == session[s].case
<1>1. session[s].pc = "ready" /\ session[s].op = op /\ CaseFresh(s)
  BY DEF Transition, Ready
<1>2. /\ c \in Cases /\ session[s].row = cases[c] /\ cases[c] \in CaseRow
      /\ Allowed(session[s].op, session[s].row, session[s].actor)
  BY <1>1, CommittedCopy
<1>3. next \in Successors[cases[c].status] /\ cases[c].status \in Status
  BY <1>1, <1>2 DEF MayMoveTo, CaseRow
<1>4. cases[c].status \in DOMAIN Board!Path /\ next \in Board!Path[cases[c].status]
  BY <1>3, MatrixIsPath
<1>5. /\ cases'[c].status = next
      /\ cases'[c].advisor = cases[c].advisor
      /\ cases'[c].summary = cases[c].summary
      /\ \A d \in Cases \ {c} : cases'[d] = cases[d]
  BY <1>2 DEF Transition, SaveCase, TypeOK, CaseRow
<1>6. Board!Announce(c, next)
  BY DEF Transition, Announce, Board!Announce
<1>7. Board!Advance(c, next)
  BY <1>2, <1>4, <1>5, <1>6 DEF Board!Advance
<1>8. QED
  BY <1>2, <1>7 DEF Board!Next

LEMMA BoardActions ==
    ASSUME NEW c \in Cases, Board!Enrich(c) \/ \E a \in Advisors : Board!Claim(c, a)
    PROVE  Board!Next
BY DEF Board!Next

LEMMA CommitImplements ==
    ASSUME TypeOK, SnapshotInv, NEW s \in Slots, Commit(s)
    PROVE  Board!Next \/ UNCHANGED Board!vars
<1>0. PICK c \in Cases, a \in Advisors \cup {NoAdvisor} :
        c = session[s].case /\ a = session[s].actor
  BY BusySession DEF Commit, CommitAccept, CommitTrigger, CommitSend, CommitUpdate, CommitBook,
     CommitSupport, CommitResolve, CommitReview, CommitOverview, Transition, Ready, Session
<1>1. CASE CommitAccept(s)
  <2>1. /\ session[s].row = cases[c] /\ cases[c] \in CaseRow
        /\ Allowed("accept", cases[c], a) /\ a \in Advisors
    BY <1>0, <1>1, CommittedCopy DEF CommitAccept, Ready
  <2>2. cases[c].status = "new"
    BY <2>1 DEF Allowed, MayMoveTo, Successors, CaseRow, Status
  <2>3. /\ cases'[c].status = "accepted"
        /\ cases'[c].advisor = a
        /\ cases'[c].summary = cases[c].summary
        /\ \A d \in Cases \ {c} : cases'[d] = cases[d]
    BY <1>0, <1>1, <2>1 DEF CommitAccept, SaveCase, TypeOK, CaseRow
  <2>4. Board!Announce(c, "accepted")
    BY <1>0, <1>1 DEF CommitAccept, Announce, Board!Announce
  <2>5. Board!Claim(c, a)
    BY <2>1, <2>2, <2>3, <2>4 DEF Board!Claim
  <2>6. Board!Next
    BY <2>1, <2>5, BoardActions
  <2>7. QED
    BY <2>6
<1>2. CASE CommitTrigger(s)
  <2>1. session[s].row = cases[c] /\ cases[c] \in CaseRow
    BY <1>0, <1>2, CommittedCopy DEF CommitTrigger, Ready
  <2>2. \A d \in Cases : /\ cases'[d].status = cases[d].status
                         /\ cases'[d].advisor = cases[d].advisor
                         /\ cases'[d].summary = cases[d].summary
    BY <1>0, <1>2, <2>1 DEF CommitTrigger, SaveCase, TypeOK, CaseRow
  <2>3. QED
    BY <1>0, <1>2, <2>2 DEF CommitTrigger, Board!vars
<1>3. CASE CommitSend(s)
  BY <1>3, TransitionAdvances DEF CommitSend, Allowed
<1>4. CASE CommitUpdate(s)
  BY <1>4 DEF CommitUpdate, Board!vars
<1>5. CASE CommitBook(s)
  BY <1>5, TransitionAdvances DEF CommitBook, Allowed
<1>6. CASE CommitSupport(s)
  BY <1>6, TransitionAdvances DEF CommitSupport, Allowed
<1>7. CASE CommitResolve(s)
  BY <1>7, TransitionAdvances DEF CommitResolve, Allowed
<1>8. CASE CommitReview(s)
  <2>1. PICK op \in ReviewOps : Transition(s, op, Outcome(op))
    BY <1>8 DEF CommitReview
  <2>2. \A row, user : Allowed(op, row, user) => MayMoveTo(row, Outcome(op))
    BY DEF Allowed, ReviewOps
  <2>3. Outcome(op) \in {"resolved", "failed"}
    BY DEF Outcome
  <2>4. QED
    BY <2>1, <2>2, <2>3, TransitionAdvances
<1>9. CASE CommitOverview(s)
  <2>1. session[s].row = cases[c] /\ cases[c] \in CaseRow
    BY <1>0, <1>9, CommittedCopy DEF CommitOverview, Ready
  <2>2. /\ cases'[c].status = cases[c].status
        /\ cases'[c].advisor = cases[c].advisor
        /\ cases'[c].summary = TRUE
        /\ \A d \in Cases \ {c} : cases'[d] = cases[d]
    BY <1>0, <1>9, <2>1 DEF CommitOverview, SaveCase, TypeOK, CaseRow
  <2>3. Board!Enrich(c)
    BY <1>0, <1>9, <2>1, <2>2 DEF CommitOverview, Board!Enrich
  <2>4. Board!Next
    BY <2>1, <2>3, BoardActions
  <2>5. QED
    BY <2>4
<1>10. QED
  BY <1>1, <1>2, <1>3, <1>4, <1>5, <1>6, <1>7, <1>8, <1>9 DEF Commit

\* Only commits move the board; reads, conflicts, faults and the draft and
\* dispatch tasks are invisible on it.
LEMMA BoardStep ==
    ASSUME TypeOK, SnapshotInv, [Next]_vars
    PROVE  [Board!Next]_(Board!vars)
<1>1. ASSUME UNCHANGED <<cases, events>>
      PROVE  UNCHANGED Board!vars
  BY <1>1 DEF Board!vars
<1>2. ASSUME NEW s \in Requests, RequestStep(s)
      PROVE  UNCHANGED Board!vars
  BY <1>1, <1>2 DEF RequestStep, AdvisorRequest, BookRequest, ReviewRequest, Abandon
<1>3. ASSUME NEW w \in Workers, WorkerStep(w)
      PROVE  UNCHANGED Board!vars
  BY <1>1, <1>3 DEF WorkerStep, OverviewStart, AutoResolveStart, WorkerCrash, WorkerRaises, Fault, TaskVars
<1>4. ASSUME NEW c \in Cases, CaseTaskStep(c)
      PROVE  UNCHANGED Board!vars
  BY <1>1, <1>4 DEF CaseTaskStep, BatchOverviews, InitiateReview, AutoResolveSkip,
              OverviewFails, ReviewLost, DeferralLost, Fault, TaskVars
<1>5. ASSUME NEW t \in tasks, TaskStep(t) \/ TaskFault(t)
      PROVE  UNCHANGED Board!vars
  BY <1>1, <1>5, TaskFrame
<1>6. ASSUME NEW s \in Slots, HandlerStep(s)
      PROVE  Board!Next \/ UNCHANGED Board!vars
  <2>1. CASE ReadMail(s) \/ Conflict(s)
    BY <1>1, <2>1 DEF ReadMail, Conflict
  <2>2. QED
    BY <1>6, <2>1, CommitImplements DEF HandlerStep
<1>7. CASE UNCHANGED vars
  BY <1>1, <1>7 DEF vars
<1>8. QED
  BY <1>2, <1>3, <1>4, <1>5, <1>6, <1>7 DEF Next

\* Optimistic locking makes every handler atomic: for any number of concurrent
\* requests and workers the case rows and their events behave as CaseBoard.
THEOREM Refinement == Spec => ImplementsBoard
<1>1. Init => Board!Init
  BY DEF Init, NewCase, Board!Init, Board!NewCard
<1>2. TypeOK /\ SnapshotInv /\ [Next]_vars => [Board!Next]_(Board!vars)
  BY BoardStep
<1>3. QED
  BY <1>1, <1>2, TypeInvariant, CopiesAreSound, PTL DEF Spec, ImplementsBoard, Board!Spec

-----------------------------------------------------------------------------
(* The mail *)

Unsent(c) == cases[c].status \in {"new", "accepted"}

\* What the advisor asked to send, or what an advisor wrote since.
AsApproved(body, chosen) == body = chosen \/ body.author = "advisor"

\* A handler's copy of the email passed its check, is not newer than the row, and
\* is the row while the versions agree.
CopyOfMail(s) ==
    session[s].pc = "ready" /\ session[s].op \in MailOps =>
        /\ MailAllows(session[s].op, session[s].mail)
        /\ session[s].mail.version <= emails[session[s].case].version
        /\ MailFresh(s) => session[s].mail = emails[session[s].case]

\* The version of the case protects the email too: as long as a send request may
\* commit, the email it has read is a draft that at most an advisor has edited.
SendStands(s) ==
    Ready(s, "send") /\ CaseFresh(s) =>
        /\ emails[session[s].case].status = "draft"
        /\ AsApproved(emails[session[s].case].body, session[s].mail.body)

MailOfCase(c) ==
    /\ emails[c].status = "none" => emails[c].version = 0
    /\ emails[c].status \in {"draft", "sent"} => emails[c].body # NoBody
    /\ cases[c].status = "accepted" => emails[c].status # "sent"
    /\ ~Unsent(c) => /\ emails[c].status \in {"draft", "sent"}
                     /\ AsApproved(emails[c].body, approved[c])
    /\ Unsent(c) => mailbox[c] = <<>>
    /\ Len(mailbox[c]) <= 1
    /\ \A i \in 1..Len(mailbox[c]) : AsApproved(mailbox[c][i], approved[c])

MailOfTask(t) ==
    /\ t.kind = "draft" => emails[t.case].status = "generating"
    /\ t.kind = "send" =>
          /\ ~Unsent(t.case)
          /\ t.phase \in {"queued", "running", "loaded"} => mailbox[t.case] = <<>>
          /\ t.phase = "loaded" => AsApproved(t.body, approved[t.case])

OneOfAKind == \A t, u \in tasks : t.kind = u.kind /\ t.case = u.case => t = u

CopiesInv == \A s \in Slots : CopyOfMail(s) /\ SendStands(s)
CasesInv == \A c \in Cases : MailOfCase(c)
TasksInv == OneOfAKind /\ \A t \in tasks : MailOfTask(t)
MailInv == CopiesInv /\ CasesInv /\ TasksInv

-----------------------------------------------------------------------------
\* A step that lets no handler read an email.
KeepsMailCopies ==
    \A s \in Slots :
        session'[s].pc = "ready" /\ session'[s].op \in MailOps => session'[s] = session[s]

\* A step that writes an email row raises its version.
MailsGrow ==
    \A c \in Cases :
        \/ emails'[c] = emails[c]
        \/ emails[c].status = "none"
        \/ emails'[c].version > emails[c].version

\* A step that leaves an accepted case alone leaves its draft to the advisor.
DraftsStand ==
    \A c \in Cases :
        emails[c].status = "draft" /\ cases[c].status = "accepted" /\ cases'[c] = cases[c] =>
            emails'[c].status = "draft" /\ AsApproved(emails'[c].body, emails[c].body)

\* Drafts and sends are asked for on a row that is still accepted at the commit.
LEMMA CommitsAccepted ==
    ASSUME TypeOK, SnapshotInv, NEW s \in Slots, Ready(s, "send") \/ Ready(s, "trigger"),
           CaseFresh(s)
    PROVE  cases[session[s].case].status = "accepted"
<1>1. session[s] \in Session /\ session[s] # Idle
  BY BusySession DEF Ready
<1>2. /\ Allowed(session[s].op, session[s].row, session[s].actor)
      /\ session[s].row = cases[session[s].case]
  BY <1>1 DEF SnapshotInv, Snapshot
<1>3. session[s].row.status \in Status
  BY <1>1 DEF Session, CaseRow
<1>4. CASE Ready(s, "send")
  BY <1>2, <1>3, <1>4 DEF Ready, Allowed, MayMoveTo, Successors, Status
<1>5. CASE Ready(s, "trigger")
  BY <1>2, <1>5 DEF Ready, Allowed, CanGenerateDraft
<1>6. QED
  BY <1>4, <1>5

LEMMA CopiesKept ==
    ASSUME TypeOK, TypeOK', SnapshotInv, MailInv, KeepsMailCopies, RaisesVersions, MailsGrow, DraftsStand
    PROVE  CopiesInv'
<1> SUFFICES ASSUME NEW s \in Slots, session'[s].pc = "ready", session'[s].op \in MailOps
             PROVE  CopyOfMail(s)' /\ SendStands(s)'
  BY DEF CopiesInv, CopyOfMail, SendStands, Ready, MailOps
<1>1. session'[s] = session[s] /\ session[s] \in Session /\ session[s] # Idle
  BY BusySession DEF KeepsMailCopies
<1>2. PICK c \in Cases : session[s].case = c
  BY <1>1 DEF Session
<1>3. /\ session[s].row.version \in Nat /\ cases[c].version \in Nat
      /\ session[s].mail.version \in Nat /\ emails[c].version \in Nat
  BY <1>1, <1>2 DEF TypeOK, Session, CaseRow, EmailRow
<1>4. /\ MailAllows(session[s].op, session[s].mail)
      /\ session[s].mail.version <= emails[c].version
      /\ session[s].mail.version = emails[c].version => session[s].mail = emails[c]
  BY <1>1, <1>2 DEF MailInv, CopiesInv, CopyOfMail, MailFresh
<1>5. CopyOfMail(s)'
  <2>1. emails[c].status # "none"
    <3> SUFFICES ASSUME emails[c].status = "none" PROVE FALSE
      OBVIOUS
    <3>1. emails[c].version = 0
      BY DEF MailInv, CasesInv, MailOfCase
    <3>2. session[s].mail.status = "none"
      BY <3>1, <1>3, <1>4
    <3>3. QED
      BY <3>2, <1>1, <1>4 DEF MailAllows, MailOps
  <2>2. CASE emails'[c] = emails[c]
    BY <2>2, <1>1, <1>2, <1>4 DEF CopyOfMail, MailFresh
  <2>3. CASE emails'[c].version > emails[c].version
    <3>1. /\ session[s].mail.version <= emails'[c].version
          /\ session[s].mail.version # emails'[c].version
      <4>1. emails'[c].version \in Nat
        BY DEF TypeOK, EmailRow
      <4>2. QED
        BY <4>1, <2>3, <1>3, <1>4
    <3>2. QED
      BY <3>1, <1>1, <1>2, <1>4 DEF CopyOfMail, MailFresh
  <2>4. QED
    BY <2>1, <2>2, <2>3 DEF MailsGrow
<1>6. SendStands(s)'
  <2> SUFFICES ASSUME session[s].op = "send", session[s].row.version = cases'[c].version
               PROVE  /\ emails'[c].status = "draft"
                      /\ AsApproved(emails'[c].body, session[s].mail.body)
    BY <1>1, <1>2 DEF SendStands, Ready, CaseFresh
  <2>1. session[s].row.version <= cases[c].version
    BY <1>1, <1>2 DEF SnapshotInv, Snapshot
  <2>2. cases'[c] = cases[c]
    BY <2>1, <1>3 DEF RaisesVersions
  <2>3. Ready(s, "send") /\ CaseFresh(s)
    BY <2>2, <1>1, <1>2 DEF Ready, CaseFresh
  <2>4. /\ cases[c].status = "accepted" /\ emails[c].status = "draft"
        /\ AsApproved(emails[c].body, session[s].mail.body)
    BY <2>3, <1>2, CommitsAccepted DEF MailInv, CopiesInv, SendStands
  <2>5. emails'[c].status = "draft" /\ AsApproved(emails'[c].body, emails[c].body)
    BY <2>2, <2>4 DEF DraftsStand
  <2>6. QED
    BY <2>4, <2>5 DEF AsApproved
<1>7. QED
  BY <1>5, <1>6

\* Steps that write neither emails nor tasks, and let no case become unsent or sent.
LEMMA RestKept ==
    ASSUME TypeOK, CasesInv, TasksInv, UNCHANGED <<emails, mailbox, approved, tasks>>,
           \A c \in Cases : \/ cases'[c].status = cases[c].status
                            \/ ~Unsent(c) /\ ~Unsent(c)'
    PROVE  CasesInv' /\ TasksInv'
<1>1. \A c \in Cases : MailOfCase(c)'
  BY DEF CasesInv, MailOfCase, Unsent, AsApproved
<1>2. \A t \in tasks : t.case \in Cases
  BY DEF TypeOK, Task
<1>3. \A t \in tasks : MailOfTask(t)'
  BY <1>2 DEF TasksInv, MailOfTask, Unsent, AsApproved
<1>4. QED
  BY <1>1, <1>3 DEF CasesInv, TasksInv, OneOfAKind

LEMMA RestStands ==
    ASSUME UNCHANGED emails
    PROVE  MailsGrow /\ DraftsStand
BY DEF MailsGrow, DraftsStand, AsApproved

-----------------------------------------------------------------------------
(* Commits *)

LEMMA CommitDrops ==
    ASSUME TypeOK, NEW s \in Slots, Return(s)
    PROVE  KeepsMailCopies
BY DEF TypeOK, Return, KeepsMailCopies, Idle

LEMMA TransitionStaysSent ==
    ASSUME TypeOK, SnapshotInv, NEW s \in Slots, NEW op,
           NEW next \in {"booked", "supporting", "pending_review", "resolved", "failed"},
           Transition(s, op, next), \A row, a : Allowed(op, row, a) => MayMoveTo(row, next)
    PROVE  \A c \in Cases : \/ cases'[c].status = cases[c].status
                            \/ ~Unsent(c) /\ ~Unsent(c)'
<1> DEFINE c == session[s].case
<1>1. /\ c \in Cases /\ session[s].row = cases[c] /\ cases[c] \in CaseRow
      /\ MayMoveTo(cases[c], next)
  BY CommittedCopy DEF Transition, Ready
<1>2. cases[c].status \in Status
  BY <1>1 DEF CaseRow
<1>3. cases[c].status \notin {"new", "accepted"}
  BY <1>1, <1>2 DEF MayMoveTo, Successors, Status
<1>4. cases'[c].status = next /\ \A d \in Cases \ {c} : cases'[d] = cases[d]
  BY <1>1 DEF Transition, SaveCase, TypeOK, CaseRow
<1> HIDE DEF c
<1>5. QED
  BY <1>3, <1>4 DEF Unsent

\* The handlers that move a sent case on, and the AI overview.
LEMMA OtherCommitMail ==
    ASSUME TypeOK, SnapshotInv, CasesInv, TasksInv, NEW s \in Slots,
           \/ CommitBook(s) \/ CommitSupport(s) \/ CommitResolve(s) \/ CommitReview(s)
           \/ CommitOverview(s)
    PROVE  UNCHANGED emails /\ Return(s) /\ CasesInv' /\ TasksInv'
<1> DEFINE Stays == \A c \in Cases : \/ cases'[c].status = cases[c].status
                                     \/ ~Unsent(c) /\ ~Unsent(c)'
<1>1. /\ UNCHANGED <<emails, mailbox, approved, tasks>>
      /\ Return(s)
  BY DEF CommitBook, CommitSupport, CommitResolve, CommitReview, CommitOverview, Transition
<1>2. Stays
  <2>1. CASE CommitBook(s) \/ CommitSupport(s) \/ CommitResolve(s)
    BY <2>1, TransitionStaysSent DEF CommitBook, CommitSupport, CommitResolve, Allowed
  <2>2. CASE CommitReview(s)
    <3>1. PICK op \in ReviewOps : Transition(s, op, Outcome(op))
      BY <2>2 DEF CommitReview
    <3>2. \A row, a : Allowed(op, row, a) => MayMoveTo(row, Outcome(op))
      BY DEF Allowed, ReviewOps
    <3>3. Outcome(op) \in {"resolved", "failed"}
      BY DEF Outcome
    <3>4. QED
      BY <3>1, <3>2, <3>3, TransitionStaysSent
  <2>3. CASE CommitOverview(s)
    <3>1. session[s].row = cases[session[s].case] /\ cases[session[s].case] \in CaseRow
          /\ session[s].case \in Cases
      BY <2>3, CommittedCopy DEF CommitOverview, Ready
    <3>2. QED
      BY <2>3, <3>1 DEF CommitOverview, SaveCase, TypeOK, CaseRow
  <2>4. QED
    BY <2>1, <2>2, <2>3
<1>3. QED
  BY <1>1, <1>2, RestKept

LEMMA AcceptMail ==
    ASSUME TypeOK, SnapshotInv, CasesInv, TasksInv, NEW s \in Slots, CommitAccept(s)
    PROVE  MailsGrow /\ DraftsStand /\ CasesInv' /\ TasksInv'
<1>1. PICK c \in Cases : c = session[s].case
  BY BusySession DEF CommitAccept, Ready, Session
<1>2. /\ session[s].row = cases[c] /\ cases[c] \in CaseRow
      /\ Allowed("accept", cases[c], session[s].actor)
  BY <1>1, CommittedCopy DEF CommitAccept, Ready
<1>3. cases[c].status = "new" /\ emails[c].status = "none"
  BY <1>1, <1>2 DEF CommitAccept, Allowed, MayMoveTo, Successors, CaseRow, Status
<1>4. /\ emails'[c].status = "unavailable"
      /\ cases'[c].status = "accepted"
      /\ \A d \in Cases \ {c} : cases'[d] = cases[d] /\ emails'[d] = emails[d]
      /\ UNCHANGED <<tasks, approved, mailbox>>
  BY <1>1, <1>2 DEF CommitAccept, SaveCase, TypeOK, CaseRow, NoEmail
<1>5. MailsGrow /\ DraftsStand
  BY <1>3, <1>4 DEF MailsGrow, DraftsStand, AsApproved
<1>6. CasesInv'
  <2>1. MailOfCase(c)'
    BY <1>3, <1>4 DEF CasesInv, MailOfCase, Unsent, AsApproved
  <2>2. \A d \in Cases \ {c} : MailOfCase(d)'
    BY <1>4 DEF CasesInv, MailOfCase, Unsent, AsApproved
  <2>3. QED
    BY <2>1, <2>2 DEF CasesInv
<1>7. \A t \in tasks : t.case \in Cases \ {c} \/ t.kind \notin {"draft", "send"}
  BY <1>3 DEF TypeOK, Task, TasksInv, MailOfTask, Unsent
<1>8. TasksInv'
  BY <1>4, <1>7 DEF TasksInv, MailOfTask, OneOfAKind, Unsent, AsApproved
<1>9. QED
  BY <1>5, <1>6, <1>8

LEMMA TriggerMail ==
    ASSUME TypeOK, SnapshotInv, MailInv, NEW s \in Slots, CommitTrigger(s)
    PROVE  MailsGrow /\ DraftsStand /\ CasesInv' /\ TasksInv'
<1> USE DEF MailInv
<1>0. Ready(s, "trigger") /\ CaseFresh(s) /\ MailFresh(s)
  BY DEF CommitTrigger
<1>1. PICK c \in Cases : c = session[s].case
  BY <1>0, BusySession DEF Ready, Session
<1>2. session[s].row = cases[c] /\ cases[c] \in CaseRow /\ cases[c].status = "accepted"
  BY <1>0, <1>1, CommittedCopy, CommitsAccepted DEF Ready
<1>3. /\ session[s].mail = emails[c] /\ emails[c].version \in Nat
      /\ emails[c].status \notin {"none", "generating"}
  BY <1>0, <1>1 DEF CopiesInv, CopyOfMail, Ready, MailOps, MailAllows, TypeOK, EmailRow
<1>4. cases[c].version \in Nat
  BY <1>2 DEF CaseRow
<1>task. PICK new : new = NewTask("draft", c, cases[c].version)
  OBVIOUS
<1>5. /\ emails'[c].status = "generating" /\ emails'[c].version = emails[c].version + 1
      /\ cases'[c].status = "accepted" /\ cases'[c].version = cases[c].version + 1
      /\ \A d \in Cases \ {c} : cases'[d] = cases[d] /\ emails'[d] = emails[d]
      /\ tasks' = tasks \cup {new}
      /\ UNCHANGED <<approved, mailbox>>
  BY <1>1, <1>2, <1>3, <1>task DEF CommitTrigger, SaveCase, SaveMail, TypeOK, CaseRow
<1>6. MailsGrow
  BY <1>3, <1>5 DEF MailsGrow
<1>7. DraftsStand
  BY <1>4, <1>5 DEF DraftsStand, AsApproved
<1>8. CasesInv'
  <2>1. MailOfCase(c)'
    BY <1>2, <1>3, <1>5 DEF CasesInv, MailOfCase, Unsent, AsApproved
  <2>2. \A d \in Cases \ {c} : MailOfCase(d)'
    BY <1>5 DEF CasesInv, MailOfCase, Unsent, AsApproved
  <2>3. QED
    BY <2>1, <2>2 DEF CasesInv
<1>9. new.kind = "draft" /\ new.case = c
  BY <1>task DEF NewTask
<1>10. \A t \in tasks : t.case \in Cases \ {c} \/ t.kind \notin {"draft", "send"}
  BY <1>2, <1>3 DEF TypeOK, Task, TasksInv, MailOfTask, Unsent
<1>11. \A t \in tasks : t.kind \in {"draft", "send"}
  BY DEF TypeOK, Task
<1>12. \A t \in tasks' : MailOfTask(t)'
  <2>1. MailOfTask(new)'
    BY <1>5, <1>9 DEF MailOfTask
  <2>2. \A t \in tasks : MailOfTask(t)'
    BY <1>5, <1>10, <1>11 DEF TasksInv, MailOfTask, Unsent, AsApproved
  <2>3. QED
    BY <1>5, <2>1, <2>2
<1>13. OneOfAKind'
  BY <1>5, <1>9, <1>10, <1>11 DEF TasksInv, OneOfAKind
<1>14. QED
  BY <1>6, <1>7, <1>8, <1>12, <1>13 DEF TasksInv

LEMMA SendCommitMail ==
    ASSUME TypeOK, SnapshotInv, MailInv, NEW s \in Slots, CommitSend(s)
    PROVE  CasesInv' /\ TasksInv'
<1> USE DEF MailInv
<1>0. Ready(s, "send") /\ CaseFresh(s)
  BY DEF CommitSend, Transition
<1>1. PICK c \in Cases : c = session[s].case
  BY <1>0, BusySession DEF Ready, Session
<1>2. session[s].row = cases[c] /\ cases[c] \in CaseRow /\ cases[c].status = "accepted"
  BY <1>0, <1>1, CommittedCopy, CommitsAccepted DEF Ready
<1>3. emails[c].status = "draft" /\ AsApproved(emails[c].body, session[s].mail.body)
  BY <1>0, <1>1 DEF CopiesInv, SendStands
<1>task. PICK new : new = NewTask("send", c, cases[c].version)
  OBVIOUS
<1>4. /\ cases'[c].status = "sent" /\ approved'[c] = session[s].mail.body
      /\ \A d \in Cases \ {c} : cases'[d] = cases[d] /\ approved'[d] = approved[d]
      /\ tasks' = tasks \cup {new}
      /\ UNCHANGED <<emails, mailbox>>
  BY <1>1, <1>2, <1>task DEF CommitSend, Transition, SaveCase, TypeOK, CaseRow
<1>5. mailbox[c] = <<>>
  BY <1>2 DEF CasesInv, MailOfCase, Unsent
<1>6. CasesInv'
  <2>1. MailOfCase(c)'
    BY <1>2, <1>3, <1>4, <1>5 DEF CasesInv, MailOfCase, Unsent
  <2>2. \A d \in Cases \ {c} : MailOfCase(d)'
    BY <1>4 DEF CasesInv, MailOfCase, Unsent
  <2>3. QED
    BY <2>1, <2>2 DEF CasesInv
<1>7. new.kind = "send" /\ new.case = c /\ new.phase = "queued"
  BY <1>task DEF NewTask
<1>8. \A t \in tasks : t.case \in Cases /\ (t.kind = "send" => t.case # c)
  BY <1>2 DEF TypeOK, Task, TasksInv, MailOfTask, Unsent
<1>9. \A t \in tasks' : MailOfTask(t)'
  <2>1. MailOfTask(new)'
    BY <1>4, <1>5, <1>7 DEF MailOfTask, Unsent
  <2>2. \A t \in tasks : MailOfTask(t)'
    BY <1>4, <1>8 DEF TasksInv, MailOfTask, Unsent
  <2>3. QED
    BY <1>4, <2>1, <2>2
<1>10. OneOfAKind'
  BY <1>4, <1>7, <1>8 DEF TasksInv, OneOfAKind
<1>11. QED
  BY <1>6, <1>9, <1>10 DEF TasksInv

LEMMA UpdateMail ==
    ASSUME TypeOK, MailInv, NEW s \in Slots, CommitUpdate(s)
    PROVE  MailsGrow /\ DraftsStand /\ CasesInv' /\ TasksInv'
<1> USE DEF MailInv
<1>1. PICK c \in Cases : c = session[s].case
  BY BusySession DEF CommitUpdate, Ready, Session
<1>2. /\ session[s].mail = emails[c] /\ emails[c].version \in Nat
      /\ emails[c].status \in {"draft", "unavailable"}
  BY <1>1 DEF CommitUpdate, CopiesInv, CopyOfMail, Ready, MailOps, MailAllows, TypeOK, EmailRow
<1>3. /\ emails'[c].status = "draft" /\ emails'[c].version = emails[c].version + 1
      /\ emails'[c].body.author = "advisor"
      /\ \A d \in Cases \ {c} : emails'[d] = emails[d]
      /\ UNCHANGED <<cases, tasks, approved, mailbox>>
  BY <1>1, <1>2 DEF CommitUpdate, SaveMail, TypeOK
<1>4. MailsGrow /\ DraftsStand
  BY <1>2, <1>3 DEF MailsGrow, DraftsStand, AsApproved
<1>5. CasesInv'
  <2>1. emails'[c].body # NoBody
    BY <1>3 DEF NoBody
  <2>2. MailOfCase(c)'
    BY <1>3, <2>1 DEF CasesInv, MailOfCase, Unsent, AsApproved
  <2>3. \A d \in Cases \ {c} : MailOfCase(d)'
    BY <1>3 DEF CasesInv, MailOfCase, Unsent, AsApproved
  <2>4. QED
    BY <2>2, <2>3 DEF CasesInv
<1>6. \A t \in tasks : t.case \in Cases /\ (t.kind = "draft" => t.case # c)
  BY <1>2 DEF TypeOK, Task, TasksInv, MailOfTask
<1>7. TasksInv'
  BY <1>3, <1>6 DEF TasksInv, MailOfTask, OneOfAKind, Unsent, AsApproved
<1>8. QED
  BY <1>4, <1>5, <1>7

\* Every commit keeps the mail in order.
LEMMA CommitMail ==
    ASSUME TypeOK, TypeOK', SnapshotInv, MailInv, NEW s \in Slots, Commit(s)
    PROVE  MailInv'
<1>1. RaisesVersions /\ KeepsMailCopies
  <2>1. Return(s)
    BY DEF Commit, CommitAccept, CommitTrigger, CommitSend, CommitUpdate, CommitBook,
           CommitSupport, CommitResolve, CommitReview, CommitOverview, Transition
  <2>2. QED
    BY <2>1, CommitRaises, CommitDrops
<1>2. MailsGrow /\ DraftsStand /\ CasesInv' /\ TasksInv'
  <2>1. CASE CommitSend(s)
    BY <2>1, SendCommitMail, RestStands DEF CommitSend
  <2>2. CASE \/ CommitBook(s) \/ CommitSupport(s) \/ CommitResolve(s) \/ CommitReview(s)
             \/ CommitOverview(s)
    BY <2>2, OtherCommitMail, RestStands DEF MailInv
  <2>3. QED
    BY <2>1, <2>2, AcceptMail, TriggerMail, UpdateMail DEF Commit, MailInv
<1>3. QED
  BY <1>1, <1>2, CopiesKept DEF MailInv

-----------------------------------------------------------------------------
(* Tasks *)

LEMMA TaskShape ==
    ASSUME TypeOK, NEW t \in tasks
    PROVE  /\ t.case \in Cases /\ t.kind \in {"draft", "send"}
           /\ t.ver \in Nat /\ emails[t.case].version \in Nat
BY DEF TypeOK, Task, EmailRow

\* A task that goes on stays the only one of its kind and case; so do the others
\* when it ends.
LEMMA OneKept ==
    ASSUME OneOfAKind, NEW t \in tasks,
           Finish(t) \/ \E u : Move(t, u) /\ u.kind = t.kind /\ u.case = t.case
    PROVE  OneOfAKind'
BY DEF OneOfAKind, Finish, Move

\* A phase in which nothing was mailed is reached from such a phase.
LEMMA MoveMail ==
    ASSUME TypeOK, CasesInv, TasksInv, UNCHANGED <<cases, emails, approved, mailbox>>,
           NEW t \in tasks, NEW u, Move(t, u), u.kind = t.kind, u.case = t.case,
           u.kind = "send" /\ u.phase \in {"queued", "running", "loaded"} =>
               t.phase \in {"queued", "running", "loaded"},
           u.kind = "send" /\ u.phase = "loaded" => AsApproved(u.body, approved[u.case])
    PROVE  CasesInv' /\ TasksInv'
<1>1. CasesInv'
  BY DEF CasesInv, MailOfCase, Unsent
<1>2. \A v \in tasks : MailOfTask(v)'
  BY DEF TasksInv, MailOfTask, Unsent
<1>3. MailOfTask(u)'
  <2>1. MailOfTask(t)
    BY DEF TasksInv
  <2>2. QED
    BY <2>1 DEF MailOfTask, Unsent
<1>4. \A v \in tasks' : MailOfTask(v)'
  BY <1>2, <1>3 DEF Move
<1>5. QED
  BY <1>1, <1>4, OneKept DEF TasksInv

LEMMA FinishMail ==
    ASSUME TypeOK, CasesInv, TasksInv, UNCHANGED <<cases, emails, approved, mailbox>>,
           NEW t \in tasks, Finish(t)
    PROVE  CasesInv' /\ TasksInv'
<1>1. CasesInv'
  BY DEF CasesInv, MailOfCase, Unsent
<1>2. \A v \in tasks' : MailOfTask(v)'
  BY DEF TasksInv, MailOfTask, Unsent, Finish
<1>3. QED
  BY <1>1, <1>2, OneKept DEF TasksInv

\* Only the draft task of a case writes its GENERATING email, and ends with it.
LEMMA DraftWrites ==
    ASSUME TypeOK, CasesInv, TasksInv, UNCHANGED <<cases, approved, mailbox>>,
           NEW t \in tasks, t.kind = "draft", Finish(t), NEW row \in EmailRow,
           emails' = [emails EXCEPT ![t.case] = row],
           row.version > emails[t.case].version,
           row.status \in {"unavailable", "draft"}, row.status = "draft" => row.body # NoBody
    PROVE  MailsGrow /\ DraftsStand /\ CasesInv' /\ TasksInv'
<1> DEFINE c == t.case
<1>1. c \in Cases /\ emails[c].status = "generating"
  BY TaskShape DEF TasksInv, MailOfTask
<1>2. emails'[c] = row /\ \A d \in Cases \ {c} : emails'[d] = emails[d]
  BY <1>1 DEF TypeOK
<1>3. Unsent(c)
  BY <1>1 DEF CasesInv, MailOfCase
<1> HIDE DEF c
<1>4. MailsGrow /\ DraftsStand
  BY <1>1, <1>2 DEF MailsGrow, DraftsStand, AsApproved, c
<1>5. CasesInv'
  <2>1. MailOfCase(c)'
    BY <1>1, <1>2, <1>3 DEF CasesInv, MailOfCase, Unsent
  <2>2. \A d \in Cases \ {c} : MailOfCase(d)'
    BY <1>2 DEF CasesInv, MailOfCase, Unsent
  <2>3. QED
    BY <2>1, <2>2 DEF CasesInv
<1>6. \A v \in tasks' : v \in tasks /\ v.case \in Cases /\ (v.kind = "draft" => v.case # c)
  BY TaskShape DEF TasksInv, OneOfAKind, Finish, c
<1>7. \A v \in tasks' : MailOfTask(v)'
  BY <1>2, <1>6 DEF TasksInv, MailOfTask, Unsent
<1>8. QED
  BY <1>4, <1>5, <1>7, OneKept DEF TasksInv

\* The send task of a case is alone and has not mailed before.
LEMMA DeliverMail ==
    ASSUME TypeOK, CasesInv, TasksInv, UNCHANGED <<cases, emails, approved>>,
           NEW t \in tasks, t.kind = "send", t.phase = "loaded", Deliver(t),
           Finish(t) \/ Move(t, [t EXCEPT !.phase = "mailed"])
    PROVE  CasesInv' /\ TasksInv'
<1> DEFINE c == t.case
<1>1. /\ c \in Cases /\ ~Unsent(c) /\ mailbox[c] = <<>>
      /\ AsApproved(t.body, approved[c])
  BY TaskShape DEF TasksInv, MailOfTask
<1>2. mailbox'[c] = <<t.body>> /\ \A d \in Cases \ {c} : mailbox'[d] = mailbox[d]
  BY <1>1 DEF Deliver, TypeOK
<1> HIDE DEF c
<1>3. CasesInv'
  <2>1. MailOfCase(c)'
    <3>1. Len(mailbox'[c]) = 1 /\ mailbox'[c][1] = t.body
      BY <1>2
    <3>2. \A i \in 1..Len(mailbox'[c]) : AsApproved(mailbox'[c][i], approved[c])
      BY <1>1, <3>1
    <3>3. QED
      BY <1>1, <3>1, <3>2 DEF CasesInv, MailOfCase, Unsent
  <2>2. \A d \in Cases \ {c} : MailOfCase(d)'
    BY <1>2 DEF CasesInv, MailOfCase, Unsent
  <2>3. QED
    BY <2>1, <2>2 DEF CasesInv
<1>4. \A v \in tasks \ {t} : v.case \in Cases /\ (v.kind = "send" => v.case # c)
  BY TaskShape DEF TasksInv, OneOfAKind, c
<1>5. \A v \in tasks \ {t} : MailOfTask(v)'
  BY <1>2, <1>4 DEF TasksInv, MailOfTask, Unsent
<1>6. PICK u : u = [t EXCEPT !.phase = "mailed"]
  OBVIOUS
<1>7. u.kind = "send" /\ u.case = c /\ u.phase = "mailed"
  BY <1>6 DEF TypeOK, Task, c
<1>8. MailOfTask(u)'
  BY <1>1, <1>7 DEF MailOfTask, Unsent
<1>9. \A v \in tasks' : MailOfTask(v)'
  BY <1>5, <1>6, <1>8 DEF Finish, Move
<1>10. OneOfAKind'
  BY <1>6, <1>7, OneKept DEF TasksInv, c
<1>11. QED
  BY <1>3, <1>9, <1>10 DEF TasksInv

LEMMA DraftStepMail ==
    ASSUME TypeOK, CasesInv, TasksInv, NEW t \in tasks,
           DraftSave(t) \/ DraftRevert(t)
    PROVE  MailsGrow /\ DraftsStand /\ CasesInv' /\ TasksInv'
<1> USE DEF RowVars
<1>1. CASE DraftSave(t)
  <2>1. PICK row : row = [status |-> "draft", version |-> t.ver + 2,
                          body |-> [author |-> "ai", at |-> t.ver + 2]]
    OBVIOUS
  <2>2. t.ver + 2 \in Nat /\ t.ver + 2 > emails[t.case].version
    BY <1>1, TaskShape DEF DraftSave
  <2>3. row \in EmailRow /\ row.body # NoBody
    BY <2>1, <2>2 DEF EmailRow, Content, NoBody
  <2>4. QED
    BY <1>1, <2>1, <2>2, <2>3, DraftWrites DEF DraftSave
<1>2. CASE DraftRevert(t) /\ emails[t.case].version = t.ver
  <2>1. PICK row : row = [status |-> "unavailable", body |-> NoBody, version |-> t.ver + 1]
    OBVIOUS
  <2>2. t.ver + 1 \in Nat /\ t.ver + 1 > emails[t.case].version
    BY <1>2, TaskShape
  <2>3. row \in EmailRow
    BY <2>1, <2>2 DEF EmailRow
  <2>4. emails' = [emails EXCEPT ![t.case] = row] /\ t.kind = "draft" /\ Finish(t)
    BY <1>2, <2>1 DEF DraftRevert
  <2>5. row.version > emails[t.case].version /\ row.status = "unavailable"
    BY <2>1, <2>2
  <2>6. QED
    BY <1>2, <2>3, <2>4, <2>5, DraftWrites DEF DraftRevert
<1>3. CASE DraftRevert(t) /\ emails[t.case].version # t.ver
  BY <1>3, FinishMail, RestStands DEF DraftRevert
<1>4. QED
  BY <1>1, <1>2, <1>3

LEMMA SendCloseMail ==
    ASSUME TypeOK, CasesInv, TasksInv, NEW t \in tasks, SendClose(t)
    PROVE  MailsGrow /\ DraftsStand /\ CasesInv' /\ TasksInv'
<1> USE DEF RowVars
<1>1. CASE ~(UNCHANGED emails)
  <2> DEFINE c == t.case
  <2>1. c \in Cases /\ ~Unsent(c) /\ emails[c].status = "draft"
    BY <1>1, TaskShape DEF SendClose, TasksInv, MailOfTask
  <2>2. /\ emails'[c].status = "sent" /\ emails'[c].body = emails[c].body
        /\ emails'[c].version > emails[c].version
        /\ \A d \in Cases \ {c} : emails'[d] = emails[d]
        /\ UNCHANGED <<cases, approved, mailbox>> /\ Finish(t)
    <3>1. /\ emails' = [emails EXCEPT ![c] = [@ EXCEPT !.status = "sent", !.version = t.ver + 1]]
          /\ emails[c].version = t.ver /\ UNCHANGED <<cases, approved, mailbox>> /\ Finish(t)
      BY <1>1 DEF SendClose
    <3>2. emails \in [Cases -> EmailRow] /\ emails[c] \in EmailRow /\ emails[c].version \in Nat
      BY <2>1 DEF TypeOK, EmailRow
    <3>3. emails'[c] = [emails[c] EXCEPT !.status = "sent", !.version = t.ver + 1]
      BY <2>1, <3>1, <3>2
    <3>4. QED
      BY <2>1, <3>1, <3>2, <3>3 DEF EmailRow
  <2> HIDE DEF c
  <2>3. MailsGrow /\ DraftsStand
    BY <2>1, <2>2 DEF MailsGrow, DraftsStand, AsApproved, Unsent
  <2>4. CasesInv'
    <3>1. MailOfCase(c)'
      BY <2>1, <2>2 DEF CasesInv, MailOfCase, Unsent
    <3>2. \A d \in Cases \ {c} : MailOfCase(d)'
      BY <2>2 DEF CasesInv, MailOfCase, Unsent
    <3>3. QED
      BY <3>1, <3>2 DEF CasesInv
  <2>5. \A v \in tasks' : v \in tasks /\ v.case \in Cases /\ (v.kind = "draft" => v.case # c)
    BY <2>1, <2>2, TaskShape DEF TasksInv, MailOfTask, Finish
  <2>6. \A v \in tasks' : MailOfTask(v)'
    BY <2>2, <2>5 DEF TasksInv, MailOfTask, Unsent
  <2>7. QED
    BY <2>2, <2>3, <2>4, <2>6, OneKept DEF TasksInv
<1>2. CASE UNCHANGED emails
  BY <1>2, FinishMail, RestStands DEF SendClose
<1>3. QED
  BY <1>1, <1>2

\* Every step of a task, and the death of the worker that runs it.
LEMMA TaskMail ==
    ASSUME TypeOK, TypeOK', SnapshotInv, MailInv, NEW t \in tasks, TaskStep(t) \/ TaskFault(t)
    PROVE  MailInv'
<1> USE DEF RowVars
<1>1. RaisesVersions /\ KeepsMailCopies
  BY TaskFrame DEF RaisesVersions, KeepsMailCopies
<1>2. ASSUME UNCHANGED <<emails>>, CasesInv', TasksInv'
      PROVE  MailInv'
  BY <1>1, <1>2, RestStands, CopiesKept DEF MailInv
<1>3. CASE TaskStart(t)
  <2>1. PICK u : u = [t EXCEPT !.phase = "running"]
    OBVIOUS
  <2>2. /\ u.kind = t.kind /\ u.case = t.case
        /\ u.phase = "running" /\ t.phase = "queued"
    BY <1>3, <2>1 DEF TaskStart, TypeOK, Task
  <2>3. QED
    BY <1>2, <1>3, <2>1, <2>2, MoveMail DEF TaskStart, MailInv
<1>4. CASE TaskFault(t)
  <2>1. PICK u : u = [t EXCEPT !.phase = "dead"]
    OBVIOUS
  <2>2. /\ u.kind = t.kind /\ u.case = t.case
        /\ u.phase = "dead"
    BY <1>4, <2>1 DEF TaskFault, TaskLost, TaskCrash, Fault, TypeOK, Task
  <2>3. QED
    BY <1>2, <1>4, <2>1, <2>2, MoveMail DEF TaskFault, TaskLost, TaskCrash, Fault, MailInv
<1>5. CASE DraftLoad(t)
  <2>1. PICK u : u = [t EXCEPT !.ver = emails[t.case].version,
                        !.phase = IF emails[t.case].status = "sent" THEN "failing"
                                                                    ELSE "loaded"]
    OBVIOUS
  <2>2. /\ u.kind = t.kind /\ u.case = t.case
        /\ t.kind = "draft"
    BY <1>5, <2>1 DEF DraftLoad, TypeOK, Task
  <2>3. QED
    BY <1>2, <1>5, <2>1, <2>2, MoveMail DEF DraftLoad, MailInv
<1>6. CASE DraftFail(t)
  <2>1. PICK u : u = [t EXCEPT !.phase = "failing"]
    OBVIOUS
  <2>2. /\ u.kind = t.kind /\ u.case = t.case
        /\ t.kind = "draft"
    BY <1>6, <2>1 DEF DraftFail, TypeOK, Task
  <2>3. QED
    BY <1>2, <1>6, <2>1, <2>2, MoveMail DEF DraftFail, MailInv
<1>7. CASE DraftRevertLoad(t)
  <2>1. PICK u : u = [t EXCEPT !.phase = "reverting", !.ver = emails[t.case].version]
    OBVIOUS
  <2>2. /\ u.kind = t.kind /\ u.case = t.case
        /\ t.kind = "draft"
    BY <1>7, <2>1 DEF DraftRevertLoad, TypeOK, Task
  <2>3. QED
    BY <1>2, <1>7, <2>1, <2>2, MoveMail DEF DraftRevertLoad, MailInv
<1>8. CASE DraftSave(t) \/ DraftRevert(t)
  BY <1>1, <1>8, DraftStepMail, CopiesKept DEF MailInv
<1>9. CASE SendLoad(t)
  <2>1. CASE emails[t.case].status = "sent"
    BY <1>2, <1>9, <2>1, FinishMail DEF SendLoad, MailInv
  <2>2. CASE emails[t.case].status # "sent"
    <3>1. PICK u : u = [t EXCEPT !.phase = "loaded", !.body = emails[t.case].body]
      OBVIOUS
    <3>2. /\ u.kind = "send" /\ u.case = t.case /\ u.phase = "loaded"
          /\ u.body = emails[t.case].body /\ t.kind = "send" /\ t.phase = "running"
      BY <1>9, <3>1 DEF SendLoad, TypeOK, Task
    <3>3. AsApproved(u.body, approved[u.case])
      BY <3>2, TaskShape DEF MailInv, TasksInv, CasesInv, MailOfTask, MailOfCase
    <3>4. QED
      BY <1>2, <1>9, <2>2, <3>1, <3>2, <3>3, MoveMail DEF SendLoad, MailInv
  <2>3. QED
    BY <2>1, <2>2
<1>10. CASE SendMail(t)
  BY <1>2, <1>10, DeliverMail DEF SendMail, MailInv
<1>11. CASE SendMailFails(t)
  BY <1>2, <1>11, DeliverMail, FinishMail DEF SendMailFails, MailInv
<1>12. CASE SendReload(t)
  <2>1. PICK u : u = [t EXCEPT !.phase = "closing", !.ver = emails[t.case].version]
    OBVIOUS
  <2>2. /\ u.kind = t.kind /\ u.case = t.case
        /\ u.phase = "closing"
    BY <1>12, <2>1 DEF SendReload, TypeOK, Task
  <2>3. QED
    BY <1>2, <1>12, <2>1, <2>2, MoveMail DEF SendReload, MailInv
<1>13. CASE SendClose(t)
  BY <1>1, <1>13, SendCloseMail, CopiesKept DEF MailInv
<1>14. QED
  BY <1>3, <1>4, <1>5, <1>6, <1>7, <1>8, <1>9, <1>10, <1>11, <1>12, <1>13 DEF TaskStep

-----------------------------------------------------------------------------
(* The mail of every behaviour *)

\* A handler that begins has not read the email yet.
LEMMA LoadMail ==
    ASSUME TypeOK, NEW s \in Slots, NEW c \in Cases, NEW op, NEW a, Load(s, op, c, a)
    PROVE  KeepsMailCopies
BY DEF TypeOK, Load, KeepsMailCopies

LEMMA ReadMailKeeps ==
    ASSUME TypeOK, SnapshotInv, MailInv, NEW s \in Slots, ReadMail(s)
    PROVE  MailInv'
<1> USE DEF MailInv
<1>1. PICK c \in Cases : c = session[s].case /\ session[s] \in Session
  BY BusySession DEF ReadMail, Session
<1>2. UNCHANGED <<cases, emails, mailbox, approved, tasks>>
  BY DEF ReadMail
<1>3. ASSUME NEW u \in Slots \ {s}
      PROVE  CopyOfMail(u)' /\ SendStands(u)'
  <2>1. session'[u] = session[u]
    BY DEF ReadMail, TypeOK
  <2>2. QED
    BY <1>2, <2>1 DEF CopiesInv, CopyOfMail, SendStands, MailFresh, CaseFresh, Ready
<1>4. CopyOfMail(s)' /\ SendStands(s)'
  <2>1. CASE MailAllows(session[s].op, emails[c])
    <3>1. /\ session'[s].op = session[s].op /\ session'[s].case = c
          /\ session'[s].mail = emails[c]
      BY <1>1, <2>1 DEF ReadMail, TypeOK, Session
    <3>2. emails[c].version \in Nat
      BY DEF TypeOK, EmailRow
    <3>3. QED
      BY <1>2, <2>1, <3>1, <3>2
      DEF CopyOfMail, SendStands, MailFresh, CaseFresh, Ready, MailAllows, AsApproved
  <2>2. CASE ~MailAllows(session[s].op, emails[c])
    <3>1. session'[s] = Idle
      BY <1>1, <2>2 DEF ReadMail, TypeOK
    <3>2. QED
      BY <3>1 DEF Idle, CopyOfMail, SendStands, Ready
  <2>3. QED
    BY <2>1, <2>2
<1>5. CasesInv' /\ TasksInv'
  BY <1>2, RestKept
<1>6. QED
  BY <1>3, <1>4, <1>5 DEF CopiesInv

\* A step that changes neither rows nor tasks, and lets no handler read an email.
LEMMA QuietKeeps ==
    ASSUME TypeOK, TypeOK', SnapshotInv, MailInv, KeepsMailCopies,
           UNCHANGED <<cases, emails, mailbox, approved, tasks>>
    PROVE  MailInv'
BY RestKept, RestStands, CopiesKept DEF RaisesVersions, MailInv

LEMMA MailStep ==
    ASSUME TypeOK, TypeOK', SnapshotInv, MailInv, [Next]_vars
    PROVE  MailInv'
<1>1. ASSUME NEW s \in Requests, RequestStep(s)
      PROVE  MailInv'
  <2>1. s \in Slots
    BY DEF Slots
  <2>2. KeepsMailCopies
    BY <1>1, <2>1, LoadMail, CommitDrops
    DEF RequestStep, AdvisorRequest, BookRequest, ReviewRequest, Abandon
  <2>3. QED
    BY <1>1, <2>2, QuietKeeps
    DEF RequestStep, AdvisorRequest, BookRequest, ReviewRequest, Abandon
<1>2. ASSUME NEW s \in Slots, HandlerStep(s)
      PROVE  MailInv'
  <2>1. CASE Conflict(s)
    BY <2>1, CommitDrops, QuietKeeps DEF Conflict
  <2>2. QED
    BY <1>2, <2>1, ReadMailKeeps, CommitMail DEF HandlerStep
<1>3. ASSUME NEW w \in Workers, WorkerStep(w)
      PROVE  MailInv'
  <2>1. w \in Slots
    BY DEF Slots
  <2>2. KeepsMailCopies
    BY <1>3, <2>1, LoadMail, CommitDrops DEF WorkerStep, OverviewStart, AutoResolveStart, WorkerCrash, WorkerRaises, Fault
  <2>3. QED
    BY <1>3, <2>2, QuietKeeps DEF WorkerStep, OverviewStart, AutoResolveStart, WorkerCrash, WorkerRaises, Fault, TaskVars
<1>4. ASSUME UNCHANGED session, UNCHANGED <<cases, emails, mailbox, approved, tasks>>
      PROVE  MailInv'
  BY <1>4, QuietKeeps DEF KeepsMailCopies
<1>5. ASSUME NEW c \in Cases, CaseTaskStep(c)
      PROVE  MailInv'
  BY <1>4, <1>5 DEF CaseTaskStep, BatchOverviews, InitiateReview, AutoResolveSkip,
              OverviewFails, ReviewLost, DeferralLost, Fault, TaskVars
<1>6. CASE UNCHANGED vars
  BY <1>4, <1>6 DEF vars
<1>7. QED
  BY <1>1, <1>2, <1>3, <1>5, <1>6, TaskMail DEF Next

\* What the handlers have read, what the rows hold and what the tasks carry agree
\* about the mail of every case.
THEOREM MailAgrees == Spec => []MailInv
<1>1. Init => MailInv
  BY DEF Init, MailInv, CopiesInv, CasesInv, TasksInv, CopyOfMail, SendStands, Ready, Idle,
         MailOfCase, OneOfAKind, Unsent, NewCase, NoEmail
<1>2. TypeOK /\ TypeOK' /\ SnapshotInv /\ MailInv /\ [Next]_vars => MailInv'
  BY MailStep
<1>3. QED
  BY <1>1, <1>2, TypeInvariant, CopiesAreSound, PTL DEF Spec

\* A sent case has an email with content, although handle_send_email neither locks
\* nor compares the row it has read: to regenerate the draft, the case is saved.
THEOREM SentHas == Spec => []SentHasMail
<1>1. MailInv => SentHasMail
  BY DEF MailInv, CasesInv, MailOfCase, Unsent, SentHasMail
<1>2. QED
  BY <1>1, MailAgrees, PTL

\* No text reaches a student that its advisor did not ask to send or write since.
THEOREM Approved == Spec => []HumanApproved
<1>1. MailInv => HumanApproved
  BY DEF MailInv, CasesInv, MailOfCase, AsApproved, HumanApproved
<1>2. QED
  BY <1>1, MailAgrees, PTL

\* One send task per case, run once: a student is mailed at most once.
THEOREM MailedOnce == Spec => []MailedAtMostOnce
<1>1. MailInv => MailedAtMostOnce
  BY DEF MailInv, CasesInv, MailOfCase, MailedAtMostOnce
<1>2. QED
  BY <1>1, MailAgrees, PTL

\* A draft task is the only one of its case and its email waits for it.
THEOREM DraftOwns == Spec => []DraftOwnsMail
<1>1. MailInv => DraftOwnsMail
  BY DEF MailInv, TasksInv, OneOfAKind, MailOfTask, DraftOwnsMail
<1>2. QED
  BY <1>1, MailAgrees, PTL

\* No handler or task that read a sent email before writes it again.
THEOREM SentFinal == Spec => SentMailIsFinal
<1>1. ASSUME TypeOK, SnapshotInv, MailInv, Next, NEW c \in Cases, emails[c].status = "sent"
      PROVE  emails'[c] = emails[c]
  <2>1. ASSUME NEW s \in Slots, Commit(s)
        PROVE  emails'[c] = emails[c]
    <3>1. CASE CommitAccept(s)
      BY <1>1, <3>1 DEF CommitAccept, TypeOK
    <3>2. CASE CommitTrigger(s)
      <4>1. cases[session[s].case].status = "accepted" /\ session[s].case \in Cases
        BY <1>1, <3>2, CommitsAccepted, CommittedCopy DEF CommitTrigger, Ready
      <4>2. session[s].case # c
        BY <1>1, <4>1 DEF MailInv, CasesInv, MailOfCase
      <4>3. QED
        BY <1>1, <3>2, <4>2 DEF CommitTrigger, SaveMail, TypeOK
    <3>3. CASE CommitUpdate(s)
      <4>1. emails[session[s].case].status \in {"draft", "unavailable"}
        BY <1>1, <3>3 DEF CommitUpdate, Ready, MailInv, CopiesInv, CopyOfMail, MailOps, MailAllows
      <4>2. QED
        BY <1>1, <3>3, <4>1 DEF CommitUpdate, SaveMail, TypeOK
    <3>4. QED
      BY <2>1, <3>1, <3>2, <3>3
      DEF Commit, CommitSend, CommitBook, CommitSupport, CommitResolve, CommitReview, CommitOverview
  <2>2. ASSUME NEW s \in Slots, HandlerStep(s)
        PROVE  emails'[c] = emails[c]
    BY <2>1, <2>2 DEF HandlerStep, ReadMail, Conflict
  <2>3. ASSUME NEW t \in tasks, TaskStep(t) \/ TaskFault(t)
        PROVE  emails'[c] = emails[c]
    <3>1. ASSUME DraftSave(t) \/ DraftRevert(t)
          PROVE  emails'[c] = emails[c]
      <4>1. t.case # c
        BY <1>1, <3>1 DEF DraftSave, DraftRevert, MailInv, TasksInv, MailOfTask
      <4>2. QED
        BY <1>1, <3>1, <4>1 DEF DraftSave, DraftRevert, TypeOK
    <3>2. CASE SendClose(t)
      BY <1>1, <3>2 DEF SendClose, TypeOK
    <3>3. QED
      BY <2>3, <3>1, <3>2 DEF TaskStep, TaskFault, TaskLost, TaskCrash, Fault, TaskStart, DraftLoad, DraftFail,
         DraftRevertLoad, SendLoad, SendMail, SendMailFails, SendReload
  <2>4. ASSUME NEW s \in Requests, RequestStep(s)
        PROVE  emails'[c] = emails[c]
    BY <2>4 DEF RequestStep, AdvisorRequest, BookRequest, ReviewRequest, Abandon
  <2>5. ASSUME NEW w \in Workers, WorkerStep(w)
        PROVE  emails'[c] = emails[c]
    BY <2>5 DEF WorkerStep, OverviewStart, AutoResolveStart, WorkerCrash, WorkerRaises, Fault, TaskVars
  <2>6. ASSUME NEW d \in Cases, CaseTaskStep(d)
        PROVE  emails'[c] = emails[c]
    BY <2>6 DEF CaseTaskStep, BatchOverviews, InitiateReview, AutoResolveSkip,
              OverviewFails, ReviewLost, DeferralLost, Fault, TaskVars
  <2>7. QED
    BY <1>1, <2>2, <2>3, <2>4, <2>5, <2>6 DEF Next
<1>2. TypeOK /\ SnapshotInv /\ MailInv /\ [Next]_vars =>
        [\A c \in Cases : emails[c].status = "sent" => emails'[c] = emails[c]]_vars
  BY <1>1
<1>3. QED
  BY <1>2, TypeInvariant, CopiesAreSound, MailAgrees, PTL DEF Spec, SentMailIsFinal

-----------------------------------------------------------------------------
(* What the board's refinement says of owners and events *)

\* The place of a status on the path of a case.
Stage == [accepted |-> 1, sent |-> 2, booked |-> 3, supporting |-> 4, pending_review |-> 5,
          resolved |-> 6, failed |-> 6]

\* The events of a case announce its path from the start to the status it has,
\* every status once and in order.
LogIsPath ==
    \A c \in Cases :
        /\ events[c] = <<>> => cases[c].status = "new"
        /\ events[c] # <<>> => cases[c].status = events[c][Len(events[c])]
        /\ \A i \in 1 .. Len(events[c]) : events[c][i] \in DOMAIN Stage /\ Stage[events[c][i]] = i

\* The adviser who has accepted a case keeps it.
OwnerStays ==
    [][\A c \in Cases : cases[c].advisor # NoAdvisor => cases'[c].advisor = cases[c].advisor]_vars

LEMMA PathIsStaged ==
    ASSUME NEW status \in DOMAIN Board!Path, NEW next \in Board!Path[status]
    PROVE  /\ status \in DOMAIN Stage /\ next \in DOMAIN Stage
           /\ Stage[next] = Stage[status] + 1 /\ Stage[status] \in Nat
BY DEF Board!Path, Stage

\* One more event, of the stage after the last one.
LEMMA LogGrows ==
    ASSUME TypeOK, TypeOK', LogIsPath, NEW c \in Cases, NEW next \in DOMAIN Stage,
           Board!Announce(c, next), cases'[c].status = next,
           \A d \in Cases \ {c} : cases'[d].status = cases[d].status,
           Stage[next] = Len(events[c]) + 1
    PROVE  LogIsPath'
<1>1. /\ events'[c] = Append(events[c], next)
      /\ \A d \in Cases \ {c} : events'[d] = events[d]
      /\ events[c] \in Seq(Status)
  BY DEF Board!Announce, TypeOK
<1>2. /\ Len(events'[c]) = Len(events[c]) + 1 /\ Len(events[c]) \in Nat
      /\ events'[c][Len(events[c]) + 1] = next
      /\ \A i \in 1 .. Len(events[c]) : events'[c][i] = events[c][i]
  BY <1>1
<1>3. events'[c] # <<>> /\ cases'[c].status = events'[c][Len(events'[c])]
  BY <1>2
<1>4. \A i \in 1 .. Len(events'[c]) : events'[c][i] \in DOMAIN Stage /\ Stage[events'[c][i]] = i
  <2> SUFFICES ASSUME NEW i \in 1 .. Len(events'[c])
               PROVE  events'[c][i] \in DOMAIN Stage /\ Stage[events'[c][i]] = i
    OBVIOUS
  <2>1. CASE i = Len(events[c]) + 1
    BY <1>2, <2>1
  <2>2. CASE i \in 1 .. Len(events[c])
    BY <1>2, <2>2 DEF LogIsPath
  <2>3. QED
    BY <1>2, <2>1, <2>2
<1>5. QED
  BY <1>1, <1>3, <1>4 DEF LogIsPath

\* An overview changes neither status nor owner.
LEMMA EnrichKeeps ==
    ASSUME NEW c \in Cases, Board!Enrich(c), NEW d \in Cases
    PROVE  cases'[d].status = cases[d].status /\ cases'[d].advisor = cases[d].advisor /\ UNCHANGED events
<1>1. UNCHANGED events
  BY DEF Board!Enrich
<1>2. CASE d = c
  BY <1>1, <1>2 DEF Board!Enrich
<1>3. CASE d # c
  BY <1>1, <1>3 DEF Board!Enrich
<1>4. QED
  BY <1>2, <1>3

\* Every step of the board keeps what was announced in line with the cases.
LEMMA LogKept ==
    ASSUME TypeOK, TypeOK', LogIsPath, [Board!Next]_(Board!vars)
    PROVE  LogIsPath'
<1>1. CASE UNCHANGED Board!vars
  <2>1. \A c \in Cases : events'[c] = events[c] /\ cases'[c].status = cases[c].status
    BY <1>1 DEF Board!vars
  <2>2. QED
    BY <2>1 DEF LogIsPath
<1>2. ASSUME NEW c \in Cases, NEW a \in Advisors, Board!Claim(c, a)
      PROVE  LogIsPath'
  <2>1. /\ cases[c].status = "new" /\ Board!Announce(c, "accepted")
        /\ cases'[c].status = "accepted"
        /\ \A d \in Cases \ {c} : cases'[d].status = cases[d].status
    BY <1>2 DEF Board!Claim
  <2>2. events[c] = <<>>
    <3>1. ASSUME events[c] # <<>>
          PROVE  FALSE
      <4>1. Len(events[c]) \in 1 .. Len(events[c])
        BY <3>1 DEF TypeOK
      <4>2. "new" \in DOMAIN Stage
        BY <2>1, <3>1, <4>1 DEF LogIsPath
      <4>3. QED
        BY <4>2 DEF Stage
    <3>2. QED
      BY <3>1
  <2>3. "accepted" \in DOMAIN Stage /\ Stage["accepted"] = Len(events[c]) + 1
    BY <2>2 DEF Stage
  <2>4. QED
    BY <2>1, <2>3, LogGrows
<1>3. ASSUME NEW c \in Cases, NEW next, Board!Advance(c, next)
      PROVE  LogIsPath'
  <2>1. /\ cases[c].status \in DOMAIN Board!Path /\ next \in Board!Path[cases[c].status]
        /\ Board!Announce(c, next) /\ cases'[c].status = next
        /\ \A d \in Cases \ {c} : cases'[d].status = cases[d].status
    BY <1>3 DEF Board!Advance
  <2>2. events[c] # <<>>
    BY <2>1 DEF LogIsPath, Board!Path
  <2>3. Len(events[c]) \in 1 .. Len(events[c])
    BY <2>2 DEF TypeOK
  <2>4. Stage[cases[c].status] = Len(events[c])
    BY <2>2, <2>3 DEF LogIsPath
  <2>5. next \in DOMAIN Stage /\ Stage[next] = Len(events[c]) + 1
    BY <2>1, <2>4, PathIsStaged
  <2>6. QED
    BY <2>1, <2>5, LogGrows
<1>4. ASSUME NEW c \in Cases, Board!Enrich(c)
      PROVE  LogIsPath'
  <2>1. \A d \in Cases : events'[d] = events[d] /\ cases'[d].status = cases[d].status
    BY <1>4, EnrichKeeps
  <2>2. QED
    BY <2>1 DEF LogIsPath
<1>5. QED
  BY <1>1, <1>2, <1>3, <1>4 DEF Board!Next

\* The outbox rows of a case announce each status it takes, once and in order,
\* however the handlers that write them overlap.
THEOREM Announced == Spec => []LogIsPath
<1>1. Init => LogIsPath
  BY DEF Init, NewCase, LogIsPath
<1>2. TypeOK /\ TypeOK' /\ SnapshotInv /\ LogIsPath /\ [Next]_vars => LogIsPath'
  BY BoardStep, LogKept
<1>3. QED
  BY <1>1, <1>2, TypeInvariant, CopiesAreSound, PTL DEF Spec

\* Nobody accepts a case that was accepted before, nor takes it over by a save of
\* an older copy.
THEOREM OneOwner == Spec => OwnerStays
<1> DEFINE Owned == \A c \in Cases : cases[c].status = "new" => cases[c].advisor = NoAdvisor
<1> DEFINE Kept == \A c \in Cases : cases[c].advisor # NoAdvisor => cases'[c].advisor = cases[c].advisor
<1>1. Init => Owned
  BY DEF Init, NewCase
<1>2. ASSUME Owned, [Board!Next]_(Board!vars)
      PROVE  Owned' /\ Kept
  <2>1. CASE UNCHANGED Board!vars
    <3>1. \A c \in Cases : cases'[c].status = cases[c].status /\ cases'[c].advisor = cases[c].advisor
      BY <2>1 DEF Board!vars
    <3>2. QED
      BY <1>2, <3>1
  <2>2. ASSUME NEW c \in Cases, NEW a \in Advisors, Board!Claim(c, a)
        PROVE  Owned' /\ Kept
    <3>1. /\ cases[c].status = "new" /\ cases'[c].status = "accepted"
          /\ \A d \in Cases \ {c} : cases'[d].status = cases[d].status /\ cases'[d].advisor = cases[d].advisor
      BY <2>2 DEF Board!Claim
    <3>2. QED
      BY <1>2, <3>1
  <2>3. ASSUME NEW c \in Cases, Board!Enrich(c) \/ \E next : Board!Advance(c, next)
        PROVE  Owned' /\ Kept
    <3>1. \A d \in Cases : cases'[d].advisor = cases[d].advisor /\ (cases'[d].status = "new" => cases[d].status = "new")
      <4>1. CASE Board!Enrich(c)
        BY <4>1, EnrichKeeps
      <4>2. ASSUME NEW next, Board!Advance(c, next)
            PROVE  \A d \in Cases : /\ cases'[d].advisor = cases[d].advisor
                                    /\ cases'[d].status = "new" => cases[d].status = "new"
        <5>1. cases'[c].advisor = cases[c].advisor /\ cases'[c].status = next
          BY <4>2 DEF Board!Advance
        <5>2. \A d \in Cases \ {c} : cases'[d].advisor = cases[d].advisor /\ cases'[d].status = cases[d].status
          BY <4>2 DEF Board!Advance
        <5>3. next # "new"
          BY <4>2 DEF Board!Advance, Board!Path
        <5>4. QED
          BY <5>1, <5>2, <5>3
      <4>3. QED
        BY <2>3, <4>1, <4>2
    <3>2. QED
      BY <1>2, <3>1
  <2>4. QED
    BY <1>2, <2>1, <2>2, <2>3 DEF Board!Next
<1>3. TypeOK /\ SnapshotInv /\ Owned /\ [Next]_vars => Owned' /\ [Kept]_vars
  BY <1>2, BoardStep
<1> HIDE DEF Owned
<1>4. QED
  BY <1>1, <1>3, TypeInvariant, CopiesAreSound, PTL DEF Spec, OwnerStays

-----------------------------------------------------------------------------
(* Why an email stays GENERATING *)

\* A GENERATING email has its draft task, though the worker that runs the task may
\* be dead; and only a worker that died leaves a task dead.
GeneratingHasTask ==
    \A c \in Cases : emails[c].status = "generating" => \E t \in tasks : t.kind = "draft" /\ t.case = c
DeadOnlyByFault == (\E t \in tasks : t.phase = "dead") => faults > 0

\* The version a draft task has read is the email's: nobody else writes it.
DraftIsCurrent ==
    \A t \in tasks : t.kind = "draft" /\ t.phase \in {"loaded", "reverting"} => t.ver = emails[t.case].version

DraftInv == GeneratingHasTask /\ DeadOnlyByFault /\ DraftIsCurrent

\* A step of anything else than a draft task.
LEMMA DraftsKept ==
    ASSUME TypeOK, MailInv, DraftInv,
           \A c \in Cases : emails[c].status = "generating" => emails'[c] = emails[c],
           \A c \in Cases : emails'[c].status = "generating" => emails[c].status = "generating",
           \A t \in tasks : t.kind = "draft" => t \in tasks',
           \A t \in tasks' : t.kind = "draft" \/ t.phase = "dead" => t \in tasks,
           faults' = faults
    PROVE  DraftInv'
<1>1. GeneratingHasTask'
  BY DEF DraftInv, GeneratingHasTask
<1>2. DeadOnlyByFault'
  BY DEF DraftInv, DeadOnlyByFault
<1>3. \A t \in tasks' : t.kind = "draft" => t \in tasks /\ emails'[t.case] = emails[t.case]
  BY TaskShape DEF MailInv, TasksInv, MailOfTask
<1>4. DraftIsCurrent'
  BY <1>3 DEF DraftInv, DraftIsCurrent
<1>5. QED
  BY <1>1, <1>2, <1>4 DEF DraftInv

\* A task goes from one phase to the next.
LEMMA DraftMoves ==
    ASSUME TypeOK, TypeOK', DraftInv, UNCHANGED emails,
           NEW t \in tasks, NEW u, Move(t, u), u.kind = t.kind, u.case = t.case,
           u.kind = "draft" /\ u.phase \in {"loaded", "reverting"} => u.ver = emails[u.case].version,
           faults' >= faults, u.phase = "dead" => faults' > 0
    PROVE  DraftInv'
<1>1. faults \in Nat /\ faults' \in Nat
  BY DEF TypeOK
<1>2. GeneratingHasTask'
  BY DEF DraftInv, GeneratingHasTask, Move
<1>3. DeadOnlyByFault'
  BY <1>1 DEF DraftInv, DeadOnlyByFault, Move
<1>4. DraftIsCurrent'
  BY DEF DraftInv, DraftIsCurrent, Move
<1>5. QED
  BY <1>2, <1>3, <1>4 DEF DraftInv

\* The draft task of a case ends, and its email is no longer GENERATING.
LEMMA DraftEnds ==
    ASSUME TypeOK, MailInv, DraftInv, NEW t \in tasks, t.kind = "draft", Finish(t),
           emails'[t.case].status # "generating",
           \A d \in Cases \ {t.case} : emails'[d] = emails[d], UNCHANGED faults
    PROVE  DraftInv'
<1>1. \A v \in tasks' : v \in tasks /\ v.case \in Cases /\ (v.kind = "draft" => v.case # t.case)
  BY TaskShape DEF MailInv, TasksInv, OneOfAKind, Finish
<1>2. GeneratingHasTask'
  BY DEF DraftInv, GeneratingHasTask, Finish
<1>3. DeadOnlyByFault'
  BY <1>1 DEF DraftInv, DeadOnlyByFault
<1>4. DraftIsCurrent'
  BY <1>1 DEF DraftInv, DraftIsCurrent
<1>5. QED
  BY <1>2, <1>3, <1>4 DEF DraftInv

LEMMA DraftCommit ==
    ASSUME TypeOK, SnapshotInv, MailInv, DraftInv, NEW s \in Slots, Commit(s)
    PROVE  DraftInv'
<1> DEFINE c == session[s].case
<1>1. c \in Cases
  BY BusySession DEF Commit, CommitAccept, CommitTrigger, CommitSend, CommitUpdate, CommitBook,
     CommitSupport, CommitResolve, CommitReview, CommitOverview, Transition, Ready, Session
<1>2. CASE CommitAccept(s)
  <2>1. /\ emails[c].status = "none" /\ emails'[c].status = "unavailable"
        /\ \A d \in Cases \ {c} : emails'[d] = emails[d]
        /\ UNCHANGED <<tasks, faults>>
    BY <1>1, <1>2 DEF CommitAccept, TypeOK, NoEmail
  <2>2. QED
    BY <2>1, DraftsKept
<1>3. CASE CommitUpdate(s)
  <2>1. emails[c].status # "generating"
    BY <1>3 DEF CommitUpdate, Ready, MailInv, CopiesInv, CopyOfMail, MailOps, MailAllows
  <2>2. /\ emails'[c].status = "draft"
        /\ \A d \in Cases \ {c} : emails'[d] = emails[d]
        /\ UNCHANGED <<tasks, faults>>
    BY <1>1, <1>3 DEF CommitUpdate, SaveMail, TypeOK
  <2>3. QED
    BY <2>1, <2>2, DraftsKept
<1>4. CASE CommitTrigger(s)
  <2>1. emails[c].status # "generating"
    BY <1>4 DEF CommitTrigger, Ready, MailInv, CopiesInv, CopyOfMail, MailOps, MailAllows
  <2>2. PICK u : u = NewTask("draft", c, session[s].row.version)
    OBVIOUS
  <2>3. u.kind = "draft" /\ u.case = c /\ u.phase = "queued"
    BY <2>2 DEF NewTask
  <2>4. /\ tasks' = tasks \cup {u} /\ UNCHANGED faults
        /\ \A d \in Cases \ {c} : emails'[d] = emails[d]
    BY <1>1, <1>4, <2>2 DEF CommitTrigger, SaveMail, TypeOK
  <2>5. \A t \in tasks : t.case \in Cases /\ (t.kind = "draft" => t.case # c)
    BY <2>1, TaskShape DEF MailInv, TasksInv, MailOfTask
  <2>6. GeneratingHasTask'
    BY <2>3, <2>4 DEF DraftInv, GeneratingHasTask
  <2>7. DeadOnlyByFault'
    BY <2>3, <2>4 DEF DraftInv, DeadOnlyByFault
  <2>8. DraftIsCurrent'
    BY <2>3, <2>4, <2>5 DEF DraftInv, DraftIsCurrent
  <2>9. QED
    BY <2>6, <2>7, <2>8 DEF DraftInv
<1>5. CASE CommitSend(s)
  <2>1. PICK u : u = NewTask("send", c, session[s].row.version)
    OBVIOUS
  <2>2. u.kind = "send" /\ u.phase = "queued"
    BY <2>1 DEF NewTask
  <2>3. tasks' = tasks \cup {u} /\ UNCHANGED <<emails, faults>>
    BY <1>5, <2>1 DEF CommitSend
  <2>4. QED
    BY <2>2, <2>3, DraftsKept
<1>6. ASSUME UNCHANGED <<emails, tasks, faults>>
      PROVE  DraftInv'
  BY <1>6, DraftsKept
<1>7. QED
  BY <1>2, <1>3, <1>4, <1>5, <1>6
  DEF Commit, CommitBook, CommitSupport, CommitResolve, CommitReview, CommitOverview

LEMMA DraftTask ==
    ASSUME TypeOK, TypeOK', MailInv, DraftInv, NEW t \in tasks, TaskStep(t) \/ TaskFault(t)
    PROVE  DraftInv'
<1>1. t.case \in Cases /\ t.ver \in Nat /\ faults \in Nat /\ t \in Task
  BY TaskShape DEF TypeOK
<1>2. ASSUME NEW u \in Task, Move(t, u), u.kind = t.kind, u.case = t.case, UNCHANGED <<emails, faults>>,
             u.phase # "dead",
             u.kind = "draft" /\ u.phase \in {"loaded", "reverting"} => u.ver = emails[u.case].version
      PROVE  DraftInv'
  BY <1>1, <1>2, DraftMoves
<1>3. CASE TaskStart(t)
  BY <1>1, <1>2, <1>3 DEF TaskStart, Task, TaskPhases
<1>4. CASE TaskFault(t)
  <2>1. PICK u : u = [t EXCEPT !.phase = "dead"]
    OBVIOUS
  <2>2. u.kind = t.kind /\ u.case = t.case /\ u.phase = "dead"
    BY <1>1, <2>1 DEF Task
  <2>3. Move(t, u) /\ faults' = faults + 1 /\ UNCHANGED emails
    BY <1>4, <2>1 DEF TaskFault, TaskLost, TaskCrash, Fault
  <2>4. QED
    BY <1>1, <2>2, <2>3, DraftMoves
<1>5. CASE DraftLoad(t)
  <2>1. PICK u : u = [t EXCEPT !.ver = emails[t.case].version,
                        !.phase = IF emails[t.case].status = "sent" THEN "failing" ELSE "loaded"]
    OBVIOUS
  <2>2. u \in Task /\ u.kind = t.kind /\ u.case = t.case /\ u.phase # "dead" /\ u.ver = emails[u.case].version
    BY <1>1, <2>1, TaskShape DEF Task, TaskPhases
  <2>3. QED
    BY <1>2, <1>5, <2>1, <2>2 DEF DraftLoad
<1>6. CASE DraftFail(t)
  BY <1>1, <1>2, <1>6 DEF DraftFail, Task, TaskPhases
<1>7. CASE DraftRevertLoad(t)
  <2>1. PICK u : u = [t EXCEPT !.phase = "reverting", !.ver = emails[t.case].version]
    OBVIOUS
  <2>2. u \in Task /\ u.kind = t.kind /\ u.case = t.case /\ u.phase # "dead" /\ u.ver = emails[u.case].version
    BY <1>1, <2>1, TaskShape DEF Task, TaskPhases
  <2>3. QED
    BY <1>2, <1>7, <2>1, <2>2 DEF DraftRevertLoad
<1>8. CASE DraftSave(t)
  <2>1. emails'[t.case].status = "draft" /\ \A d \in Cases \ {t.case} : emails'[d] = emails[d]
    BY <1>1, <1>8 DEF DraftSave, TypeOK
  <2>2. QED
    BY <1>8, <2>1, DraftEnds DEF DraftSave
<1>9. CASE DraftRevert(t)
  <2>1. t.ver = emails[t.case].version
    BY <1>9 DEF DraftRevert, DraftInv, DraftIsCurrent
  <2>2. emails'[t.case].status = "unavailable" /\ \A d \in Cases \ {t.case} : emails'[d] = emails[d]
    BY <1>1, <1>9, <2>1 DEF DraftRevert, TypeOK
  <2>3. QED
    BY <1>9, <2>2, DraftEnds DEF DraftRevert
<1>10. ASSUME t.kind = "send", Finish(t), UNCHANGED <<emails, faults>>
       PROVE  DraftInv'
  BY <1>10, DraftsKept DEF Finish
<1>11. CASE SendLoad(t)
  <2>1. PICK u : u = [t EXCEPT !.phase = "loaded", !.body = emails[t.case].body]
    OBVIOUS
  <2>2. u \in Task /\ u.kind = "send" /\ t.kind = "send" /\ u.case = t.case /\ u.phase # "dead"
    BY <1>1, <1>11, <2>1 DEF SendLoad, Task, TaskPhases, TypeOK, EmailRow
  <2>3. QED
    BY <1>2, <1>10, <1>11, <2>1, <2>2 DEF SendLoad
<1>12. CASE SendMail(t)
  BY <1>1, <1>2, <1>12 DEF SendMail, Task, TaskPhases
<1>13. CASE SendMailFails(t)
  BY <1>10, <1>13 DEF SendMailFails
<1>14. CASE SendReload(t)
  <2>1. PICK u : u = [t EXCEPT !.phase = "closing", !.ver = emails[t.case].version]
    OBVIOUS
  <2>2. u \in Task /\ u.kind = t.kind /\ u.case = t.case /\ u.phase = "closing"
    BY <1>1, <2>1, TaskShape DEF Task, TaskPhases
  <2>3. QED
    BY <1>2, <1>14, <2>1, <2>2 DEF SendReload
<1>15. CASE SendClose(t)
  <2>1. /\ emails[t.case].status = "generating" => UNCHANGED emails
        /\ \A d \in Cases \ {t.case} : emails'[d] = emails[d]
        /\ emails'[t.case].status = "generating" => emails[t.case].status = "generating"
    <3>1. CASE UNCHANGED emails
      BY <3>1
    <3>2. CASE ~(UNCHANGED emails)
      <4>1. /\ emails[t.case].status = "draft"
            /\ emails' = [emails EXCEPT ![t.case] = [@ EXCEPT !.status = "sent", !.version = t.ver + 1]]
        BY <1>15, <3>2 DEF SendClose
      <4>2. emails \in [Cases -> EmailRow] /\ emails[t.case] \in EmailRow
        BY <1>1 DEF TypeOK
      <4>3. emails'[t.case].status = "sent"
        BY <1>1, <4>1, <4>2 DEF EmailRow
      <4>4. QED
        BY <1>1, <4>1, <4>2, <4>3
    <3>3. QED
      BY <3>1, <3>2
  <2>2. t.kind = "send" /\ tasks' = tasks \ {t} /\ UNCHANGED faults
    BY <1>15 DEF SendClose, Finish
  <2>3. QED
    BY <2>1, <2>2, DraftsKept
<1>16. QED
  BY <1>3, <1>4, <1>5, <1>6, <1>7, <1>8, <1>9, <1>11, <1>12, <1>13, <1>14, <1>15 DEF TaskStep

LEMMA DraftStepKeeps ==
    ASSUME TypeOK, TypeOK', SnapshotInv, MailInv, DraftInv, [Next]_vars
    PROVE  DraftInv'
<1>1. ASSUME UNCHANGED <<emails, tasks, faults>>
      PROVE  DraftInv'
  BY <1>1, DraftsKept
<1>2. ASSUME NEW s \in Requests, RequestStep(s)
      PROVE  DraftInv'
  BY <1>1, <1>2 DEF RequestStep, AdvisorRequest, BookRequest, ReviewRequest, Abandon
<1>3. ASSUME NEW s \in Slots, HandlerStep(s)
      PROVE  DraftInv'
  BY <1>1, <1>3, DraftCommit DEF HandlerStep, ReadMail, Conflict
<1>4. ASSUME NEW w \in Workers, WorkerCrash(w) \/ WorkerRaises(w)
      PROVE  DraftInv'
  <2>1. UNCHANGED <<emails, tasks>> /\ faults' = faults + 1 /\ faults \in Nat
    BY <1>4 DEF WorkerCrash, WorkerRaises, Fault, TaskVars, TypeOK
  <2>2. QED
    BY <2>1 DEF DraftInv, GeneratingHasTask, DeadOnlyByFault, DraftIsCurrent
<1>5. ASSUME NEW w \in Workers, WorkerStep(w)
      PROVE  DraftInv'
  BY <1>1, <1>4, <1>5 DEF WorkerStep, OverviewStart, AutoResolveStart, TaskVars
<1>6. ASSUME NEW c \in Cases, CaseTaskStep(c)
      PROVE  DraftInv'
  <2>1. UNCHANGED <<emails, tasks>> /\ (UNCHANGED faults \/ faults' = faults + 1) /\ faults \in Nat
    BY <1>6 DEF CaseTaskStep, BatchOverviews, InitiateReview, AutoResolveSkip, OverviewFails, ReviewLost,
                DeferralLost, Fault, TaskVars, TypeOK
  <2>2. QED
    BY <2>1 DEF DraftInv, GeneratingHasTask, DeadOnlyByFault, DraftIsCurrent
<1>7. CASE UNCHANGED vars
  BY <1>1, <1>7 DEF vars
<1>8. QED
  BY <1>2, <1>3, <1>5, <1>6, <1>7, DraftTask DEF Next

LEMMA DraftInvariant == Spec => []DraftInv
<1>1. Init => DraftInv
  BY DEF Init, NoEmail, DraftInv, GeneratingHasTask, DeadOnlyByFault, DraftIsCurrent
<1>2. TypeOK /\ TypeOK' /\ SnapshotInv /\ MailInv /\ DraftInv /\ [Next]_vars => DraftInv'
  BY DraftStepKeeps
<1>3. QED
  BY <1>1, <1>2, TypeInvariant, CopiesAreSound, MailAgrees, PTL DEF Spec

\* It takes a fault to leave an email GENERATING with nobody at it: without a task
\* that is given up by the outbox, dies or raises in its except branch, a draft task
\* of the email is queued or under way, whatever handlers and other tasks do
\* meanwhile.  handle_trigger_draft relies on that when it answers with the job of before.
THEOREM StuckOnlyByFault == Spec => [](faults = 0 => GeneratingIsInProgress)
<1>1. TypeOK /\ DraftInv => (faults = 0 => GeneratingIsInProgress)
  <2> SUFFICES ASSUME DraftInv, faults = 0
               PROVE  GeneratingIsInProgress
    OBVIOUS
  <2>1. \A t \in tasks : t.phase # "dead"
    BY DEF DraftInv, DeadOnlyByFault
  <2>2. QED
    BY <2>1 DEF DraftInv, GeneratingHasTask, GeneratingIsInProgress
<1>2. QED
  BY <1>1, TypeInvariant, DraftInvariant, PTL
==============================================================================
