------------------------------- MODULE AlertCards -------------------------------
(***************************************************************************)
(* How cases become cards: the advisors' Kanban (alert-center.tsx and its  *)
(* cards, columns and dialog) and the administrators' table                *)
(* (case-management-board.tsx).  Wording and colours are left out; what is *)
(* shown, offered and counted is kept.                                     *)
(*                                                                         *)
(* A row is what the API returns for a case: sid, caseId, status, advisor, *)
(* risk, draft, appointment, sentAt, createdAt, concern, overview.  A risk *)
(* is the set of words its text contains; a time is a number or Never.     *)
(***************************************************************************)
EXTENDS Lists, SequencesExt

CONSTANTS
    Never,      \* no time: null
    Nobody,     \* no advisor, no case id: null
    PageSize    \* cards a column shows before "see more"

ASSUME PageSizeAssumption == PageSize \in Nat \ {0}
ASSUME NeverAssumption == Never \notin Int

BackendStatuses == {"new", "accepted", "sent", "booked", "supporting", "pending_review",
                    "resolved", "failed", "dismissed", "expired", "none", "notified"}
Columns == <<"new", "accepted", "scheduled", "in_progress", "resolved">>
Problem3 == {"failed_final", "failed_midterm", "low_average"}

-----------------------------------------------------------------------------
(* Statuses and columns *)

\* Slip: a case whose mail was sent counts as booked.
FromBackendSentBooked(status) ==
    CASE status \in {"sent", "booked"} -> "scheduled"
      [] status = "supporting" -> "in_progress"
      [] status \in {"pending_review", "resolved", "failed"} -> "resolved"
      [] OTHER -> "new"

\* "accepted" has no case of its own: the advisor of the row decides (Card).
FromBackend(status) ==
    CASE status = "sent" -> "accepted"
      [] status = "booked" -> "scheduled"
      [] status = "supporting" -> "in_progress"
      [] status \in {"pending_review", "resolved", "failed"} -> "resolved"
      [] OTHER -> "new"

ToBackend == [new |-> "new", accepted |-> "accepted", scheduled |-> "booked",
              in_progress |-> "supporting", resolved |-> "resolved"]

ColumnOf(status, advisor) ==
    IF FromBackend(status) = "new" /\ advisor # Nobody THEN "accepted" ELSE FromBackend(status)

ProblemOf(risk) ==
    CASE "final" \in risk -> "failed_final"
      [] risk \cap {"midterm", "critical"} # {} -> "failed_midterm"
      [] OTHER -> "low_average"

RiskKey(risk) ==
    CASE "critical" \in risk -> "critical"
      [] "elevated" \in risk -> "elevated"
      [] "normal" \in risk -> "normal"
      [] OTHER -> "unknown"

SeverityOf(risk) == IF "critical" \in risk THEN "high" ELSE "medium"

-----------------------------------------------------------------------------
(* Cards of the Kanban *)

\* local is what the browser keeps for the student: goals and acceptedAt.
Card(row, local) ==
    [id        |-> row.sid,
     caseId    |-> row.caseId,
     problem   |-> ProblemOf(row.risk),
     severity  |-> SeverityOf(row.risk),
     plainRisk |-> row.risk = IF "critical" \in row.risk THEN {"critical"} ELSE {"elevated"},
     status    |-> ColumnOf(row.status, row.advisor),
     movedAt   |-> CASE local.acceptedAt # Never -> local.acceptedAt
                     [] row.sentAt # Never -> row.sentAt
                     [] OTHER -> row.createdAt,
     draft     |-> row.draft,
     isGenerating |-> row.draft = "generating",
     interventionStatus |-> row.status,
     appointmentAt |-> row.appointment,
     goals     |-> local.goals,
     concern   |-> row.concern,
     overview  |-> row.overview]

CardsOf(rows, locals, hidden) ==
    LET shown == Filtered(rows, LAMBDA r : r.status # "dismissed" /\ r.sid \notin hidden)
    IN  [i \in DOMAIN shown |-> Card(shown[i], locals[shown[i].sid])]

\* names are the students a search text matches.
FilteredCards(cards, names, problem) ==
    Filtered(cards, LAMBDA a : (problem = "all" \/ a.problem = problem) /\ a.id \in names)

Weight(card) == IF card.severity = "high" THEN 2 ELSE 1

\* High risk first, then the oldest.
AcceptedBefore(a, b) ==
    IF Weight(a) # Weight(b) THEN Weight(a) > Weight(b) ELSE a.movedAt < b.movedAt

ScheduledBefore(a, b) ==
    a.appointmentAt # Never /\ (b.appointmentAt = Never \/ a.appointmentAt < b.appointmentAt)

Grouped(cards) == [column \in ToSet(Columns) |->
    LET inColumn == Filtered(cards, LAMBDA a : a.status = column)
    IN  CASE column = "accepted" -> Sorted(inColumn, AcceptedBefore)
          [] column = "scheduled" -> Sorted(inColumn, ScheduledBefore)
          [] OTHER -> inColumn]

TotalCounts(cards) == [column \in ToSet(Columns) |-> CountIn(cards, LAMBDA a : a.status = column)]
ProblemCounts(cards) == [p \in Problem3 |-> CountIn(cards, LAMBDA a : a.problem = p)]

\* The tabs of the search: each problem and all of them, with their numbers.
SearchTabs(cards) == [tab \in Problem3 \cup {"all"} |->
    IF tab = "all" THEN Len(cards) ELSE ProblemCounts(cards)[tab]]

-----------------------------------------------------------------------------
(* A card: what it says and offers *)

IsEmailSent(card) == card.status = "accepted" /\ card.interventionStatus = "sent"
IsAwaitingFeedback(card) == card.interventionStatus = "pending_review"
HasConcern(card) == IsAwaitingFeedback(card) /\ card.concern

\* The card reads the deadline as midnight UTC, and compares it with the midnight
\* of today where the browser is, zone minutes ahead of UTC.
IsOverdue(goal, today, zone) ==
    ~goal.done /\ goal.deadline # Never /\ 1440 * goal.deadline < 1440 * today - zone

CardFlags(card, today, zone) ==
    [sent      |-> IsEmailSent(card),
     waiting   |-> IsAwaitingFeedback(card) /\ ~HasConcern(card),
     concern   |-> HasConcern(card),
     goalsDone |-> Cardinality({g \in card.goals : g.done}),
     overdue   |-> \E g \in card.goals : IsOverdue(g, today, zone),
     riskText  |-> ~card.plainRisk]

\* The line below the badges: the first that applies.  "completed" is no draft
\* status of the server, whose finished drafts are "draft".
Notice(card, drafting, error, ready) ==
    CASE card.status = "scheduled" /\ card.appointmentAt # Never -> "appointment"
      [] card.status = "accepted" /\ drafting -> "drafting"
      [] card.status = "accepted" /\ ~drafting /\ error -> "error"
      [] IsEmailSent(card) /\ ~drafting /\ ~error -> "sent"
      [] card.status = "accepted" /\ ~drafting /\ ~error /\ ~IsEmailSent(card)
            /\ (ready \/ card.draft \in {"draft", "completed"}) -> "ready"
      [] card.status = "new" -> "none"
      [] OTHER -> "updated"

\* Buttons: moves name the column they lead to, after a confirmation.
Offers(card, accepting) ==
    CASE card.status = "new" -> IF accepting THEN {} ELSE {"details", "accepted"}
      [] card.status = "accepted" -> {"email"}
      [] card.status = "scheduled" -> {"goals", "in_progress"}
      [] card.status = "in_progress" -> {"goals", "resolved"}
      [] card.status = "resolved" -> {}

Closing(card) ==
    CASE HasConcern(card) -> "concern"
      [] IsAwaitingFeedback(card) /\ ~HasConcern(card) -> "waiting"
      [] card.interventionStatus = "failed" -> "failed"
      [] OTHER -> "solved"

\* A column shows its first cards, or all of them.
ColumnView(items, total, collapsed, expanded) ==
    [shown    |-> CASE collapsed -> <<>>
                    [] expanded /\ ~collapsed -> items
                    [] OTHER -> SubSeq(items, 1, IF Len(items) < PageSize THEN Len(items) ELSE PageSize),
     more     |-> ~collapsed /\ Len(items) > PageSize,
     filtered |-> Len(items) # total]

BoardView(cards, filtered, drafting, readyIds) ==
    [empty    |-> cards = <<>>,
     noMatch  |-> cards # <<>> /\ filtered = <<>>,
     drafting |-> drafting \cup {a.id : a \in {a \in ToSet(filtered) : a.isGenerating}},
     ready    |-> {a.id : a \in {a \in ToSet(filtered) : a.draft = "completed" \/ a.id \in readyIds}}]

\* find: the first card of the student, whichever case was clicked.  A dialog
\* holds a student's id, and is closed when the list has no card of the student.
CardFor(cards, sid) == Filtered(cards, LAMBDA a : a.id = sid)

DialogCard(cards, sid) == IF CardFor(cards, sid) = <<>> THEN Nobody ELSE CardFor(cards, sid)[1]

TargetOf(cards, sid) == IF CardFor(cards, sid) = <<>> THEN Nobody ELSE CardFor(cards, sid)[1].caseId

-----------------------------------------------------------------------------
(* The student's dialog *)

Trend(previous, current) ==
    CASE previous = Never -> "none"
      [] previous # Never /\ current > previous -> "up"
      [] previous # Never /\ current < previous -> "down"
      [] OTHER -> "none"

DetailHeader(card) == [risk |-> card.severity, riskText |-> ~card.plainRisk]

AppointmentCard(card) == IF card.appointmentAt = Never THEN <<>> ELSE <<card.appointmentAt>>

\* terms: the latest first, each with its mean, the mean before it and its courses.
\* The rank is the same for every student.
TermTable(terms) ==
    [courses |-> IF terms = <<>> THEN <<>>
                 ELSE [i \in DOMAIN terms[1].courses |-> Trend(terms[1].previous, terms[1].courses[i])],
     trend   |-> IF terms = <<>> THEN "none" ELSE Trend(terms[1].previous, terms[1].mean),
     rank    |-> <<15, 40>>]

\* overview: the summary and the actions the server's AI wrote, each possibly empty.
Insights(card) == IF card.overview = <<>> THEN <<>> ELSE card.overview

DetailView(card, terms) ==
    [header |-> DetailHeader(card), appointment |-> AppointmentCard(card),
     terms |-> TermTable(terms), insights |-> Insights(card)]

-----------------------------------------------------------------------------
(* The administrators' table *)

TableRows(rows, names, status, risk) ==
    Filtered(rows, LAMBDA r : /\ r.sid \in names
                               /\ status \in {"all", r.status}
                               /\ risk \in {"all", RiskKey(r.risk)})

CaseStats(rows) ==
    [total      |-> Len(rows),
     unassigned |-> CountIn(rows, LAMBDA r : r.advisor = Nobody),
     assigned   |-> CountIn(rows, LAMBDA r : r.advisor # Nobody),
     byRisk     |-> [k \in {"critical", "elevated", "normal", "unknown"} |->
                        CountIn(rows, LAMBDA r : RiskKey(r.risk) = k)]]

\* The row a click selected opens the dialog, as a card without goals.
TableAlert(rows, caseId) ==
    LET found == Filtered(rows, LAMBDA r : r.caseId = caseId)
    IN  IF found = <<>> THEN Nobody
        ELSE [Card(found[1], [acceptedAt |-> Never, goals |-> {}])
                  EXCEPT !.status = FromBackend(found[1].status)]

StatCards(rows) ==
    LET stats == CaseStats(rows)
    IN  <<stats.total, stats.unassigned, stats.byRisk["critical"], stats.assigned>>

TableLine(row) ==
    [caseId |-> row.caseId, advisor |-> row.advisor, risk |-> RiskKey(row.risk),
     status |-> IF row.status = "none" THEN "new" ELSE row.status]

TableNotice(rows, filtered) ==
    CASE rows = <<>> -> "no cases" [] rows # <<>> /\ filtered = <<>> -> "no match" [] OTHER -> "none"

TableView(rows, filtered, caseId) ==
    [cards  |-> StatCards(rows),
     shown  |-> <<Len(filtered), Len(rows)>>,
     lines  |-> [i \in DOMAIN filtered |-> TableLine(filtered[i])],
     notice |-> TableNotice(rows, filtered),
     dialog |-> TableAlert(rows, caseId)]
===============================================================================
