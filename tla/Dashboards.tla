------------------------------- MODULE Dashboards -------------------------------
(***************************************************************************)
(* The screens that only show: the advisor's and the administrator's       *)
(* overview, the leaderboard, the success stories and the links of the     *)
(* sidebar.  Each computes its figures from the lists the other screens    *)
(* use, by its own rules.  Rates are whole per cent.                       *)
(***************************************************************************)
EXTENDS Goals

CONSTANT NoFigures   \* a query without data

\* What a query shows: its data are shown only when it has some and did not fail.
Screen(query) ==
    CASE query.loading -> "skeleton"
      [] ~query.loading /\ (query.failed \/ query.data = NoFigures) -> "error"
      [] OTHER -> "figures"

-----------------------------------------------------------------------------
(* The advisor's overview (hero-dashboard.tsx) *)

\* Slip: dismissed cases, which fromBackendStatus calls new, are counted too.
PriorityCountDismissed(rows) ==
    CountIn(rows, LAMBDA r : FromBackend(r.status) \in {"new", "accepted"} /\ "critical" \in r.risk)

\* Cases of critical risk that still wait for an intervention.
PriorityCount(rows) ==
    CountIn(rows, LAMBDA r : /\ r.status # "dismissed"
                             /\ FromBackend(r.status) \in {"new", "accepted"}
                             /\ "critical" \in r.risk)

\* The first row: the queue, and how fast students were answered.
HeroUrgent(query, rows) ==
    [screen   |-> Screen(query),
     priority |-> PriorityCount(rows),
     breached |-> query.data.breaches > 0,
     good     |-> query.data.withinTarget >= 80]

\* The second row: what became of the interventions.
HeroImpact(query) ==
    [weeks  |-> query.data.weeks,
     stable |-> <<query.data.stabilized, query.data.atRisk>>,
     ranked |-> query.data.rank # Never]

-----------------------------------------------------------------------------
(* The administrator's overview (admin-dashboard.tsx, admin-summary-report.tsx) *)

Lit(rate) == {i \in 1 .. 8 : i <= Percent(8 * rate, 10000)}

\* Unlike the advisor's, an answer without figures shows nothing at all.
AdminScreen(query) ==
    CASE query.loading -> "skeleton"
      [] ~query.loading /\ query.failed -> "error"
      [] ~query.loading /\ ~query.failed /\ query.data = NoFigures -> "nothing"
      [] OTHER -> "figures"

\* The first row: students recovered and answers within the target.
AdminPulse(data) ==
    [stable |-> <<data.stabilized, data.atRisk>>, compliance |-> data.withinTarget]

\* The second row: answers to the mails, grades, and students by risk.
AdminImpact(data) ==
    [lit        |-> Lit(data.activation),
     engagement |-> IF data.activation > 40 THEN "high" ELSE "normal",
     impact     |-> data.impact # Never,
     slices     |-> [i \in DOMAIN data.risks |->
                        [label |-> data.risks[i].label, color |-> (i - 1) % 5]]]

\* Majors and critical cases, or the words that there are none.
ReportView(majors, cases) ==
    [majors  |-> majors,
     cases   |-> [i \in DOMAIN cases |-> IF cases[i].priority = "high" THEN "urgent" ELSE "medium"],
     noMajor |-> majors = <<>>,
     noCase  |-> cases = <<>>]

-----------------------------------------------------------------------------
(* The success stories (success-case-studies.tsx) *)

ImpactHero(rows) ==
    LET success == CountIn(rows, LAMBDA r : r.status = "resolved")
        failed  == CountIn(rows, LAMBDA r : r.status = "failed")
        total   == IF rows = <<>> THEN 1 ELSE Len(rows)
    IN  [success |-> success, completed |-> success + failed, total |-> total,
         rate |-> Percent(success, success + failed), progress |-> Percent(success, total)]

-----------------------------------------------------------------------------
(* The leaderboard (advisor-management.tsx) *)

\* Per cent, at most 100; nobody who sent nothing has resolved anything.
ResolveRate(resolved, sent) == IF Percent(resolved, sent) > 100 THEN 100 ELSE Percent(resolved, sent)

RateColor(rate) == CASE rate >= 70 -> "good" [] rate >= 40 /\ rate < 70 -> "fair" [] OTHER -> "poor"

TotalOf(items, Field(_)) == SumOf([i \in DOMAIN items |-> Field(items[i])])

Sent(a) == a.sent
Resolved(a) == a.resolved

\* Sorted by points; equals stay in the server's order.
Ranked(items) ==
    LET sorted == Sorted(items, LAMBDA a, b : a.points > b.points)
    IN  [r \in DOMAIN sorted |->
            [advisor |-> sorted[r].advisor, points |-> sorted[r].points, rank |-> r,
             sent |-> sorted[r].sent, resolved |-> sorted[r].resolved,
             rate |-> ResolveRate(sorted[r].resolved, sorted[r].sent)]]

\* Fewer than three advisors are replaced by invented ones; the totals are of the
\* page of advisors that is listed, their number is of all.
Leaderboard(items, demo, count) ==
    LET source == IF Len(items) >= 3 THEN items ELSE demo
        ranked == Ranked(source)
    IN  [isDemo   |-> Len(items) < 3,
         podium   |-> SubSeq(ranked, 1, 3),
         rest     |-> SubSeq(ranked, 4, Len(ranked)),
         advisors |-> IF Len(items) < 3 THEN Len(demo) ELSE count,
         sent     |-> TotalOf(source, Sent),
         resolved |-> TotalOf(source, Resolved),
         teamRate |-> ResolveRate(TotalOf(source, Resolved), TotalOf(source, Sent))]

\* The four figures above the list.
StatsBand(view) == <<view.advisors, view.sent, view.resolved, view.teamRate>>

\* How much of a ring is drawn.
Ring(rate) == IF rate > 100 THEN 100 ELSE IF rate < 0 THEN 0 ELSE rate

PodiumCard(a) ==
    [rank |-> a.rank, points |-> a.points, sent |-> a.sent, resolved |-> a.resolved,
     ring |-> Ring(a.rate), color |-> RateColor(a.rate)]

\* A place nobody holds is drawn empty.
Ghost(rank) == [rank |-> rank, ring |-> 0]
PodiumSlots(view) ==
    [rank \in 1 .. 3 |-> IF rank \in DOMAIN view.podium THEN PodiumCard(view.podium[rank]) ELSE Ghost(rank)]

\* The cards of the first three and the lines of the others show the same facts.
LeaderLine(a) ==
    [rank |-> a.rank, points |-> a.points, sent |-> a.sent, resolved |-> a.resolved,
     anyResolved |-> a.resolved > 0, rate |-> a.rate, color |-> RateColor(a.rate)]

-----------------------------------------------------------------------------
(* The links of the sidebar (app-sidebar.tsx) *)

AdminLinks == {"import", "advisors", "cases"}
AdvisorLinks == {"alerts", "schedule"}

SidebarLinks(role) ==
    {"overview", "stories", "settings", "support"}
        \cup (IF role = "admin" THEN AdminLinks ELSE {})
        \cup (IF role = "advisor" THEN AdvisorLinks ELSE {})

\* Where the route guard lets somebody who is signed in arrive.
Arrives(role, page) == IF page = "import" /\ role # "admin" THEN "alerts" ELSE page

\* What the overview shows and leads to: it only asks whether somebody is an
\* administrator (dashboard/page.tsx).
OverviewPage(role) ==
    IF role = "admin" THEN [parts |-> {"strategy", "report"}, links |-> {"import"}]
                      ELSE [parts |-> {"hero", "thanks"}, links |-> {"alerts"}]

-----------------------------------------------------------------------------
(* What the screens have in common *)

\* The overview's number, the Kanban, the administrators' table and the success
\* stories count the same cases: what one calls waiting or closed the others do.
CasesAgree(rows, locals) ==
    LET cards == CardsOf(rows, locals, {})
        urgent == CountIn(cards, LAMBDA a : a.severity = "high" /\ a.status \in {"new", "accepted"})
        grouped == Grouped(cards)
        total == TotalCounts(cards)
        problems == ProblemCounts(cards)
        risks == CaseStats(rows).byRisk
    IN  /\ PriorityCount(rows) = urgent
        /\ total["new"] + total["accepted"] + total["scheduled"] + total["in_progress"] + total["resolved"] = Len(cards)
        /\ problems["failed_final"] + problems["failed_midterm"] + problems["low_average"] = Len(cards)
        /\ \A column \in ToSet(Columns) : Len(grouped[column]) = total[column]
        /\ risks["critical"] + risks["elevated"] + risks["normal"] + risks["unknown"] = Len(rows)
        /\ CaseStats(rows).assigned + CaseStats(rows).unassigned = Len(rows)
        /\ total["resolved"] =
              ImpactHero(rows).completed + CountIn(rows, LAMBDA r : r.status = "pending_review")

\* Everyone is listed once, nobody below somebody with fewer points; the team's
\* rate lies between those of its members, unless somebody resolved without sending.
TeamAgrees(items, demo) ==
    LET view == Leaderboard(items, demo, Len(items))
        listed == view.podium \o view.rest
        senders == Filtered(listed, LAMBDA a : a.sent > 0)
    IN  ~view.isDemo =>
          /\ {a.advisor : a \in ToSet(listed)} = {a.advisor : a \in ToSet(items)}
          /\ Len(listed) = Len(items)
          /\ \A i, j \in DOMAIN listed : i < j => listed[i].points >= listed[j].points
          /\ (\A a \in ToSet(listed) : a.sent = 0 => a.resolved = 0) /\ senders # <<>> =>
                /\ \E a \in ToSet(senders) : a.rate <= view.teamRate
                /\ \E a \in ToSet(senders) : a.rate >= view.teamRate

\* Nobody who works here is led to a page the route guard sends away from, and
\* the overview leads nowhere the sidebar does not.
LinksAgree ==
    \A role \in {"admin", "advisor"} :
        /\ OverviewPage(role).links \subseteq SidebarLinks(role)
        /\ \A page \in SidebarLinks(role) : Arrives(role, page) = page

\* The card's warning is there when a line of the dialog is overdue; west of UTC it
\* is there a day early, when an open goal is due today and the dialog says "soon".
\* The card's count of goals done is the dialog's, and those lines come last.
GoalsAgree(goals, today, zone) ==
    LET view == GoalsView(goals, today)
        card == [status |-> "scheduled", interventionStatus |-> "booked", concern |-> FALSE,
                 goals |-> ToSet(goals), plainRisk |-> TRUE]
        flags == CardFlags(card, today, zone)
    IN  /\ flags.overdue <=> \/ \E i \in DOMAIN view.lines : view.lines[i].status = "overdue"
                             \/ zone < 0 /\ \E g \in ToSet(goals) : ~g.done /\ g.deadline = today
        /\ flags.goalsDone = view.done
        /\ \A i \in 1 .. view.done : view.lines[view.total - i + 1].done
===============================================================================
