---------------------------------- MODULE Goals ----------------------------------
(***************************************************************************)
(* The goals an advisor sets for a student (goals-dialog.tsx).  They live  *)
(* in the browser only: the board keeps them in its state, reads them from *)
(* localStorage when it is mounted, and writes all of them back after      *)
(* every change (alert-center.tsx).  Tabs share the storage and nothing    *)
(* else.  Titles are left out.                                             *)
(***************************************************************************)
EXTENDS AlertCards

CONSTANTS
    GoalStudents,   \* students whose cards are on the board
    BoardTabs,      \* tabs of the browser
    Deadlines,      \* dates that are picked
    NoStudent,      \* no dialog is open
    MaxGoals, MaxLeaves     \* bounds on changes made, and on boards left

ASSUME GoalsAssumption == IsFiniteSet(BoardTabs) /\ {MaxGoals, MaxLeaves} \subseteq Nat

VARIABLES
    storage,    \* "alert-goals-state": for each student the goals, and whether the case was accepted here
    boardTab,   \* each tab: its phase, its copy, the student whose dialog is open
    promised,   \* the goals the advisor has made and not removed
    changes, leaves,
    shared, cut \* two boards were open at once; one was left before it was rendered

goalVars == <<storage, boardTab, promised, changes, leaves, shared, cut>>

Nothing == [s \in GoalStudents |-> [goals |-> <<>>, accepted |-> FALSE]]
ClosedTab == [phase |-> "closed", local |-> Nothing, dialog |-> NoStudent]
Mounted(t) == boardTab[t].phase # "closed"

GoalInit ==
    /\ storage = Nothing /\ boardTab = [t \in BoardTabs |-> ClosedTab] /\ promised = {}
    /\ changes = 0 /\ leaves = 0 /\ shared = FALSE /\ cut = FALSE

-----------------------------------------------------------------------------
(* The board comes and goes *)

Opens(t) == shared' = (shared \/ \E u \in BoardTabs \ {t} : Mounted(u))

\* Slip: the effect that writes stands before the one that reads.
MountWritesFirst(t) ==
    /\ ~Mounted(t) /\ leaves < MaxLeaves
    /\ boardTab' = [boardTab EXCEPT ![t] = [ClosedTab EXCEPT !.phase = "mounting"]]
    /\ storage' = Nothing
    /\ Opens(t) /\ UNCHANGED <<promised, changes, leaves, cut>>

\* The first effect reads, and asks for a render; the second writes what the
\* board still shows, which is nothing.
MountBoard(t) ==
    /\ ~Mounted(t) /\ leaves < MaxLeaves
    /\ boardTab' = [boardTab EXCEPT ![t] = [phase |-> "mounting", local |-> storage, dialog |-> NoStudent]]
    /\ storage' = Nothing
    /\ Opens(t) /\ UNCHANGED <<promised, changes, leaves, cut>>

\* The render, after which the second effect writes what was read.
Rendered(t) ==
    /\ boardTab[t].phase = "mounting"
    /\ boardTab' = [boardTab EXCEPT ![t].phase = "open"]
    /\ storage' = boardTab[t].local
    /\ UNCHANGED <<promised, changes, leaves, shared, cut>>

\* The page is left, reloaded or closed.
LeaveBoard(t) ==
    /\ Mounted(t) /\ leaves' = leaves + 1
    /\ boardTab' = [boardTab EXCEPT ![t] = ClosedTab]
    /\ cut' = (cut \/ boardTab[t].phase = "mounting")
    /\ UNCHANGED <<storage, promised, changes, shared>>

-----------------------------------------------------------------------------
(* The dialog *)

OpenGoals(t, s) ==
    /\ boardTab[t].phase = "open" /\ boardTab[t].dialog = NoStudent
    /\ boardTab' = [boardTab EXCEPT ![t].dialog = s]
    /\ UNCHANGED <<storage, promised, changes, leaves, shared, cut>>

CloseGoals(t) ==
    /\ boardTab[t].dialog # NoStudent
    /\ boardTab' = [boardTab EXCEPT ![t].dialog = NoStudent]
    /\ UNCHANGED <<storage, promised, changes, leaves, shared, cut>>

\* Whatever changes, the whole state of the tab is written.
Change(t, s, entry) ==
    /\ changes < MaxGoals /\ changes' = changes + 1
    /\ boardTab' = [boardTab EXCEPT ![t].local[s] = entry]
    /\ storage' = [boardTab[t].local EXCEPT ![s] = entry]
    /\ UNCHANGED <<leaves, shared, cut>>

Promise(s, g) == [student |-> s, id |-> g.id, done |-> g.done]
InDialog(t, s) == boardTab[t].phase = "open" /\ boardTab[t].dialog = s

AddGoal(t, s, deadline) ==
    LET goal == [id |-> changes, done |-> FALSE, deadline |-> deadline]
    IN  /\ InDialog(t, s)
        /\ Change(t, s, [boardTab[t].local[s] EXCEPT !.goals = Append(@, goal)])
        /\ promised' = promised \cup {Promise(s, goal)}

ToggleGoal(t, s, i) ==
    LET goal == boardTab[t].local[s].goals[i]
    IN  /\ InDialog(t, s)
        /\ Change(t, s, [boardTab[t].local[s] EXCEPT !.goals[i].done = ~@])
        /\ promised' = (promised \ {Promise(s, goal)}) \cup {Promise(s, [goal EXCEPT !.done = ~@])}

RemoveGoal(t, s, i) ==
    /\ InDialog(t, s)
    /\ Change(t, s, [boardTab[t].local[s] EXCEPT !.goals = RemoveAt(@, i)])
    /\ promised' = promised \ {Promise(s, boardTab[t].local[s].goals[i])}

\* moveTo notes in the same state that the case was accepted here.
NoteAccepted(t, s) ==
    /\ boardTab[t].phase = "open" /\ boardTab[t].dialog = NoStudent /\ ~boardTab[t].local[s].accepted
    /\ Change(t, s, [boardTab[t].local[s] EXCEPT !.accepted = TRUE])
    /\ UNCHANGED promised

-----------------------------------------------------------------------------
(* What the dialog shows *)

\* The dialog reads deadlines as local dates.
DeadlineStatus(goal, today) ==
    CASE goal.deadline = Never \/ goal.done -> "normal"
      [] goal.deadline # Never /\ ~goal.done /\ goal.deadline < today -> "overdue"
      [] goal.deadline # Never /\ ~goal.done /\ goal.deadline \in today .. today + 2 -> "soon"
      [] OTHER -> "normal"

\* compareGoals: open ones first, then by deadline, then the latest.
GoalBefore(a, b) ==
    IF a.done # b.done THEN b.done
    ELSE IF a.deadline # b.deadline
    THEN a.deadline # Never /\ (b.deadline = Never \/ a.deadline < b.deadline)
    ELSE a.id > b.id

GoalLines(goals, today) ==
    LET sorted == Sorted(goals, GoalBefore)
    IN  [i \in DOMAIN sorted |-> [id |-> sorted[i].id, done |-> sorted[i].done,
                                  status |-> DeadlineStatus(sorted[i], today)]]

\* Rounded per cent.
Percent(part, whole) == IF whole = 0 THEN 0 ELSE (200 * part + whole) \div (2 * whole)

GoalsView(goals, today) ==
    LET done == Cardinality({i \in DOMAIN goals : goals[i].done})
    IN  [lines |-> GoalLines(goals, today), done |-> done, total |-> Len(goals),
         percent |-> Percent(done, Len(goals))]

GoalNext ==
    \E t \in BoardTabs :
        \/ MountBoard(t) \/ Rendered(t) \/ LeaveBoard(t) \/ CloseGoals(t)
        \/ \E s \in GoalStudents :
              \/ OpenGoals(t, s) \/ NoteAccepted(t, s)
              \/ \E deadline \in Deadlines : AddGoal(t, s, deadline)
              \/ \E i \in DOMAIN boardTab[t].local[s].goals : ToggleGoal(t, s, i) \/ RemoveGoal(t, s, i)

GoalSpec == GoalInit /\ [][GoalNext]_goalVars

-----------------------------------------------------------------------------
(* Properties *)

GoalTypeOK ==
    /\ changes \in 0 .. MaxGoals /\ leaves \in 0 .. MaxLeaves + Cardinality(BoardTabs)
    /\ \A t \in BoardTabs : boardTab[t].dialog \in GoalStudents \cup {NoStudent}
    /\ shared \in BOOLEAN /\ cut \in BOOLEAN

Held(local) == UNION {{Promise(s, g) : g \in ToSet(local[s].goals)} : s \in GoalStudents}
Current == IF \E t \in BoardTabs : Mounted(t) THEN boardTab[CHOOSE t \in BoardTabs : Mounted(t)].local ELSE storage

\* No goal is lost, comes back after it was removed, or forgets that it was done,
\* however often the board is left and mounted again; unless two boards were
\* open at once or one was left in the moment its storage is empty.
GoalsSurvive == ~shared /\ ~cut => Held(Current) = promised
===============================================================================
