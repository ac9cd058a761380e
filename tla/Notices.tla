--------------------------------- MODULE Notices ---------------------------------
(***************************************************************************)
(* The bell of the application (use-notifications.ts,                      *)
(* notifications-dropdown.tsx): a list with a count of unread ones, polled *)
(* every thirty seconds, read again when the WebSocket announces one       *)
(* (NOTIFICATION:PUSH), and changed at once when the user marks some.      *)
(***************************************************************************)
EXTENDS Integers, FiniteSets

CONSTANTS
    Notes,
    NoNotes,    \* no list yet; nothing marked
    AllNotes,   \* what "mark all" marks
    MaxMarks, MaxNoteFails      \* bounds

ASSUME NoticeAssumption == IsFiniteSet(Notes) /\ AllNotes \notin Notes /\ {MaxMarks, MaxNoteFails} \subseteq Nat

VARIABLES
    noteState,  \* each notification on the server: "none", "unread" or "read"
    pushes,     \* announcements under way
    bell,       \* data of the query: list and count, or NoNotes
    bellRead,   \* the read in flight: <<>> none, <<NoNotes>> unserved, or its answer
    marks,      \* mutations under way
    marked, noteFails,
    reclicked   \* a notification was clicked that had been read

noticeVars == <<noteState, pushes, bell, bellRead, marks, marked, noteFails, reclicked>>

UnreadIn(list) == Cardinality({n \in Notes : list[n] = "unread"})
OnServer == [list |-> noteState, unread |-> UnreadIn(noteState)]
Unserved == <<NoNotes>>

NoticeInit ==
    /\ noteState = [n \in Notes |-> "none"] /\ pushes = {} /\ bell = NoNotes /\ bellRead = Unserved
    /\ marks = {} /\ marked = 0 /\ noteFails = 0 /\ reclicked = FALSE

-----------------------------------------------------------------------------
(* The server's list and its announcements *)

ServerNotifies(n) ==
    /\ noteState[n] = "none"
    /\ noteState' = [noteState EXCEPT ![n] = "unread"] /\ pushes' = pushes \cup {n}
    /\ UNCHANGED <<bell, bellRead, marks, marked, noteFails, reclicked>>

\* invalidateQueries: a read in flight is given up if there is a list, else joined.
PushArrives(n) ==
    /\ n \in pushes /\ pushes' = pushes \ {n}
    /\ bellRead' = IF bell = NoNotes /\ bellRead # <<>> THEN bellRead ELSE Unserved
    /\ UNCHANGED <<noteState, bell, marks, marked, noteFails, reclicked>>

PushLost(n) ==
    /\ n \in pushes /\ pushes' = pushes \ {n}
    /\ UNCHANGED <<noteState, bell, bellRead, marks, marked, noteFails, reclicked>>

-----------------------------------------------------------------------------
(* Reading *)

\* Slip: a list that is there is not polled.
PollOnce ==
    /\ bellRead = <<>> /\ bell = NoNotes /\ bellRead' = Unserved
    /\ UNCHANGED <<noteState, pushes, bell, marks, marked, noteFails, reclicked>>

\* refetchInterval
Poll ==
    /\ bellRead = <<>> /\ bellRead' = Unserved
    /\ UNCHANGED <<noteState, pushes, bell, marks, marked, noteFails, reclicked>>

BellServed ==
    /\ bellRead = Unserved /\ bellRead' = <<OnServer>>
    /\ UNCHANGED <<noteState, pushes, bell, marks, marked, noteFails, reclicked>>

BellLands ==
    /\ bellRead \notin {<<>>, Unserved}
    /\ bell' = bellRead[1] /\ bellRead' = <<>>
    /\ UNCHANGED <<noteState, pushes, marks, marked, noteFails, reclicked>>

BellFails ==
    /\ bellRead # <<>> /\ noteFails < MaxNoteFails
    /\ noteFails' = noteFails + 1 /\ bellRead' = <<>>
    /\ UNCHANGED <<noteState, pushes, bell, marks, marked, reclicked>>

-----------------------------------------------------------------------------
(* Marking *)

MarkedIn(list, n) ==
    [k \in Notes |-> IF (n = AllNotes \/ k = n) /\ list[k] # "none" THEN "read" ELSE list[k]]

\* Slip: "mark all" leaves the count to the next read.
OptimisticList(n) ==
    [list |-> MarkedIn(bell.list, n), unread |-> IF bell.unread > 0 THEN bell.unread - 1 ELSE 0]

\* Slip: the count may fall below zero.
OptimisticBelow(n) ==
    [list   |-> MarkedIn(bell.list, n),
     unread |-> IF n = AllNotes THEN 0 ELSE bell.unread - 1]

\* One click takes one from the count, also if the notification was read before.
OptimisticBell(n) ==
    [list   |-> MarkedIn(bell.list, n),
     unread |-> IF n = AllNotes \/ bell.unread = 0 THEN 0 ELSE bell.unread - 1]

\* A click on a line, or on "mark all", which is offered while some are unread.
Mark(n) ==
    /\ bell # NoNotes /\ marked < MaxMarks
    /\ IF n = AllNotes THEN bell.unread > 0 ELSE bell.list[n] # "none"
    /\ marked' = marked + 1
    /\ marks' = marks \cup {[what |-> n, nth |-> marked', before |-> bell, served |-> FALSE]}
    /\ bell' = OptimisticBell(n) /\ bellRead' = <<>>
    /\ reclicked' = (reclicked \/ (n # AllNotes /\ bell.list[n] = "read"))
    /\ UNCHANGED <<noteState, pushes, noteFails>>

MarkServed(m) ==
    /\ ~m.served
    /\ noteState' = MarkedIn(noteState, m.what)
    /\ marks' = (marks \ {m}) \cup {[m EXCEPT !.served = TRUE]}
    /\ UNCHANGED <<pushes, bell, bellRead, marked, noteFails, reclicked>>

MarkSucceeds(m) ==
    /\ m.served /\ marks' = marks \ {m} /\ bellRead' = Unserved
    /\ UNCHANGED <<noteState, pushes, bell, marked, noteFails, reclicked>>

\* The list from before the click is back, until the read that follows.
MarkFails(m) ==
    /\ marks' = marks \ {m} /\ bellRead' = Unserved
    /\ bell' = m.before
    /\ UNCHANGED <<noteState, pushes, marked, noteFails, reclicked>>

NoticeNext ==
    \/ \E n \in Notes : ServerNotifies(n) \/ PushArrives(n) \/ PushLost(n)
    \/ Poll \/ BellServed \/ BellLands \/ BellFails
    \/ \E n \in Notes \cup {AllNotes} : Mark(n)
    \/ \E m \in marks : MarkServed(m) \/ MarkSucceeds(m) \/ MarkFails(m)

\* The interval goes on, and reads are answered.
NoticeFairness ==
    /\ WF_noticeVars(Poll) /\ WF_noticeVars(BellServed) /\ WF_noticeVars(BellLands)

NoticeSpec == NoticeInit /\ [][NoticeNext]_noticeVars /\ NoticeFairness

-----------------------------------------------------------------------------
(* Properties *)

NoticeTypeOK ==
    /\ noteState \in [Notes -> {"none", "unread", "read"}] /\ pushes \subseteq Notes
    /\ bell # NoNotes => bell.unread \in 0 .. Cardinality(Notes)
    /\ marked \in 0 .. MaxMarks /\ noteFails \in 0 .. MaxNoteFails /\ reclicked \in BOOLEAN

\* The number on the bell is the number of unread lines below it, through marks
\* that overlap, fail and are rolled back in any order; unless the user clicked a
\* line that had been read.
BadgeMatchesList == bell # NoNotes /\ ~reclicked => bell.unread = UnreadIn(bell.list)

\* Every notification comes to the list, also when its announcement is lost.
NoticeIsShown ==
    \A n \in Notes : noteState[n] # "none" ~> bell # NoNotes /\ bell.list[n] # "none"
===============================================================================
