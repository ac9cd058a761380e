------------------------------ MODULE CaseBoard ------------------------------
(***************************************************************************)
(* What the advisors' board promises about a case, with no database, no    *)
(* versions and no concurrent handlers: a case is claimed by one advisor,  *)
(* follows the intervention path one status at a time, may be enriched     *)
(* with an AI overview at any moment, and every change of status is        *)
(* announced by exactly one event, in the same step.  CaseLifecycle, where *)
(* handlers read a row, work on the copy and write it back, implements it. *)
(***************************************************************************)
EXTENDS Sequences

CONSTANTS Cases, Advisors, NoAdvisor

VARIABLES
    board,  \* board[c]: status, owner and overview of case c
    log     \* log[c]: the statuses announced for case c, oldest first

vars == <<board, log>>

NewCard == [status |-> "new", advisor |-> NoAdvisor, summary |-> FALSE]

\* The statuses a case may take after a given one, once it is claimed.
Path == [accepted       |-> {"sent"},
         sent           |-> {"booked"},
         booked         |-> {"supporting"},
         supporting     |-> {"pending_review"},
         pending_review |-> {"resolved", "failed"}]

Init ==
    /\ board = [c \in Cases |-> NewCard]
    /\ log = [c \in Cases |-> <<>>]

Announce(c, status) == log' = [log EXCEPT ![c] = Append(@, status)]

Claim(c, a) ==
    /\ board[c].status = "new"
    /\ board' = [board EXCEPT ![c] = [@ EXCEPT !.status = "accepted", !.advisor = a]]
    /\ Announce(c, "accepted")

Advance(c, next) ==
    /\ board[c].status \in DOMAIN Path
    /\ next \in Path[board[c].status]
    /\ board' = [board EXCEPT ![c] = [@ EXCEPT !.status = next]]
    /\ Announce(c, next)

Enrich(c) ==
    /\ board' = [board EXCEPT ![c] = [@ EXCEPT !.summary = TRUE]]
    /\ UNCHANGED log

Next ==
    \E c \in Cases :
        \/ \E a \in Advisors : Claim(c, a)
        \/ \E next \in {"sent", "booked", "supporting", "pending_review",
                        "resolved", "failed"} : Advance(c, next)
        \/ Enrich(c)

Spec == Init /\ [][Next]_vars
==============================================================================
