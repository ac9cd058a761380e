------------------------------- MODULE AlertBoard -------------------------------
(***************************************************************************)
(* The list of cases an advisor's browser keeps (useAlerts) and everything *)
(* that writes to it: fetches of two requests, events of the server that   *)
(* patch it, and the moves of cards, shown before the server answers and   *)
(* taken back when it refuses (useUpdateAlertStatus).                      *)
(*                                                                         *)
(* The query cache and the mutation observer are TanStack Query's          *)
(* (external): invalidating restarts a fetch in flight, but joins it while *)
(* there is no data yet; callbacks passed to mutate run for the last call  *)
(* only.  What other users and workers do to a case is ServerMoves.        *)
(***************************************************************************)
EXTENDS AlertCards, FiniteSets

CONSTANTS
    BoardCases,     \* cases
    StudentOf,      \* the student of each
    StartOf,        \* where each case starts: its status and whose it is
    NoRows,         \* no data, nothing read yet, no message
    MaxFeed, MaxCalls, MaxMoves     \* bounds on messages under way, moves made, moves of others

VARIABLES
    server,     \* the cases in the database: status and owner ("me", "other", Nobody)
    list,       \* the cached list: case -> [status, advisor], or NoRows
    fetch,      \* NoFetch, or what the two requests of a fetch have read
    feed,       \* messages under way on the socket, in order
    unseen,     \* the last message React has not shown the effects yet, or NoRows
    outdated,   \* the list may miss a change until the next complete fetch
    calls,      \* mutations that are not settled, oldest first
    accepting,  \* students whose accept button is disabled
    clicks, others  \* how often the advisor, and everybody else, moved a case

boardVars == <<server, list, fetch, feed, unseen, outdated, calls, accepting, clicks, others>>

\* A list as it is cached, the two answers a fetch has so far, messages, mutations.
Owners == {"me", "other", Nobody}
Rows(C) == [C -> [status : BackendStatuses, advisor : Owners]]
Lists == UNION {Rows(C) : C \in SUBSET BoardCases}
Fetches == [open : Lists \cup {NoRows}, mine : Lists \cup {NoRows}]
Messages == [type : {"CASE:STATUS_UPDATED"}, case : BoardCases, status : BackendStatuses]
Calls == [case : BoardCases, status : BackendStatuses, before : Lists, phase : {"sent", "done", "refused", "settling"}]

NoFetch == NoRows
Asked == [open |-> NoRows, mine |-> NoRows]
RowOf(c) == [status |-> server[c].status, advisor |-> server[c].owner]
OpenRows == {c \in BoardCases : server[c].status = "new" /\ server[c].owner = Nobody}
MyRows == {c \in BoardCases : server[c].owner = "me"}
ServerList == [c \in OpenRows \cup MyRows |-> RowOf(c)]

\* Deduplicated by case: the open list comes first.
Unified(open, mine) ==
    [c \in DOMAIN open \cup DOMAIN mine |-> IF c \in DOMAIN open THEN open[c] ELSE mine[c]]

BoardInit ==
    /\ server = StartOf
    /\ list = NoRows /\ fetch = NoFetch /\ feed = <<>> /\ unseen = NoRows /\ outdated = FALSE
    /\ calls = <<>> /\ accepting = {} /\ clicks = 0 /\ others = 0

-----------------------------------------------------------------------------
(* Fetching the list *)

\* Slip: a fetch that is in flight is joined, even if there is data.
InvalidatedJoins ==
    /\ fetch' = IF fetch = NoFetch THEN Asked ELSE fetch
    /\ outdated' = (fetch # NoFetch /\ list = NoRows)

Invalidated ==
    /\ fetch' = IF fetch # NoFetch /\ list = NoRows THEN fetch ELSE Asked
    /\ outdated' = (fetch # NoFetch /\ list = NoRows)

\* The page is mounted, or the window gets the focus back and the list is old.
Focus ==
    /\ fetch = NoFetch /\ (list = NoRows \/ outdated)
    /\ fetch' = Asked /\ outdated' = FALSE
    /\ UNCHANGED <<server, list, feed, unseen, calls, accepting, clicks, others>>

\* The two requests are answered in any order.
ReadOpen ==
    /\ fetch # NoFetch /\ fetch.open = NoRows
    /\ fetch' = [fetch EXCEPT !.open = [c \in OpenRows |-> RowOf(c)]]
    /\ UNCHANGED <<server, list, feed, unseen, outdated, calls, accepting, clicks, others>>

ReadMine ==
    /\ fetch # NoFetch /\ fetch.mine = NoRows
    /\ fetch' = [fetch EXCEPT !.mine = [c \in MyRows |-> RowOf(c)]]
    /\ UNCHANGED <<server, list, feed, unseen, outdated, calls, accepting, clicks, others>>

FetchLands ==
    /\ fetch # NoFetch /\ fetch.open # NoRows /\ fetch.mine # NoRows
    /\ list' = Unified(fetch.open, fetch.mine) /\ fetch' = NoFetch
    /\ UNCHANGED <<server, feed, unseen, outdated, calls, accepting, clicks, others>>

\* No retry: the old list stays.
FetchFails ==
    /\ fetch # NoFetch
    /\ fetch' = NoFetch /\ outdated' = TRUE
    /\ UNCHANGED <<server, list, feed, unseen, calls, accepting, clicks, others>>

-----------------------------------------------------------------------------
(* Messages of the server *)

Send(message) == feed' = Append(feed, message) /\ Len(feed') <= MaxFeed
StatusUpdated(c, status) == [type |-> "CASE:STATUS_UPDATED", case |-> c, status |-> status]
Other == [type |-> "JOB:STARTED"]

ASSUME BoardAssumption ==
    /\ StartOf \in [BoardCases -> [status : BackendStatuses, owner : Owners]]
    /\ Nobody \notin {"me", "other"} /\ NoRows \notin Lists \cup Fetches \cup Messages \cup {Other}
    /\ {MaxFeed, MaxCalls, MaxMoves} \subseteq Nat

\* The path of a case, as the handlers of the server allow it.
NextOf == [new |-> {"accepted"}, accepted |-> {"sent"}, sent |-> {"booked"}, booked |-> {"supporting"},
           supporting |-> {"pending_review"}, pending_review |-> {"resolved", "failed"}]
ByAdvisor == {"accepted", "supporting", "pending_review"}

\* A mail goes out, a student books or answers, another advisor takes a case.
ServerMoves(c) ==
    /\ others < MaxMoves /\ others' = others + 1
    /\ server[c].status \in DOMAIN NextOf
    /\ \E status \in NextOf[server[c].status] :
        /\ status \in ByAdvisor => server[c].owner # "me"
        /\ server' = [server EXCEPT ![c].status = status,
                                    ![c].owner = IF status = "accepted" THEN "other" ELSE @]
        /\ Send(StatusUpdated(c, status))
    /\ UNCHANGED <<list, fetch, unseen, outdated, calls, accepting, clicks>>

JobEvent ==
    /\ others < MaxMoves /\ others' = others + 1
    /\ Send(Other)
    /\ UNCHANGED <<server, list, fetch, unseen, outdated, calls, accepting, clicks>>

\* updateSurgicalCache: the rows of the case in a list that is there.
Patched(rows, c, status) ==
    IF rows # NoRows /\ c \in DOMAIN rows THEN [rows EXCEPT ![c].status = status] ELSE rows

\* handleMessage.  The provider keeps the last message only: one that arrives
\* before React ran the effects of the one before replaces it.
MessageArrives ==
    /\ feed # <<>>
    /\ LET message == Head(feed)
       IN  /\ unseen' = message
           /\ list' = IF message = Other THEN list ELSE Patched(list, message.case, message.status)
           /\ outdated' = (outdated \/ (message = Other /\ unseen \notin {NoRows, Other}))
    /\ feed' = Tail(feed)
    /\ UNCHANGED <<server, fetch, calls, accepting, clicks, others>>

\* The socket was down: nothing is fetched when it is back.
MessageLost ==
    /\ feed # <<>>
    /\ feed' = Tail(feed) /\ outdated' = TRUE
    /\ UNCHANGED <<server, list, fetch, unseen, calls, accepting, clicks, others>>

\* The effect of AlertCenter on lastMessage.
EffectRuns ==
    /\ unseen # NoRows /\ unseen' = NoRows
    /\ IF unseen = Other THEN UNCHANGED <<fetch, outdated>> ELSE Invalidated
    /\ UNCHANGED <<server, list, feed, calls, accepting, clicks, others>>

-----------------------------------------------------------------------------
(* Moving a card *)

CardOf(c) ==
    Card([sid |-> StudentOf[c], caseId |-> c, status |-> list[c].status, advisor |-> list[c].advisor,
          risk |-> {"critical"}, draft |-> "none", appointment |-> Never, sentAt |-> Never,
          createdAt |-> 0, concern |-> FALSE, overview |-> FALSE],
         [acceptedAt |-> Never, goals |-> {}])

MovesOf(c) == Offers(CardOf(c), StudentOf[c] \in accepting) \cap ToSet(Columns)

\* A move to "resolved" asks for the student's review.
Optimistic(column) == IF column = "resolved" THEN "pending_review" ELSE ToBackend[column]

\* moveTo and onMutate: the fetch is cancelled, the list kept for a rollback, and
\* every row of the case or of its student shows the new status.
Move(c) ==
    /\ list # NoRows /\ c \in DOMAIN list
    /\ clicks < MaxCalls /\ clicks' = clicks + 1
    /\ \E column \in MovesOf(c) :
        /\ calls' = Append(calls, [case |-> c, status |-> Optimistic(column), before |-> list,
                                   phase |-> "sent"])
        /\ list' = [d \in DOMAIN list |->
                       IF d # c /\ StudentOf[d] # StudentOf[c] THEN list[d]
                       ELSE [status |-> Optimistic(column),
                             advisor |-> IF column = "accepted" THEN "me" ELSE list[d].advisor]]
        /\ accepting' = IF column = "accepted" THEN accepting \cup {StudentOf[c]} ELSE accepting
    /\ fetch' = NoFetch /\ outdated' = (outdated \/ fetch # NoFetch)
    /\ UNCHANGED <<server, feed, unseen, others>>

\* The handler of the server, which answers or whose answer is not waited for.
CallServed(i) ==
    /\ calls[i].phase = "sent"
    /\ LET c == calls[i].case
           status == calls[i].status
           legal == /\ server[c].status \in DOMAIN NextOf /\ status \in NextOf[server[c].status]
                    /\ server[c].owner \in {"me", Nobody}
       IN  IF legal
           THEN /\ server' = [server EXCEPT ![c] = [status |-> status, owner |-> "me"]]
                /\ Send(StatusUpdated(c, status))
                /\ \E phase \in {"done", "refused"} : calls' = [calls EXCEPT ![i].phase = phase]
           ELSE /\ calls' = [calls EXCEPT ![i].phase = "refused"]
                /\ UNCHANGED <<server, feed>>
    /\ UNCHANGED <<list, fetch, unseen, outdated, accepting, clicks, others>>

\* onError puts the whole list back as it was when the card was clicked; the
\* button is enabled by the callbacks of the last mutate call only.
CallAnswered(i) ==
    /\ calls[i].phase \in {"done", "refused"}
    /\ list' = IF calls[i].phase = "refused" THEN calls[i].before ELSE list
    /\ calls' = [calls EXCEPT ![i].phase = "settling"]
    /\ accepting' = IF i = Len(calls) THEN accepting \ {StudentOf[calls[i].case]} ELSE accepting
    /\ UNCHANGED <<server, fetch, feed, unseen, outdated, clicks, others>>

\* onSettled, a second later.
CallSettled(i) ==
    /\ calls[i].phase = "settling"
    /\ calls' = RemoveAt(calls, i)
    /\ Invalidated
    /\ UNCHANGED <<server, list, feed, unseen, accepting, clicks, others>>

BoardNext ==
    \/ Focus \/ ReadOpen \/ ReadMine \/ FetchLands \/ FetchFails
    \/ JobEvent \/ MessageArrives \/ MessageLost \/ EffectRuns
    \/ \E c \in BoardCases : ServerMoves(c) \/ Move(c)
    \/ \E i \in DOMAIN calls : CallServed(i) \/ CallAnswered(i) \/ CallSettled(i)

BoardSpec == BoardInit /\ [][BoardNext]_boardVars

-----------------------------------------------------------------------------
(* Properties *)

BoardTypeOK ==
    /\ server \in [BoardCases -> [status : BackendStatuses, owner : Owners]]
    /\ list \in Lists \cup {NoRows} /\ fetch \in Fetches \cup {NoRows}
    /\ feed \in Seq(Messages \cup {Other}) /\ Len(feed) <= MaxFeed
    /\ unseen \in Messages \cup {Other, NoRows} /\ outdated \in BOOLEAN
    /\ calls \in Seq(Calls) /\ Len(calls) <= clicks /\ clicks <= MaxCalls
    /\ accepting \subseteq {StudentOf[c] : c \in BoardCases}
    /\ clicks \in Nat /\ others \in 0 .. MaxMoves

Settled == list # NoRows /\ fetch = NoFetch /\ feed = <<>> /\ unseen = NoRows /\ calls = <<>>

\* Once everything under way has ended, the board shows what the server holds:
\* no rollback, no event that overtook a fetch and no fetch that read between
\* two changes leaves its mark, unless a message or a fetch was lost.
SettledIsTrue == Settled /\ ~outdated => list = ServerList

\* A settled board offers no move that the server would refuse.
OfferedIsLegal ==
    Settled /\ ~outdated =>
        \A c \in DOMAIN list : \A column \in MovesOf(c) : Optimistic(column) \in NextOf[server[c].status]
===============================================================================
