------------------------------ MODULE Board_proofs ------------------------------
(***************************************************************************)
(* Proofs about an advisor's work on the cases, for all values of the      *)
(* constants: the list of cases and the calls that change it (AlertBoard), *)
(* the sheet in which a draft becomes an email (EmailEditor), and the      *)
(* goals of a student (Goals).                                             *)
(***************************************************************************)
EXTENDS AlertBoard, EmailEditor, Goals, TLAPS, SequenceFacts

-----------------------------------------------------------------------------
(* Types *)

LEMMA ListsContain ==
    ASSUME NEW C \in SUBSET BoardCases, NEW shown \in Rows(C)
    PROVE  shown \in Lists
BY DEF Lists

LEMMA ListShape ==
    ASSUME NEW shown \in Lists
    PROVE  /\ shown # NoRows /\ DOMAIN shown \in SUBSET BoardCases /\ shown \in Rows(DOMAIN shown)
           /\ \A c \in DOMAIN shown : shown[c] \in [status : BackendStatuses, advisor : Owners]
<1>1. PICK C \in SUBSET BoardCases : shown \in Rows(C)
  BY DEF Lists
<1>2. shown # NoRows
  BY BoardAssumption
<1>3. QED
  BY <1>1, <1>2 DEF Rows

\* What the two requests answer, and both together, are lists.
LEMMA ServerParts ==
    ASSUME BoardTypeOK
    PROVE  /\ [c \in OpenRows |-> RowOf(c)] \in Lists
           /\ [c \in MyRows |-> RowOf(c)] \in Lists
           /\ ServerList \in Lists
<1>1. \A c \in BoardCases : RowOf(c) \in [status : BackendStatuses, advisor : Owners]
  BY DEF BoardTypeOK, RowOf
<1>2. \A C \in SUBSET BoardCases : [c \in C |-> RowOf(c)] \in Rows(C)
  BY <1>1 DEF Rows
<1>3. OpenRows \in SUBSET BoardCases /\ MyRows \in SUBSET BoardCases
  BY DEF OpenRows, MyRows
<1>4. \A C \in SUBSET BoardCases : [c \in C |-> RowOf(c)] \in Lists
  BY <1>2, ListsContain
<1>5. OpenRows \cup MyRows \in SUBSET BoardCases
  BY <1>3
<1>6. QED
  BY <1>3, <1>4, <1>5 DEF ServerList

LEMMA UnifiedIsList ==
    ASSUME NEW open \in Lists, NEW mine \in Lists
    PROVE  Unified(open, mine) \in Lists
<1>1. DOMAIN open \cup DOMAIN mine \in SUBSET BoardCases
  BY ListShape
<1>2. Unified(open, mine) \in Rows(DOMAIN open \cup DOMAIN mine)
  BY ListShape DEF Unified, Rows
<1>3. QED
  BY <1>1, <1>2, ListsContain

LEMMA PatchedIsList ==
    ASSUME NEW shown \in Lists \cup {NoRows}, NEW c, NEW status \in BackendStatuses
    PROVE  Patched(shown, c, status) \in Lists \cup {NoRows}
<1>1. CASE shown # NoRows /\ c \in DOMAIN shown
  <2>1. shown \in Lists /\ DOMAIN shown \in SUBSET BoardCases /\ shown \in Rows(DOMAIN shown)
    BY <1>1, ListShape
  <2>2. [shown EXCEPT ![c].status = status] \in Rows(DOMAIN shown)
    BY <2>1 DEF Rows
  <2>3. QED
    BY <1>1, <2>1, <2>2, ListsContain DEF Patched
<1>2. CASE ~(shown # NoRows /\ c \in DOMAIN shown)
  BY <1>2 DEF Patched
<1>3. QED
  BY <1>1, <1>2

LEMMA MessageShapes ==
    /\ \A c \in BoardCases, status \in BackendStatuses : StatusUpdated(c, status) \in Messages
    /\ Other \notin Messages /\ NoRows \notin Messages /\ NoRows # Other
BY BoardAssumption DEF StatusUpdated, Messages, Other

LEMMA AskedShape == Asked \in Fetches /\ Asked # NoFetch /\ NoRows \notin Fetches
BY BoardAssumption DEF Asked, Fetches, NoFetch

LEMMA SendKeeps ==
    ASSUME BoardTypeOK, NEW message \in Messages \cup {Other}, Send(message)
    PROVE  /\ feed' \in Seq(Messages \cup {Other}) /\ Len(feed') <= MaxFeed
           /\ Len(feed') = Len(feed) + 1 /\ feed'[Len(feed')] = message
           /\ \A i \in 1 .. Len(feed) : feed'[i] = feed[i]
BY DEF BoardTypeOK, Send

LEMMA NextStatuses ==
    \A status \in DOMAIN NextOf : NextOf[status] \subseteq BackendStatuses
BY DEF NextOf, BackendStatuses

LEMMA InvalidatedTypes ==
    ASSUME BoardTypeOK, Invalidated
    PROVE  fetch' \in Fetches /\ fetch' # NoFetch /\ outdated' \in BOOLEAN
BY AskedShape DEF BoardTypeOK, Invalidated, NoFetch

\* A move shows in the list as a row of each case of the student.
LEMMA MovedIsList ==
    ASSUME BoardTypeOK, NEW c \in BoardCases, list # NoRows, NEW column \in ToSet(Columns)
    PROVE  /\ Optimistic(column) \in BackendStatuses
           /\ [d \in DOMAIN list |->
                 IF d # c /\ StudentOf[d] # StudentOf[c] THEN list[d]
                 ELSE [status |-> Optimistic(column),
                       advisor |-> IF column = "accepted" THEN "me" ELSE list[d].advisor]] \in Lists
<1>1. Optimistic(column) \in BackendStatuses
  <2>1. column \in {"new", "accepted", "scheduled", "in_progress", "resolved"}
    BY DEF ToSet, Columns
  <2>2. QED
    BY <2>1 DEF Optimistic, ToBackend, BackendStatuses
<1>2. list \in Lists
  BY DEF BoardTypeOK
<1>3. /\ DOMAIN list \in SUBSET BoardCases
      /\ \A d \in DOMAIN list : list[d] \in [status : BackendStatuses, advisor : Owners]
  BY <1>2, ListShape
<1>4. "me" \in Owners
  BY DEF Owners
<1> DEFINE moved == [d \in DOMAIN list |->
                 IF d # c /\ StudentOf[d] # StudentOf[c] THEN list[d]
                 ELSE [status |-> Optimistic(column),
                       advisor |-> IF column = "accepted" THEN "me" ELSE list[d].advisor]]
<1>5. moved \in Rows(DOMAIN list)
  BY <1>1, <1>3, <1>4 DEF Rows
<1>6. QED
  BY <1>1, <1>3, <1>5, ListsContain

LEMMA ListenTypes ==
    ASSUME BoardTypeOK, JobEvent \/ MessageArrives \/ MessageLost \/ EffectRuns
    PROVE  BoardTypeOK'
<1>1. CASE JobEvent
  BY <1>1, SendKeeps, BoardAssumption DEF JobEvent, BoardTypeOK
<1>2. CASE MessageArrives
  <2> DEFINE message == Head(feed)
  <2>1. /\ message \in Messages \cup {Other} /\ Tail(feed) \in Seq(Messages \cup {Other})
        /\ Len(Tail(feed)) <= MaxFeed
    BY <1>2, BoardAssumption DEF MessageArrives, BoardTypeOK
  <2>2. list' \in Lists \cup {NoRows}
    <3>1. CASE message = Other
      BY <1>2, <3>1 DEF MessageArrives, BoardTypeOK
    <3>2. CASE message # Other
      <4>1. message.status \in BackendStatuses
        BY <2>1, <3>2 DEF Messages
      <4>2. list' = Patched(list, message.case, message.status)
        BY <1>2, <3>2 DEF MessageArrives
      <4>3. QED
        BY <4>1, <4>2, PatchedIsList DEF BoardTypeOK
    <3>3. QED
      BY <3>1, <3>2
  <2>3. unseen' = message /\ outdated' \in BOOLEAN /\ feed' = Tail(feed)
        /\ UNCHANGED <<server, fetch, calls, accepting, clicks, others>>
    BY <1>2 DEF MessageArrives, BoardTypeOK
  <2> HIDE DEF message
  <2>4. QED
    BY <2>1, <2>2, <2>3 DEF BoardTypeOK
<1>3. CASE MessageLost
  BY <1>3, BoardAssumption DEF MessageLost, BoardTypeOK
<1>4. CASE EffectRuns
  <2>1. fetch' \in Fetches \cup {NoRows} /\ outdated' \in BOOLEAN
    BY <1>4, InvalidatedTypes DEF EffectRuns, BoardTypeOK
  <2>2. QED
    BY <1>4, <2>1 DEF EffectRuns, BoardTypeOK
<1>5. QED
  BY <1>1, <1>2, <1>3, <1>4

LEMMA FetchTypes ==
    ASSUME BoardTypeOK, Focus \/ ReadOpen \/ ReadMine \/ FetchLands \/ FetchFails
    PROVE  BoardTypeOK'
<1>1. fetch' \in Fetches \cup {NoRows}
  <2>1. CASE Focus
    BY <2>1, AskedShape DEF Focus
  <2>2. CASE ReadOpen \/ ReadMine
    BY <2>2, ServerParts DEF ReadOpen, ReadMine, BoardTypeOK, Fetches, NoFetch
  <2>3. CASE FetchLands \/ FetchFails
    BY <2>3 DEF FetchLands, FetchFails, NoFetch
  <2>4. QED
    BY <2>1, <2>2, <2>3
<1>2. list' \in Lists \cup {NoRows}
  <2>1. CASE FetchLands
    <3>1. fetch.open \in Lists /\ fetch.mine \in Lists
      BY <2>1 DEF FetchLands, BoardTypeOK, Fetches, NoFetch
    <3>2. QED
      BY <2>1, <3>1, UnifiedIsList DEF FetchLands
  <2>2. CASE ~FetchLands
    BY <2>2 DEF Focus, ReadOpen, ReadMine, FetchFails, BoardTypeOK
  <2>3. QED
    BY <2>1, <2>2
<1>3. /\ UNCHANGED <<server, feed, unseen, calls, accepting, clicks, others>>
      /\ outdated' \in BOOLEAN
  BY DEF Focus, ReadOpen, ReadMine, FetchLands, FetchFails, BoardTypeOK
<1>4. QED
  BY <1>1, <1>2, <1>3 DEF BoardTypeOK

LEMMA MoveTypes ==
    ASSUME BoardTypeOK, NEW c \in BoardCases, ServerMoves(c) \/ Move(c)
    PROVE  BoardTypeOK'
<1>1. CASE ServerMoves(c)
  <2>1. PICK status \in NextOf[server[c].status] :
            /\ server' = [server EXCEPT ![c].status = status,
                                        ![c].owner = IF status = "accepted" THEN "other" ELSE @]
            /\ Send(StatusUpdated(c, status))
    BY <1>1 DEF ServerMoves
  <2>2. status \in BackendStatuses /\ StatusUpdated(c, status) \in Messages
    BY <1>1, NextStatuses, MessageShapes DEF ServerMoves
  <2>3. server' \in [BoardCases -> [status : BackendStatuses, owner : Owners]]
    BY <2>1, <2>2 DEF BoardTypeOK, Owners
  <2>4. feed' \in Seq(Messages \cup {Other}) /\ Len(feed') <= MaxFeed
    BY <2>1, <2>2, SendKeeps
  <2>5. others' \in 0 .. MaxMoves
    <3>1. MaxMoves \in Nat /\ others \in 0 .. MaxMoves /\ others < MaxMoves /\ others' = others + 1
      BY <1>1, BoardAssumption DEF ServerMoves, BoardTypeOK
    <3>2. QED
      BY <3>1
  <2>6. QED
    BY <1>1, <2>3, <2>4, <2>5 DEF ServerMoves, BoardTypeOK
<1>2. CASE Move(c)
  <2>1. PICK column \in MovesOf(c) :
            /\ calls' = Append(calls, [case |-> c, status |-> Optimistic(column), before |-> list,
                                       phase |-> "sent"])
            /\ list' = [d \in DOMAIN list |->
                           IF d # c /\ StudentOf[d] # StudentOf[c] THEN list[d]
                           ELSE [status |-> Optimistic(column),
                                 advisor |-> IF column = "accepted" THEN "me" ELSE list[d].advisor]]
            /\ accepting' = IF column = "accepted" THEN accepting \cup {StudentOf[c]} ELSE accepting
    BY <1>2 DEF Move
  <2>2. column \in ToSet(Columns) /\ list # NoRows
    BY <1>2, <2>1 DEF MovesOf, Move
  <2>3. Optimistic(column) \in BackendStatuses /\ list' \in Lists
    BY <2>1, <2>2, MovedIsList
  <2>4. [case |-> c, status |-> Optimistic(column), before |-> list, phase |-> "sent"] \in Calls
    BY <2>2, <2>3 DEF Calls, BoardTypeOK
  <2>5. /\ calls' \in Seq(Calls) /\ Len(calls') = Len(calls) + 1 /\ Len(calls) \in Nat
        /\ clicks' = clicks + 1 /\ clicks' <= MaxCalls
    BY <1>2, <2>1, <2>4, BoardAssumption DEF BoardTypeOK, Move
  <2>6. QED
    BY <1>2, <2>1, <2>3, <2>5 DEF Move, BoardTypeOK, NoFetch
<1>3. QED
  BY <1>1, <1>2

LEMMA CallTypes ==
    ASSUME BoardTypeOK, NEW i \in DOMAIN calls, CallServed(i) \/ CallAnswered(i) \/ CallSettled(i)
    PROVE  BoardTypeOK'
<1>1. calls[i] \in Calls /\ Len(calls) \in Nat /\ i \in 1 .. Len(calls)
  BY DEF BoardTypeOK
<1>2. \A phase \in {"sent", "done", "refused", "settling"} :
        /\ [calls EXCEPT ![i].phase = phase] \in Seq(Calls)
        /\ Len([calls EXCEPT ![i].phase = phase]) = Len(calls)
  <2> TAKE phase \in {"sent", "done", "refused", "settling"}
  <2>1. [calls[i] EXCEPT !.phase = phase] \in Calls
    BY <1>1 DEF Calls
  <2>2. QED
    BY <1>1, <2>1 DEF BoardTypeOK
<1>3. CASE CallServed(i)
  <2>1. calls' \in Seq(Calls) /\ Len(calls') = Len(calls)
    BY <1>2, <1>3 DEF CallServed
  <2>2. CASE UNCHANGED <<server, feed>>
    BY <1>3, <2>1, <2>2 DEF CallServed, BoardTypeOK
  <2>3. CASE /\ server' = [server EXCEPT ![calls[i].case] = [status |-> calls[i].status, owner |-> "me"]]
             /\ Send(StatusUpdated(calls[i].case, calls[i].status))
    <3>1. calls[i].case \in BoardCases /\ calls[i].status \in BackendStatuses
      BY <1>1 DEF Calls
    <3>2. feed' \in Seq(Messages \cup {Other}) /\ Len(feed') <= MaxFeed
      BY <2>3, <3>1, MessageShapes, SendKeeps
    <3>3. server' \in [BoardCases -> [status : BackendStatuses, owner : Owners]]
      BY <2>3, <3>1 DEF BoardTypeOK, Owners
    <3>4. QED
      BY <1>3, <2>1, <3>2, <3>3 DEF CallServed, BoardTypeOK
  <2>4. QED
    BY <1>3, <2>2, <2>3 DEF CallServed
<1>4. CASE CallAnswered(i)
  <2>1. calls' \in Seq(Calls) /\ Len(calls') = Len(calls)
    BY <1>2, <1>4 DEF CallAnswered
  <2>2. list' \in Lists \cup {NoRows}
    BY <1>1, <1>4 DEF CallAnswered, Calls, BoardTypeOK
  <2>3. accepting' \subseteq accepting
    BY <1>4 DEF CallAnswered
  <2>4. QED
    BY <1>4, <2>1, <2>2, <2>3 DEF CallAnswered, BoardTypeOK
<1>5. CASE CallSettled(i)
  <2>1. calls' \in Seq(Calls) /\ Len(calls') = Len(calls) - 1
    BY <1>1, <1>5, RemovedSeq DEF CallSettled, BoardTypeOK
  <2>2. fetch' \in Fetches /\ outdated' \in BOOLEAN
    BY <1>5, InvalidatedTypes DEF CallSettled
  <2>3. QED
    BY <1>1, <1>5, <2>1, <2>2 DEF CallSettled, BoardTypeOK
<1>6. QED
  BY <1>3, <1>4, <1>5

-----------------------------------------------------------------------------
(* What the board shows *)

\* A change the list may not show yet is still announced, or a move is not settled:
\* either ends in a new fetch.
Pending ==
    \/ calls # <<>>
    \/ unseen \in Messages
    \/ \E i \in 1 .. Len(feed) : feed[i] \in Messages

OpenPart == [c \in OpenRows |-> RowOf(c)]
MyPart == [c \in MyRows |-> RowOf(c)]

\* What a fetch has read is what the server holds; with no fetch under way, so is the list.
Agrees ==
    IF fetch = NoFetch THEN list \in {NoRows, ServerList}
                       ELSE fetch.open \in {NoRows, OpenPart} /\ fetch.mine \in {NoRows, MyPart}

BoardInv == BoardTypeOK /\ (~outdated /\ ~Pending => Agrees)

\* The two answers together are the list.
LEMMA PartsMakeList == Unified(OpenPart, MyPart) = ServerList
BY DEF Unified, OpenPart, MyPart, ServerList

LEMMA InvalidatedAgrees ==
    ASSUME Invalidated
    PROVE  ~outdated' => Agrees'
BY AskedShape DEF Invalidated, Agrees, Asked, NoFetch

LEMMA FetchAgrees ==
    ASSUME BoardInv, Focus \/ ReadOpen \/ ReadMine \/ FetchLands \/ FetchFails, ~outdated', ~Pending'
    PROVE  Agrees'
<1>1. UNCHANGED <<server, feed, unseen, calls>>
  BY DEF Focus, ReadOpen, ReadMine, FetchLands, FetchFails
<1>2. Pending' = Pending /\ OpenPart' = OpenPart /\ MyPart' = MyPart /\ ServerList' = ServerList
  BY <1>1 DEF Pending, OpenPart, MyPart, ServerList, OpenRows, MyRows, RowOf
<1>3. CASE Focus
  BY <1>3, AskedShape DEF Focus, Agrees, Asked, NoFetch
<1>4. CASE ReadOpen \/ ReadMine
  <2>1. /\ fetch \in Fetches /\ outdated' = outdated /\ NoRows \notin Fetches
        /\ fetch' = [fetch EXCEPT !.open = OpenPart] \/ fetch' = [fetch EXCEPT !.mine = MyPart]
    BY <1>4, AskedShape DEF ReadOpen, ReadMine, OpenPart, MyPart, BoardInv, BoardTypeOK, NoFetch
  <2>2. fetch.open \in {NoRows, OpenPart} /\ fetch.mine \in {NoRows, MyPart}
    BY <1>2, <2>1 DEF BoardInv, Agrees, NoFetch
  <2>3. fetch' \in Fetches
    BY <2>1, ServerParts DEF BoardInv, Fetches, OpenPart, MyPart
  <2>4. fetch'.open \in {NoRows, OpenPart} /\ fetch'.mine \in {NoRows, MyPart}
    BY <2>1, <2>2 DEF Fetches
  <2>5. QED
    BY <1>2, <2>1, <2>3, <2>4 DEF Agrees, NoFetch
<1>5. CASE FetchLands
  <2>1. fetch.open = OpenPart /\ fetch.mine = MyPart
    BY <1>2, <1>5 DEF FetchLands, BoardInv, Agrees
  <2>2. QED
    BY <1>2, <1>5, <2>1, PartsMakeList DEF FetchLands, Agrees
<1>6. CASE FetchFails
  BY <1>6 DEF FetchFails
<1>7. QED
  BY <1>3, <1>4, <1>5, <1>6

\* A message under way after a step, besides those there were.
LEMMA SendPends ==
    ASSUME BoardTypeOK, NEW message \in Messages \cup {Other}, Send(message)
    PROVE  /\ message \in Messages => \E i \in 1 .. Len(feed') : feed'[i] \in Messages
           /\ (\E i \in 1 .. Len(feed) : feed[i] \in Messages) =>
                 \E i \in 1 .. Len(feed') : feed'[i] \in Messages
<1>1. Len(feed) \in Nat
  BY DEF BoardTypeOK
<1>2. QED
  BY <1>1, SendKeeps

LEMMA ListenAgrees ==
    ASSUME BoardInv, JobEvent \/ MessageArrives \/ MessageLost \/ EffectRuns, ~outdated', ~Pending'
    PROVE  Agrees'
<1> USE DEF BoardInv
<1>1. UNCHANGED <<server, calls>>
  BY DEF JobEvent, MessageArrives, MessageLost, EffectRuns
<1>2. OpenPart' = OpenPart /\ MyPart' = MyPart /\ ServerList' = ServerList
  BY <1>1 DEF OpenPart, MyPart, ServerList, OpenRows, MyRows, RowOf
<1>3. CASE JobEvent
  <2>1. ~Pending
    BY <1>1, <1>3, SendPends DEF JobEvent, Pending
  <2>2. QED
    BY <1>2, <1>3, <2>1 DEF JobEvent, Agrees, NoFetch
<1>4. CASE MessageArrives
  <2>1. /\ feed \in Seq(Messages \cup {Other}) /\ feed # <<>>
        /\ Head(feed) = feed[1] /\ feed' = Tail(feed) /\ unseen' = Head(feed)
    BY <1>4 DEF MessageArrives, BoardTypeOK
  <2>2. Head(feed) = Other
    BY <2>1 DEF Pending
  <2>3. unseen \notin Messages /\ list' = list /\ fetch' = fetch /\ ~outdated
    BY <1>4, <2>2, MessageShapes DEF MessageArrives, BoardTypeOK
  <2>4. \A i \in 1 .. Len(feed) : feed[i] \notin Messages
    <3>1. \A i \in 1 .. Len(feed) : i = 1 \/ (i - 1 \in 1 .. Len(feed') /\ feed'[i - 1] = feed[i])
      BY <2>1
    <3>2. QED
      BY <2>1, <2>2, <3>1, MessageShapes DEF Pending
  <2>5. ~Pending
    BY <1>1, <2>3, <2>4 DEF Pending
  <2>6. QED
    BY <1>2, <2>3, <2>5 DEF Agrees, NoFetch
<1>5. CASE MessageLost
  BY <1>5 DEF MessageLost
<1>6. CASE EffectRuns
  <2>1. CASE unseen = Other
    <3>1. ~Pending /\ ~outdated /\ UNCHANGED <<fetch, list>>
      BY <1>1, <1>6, <2>1, MessageShapes DEF EffectRuns, Pending
    <3>2. QED
      BY <1>2, <3>1 DEF Agrees, NoFetch
  <2>2. CASE unseen # Other
    BY <1>6, <2>2, InvalidatedAgrees DEF EffectRuns
  <2>3. QED
    BY <2>1, <2>2
<1>7. QED
  BY <1>3, <1>4, <1>5, <1>6

\* MailMoves and calls leave a message or a call behind, or end in a fetch.
LEMMA MovePends ==
    ASSUME BoardInv, NEW c \in BoardCases, ServerMoves(c) \/ Move(c)
    PROVE  Pending'
<1> USE DEF BoardInv
<1>1. CASE ServerMoves(c)
  <2>1. PICK status \in NextOf[server[c].status] : Send(StatusUpdated(c, status))
    BY <1>1 DEF ServerMoves
  <2>2. StatusUpdated(c, status) \in Messages
    BY <1>1, NextStatuses, MessageShapes DEF ServerMoves
  <2>3. QED
    BY <2>1, <2>2, SendPends DEF Pending
<1>2. CASE Move(c)
  <2>1. \E call : calls' = Append(calls, call)
    BY <1>2 DEF Move
  <2>2. calls \in Seq(Calls)
    BY DEF BoardTypeOK
  <2>3. calls' # <<>>
    BY <2>1, <2>2
  <2>4. QED
    BY <2>3 DEF Pending
<1>3. QED
  BY <1>1, <1>2

LEMMA CallAgrees ==
    ASSUME BoardInv, NEW i \in DOMAIN calls, CallServed(i) \/ CallAnswered(i) \/ CallSettled(i),
           ~outdated', ~Pending'
    PROVE  Agrees'
<1>1. CASE CallServed(i) \/ CallAnswered(i)
  <2>1. DOMAIN calls' = DOMAIN calls
    BY <1>1 DEF CallServed, CallAnswered
  <2>2. calls' # <<>>
    BY <2>1
  <2>3. QED
    BY <2>2 DEF Pending
<1>2. CASE CallSettled(i)
  BY <1>2, InvalidatedAgrees DEF CallSettled
<1>3. QED
  BY <1>1, <1>2

LEMMA BoardInvariant == BoardSpec => []BoardInv
<1>1. BoardInit => BoardInv
  <2> SUFFICES ASSUME BoardInit
               PROVE  BoardInv
    OBVIOUS
  <2>1. BoardTypeOK
    <3>1. /\ <<>> \in Seq(Calls) /\ <<>> \in Seq(Messages \cup {Other}) /\ Len(<<>>) = 0
          /\ MaxFeed \in Nat /\ MaxCalls \in Nat /\ MaxMoves \in Nat
      BY BoardAssumption, EmptySeq
    <3>2. server \in [BoardCases -> [status : BackendStatuses, owner : Owners]]
      BY BoardAssumption DEF BoardInit
    <3>3. feed \in Seq(Messages \cup {Other}) /\ Len(feed) <= MaxFeed
      BY <3>1 DEF BoardInit
    <3>4. calls \in Seq(Calls) /\ Len(calls) <= clicks /\ clicks <= MaxCalls /\ clicks \in Nat
      BY <3>1 DEF BoardInit
    <3>5. others \in 0 .. MaxMoves
      BY <3>1 DEF BoardInit
    <3>6. QED
      BY <3>2, <3>3, <3>4, <3>5 DEF BoardInit, BoardTypeOK, NoFetch
  <2>2. Agrees
    BY DEF BoardInit, Agrees, NoFetch
  <2>3. QED
    BY <2>1, <2>2 DEF BoardInv
<1>2. BoardInv /\ [BoardNext]_boardVars => BoardInv'
  <2> SUFFICES ASSUME BoardInv, [BoardNext]_boardVars
               PROVE  BoardInv'
    OBVIOUS
  <2>1. CASE UNCHANGED boardVars
    <3>1. BoardTypeOK'
      BY <2>1 DEF boardVars, BoardInv, BoardTypeOK
    <3>2. Pending' = Pending /\ Agrees' = Agrees /\ outdated' = outdated
      BY <2>1 DEF boardVars, Pending, Agrees, OpenPart, MyPart, ServerList, OpenRows, MyRows, RowOf, NoFetch
    <3>3. QED
      BY <3>1, <3>2 DEF BoardInv
  <2>2. CASE Focus \/ ReadOpen \/ ReadMine \/ FetchLands \/ FetchFails
    BY <2>2, FetchTypes, FetchAgrees DEF BoardInv
  <2>3. CASE JobEvent \/ MessageArrives \/ MessageLost \/ EffectRuns
    BY <2>3, ListenTypes, ListenAgrees DEF BoardInv
  <2>4. ASSUME NEW c \in BoardCases, ServerMoves(c) \/ Move(c)
        PROVE  BoardInv'
    BY <2>4, MoveTypes, MovePends DEF BoardInv
  <2>5. ASSUME NEW i \in DOMAIN calls, CallServed(i) \/ CallAnswered(i) \/ CallSettled(i)
        PROVE  BoardInv'
    BY <2>5, CallTypes, CallAgrees DEF BoardInv
  <2>6. QED
    BY <2>1, <2>2, <2>3, <2>4, <2>5 DEF BoardNext
<1>3. QED
  BY <1>1, <1>2, PTL DEF BoardSpec

\* The cached list, fetches, messages and calls keep their types.
THEOREM BoardTypes == BoardSpec => []BoardTypeOK
<1>1. BoardInv => BoardTypeOK
  BY DEF BoardInv
<1>2. QED
  BY <1>1, BoardInvariant, PTL

\* For any cases, events, fetches and moves: a board on which nothing is under way shows
\* the server's list, unless a message or a fetch was lost.
THEOREM SettledTrue == BoardSpec => []SettledIsTrue
<1>1. BoardInv => SettledIsTrue
  <2> SUFFICES ASSUME BoardInv, Settled, ~outdated
               PROVE  list = ServerList
    BY DEF SettledIsTrue
  <2>1. ~Pending
    BY MessageShapes DEF Settled, Pending
  <2>2. QED
    BY <2>1 DEF BoardInv, Agrees, Settled
<1>2. QED
  BY <1>1, BoardInvariant, PTL

\* On the server's list every button leads where the server lets the case go.
LEMMA ServerOffers ==
    ASSUME BoardTypeOK, list = ServerList, NEW c \in DOMAIN list, NEW column \in MovesOf(c)
    PROVE  Optimistic(column) \in NextOf[server[c].status]
<1>1. /\ c \in BoardCases /\ list[c] = RowOf(c) /\ server[c].status \in BackendStatuses
      /\ server[c].owner = Nobody => server[c].status = "new"
  BY BoardAssumption DEF ServerList, OpenRows, MyRows, RowOf, BoardTypeOK
<1> DEFINE status == server[c].status
           shown == ColumnOf(status, server[c].owner)
<1>2. column \in ToSet(Columns) /\ column \in Offers(CardOf(c), StudentOf[c] \in accepting)
      /\ CardOf(c).status = shown
  BY <1>1 DEF MovesOf, CardOf, Card, RowOf
<1>3. column \in {"new", "accepted", "scheduled", "in_progress", "resolved"}
  BY <1>2 DEF ToSet, Columns
<1>4. \/ shown = "new" /\ column = "accepted"
      \/ shown = "scheduled" /\ column = "in_progress"
      \/ shown = "in_progress" /\ column = "resolved"
  <2>1. shown \in {"new", "accepted", "scheduled", "in_progress", "resolved"}
    BY DEF ColumnOf, FromBackend
  <2> HIDE DEF shown
  <2>2. QED
    BY <1>2, <1>3, <2>1 DEF Offers
<1>5. /\ shown = "new" => status = "new"
      /\ shown = "scheduled" => status = "booked"
      /\ shown = "in_progress" => status = "supporting"
  BY <1>1 DEF ColumnOf, FromBackend, BackendStatuses
<1> HIDE DEF shown
<1>6. QED
  BY <1>4, <1>5 DEF Optimistic, ToBackend, NextOf

\* A settled board offers no move that the server would refuse.
THEOREM OfferedLegal == BoardSpec => []OfferedIsLegal
<1>1. BoardInv => OfferedIsLegal
  <2> SUFFICES ASSUME BoardInv, Settled, ~outdated
               PROVE  \A c \in DOMAIN list : \A column \in MovesOf(c) :
                          Optimistic(column) \in NextOf[server[c].status]
    BY DEF OfferedIsLegal
  <2>1. ~Pending
    BY MessageShapes DEF Settled, Pending
  <2>2. list = ServerList
    BY <2>1 DEF BoardInv, Agrees, Settled
  <2>3. QED
    BY <2>2, ServerOffers DEF BoardInv
<1>2. QED
  BY <1>1, BoardInvariant, PTL

-----------------------------------------------------------------------------
(* The sheet of the email *)

\* The fields of records that are updated in place, and their types.
WellShaped(ms) ==
    ms = [c \in MailCases |-> [status |-> ms[c].status, text |-> ms[c].text, link |-> ms[c].link,
                               sending |-> ms[c].sending]]
MailsTyped(ms) ==
    \A c \in MailCases : /\ ms[c].status \in {"unavailable", "generating", "draft", "sent"}
                         /\ ms[c].sending \in {"none", "queued", "mailed"}
Shapes ==
    /\ WellShaped(mails)
    /\ sheet = [case |-> sheet.case, session |-> sheet.session, text |-> sheet.text,
                typed |-> sheet.typed, sent |-> sheet.sent]
    /\ received = [c \in MailCases |-> received[c]] /\ chosen = [c \in MailCases |-> chosen[c]]

\* Whatever was typed, is saved or sent is of a case there is.
CasesExist ==
    /\ debounced # NoMailCase => debounced.case \in MailCases
    /\ \A s \in saving : s.case \in MailCases
    /\ \A d \in sends : d = [case |-> d.case, text |-> d.text, phase |-> d.phase] /\ d.case \in MailCases

\* A sheet that is closed is as new; an open one has a number of its own.
SheetSession ==
    IF sheet.case = NoMailCase THEN sheet.session = 0 /\ ~sheet.typed ELSE sheet.session \in 1 .. sessions

\* A send carries a text its advisor chose; after its first call, and until the
\* worker has read it, the server holds such a text with the link, or the mail is
\* sent, unless it was disturbed.
Chosen(d) == d.text # EmptyText /\ d.text \in chosen[d.case]
Holds(c) == mails[c].status = "draft" /\ mails[c].text \in chosen[c] /\ mails[c].link
SettledFor(d) == d.phase = "nudging" /\ d.case \notin disturbed => mails[d.case].status = "sent" \/ Holds(d.case)
QueuedHolds(c) == mails[c].sending = "queued" /\ c \notin disturbed => Holds(c)

SendsAreSound == \A d \in sends : Chosen(d) /\ SettledFor(d)
QueueIsSound == \A c \in MailCases : QueuedHolds(c)

MailInv ==
    /\ MailTypeOK /\ Shapes /\ CasesExist /\ SheetSession
    /\ SendsAreSound /\ QueueIsSound /\ ReceivedWasChosen

-----------------------------------------------------------------------------
(* Operators *)

\* Bringing a text of the cache into the sheet touches nothing but an untyped text.
LEMMA SyncedKeeps ==
    ASSUME NEW cache, NEW lines, Shapes
    PROVE  LET s == Synced(sheet, cache, lines)
           IN  /\ s.case = sheet.case /\ s.session = sheet.session /\ s.typed = sheet.typed
               /\ s = [case |-> s.case, session |-> s.session, text |-> s.text, typed |-> s.typed, sent |-> s.sent]
               /\ sheet.typed => s = sheet
<1> DEFINE s == Synced(sheet, cache, lines)
<1>1. s = sheet \/ s = [sheet EXCEPT !.text = Incoming(sheet.case, cache, lines)]
  BY DEF Synced
<1>2. sheet.typed => s = sheet
  BY DEF Synced
<1>3. QED
  BY <1>1, <1>2 DEF Shapes

Mail(status, text, link, sending) == [status |-> status, text |-> text, link |-> link, sending |-> sending]

\* A mail is its four fields.
LEMMA MailFields ==
    ASSUME MailInv, NEW c \in MailCases
    PROVE  /\ mails[c] = Mail(mails[c].status, mails[c].text, mails[c].link, mails[c].sending)
           /\ mails[c].status \in {"unavailable", "generating", "draft", "sent"}
           /\ mails[c].sending \in {"none", "queued", "mailed"}
<1>1. mails[c] = Mail(mails[c].status, mails[c].text, mails[c].link, mails[c].sending)
  BY DEF MailInv, Shapes, WellShaped, Mail
<1>2. QED
  BY <1>1 DEF MailInv, MailTypeOK

\* What a change of the status or the sending of one mail does.
MailMoves(c, status, sending) ==
    \/ status = mails[c].status /\ mails' = [mails EXCEPT ![c] = [@ EXCEPT !.sending = sending]]
    \/ sending = mails[c].sending /\ mails' = [mails EXCEPT ![c] = [@ EXCEPT !.status = status]]

LEMMA OneMoves ==
    ASSUME MailInv, NEW c \in MailCases,
           NEW status \in {"unavailable", "generating", "draft", "sent"}, NEW sending \in {"none", "queued", "mailed"},
           MailMoves(c, status, sending)
    PROVE  /\ WellShaped(mails') /\ MailsTyped(mails')
           /\ \A k \in MailCases \ {c} : mails'[k] = mails[k]
           /\ mails'[c] = Mail(status, mails[c].text, mails[c].link, sending)
<1>1. PICK m : m = mails[c]
  OBVIOUS
<1>2. m = Mail(m.status, m.text, m.link, m.sending)
  BY <1>1, MailFields
<1>3. mails' = [mails EXCEPT ![c] = Mail(status, mails[c].text, mails[c].link, sending)]
  <2>1. /\ [m EXCEPT !.sending = sending] = Mail(m.status, m.text, m.link, sending)
        /\ [m EXCEPT !.status = status] = Mail(status, m.text, m.link, m.sending)
    BY <1>2 DEF Mail
  <2>2. QED
    BY <1>1, <2>1, Zenon DEF MailMoves
<1>4. QED
  BY <1>3 DEF MailInv, Shapes, WellShaped, MailsTyped, MailTypeOK, Mail

\* Storing a text leaves the other cases alone.
LEMMA StoredKeeps ==
    ASSUME MailInv, NEW c \in MailCases, NEW text, NEW link, mails' = Stored(c, text, link)
    PROVE  /\ WellShaped(mails')
           /\ MailsTyped(mails')
           /\ \A k \in MailCases \ {c} : mails'[k] = mails[k]
<1>1. CASE text # EmptyText /\ mails[c].status \in {"unavailable", "draft"}
  <2>1. mails' = [mails EXCEPT ![c] = [status |-> "draft", text |-> text, link |-> link, sending |-> mails[c].sending]]
    BY <1>1 DEF Stored
  <2>2. QED
    BY <1>1, <2>1 DEF MailInv, Shapes, MailTypeOK, WellShaped, MailsTyped
<1>2. CASE ~(text # EmptyText /\ mails[c].status \in {"unavailable", "draft"})
  <2>1. mails' = mails
    BY <1>2 DEF Stored
  <2>2. QED
    BY <1>2, <2>1 DEF MailInv, Shapes, MailTypeOK, MailsTyped
<1>3. QED
  BY <1>1, <1>2

-----------------------------------------------------------------------------
(* Steps *)

\* Steps that leave the mails alone and begin no send.
LEMMA MailsKept ==
    ASSUME MailInv, UNCHANGED <<mails, received, chosen, disturbed>>, sends' \subseteq sends
    PROVE  SendsAreSound' /\ QueueIsSound' /\ ReceivedWasChosen' /\ MailsTyped(mails') /\ WellShaped(mails')
<1>1. SendsAreSound' /\ QueueIsSound'
  BY DEF MailInv, SendsAreSound, QueueIsSound, Chosen, SettledFor, QueuedHolds, Holds
<1>2. ReceivedWasChosen'
  BY DEF MailInv, ReceivedWasChosen
<1>3. MailsTyped(mails') /\ WellShaped(mails')
  BY DEF MailInv, MailTypeOK, Shapes, MailsTyped
<1>4. QED
  BY <1>1, <1>2, <1>3

\* Steps of the cache and of reads: at most the sheet takes a text over.
LEMMA CacheStep ==
    ASSUME MailInv, sheet' = sheet \/ (\E cache, lines : sheet' = Synced(sheet, cache, lines)) \/ sheet' = Closed0,
           UNCHANGED <<serverVars, debounced, saving, texts, ghostVars>>, sends' \subseteq sends
    PROVE  MailInv'
<1>1. SendsAreSound' /\ QueueIsSound' /\ ReceivedWasChosen' /\ MailsTyped(mails') /\ WellShaped(mails')
  BY MailsKept DEF serverVars, ghostVars
<1>2. Shapes' /\ sheet'.case \in MailCases \cup {NoMailCase} /\ SheetSession'
  <2>1. CASE sheet' = sheet
    BY <1>1, <2>1 DEF MailInv, Shapes, WellShaped, MailTypeOK, SheetSession, serverVars, ghostVars
  <2>2. ASSUME NEW cache, NEW lines, sheet' = Synced(sheet, cache, lines)
        PROVE  Shapes' /\ sheet'.case \in MailCases \cup {NoMailCase} /\ SheetSession'
    BY <1>1, <2>2, SyncedKeeps DEF MailInv, Shapes, WellShaped, MailTypeOK, SheetSession, serverVars, ghostVars
  <2>3. CASE sheet' = Closed0
    BY <1>1, <2>3 DEF MailInv, Shapes, WellShaped, MailTypeOK, SheetSession, serverVars, ghostVars, Closed0
  <2>4. QED
    BY <2>1, <2>2, <2>3
<1>3. MailTypeOK' /\ CasesExist'
  BY <1>1, <1>2 DEF MailInv, MailTypeOK, MailsTyped, CasesExist, ghostVars
<1>4. QED
  BY <1>1, <1>2, <1>3 DEF MailInv

\* Steps that change the mail of one case c: the sends of c are disturbed, or
\* their text is there.
LEMMA ServerStep ==
    ASSUME MailInv, NEW c \in MailCases,
           WellShaped(mails'),
           MailsTyped(mails'),
           \A k \in MailCases \ {c} : mails'[k] = mails[k],
           disturbed \subseteq disturbed', disturbed' \subseteq disturbed \cup {c},
           \A d \in sends : d.case = c => SettledFor(d)',
           QueuedHolds(c)',
           texts' \in 0 .. MaxTexts,
           UNCHANGED <<received, sheet, debounced, sends, chosen, sessions>>, saving' \subseteq saving
    PROVE  MailInv'
<1>1. MailTypeOK'
  BY DEF MailInv, MailTypeOK, MailsTyped
<1>2. Shapes' /\ CasesExist' /\ SheetSession'
  BY DEF MailInv, Shapes, WellShaped, CasesExist, SheetSession
<1>3. \A k \in MailCases \ {c} : Holds(k) => Holds(k)'
  BY DEF Holds
<1>4. \A d \in sends : d.case # c => SettledFor(d)'
  BY <1>3 DEF MailInv, SendsAreSound, SettledFor, CasesExist
<1>5. SendsAreSound'
  BY <1>4 DEF MailInv, SendsAreSound, Chosen
<1>6. QueueIsSound'
  BY <1>3 DEF MailInv, QueueIsSound, QueuedHolds
<1>7. ReceivedWasChosen'
  BY DEF MailInv, ReceivedWasChosen
<1>8. QED
  BY <1>1, <1>2, <1>5, <1>6, <1>7 DEF MailInv

LEMMA EditStep ==
    ASSUME MailInv, Type \/ Restore \/ DebounceEnds \/ CloseSheet \/ (\E c \in MailCases : OpenSheet(c))
    PROVE  MailInv'
<1> USE MailAssumption
<1>1. CASE Type
  <2>1. /\ sheet.case \in MailCases /\ texts' \in 0 .. MaxTexts
        /\ sheet' = [sheet EXCEPT !.text = sheet'.text, !.typed = TRUE]
        /\ debounced'.case = sheet.case
    BY <1>1 DEF Type, IsOpen, MailInv, MailTypeOK, Shapes
  <2>2. /\ sheet'.case = sheet.case /\ sheet'.session = sheet.session
        /\ sheet' = [case |-> sheet'.case, session |-> sheet'.session, text |-> sheet'.text,
                     typed |-> sheet'.typed, sent |-> sheet'.sent]
    BY <2>1 DEF MailInv, Shapes
  <2>3. UNCHANGED <<serverVars, cacheVars, netVars, ghostVars>>
    BY <1>1 DEF Type
  <2>4. QED
    BY <2>1, <2>2, <2>3, MailsKept DEF MailInv, MailTypeOK, MailsTyped, Shapes, WellShaped, CasesExist, SheetSession, serverVars, netVars, ghostVars
<1>2. CASE Restore
  <2>1. /\ sheet'.case = sheet.case /\ sheet'.session = sheet.session /\ sheet'.typed = sheet.typed
        /\ sheet' = [case |-> sheet'.case, session |-> sheet'.session, text |-> sheet'.text,
                     typed |-> sheet'.typed, sent |-> sheet'.sent]
    BY <1>2 DEF Restore, MailInv, Shapes
  <2>2. UNCHANGED <<serverVars, cacheVars, netVars, texts, ghostVars>> /\ debounced' = NoMailCase
    BY <1>2 DEF Restore
  <2>3. QED
    BY <2>1, <2>2, MailsKept DEF MailInv, MailTypeOK, MailsTyped, Shapes, WellShaped, CasesExist, SheetSession, serverVars, netVars, ghostVars
<1>3. CASE DebounceEnds
  BY <1>3, MailsKept DEF DebounceEnds, MailInv, MailTypeOK, MailsTyped, Shapes, WellShaped, CasesExist, SheetSession, serverVars, cacheVars, ghostVars
<1>4. CASE CloseSheet
  BY <1>4, CacheStep DEF CloseSheet, netVars
<1>5. ASSUME NEW c \in MailCases, OpenSheet(c)
      PROVE  MailInv'
  <2>1. /\ sessions' = sessions + 1 /\ sessions' \in 0 .. MaxSessions
        /\ sheet'.case = c /\ sheet'.session = sessions'
        /\ sheet' = [case |-> sheet'.case, session |-> sheet'.session, text |-> sheet'.text,
                     typed |-> sheet'.typed, sent |-> sheet'.sent]
    BY <1>5 DEF OpenSheet, MailInv, MailTypeOK
  <2>2. sheet'.session \in 1 .. sessions' /\ sheet'.case # NoMailCase
    BY <2>1 DEF MailInv, MailTypeOK
  <2>3. UNCHANGED <<serverVars, debounced, saving, sends, texts, chosen, disturbed>>
    BY <1>5 DEF OpenSheet
  <2>4. SheetSession'
    BY <2>2 DEF SheetSession
  <2>5. QED
    BY <2>1, <2>3, <2>4, MailsKept DEF MailInv, MailTypeOK, MailsTyped, Shapes, WellShaped, CasesExist, serverVars
<1>6. QED
  BY <1>1, <1>2, <1>3, <1>4, <1>5

LEMMA SaveStep ==
    ASSUME MailInv, NEW s \in saving, SaveServed(s)
    PROVE  MailInv'
<1>1. s.case \in MailCases /\ texts' \in 0 .. MaxTexts
  BY DEF MailInv, MailTypeOK, CasesExist, SaveServed
<1>2. CASE UNCHANGED <<mails, disturbed>>
  BY <1>1, <1>2, MailsKept DEF SaveServed, MailInv, MailTypeOK, MailsTyped, Shapes, CasesExist, SheetSession
<1>3. CASE /\ mails' = Stored(s.case, s.text, FALSE)
           /\ disturbed' = IF mails' # mails /\ BeingSent(s.case) THEN disturbed \cup {s.case} ELSE disturbed
  <2>s. sends' = sends /\ chosen' = chosen
    BY DEF SaveServed
  <2>h. s.case \in disturbed' \/ mails' = mails \/ ~BeingSent(s.case)
    BY <1>3
  <2>1. \A d \in sends : d.case = s.case => SettledFor(d)'
    BY <2>s, <2>h, <1>3 DEF MailInv, SendsAreSound, SettledFor, Holds, BeingSent
  <2>2. QueuedHolds(s.case)'
    <3>1. mails'[s.case].sending = mails[s.case].sending
      BY <1>1, <1>3 DEF Stored, MailInv, Shapes, WellShaped
    <3>2. QED
      BY <2>s, <2>h, <3>1, <1>1, <1>3 DEF MailInv, QueueIsSound, QueuedHolds, Holds, BeingSent
  <2>3. /\ WellShaped(mails')
        /\ MailsTyped(mails')
        /\ \A k \in MailCases \ {s.case} : mails'[k] = mails[k]
    BY <1>1, <1>3, StoredKeeps
  <2>4. disturbed \subseteq disturbed' /\ disturbed' \subseteq disturbed \cup {s.case} /\ saving' \subseteq saving
    BY <1>3 DEF SaveServed
  <2>5. UNCHANGED <<received, sheet, debounced, sends, chosen, sessions>>
    BY DEF SaveServed
  <2>6. QED
    BY <1>1, <2>1, <2>2, <2>3, <2>4, <2>5, ServerStep
<1>4. QED
  BY <1>2, <1>3 DEF SaveServed

LEMMA GenerateStep ==
    ASSUME MailInv, GenerateDraft
    PROVE  MailInv'
<1>1. sheet.case \in MailCases /\ texts' \in 0 .. MaxTexts
  BY DEF MailInv, MailTypeOK, GenerateDraft, IsOpen
<1> DEFINE Rest == UNCHANGED <<received, sheet, debounced, saving, sends, chosen, sessions>>
<1>r. Rest
  BY DEF GenerateDraft
<1>2. CASE mails[sheet.case].status = "generating"
  <2>1. UNCHANGED <<mails, disturbed>>
    BY <1>2 DEF GenerateDraft
  <2>2. QED
    BY <1>1, <1>r, <2>1, MailsKept DEF MailInv, MailTypeOK, MailsTyped, Shapes, CasesExist, SheetSession
<1>3. CASE mails[sheet.case].status # "generating"
  <2>1. /\ mails' = [mails EXCEPT ![sheet.case] = [status |-> "generating", text |-> EmptyText,
                                                   link |-> FALSE, sending |-> "none"]]
        /\ disturbed' = IF BeingSent(sheet.case) THEN disturbed \cup {sheet.case} ELSE disturbed
    BY <1>3 DEF GenerateDraft
  <2>2. \A d \in sends : d.case = sheet.case => SettledFor(d)'
    BY <2>1 DEF SettledFor, BeingSent
  <2>q. QueuedHolds(sheet.case)'
    <3>1. mails'[sheet.case].sending = "none"
      BY <1>1, <2>1 DEF MailInv, Shapes, WellShaped
    <3>2. QED
      BY <1>r, <3>1 DEF QueuedHolds
  <2>3. /\ WellShaped(mails')
        /\ MailsTyped(mails')
        /\ \A k \in MailCases \ {sheet.case} : mails'[k] = mails[k]
    BY <1>1, <2>1 DEF MailInv, Shapes, WellShaped, MailsTyped, MailTypeOK
  <2>4. disturbed \subseteq disturbed' /\ disturbed' \subseteq disturbed \cup {sheet.case}
    BY <2>1
  <2>5. saving' \subseteq saving /\ UNCHANGED <<received, sheet, debounced, sends, chosen, sessions>>
    BY <1>r
  <2> HIDE DEF Rest
  <2>6. QED
    BY <1>1, <2>2, <2>q, <2>3, <2>4, <2>5, ServerStep
<1>4. QED
  BY <1>2, <1>3

\* A mail that is being drafted is not the one of an undisturbed send.
LEMMA DraftStep ==
    ASSUME MailInv, NEW c \in MailCases, ServerDrafts(c)
    PROVE  MailInv'
<1>1. texts' \in 0 .. MaxTexts
  BY MailAssumption DEF MailInv, MailTypeOK, ServerDrafts
<1>2. /\ \A d \in sends : d.case = c => d.phase # "nudging" \/ c \in disturbed
      /\ mails[c].sending # "queued" \/ c \in disturbed
  BY DEF ServerDrafts, MailInv, SendsAreSound, SettledFor, QueueIsSound, QueuedHolds, Holds
<1>3. /\ WellShaped(mails')
      /\ MailsTyped(mails')
      /\ \A k \in MailCases \ {c} : mails'[k] = mails[k]
  <2>1. CASE mails' = [mails EXCEPT ![c] = [status |-> "draft", text |-> texts', link |-> FALSE, sending |-> @.sending]]
    BY <2>1 DEF MailInv, Shapes, WellShaped, MailsTyped, MailTypeOK
  <2>2. CASE mails' = [mails EXCEPT ![c] = [status |-> "unavailable", text |-> EmptyText, link |-> FALSE, sending |-> @.sending]]
    BY <2>2 DEF MailInv, Shapes, WellShaped, MailsTyped, MailTypeOK
  <2>3. QED
    BY <2>1, <2>2 DEF ServerDrafts
<1>4. \A d \in sends : d.case = c => SettledFor(d)'
  BY <1>2 DEF ServerDrafts, SettledFor, ghostVars
<1>5. QueuedHolds(c)'
  BY <1>2 DEF ServerDrafts, QueuedHolds, ghostVars, MailInv, Shapes, WellShaped
<1>6. disturbed' = disturbed /\ UNCHANGED <<received, sheet, debounced, sends, chosen, sessions, saving>>
  BY DEF ServerDrafts, ghostVars
<1>7. QED
  BY <1>1, <1>3, <1>4, <1>5, <1>6, ServerStep

LEMMA ClickStep ==
    ASSUME MailInv, SendClick
    PROVE  MailInv'
<1>1. sheet.case \in MailCases /\ sheet.text # EmptyText
  BY DEF SendClick, IsOpen, CanSend, MailInv, MailTypeOK
<1>2. /\ sheet'.case = sheet.case /\ sheet'.session = sheet.session /\ sheet'.typed = sheet.typed
      /\ sheet' = [case |-> sheet'.case, session |-> sheet'.session, text |-> sheet'.text,
                   typed |-> sheet'.typed, sent |-> sheet'.sent]
  BY DEF SendClick, MailInv, Shapes
<1>3. /\ chosen' = [chosen EXCEPT ![sheet.case] = @ \cup {sheet.text}]
      /\ \A c \in MailCases : chosen[c] \subseteq chosen'[c]
      /\ chosen' = [c \in MailCases |-> chosen'[c]]
      /\ sheet.text \in chosen'[sheet.case]
  BY <1>1 DEF SendClick, MailInv, Shapes
<1>4. /\ UNCHANGED <<serverVars, cacheVars, debounced, saving, requests, jobs, texts, disturbed, sessions>>
      /\ sends' = sends \cup {[case |-> sheet.case, text |-> sheet.text, phase |-> "updating"]}
  BY DEF SendClick
<1>5. MailTypeOK' /\ Shapes' /\ SheetSession'
  BY <1>2, <1>3, <1>4 DEF MailInv, MailTypeOK, Shapes, WellShaped, SheetSession, serverVars
<1>6. CasesExist'
  BY <1>1, <1>4 DEF MailInv, CasesExist
<1>7. SendsAreSound' /\ QueueIsSound'
  <2>1. \A c \in MailCases : Holds(c) => Holds(c)'
    BY <1>3, <1>4 DEF Holds, serverVars
  <2>2. SendsAreSound'
    BY <1>1, <1>3, <1>4, <2>1 DEF MailInv, SendsAreSound, Chosen, SettledFor, CasesExist, serverVars
  <2>3. QueueIsSound'
    BY <1>4, <2>1 DEF MailInv, QueueIsSound, QueuedHolds, serverVars
  <2>4. QED
    BY <2>2, <2>3
<1>8. ReceivedWasChosen'
  BY <1>3, <1>4 DEF MailInv, ReceivedWasChosen, serverVars
<1>9. QED
  BY <1>5, <1>6, <1>7, <1>8 DEF MailInv

\* The first call of a send stores its text with the link.
LEMMA UpdateStep ==
    ASSUME MailInv, NEW d \in sends, UpdateServed(d)
    PROVE  MailInv'
<1> DEFINE e == [d EXCEPT !.phase = "nudging"]
<1>1. /\ d.case \in MailCases /\ d.text # EmptyText /\ d.text \in chosen[d.case]
      /\ d = [case |-> d.case, text |-> d.text, phase |-> d.phase]
  BY DEF MailInv, SendsAreSound, Chosen, CasesExist
<1>2. e = [case |-> d.case, text |-> d.text, phase |-> "nudging"]
  BY <1>1
<1>3. /\ WellShaped(mails')
      /\ MailsTyped(mails')
      /\ \A k \in MailCases \ {d.case} : mails'[k] = mails[k]
      /\ mails'[d.case] = [status |-> "draft", text |-> d.text, link |-> TRUE, sending |-> mails[d.case].sending]
  <2>1. mails' = [mails EXCEPT ![d.case] = [status |-> "draft", text |-> d.text, link |-> TRUE,
                                            sending |-> mails[d.case].sending]]
    BY <1>1 DEF UpdateServed, Stored
  <2>2. QED
    BY <1>1, <2>1 DEF MailInv, Shapes, WellShaped, MailsTyped, MailTypeOK
<1>4. /\ UNCHANGED <<received, cacheVars, sheet, debounced, saving, requests, jobs, texts, ghostVars>>
      /\ sends' = (sends \ {d}) \cup {e}
  BY DEF UpdateServed
<1>5. MailTypeOK' /\ Shapes' /\ SheetSession'
  BY <1>3, <1>4 DEF MailInv, MailTypeOK, MailsTyped, Shapes, SheetSession, ghostVars
<1>6. CasesExist'
  BY <1>1, <1>2, <1>4 DEF MailInv, CasesExist
<1>7. \A f \in sends' : Chosen(f)'
  BY <1>1, <1>2, <1>4 DEF MailInv, SendsAreSound, Chosen, ghostVars
<1>8. Holds(d.case)' /\ \A c \in MailCases \ {d.case} : Holds(c) => Holds(c)'
  BY <1>1, <1>3, <1>4 DEF Holds, ghostVars
<1>9. \A f \in sends' : SettledFor(f)'
  <2> SUFFICES ASSUME NEW f \in sends', f.case # d.case
               PROVE  SettledFor(f)'
    BY <1>8 DEF SettledFor
  <2>1. f \in sends
    BY <1>2, <1>4
  <2>2. QED
    BY <1>3, <1>4, <1>8, <2>1 DEF MailInv, SendsAreSound, SettledFor, CasesExist, ghostVars
<1>10. QueueIsSound'
  BY <1>3, <1>4, <1>8 DEF MailInv, QueueIsSound, QueuedHolds, ghostVars
<1>11. ReceivedWasChosen'
  BY <1>4 DEF MailInv, ReceivedWasChosen, ghostVars
<1>12. QED
  BY <1>5, <1>6, <1>7, <1>9, <1>10, <1>11 DEF MailInv, SendsAreSound

\* The second call queues what the server holds.
LEMMA NudgeStep ==
    ASSUME MailInv, NEW d \in sends, NudgeServed(d)
    PROVE  MailInv'
<1> DEFINE e == [d EXCEPT !.phase = "answered"]
<1>1. /\ d.case \in MailCases /\ d.text # EmptyText /\ d.text \in chosen[d.case]
      /\ d = [case |-> d.case, text |-> d.text, phase |-> d.phase]
  BY DEF MailInv, SendsAreSound, Chosen, CasesExist
<1>2. e = [case |-> d.case, text |-> d.text, phase |-> "answered"]
  BY <1>1
<1>3. /\ WellShaped(mails')
      /\ MailsTyped(mails')
      /\ \A k \in MailCases \ {d.case} : mails'[k] = mails[k]
      /\ mails'[d.case] = [status |-> mails[d.case].status, text |-> mails[d.case].text,
                           link |-> mails[d.case].link, sending |-> "queued"]
  <2>1. mails' = [mails EXCEPT ![d.case] = [@ EXCEPT !.sending = "queued"]]
    BY DEF NudgeServed
  <2>2. mails[d.case].status \in {"unavailable", "generating", "draft", "sent"}
    BY <1>1, MailFields
  <2>3. QED
    BY <1>1, <2>1, <2>2, OneMoves DEF Mail, MailMoves
<1>4. /\ UNCHANGED <<received, cacheVars, sheet, debounced, saving, requests, jobs, texts, ghostVars>>
      /\ sends' = (sends \ {d}) \cup {e}
  BY DEF NudgeServed
<1>5. MailTypeOK' /\ Shapes' /\ SheetSession'
  BY <1>3, <1>4 DEF MailInv, MailTypeOK, MailsTyped, Shapes, SheetSession, ghostVars
<1>6. CasesExist'
  BY <1>1, <1>2, <1>4 DEF MailInv, CasesExist
<1>7. \A c \in MailCases : Holds(c) => Holds(c)'
  BY <1>3, <1>4 DEF Holds, ghostVars
<1>8. SendsAreSound'
  BY <1>1, <1>2, <1>3, <1>4, <1>7 DEF MailInv, SendsAreSound, Chosen, SettledFor, CasesExist, ghostVars
<1>9. QueueIsSound'
  <2>1. d.case \notin disturbed => Holds(d.case)
    BY DEF NudgeServed, MailInv, SendsAreSound, SettledFor
  <2>2. QED
    BY <1>1, <1>3, <1>4, <1>7, <2>1 DEF MailInv, QueueIsSound, QueuedHolds, ghostVars
<1>10. ReceivedWasChosen'
  BY <1>4 DEF MailInv, ReceivedWasChosen, ghostVars
<1>11. QED
  BY <1>5, <1>6, <1>8, <1>9, <1>10 DEF MailInv

\* The worker mails what has been held for it, and marks it.
LEMMA WorkerStep ==
    ASSUME MailInv, NEW c \in MailCases, MailLeaves(c) \/ MailMarked(c)
    PROVE  MailInv'
<1>1. UNCHANGED <<cacheVars, sheet, debounced, netVars, texts, ghostVars>>
  BY DEF MailLeaves, MailMarked
<1>2. /\ WellShaped(mails')
      /\ MailsTyped(mails')
      /\ \A k \in MailCases \ {c} : mails'[k] = mails[k]
      /\ mails'[c].sending # "queued"
      /\ \/ ~Holds(c)
         \/ mails'[c].status = "sent"
         \/ Holds(c)'
  <2>1. CASE MailLeaves(c)
    <3>1. mails' = [mails EXCEPT ![c] = [@ EXCEPT !.sending = "mailed"]]
      BY <2>1 DEF MailLeaves
    <3>2. mails[c].status \in {"unavailable", "generating", "draft", "sent"}
      BY MailFields
    <3>3. /\ WellShaped(mails') /\ MailsTyped(mails')
          /\ \A k \in MailCases \ {c} : mails'[k] = mails[k]
          /\ mails'[c] = Mail(mails[c].status, mails[c].text, mails[c].link, "mailed")
      BY <3>1, <3>2, OneMoves DEF MailMoves
    <3>4. Holds(c) => Holds(c)'
      BY <1>1, <3>3 DEF Holds, Mail, ghostVars
    <3>5. QED
      BY <3>3, <3>4 DEF Mail
  <2>2. CASE MailMarked(c)
    <3>1. mails' = [mails EXCEPT ![c] = [@ EXCEPT !.status = "sent"]] /\ mails[c].sending = "mailed"
      BY <2>2 DEF MailMarked
    <3>2. /\ WellShaped(mails') /\ MailsTyped(mails')
          /\ \A k \in MailCases \ {c} : mails'[k] = mails[k]
          /\ mails'[c] = Mail("sent", mails[c].text, mails[c].link, "mailed")
      BY <3>1, OneMoves DEF MailMoves
    <3>3. QED
      BY <3>2 DEF Mail
  <2>3. QED
    BY <2>1, <2>2
<1>3. mails[c].status = "sent" => mails'[c].status = "sent"
  <2>1. CASE MailLeaves(c)
    <3>1. mails' = [mails EXCEPT ![c] = [@ EXCEPT !.sending = "mailed"]]
      BY <2>1 DEF MailLeaves
    <3>2. mails'[c] = Mail(mails[c].status, mails[c].text, mails[c].link, "mailed")
      BY <3>1, MailFields, OneMoves DEF MailMoves
    <3>3. QED
      BY <3>2 DEF Mail
  <2>2. CASE MailMarked(c)
    <3>1. mails' = [mails EXCEPT ![c] = [@ EXCEPT !.status = "sent"]]
      BY <2>2 DEF MailMarked
    <3>2. mails'[c] = Mail("sent", mails[c].text, mails[c].link, mails[c].sending)
      BY <3>1, MailFields, OneMoves DEF MailMoves
    <3>3. QED
      BY <3>2 DEF Mail
  <2>3. QED
    BY <2>1, <2>2
<1>4. \A k \in MailCases \ {c} : Holds(k) => Holds(k)'
  BY <1>1, <1>2 DEF Holds, ghostVars
<1>5. SendsAreSound'
  <2>1. \A d \in sends : Chosen(d)'
    BY <1>1 DEF MailInv, SendsAreSound, Chosen, ghostVars
  <2>2. \A d \in sends : SettledFor(d)'
    BY <1>1, <1>2, <1>3, <1>4 DEF MailInv, SendsAreSound, SettledFor, CasesExist, ghostVars
  <2>3. QED
    BY <1>1, <2>1, <2>2 DEF SendsAreSound, netVars
<1>6. QueueIsSound'
  BY <1>1, <1>2, <1>4 DEF MailInv, QueueIsSound, QueuedHolds, ghostVars
<1>7. received' = [k \in MailCases |-> received'[k]] /\ ReceivedWasChosen'
  <2>1. CASE MailLeaves(c)
    <3>1. received' = [received EXCEPT ![c] = [text |-> mails[c].text, link |-> mails[c].link]]
      BY <2>1 DEF MailLeaves
    <3>2. c \notin disturbed => mails[c].text \in chosen[c] /\ mails[c].link
      BY <2>1 DEF MailLeaves, MailInv, QueueIsSound, QueuedHolds, Holds
    <3>3. QED
      BY <1>1, <3>1, <3>2 DEF MailInv, ReceivedWasChosen, Shapes, ghostVars
  <2>2. CASE MailMarked(c)
    BY <1>1, <2>2 DEF MailMarked, MailInv, ReceivedWasChosen, Shapes, ghostVars
  <2>3. QED
    BY <2>1, <2>2
<1>8. MailTypeOK' /\ Shapes' /\ SheetSession' /\ CasesExist'
  BY <1>1, <1>2, <1>7 DEF MailInv, MailTypeOK, MailsTyped, Shapes, SheetSession, CasesExist, netVars, ghostVars
<1>9. QED
  BY <1>5, <1>6, <1>7, <1>8 DEF MailInv

-----------------------------------------------------------------------------
(* Theorems *)

LEMMA MailInvariant == MailSpec => []MailInv
<1>1. MailInit => MailInv
  BY MailAssumption DEF MailInit, MailInv, MailTypeOK, Shapes, WellShaped, CasesExist, SheetSession, SendsAreSound,
                        QueueIsSound, QueuedHolds, ReceivedWasChosen, Closed0, EmptyText
<1>2. MailInv /\ [MailNext]_mailVars => MailInv'
  <2> SUFFICES ASSUME MailInv, [MailNext]_mailVars
               PROVE  MailInv'
    OBVIOUS
  <2>1. CASE \E c \in MailCases : OpenSheet(c) \/ ServerDrafts(c) \/ MailLeaves(c) \/ MailMarked(c)
    BY <2>1, EditStep, DraftStep, WorkerStep
  <2>2. CASE CloseSheet \/ Type \/ Restore \/ DebounceEnds
    BY <2>2, EditStep
  <2>3. CASE GenerateDraft
    BY <2>3, GenerateStep
  <2>4. CASE JobEventArrives
    BY <2>4, CacheStep DEF JobEventArrives
  <2>5. CASE JobEventLost \/ ListLands
    BY <2>5, CacheStep DEF JobEventLost, ListLands, netVars
  <2>6. CASE \E s \in saving : SaveServed(s)
    BY <2>6, SaveStep
  <2>7. CASE \E r \in requests : DraftRead(r) \/ DraftLands(r) \/ DraftReadFails(r)
    BY <2>7, CacheStep DEF DraftRead, DraftLands, DraftReadFails
  <2>8. CASE SendClick
    BY <2>8, ClickStep
  <2>9. ASSUME NEW d \in sends, UpdateServed(d) \/ NudgeServed(d) \/ NudgeAnswered(d) \/ SendFails(d)
        PROVE  MailInv'
    <3>1. CASE NudgeAnswered(d) \/ SendFails(d)
      BY <3>1, CacheStep DEF NudgeAnswered, SendFails
    <3>2. QED
      BY <2>9, <3>1, UpdateStep, NudgeStep
  <2>10. CASE UNCHANGED mailVars
    BY <2>10, CacheStep DEF mailVars, serverVars, ghostVars
  <2>11. QED
    BY <2>1, <2>2, <2>3, <2>4, <2>5, <2>6, <2>7, <2>8, <2>9, <2>10 DEF MailNext
<1>3. QED
  BY <1>1, <1>2, PTL DEF MailSpec

\* Mails, the sheet and the counters keep their types.
THEOREM MailTypes == MailSpec => []MailTypeOK
<1>1. MailInv => MailTypeOK
  BY DEF MailInv
<1>2. QED
  BY <1>1, MailInvariant, PTL

\* Whatever drafts, autosaves and sends overlap, the student gets a text the
\* advisor sent, with the link, unless the mail was disturbed between the click
\* and the worker's reading of it.
THEOREM Received == MailSpec => []ReceivedWasChosen
<1>1. MailInv => ReceivedWasChosen
  BY DEF MailInv
<1>2. QED
  BY <1>1, MailInvariant, PTL

\* No event or answer changes a text the advisor has typed.
THEOREM TypedStays == MailSpec => TypedTextStays
<1> DEFINE Stays == sheet.typed /\ sheet'.session = sheet.session /\ sheet'.text # sheet.text =>
                        UNCHANGED <<serverVars, cacheVars, netVars>>
<1>1. MailInv /\ [MailNext]_mailVars => [Stays]_mailVars
  <2> SUFFICES ASSUME MailInv, MailNext, sheet.typed, sheet'.session = sheet.session, sheet'.text # sheet.text
               PROVE  UNCHANGED <<serverVars, cacheVars, netVars>>
    OBVIOUS
  <2>1. sheet.case # NoMailCase /\ sheet.session \in 1 .. sessions /\ sessions \in 0 .. MaxSessions
    BY DEF MailInv, SheetSession, MailTypeOK
  <2>2. \A cache, lines : sheet' # Synced(sheet, cache, lines)
    BY SyncedKeeps DEF MailInv
  <2>3. sheet' # sheet /\ sheet' # Closed0
    BY <2>1 DEF Closed0
  <2>4. ASSUME NEW c \in MailCases, OpenSheet(c) \/ ServerDrafts(c) \/ MailLeaves(c) \/ MailMarked(c)
        PROVE  FALSE
    BY <2>1, <2>3, <2>4 DEF OpenSheet, ServerDrafts, MailLeaves, MailMarked, IsOpen
  <2>5. CASE CloseSheet \/ Type \/ Restore
    BY <2>5 DEF CloseSheet, Type, Restore
  <2>6. ~(DebounceEnds \/ GenerateDraft \/ JobEventLost)
    BY <2>3 DEF DebounceEnds, GenerateDraft, JobEventLost
  <2>7. ~(JobEventArrives \/ ListLands)
    BY <2>2 DEF JobEventArrives, ListLands
  <2>8. ~(\E s \in saving : SaveServed(s))
    BY <2>3 DEF SaveServed
  <2>9. ~(\E r \in requests : DraftRead(r) \/ DraftLands(r) \/ DraftReadFails(r))
    BY <2>2, <2>3 DEF DraftRead, DraftLands, DraftReadFails
  <2>10. ~SendClick
    <3>1. [sheet EXCEPT !.sent = TRUE].text = sheet.text
      BY DEF MailInv, Shapes
    <3>2. QED
      BY <3>1 DEF SendClick
  <2>11. ~(\E d \in sends : UpdateServed(d) \/ NudgeServed(d) \/ NudgeAnswered(d) \/ SendFails(d))
    BY <2>3 DEF UpdateServed, NudgeServed, NudgeAnswered, SendFails
  <2>12. QED
    BY <2>4, <2>5, <2>6, <2>7, <2>8, <2>9, <2>10, <2>11 DEF MailNext
<1>2. QED
  BY <1>1, MailInvariant, PTL DEF MailSpec, TypedTextStays

-----------------------------------------------------------------------------
(* The goals of a student *)

Goal == [id : Nat, done : BOOLEAN, deadline : Deadlines]
Entry == [goals : Seq(Goal), accepted : BOOLEAN]
Copies == [GoalStudents -> Entry]
Tabs == [phase : {"closed", "mounting", "open"}, local : Copies, dialog : GoalStudents \cup {NoStudent}]

\* Goals of a student have numbers of their own, given before the n-th change.
NumberedTo(goals, n) ==
    \A i \in DOMAIN goals : goals[i].id < n /\ \A j \in DOMAIN goals : goals[i].id = goals[j].id => i = j
AllNumbered(local, n) == \A s \in GoalStudents : NumberedTo(local[s].goals, n)

CopiesOK ==
    /\ storage \in Copies /\ boardTab \in [BoardTabs -> Tabs] /\ changes \in Nat
    /\ AllNumbered(storage, changes) /\ \A t \in BoardTabs : AllNumbered(boardTab[t].local, changes)

OneBoard == \A t, u \in BoardTabs : Mounted(t) /\ Mounted(u) => t = u

\* The goals are in the storage, or in the one board there is, which has
\* written them by the time it is open.
Kept ==
    /\ (\A t \in BoardTabs : ~Mounted(t)) => Held(storage) = promised
    /\ \A t \in BoardTabs : Mounted(t) => Held(boardTab[t].local) = promised
    /\ \A t \in BoardTabs : boardTab[t].phase = "open" => storage = boardTab[t].local

GoalInv == CopiesOK /\ (~shared => OneBoard) /\ (~shared /\ ~cut => Kept)

-----------------------------------------------------------------------------
(* Sequences and sets of goals *)

\* What is promised to one student.
Of(s, goals) == {Promise(s, g) : g \in ToSet(goals)}

LEMMA OfIndex ==
    ASSUME NEW s, NEW goals, NEW p
    PROVE  p \in Of(s, goals) <=> \E i \in DOMAIN goals : p = Promise(s, goals[i])
BY DEF Of, ToSet

LEMMA GoalsAre ==
    ASSUME NEW goals \in Seq(Goal)
    PROVE  /\ DOMAIN goals = 1 .. Len(goals) /\ Len(goals) \in Nat
           /\ \A i \in DOMAIN goals : goals[i] \in Goal /\ goals[i].id \in Nat
<1>1. DOMAIN goals = 1 .. Len(goals) /\ Len(goals) \in Nat
  BY LenProperties
<1>2. \A i \in 1 .. Len(goals) : goals[i] \in Goal
  BY ElementOfSeq
<1>3. \A g \in Goal : g.id \in Nat
  BY DEF Goal
<1>4. QED
  BY <1>1, <1>2, <1>3

\* The entry of one student changes what is held of that student alone.
LEMMA HeldEntry ==
    ASSUME NEW local \in Copies, NEW s \in GoalStudents, NEW entry \in Entry
    PROVE  /\ [local EXCEPT ![s] = entry] \in Copies
           /\ Held(local) = {p \in Held(local) : p.student # s} \cup Of(s, local[s].goals)
           /\ Held([local EXCEPT ![s] = entry]) = {p \in Held(local) : p.student # s} \cup Of(s, entry.goals)
<1> DEFINE new == [local EXCEPT ![s] = entry]
<1>1. new \in Copies /\ new[s] = entry /\ \A r \in GoalStudents \ {s} : new[r] = local[r]
  BY DEF Copies
<1>2. \A r, goals, p : p \in Of(r, goals) => p.student = r
  BY OfIndex DEF Promise
<1>3. ASSUME NEW l
      PROVE  Held(l) = UNION {Of(r, l[r].goals) : r \in GoalStudents}
  BY DEF Held, Of
<1>4. \A p : p \in Held(local) <=> \E r \in GoalStudents : p \in Of(r, local[r].goals)
  BY <1>3
<1>5. \A p : p \in Held(new) <=> \E r \in GoalStudents : p \in Of(r, new[r].goals)
  BY <1>3
<1>6. Held(local) = {p \in Held(local) : p.student # s} \cup Of(s, local[s].goals)
  BY <1>2, <1>4
<1>7. Held(new) = {p \in Held(local) : p.student # s} \cup Of(s, entry.goals)
  <2>1. ASSUME NEW p, p \in Held(new)
        PROVE  (p \in Held(local) /\ p.student # s) \/ p \in Of(s, entry.goals)
    <3>1. PICK r \in GoalStudents : p \in Of(r, new[r].goals)
      BY <1>5, <2>1
    <3>2. CASE r = s
      BY <1>1, <3>1, <3>2
    <3>3. CASE r # s
      BY <1>1, <1>2, <1>4, <3>1, <3>3
    <3>4. QED
      BY <3>2, <3>3
  <2>2. ASSUME NEW p, p \in Held(local), p.student # s
        PROVE  p \in Held(new)
    <3>1. PICK r \in GoalStudents : p \in Of(r, local[r].goals)
      BY <1>4, <2>2
    <3>2. r # s
      BY <1>2, <2>2, <3>1
    <3>3. QED
      BY <1>1, <1>5, <3>1, <3>2
  <2>3. \A p : p \in Of(s, entry.goals) => p \in Held(new)
    BY <1>1, <1>5
  <2>4. QED
    BY <2>1, <2>2, <2>3
<1>8. QED
  BY <1>1, <1>6, <1>7

\* A goal that is added, removed or ticked changes what is promised by that goal.
LEMMA Added ==
    ASSUME NEW goals \in Seq(Goal), NEW n \in Nat, NumberedTo(goals, n), NEW s,
           NEW g \in Goal, g.id = n
    PROVE  /\ Append(goals, g) \in Seq(Goal) /\ NumberedTo(Append(goals, g), n + 1)
           /\ Of(s, Append(goals, g)) = Of(s, goals) \cup {Promise(s, g)}
<1> DEFINE new == Append(goals, g)
<1>1. /\ new \in Seq(Goal) /\ DOMAIN goals = 1 .. Len(goals) /\ DOMAIN new = 1 .. Len(goals) + 1 /\ Len(goals) \in Nat
      /\ new[Len(goals) + 1] = g /\ \A i \in 1 .. Len(goals) : new[i] = goals[i]
  BY AppendProperties, LenProperties
<1>2. \A i \in DOMAIN goals : goals[i].id \in Nat
  BY GoalsAre
<1> HIDE DEF new
<1>3. NumberedTo(new, n + 1)
  BY <1>1, <1>2 DEF NumberedTo
<1>4. \A p : p \in Of(s, new) <=> p \in Of(s, goals) \/ p = Promise(s, g)
  BY <1>1, OfIndex
<1>5. QED
  BY <1>1, <1>3, <1>4 DEF new

LEMMA Removed ==
    ASSUME NEW goals \in Seq(Goal), NEW n \in Nat, NumberedTo(goals, n), NEW s, NEW i \in DOMAIN goals
    PROVE  /\ RemoveAt(goals, i) \in Seq(Goal) /\ NumberedTo(RemoveAt(goals, i), n + 1)
           /\ Of(s, RemoveAt(goals, i)) = Of(s, goals) \ {Promise(s, goals[i])}
<1> DEFINE new == RemoveAt(goals, i)
<1>1. DOMAIN goals = 1 .. Len(goals) /\ Len(goals) \in Nat /\ i \in 1 .. Len(goals)
  BY LenProperties
<1>2. /\ new \in Seq(Goal) /\ DOMAIN new = 1 .. Len(goals) - 1
      /\ \A j \in 1 .. Len(goals) - 1 : new[j] = IF j < i THEN goals[j] ELSE goals[j + 1]
  BY <1>1, RemovedSeq, LenProperties
<1>3. \A j \in 1 .. Len(goals) : goals[j].id \in Nat
  BY <1>1, GoalsAre
<1> HIDE DEF new
<1>4. NumberedTo(new, n + 1)
  <2>1. ASSUME NEW j \in DOMAIN new
        PROVE  new[j].id < n + 1
    <3> DEFINE J == IF j < i THEN j ELSE j + 1
    <3>1. J \in 1 .. Len(goals) /\ new[j] = goals[J]
      BY <1>1, <1>2
    <3>2. goals[J].id < n /\ goals[J].id \in Nat
      BY <1>1, <1>3, <3>1 DEF NumberedTo
    <3>3. QED
      BY <3>1, <3>2
  <2>2. ASSUME NEW j \in DOMAIN new, NEW k \in DOMAIN new, new[j].id = new[k].id
        PROVE  j = k
    <3> DEFINE J == IF j < i THEN j ELSE j + 1
               K == IF k < i THEN k ELSE k + 1
    <3>1. J \in DOMAIN goals /\ K \in DOMAIN goals /\ new[j] = goals[J] /\ new[k] = goals[K]
      BY <1>1, <1>2
    <3>2. J = K
      BY <2>2, <3>1 DEF NumberedTo
    <3>3. QED
      BY <1>1, <1>2, <3>2
  <2>3. QED
    BY <2>1, <2>2 DEF NumberedTo
<1>5. ASSUME NEW p, p \in Of(s, new)
      PROVE  p \in Of(s, goals) /\ p # Promise(s, goals[i])
  <2>1. PICK j \in DOMAIN new : p = Promise(s, new[j])
    BY <1>5, OfIndex
  <2> DEFINE J == IF j < i THEN j ELSE j + 1
  <2>2. J \in DOMAIN goals /\ J # i /\ new[j] = goals[J]
    BY <1>1, <1>2
  <2>3. goals[J].id # goals[i].id
    BY <2>2 DEF NumberedTo
  <2>4. QED
    BY <2>1, <2>2, <2>3, OfIndex DEF Promise
<1>6. ASSUME NEW p, p \in Of(s, goals), p # Promise(s, goals[i])
      PROVE  p \in Of(s, new)
  <2>1. PICK k \in DOMAIN goals : p = Promise(s, goals[k])
    BY <1>6, OfIndex
  <2> DEFINE j == IF k < i THEN k ELSE k - 1
  <2>2. k # i /\ j \in DOMAIN new /\ new[j] = goals[k]
    BY <1>1, <1>2, <1>6, <2>1
  <2>3. QED
    BY <2>1, <2>2, OfIndex
<1>7. Of(s, new) = Of(s, goals) \ {Promise(s, goals[i])}
  BY <1>5, <1>6
<1>8. QED
  BY <1>2, <1>4, <1>7 DEF new

Replaces(goals, i, goal, new) ==
    DOMAIN new = DOMAIN goals /\ new[i] = goal /\ \A j \in DOMAIN goals \ {i} : new[j] = goals[j]

LEMMA Replaced ==
    ASSUME NEW goals \in Seq(Goal), NEW i \in DOMAIN goals, NEW goal \in Goal
    PROVE  [goals EXCEPT ![i] = goal] \in Seq(Goal) /\ Replaces(goals, i, goal, [goals EXCEPT ![i] = goal])
<1> DEFINE new == [goals EXCEPT ![i] = goal]
<1>1. DOMAIN goals = 1 .. Len(goals) /\ Len(goals) \in Nat /\ \A j \in 1 .. Len(goals) : goals[j] \in Goal
  BY GoalsAre
<1>2. new = [j \in 1 .. Len(goals) |-> IF j = i THEN goal ELSE goals[j]]
  BY <1>1
<1>3. new \in [1 .. Len(goals) -> Goal]
  BY <1>1, <1>2
<1>4. new \in Seq(Goal)
  BY <1>1, <1>3, SeqDef
<1>5. QED
  BY <1>1, <1>2, <1>4 DEF Replaces

LEMMA Ticked ==
    ASSUME NEW goals \in Seq(Goal), NEW n \in Nat, NumberedTo(goals, n), NEW i \in DOMAIN goals,
           NEW goal \in Goal, goal.id = goals[i].id, NEW new \in Seq(Goal), Replaces(goals, i, goal, new)
    PROVE  /\ NumberedTo(new, n + 1)
           /\ \A s, p : p \in Of(s, new) <=> (p \in Of(s, goals) /\ p # Promise(s, goals[i])) \/ p = Promise(s, goal)
<1>1. goal \in Goal /\ goal.id = goals[i].id
  OBVIOUS
<1>2. DOMAIN new = DOMAIN goals /\ new[i] = goal /\ \A j \in DOMAIN goals \ {i} : new[j] = goals[j]
  BY DEF Replaces
<1>3. \A j \in DOMAIN goals : new[j].id = goals[j].id /\ goals[j].id \in Nat
  BY <1>1, <1>2, GoalsAre
<1>4. NumberedTo(new, n + 1)
  BY <1>2, <1>3 DEF NumberedTo
<1>5. ASSUME NEW s, NEW p, p \in Of(s, new)
      PROVE  (p \in Of(s, goals) /\ p # Promise(s, goals[i])) \/ p = Promise(s, goal)
  <2>1. PICK j \in DOMAIN goals : p = Promise(s, new[j])
    BY <1>2, <1>5, OfIndex
  <2>2. CASE j = i
    BY <1>2, <2>1, <2>2
  <2>3. CASE j # i
    <3>1. new[j] = goals[j] /\ goals[j].id # goals[i].id
      BY <1>2, <2>3 DEF NumberedTo
    <3>2. QED
      BY <2>1, <3>1, OfIndex DEF Promise
  <2>4. QED
    BY <2>2, <2>3
<1>6. ASSUME NEW s, NEW p, (p \in Of(s, goals) /\ p # Promise(s, goals[i])) \/ p = Promise(s, goal)
      PROVE  p \in Of(s, new)
  <2>1. CASE p = Promise(s, goal)
    BY <1>2, <2>1, OfIndex
  <2>2. CASE p \in Of(s, goals) /\ p # Promise(s, goals[i])
    <3>1. PICK j \in DOMAIN goals : p = Promise(s, goals[j])
      BY <2>2, OfIndex
    <3>2. QED
      BY <1>2, <2>2, <3>1, OfIndex
  <2>3. QED
    BY <1>6, <2>1, <2>2
<1>7. QED
  BY <1>4, <1>5, <1>6

-----------------------------------------------------------------------------
(* Steps *)

\* The board comes, is rendered and goes.
LEMMA BoardStep ==
    ASSUME GoalInv, NEW t \in BoardTabs, MountBoard(t) \/ Rendered(t) \/ LeaveBoard(t)
    PROVE  GoalInv'
<1>1. Nothing \in Copies /\ \A n : AllNumbered(Nothing, n)
  BY DEF Nothing, Copies, Entry, AllNumbered, NumberedTo
<1>2. CASE MountBoard(t)
  <2>1. /\ boardTab' = [boardTab EXCEPT ![t] = [phase |-> "mounting", local |-> storage, dialog |-> NoStudent]]
        /\ storage' = Nothing /\ ~Mounted(t) /\ UNCHANGED <<promised, changes, cut>>
        /\ shared' = (shared \/ \E u \in BoardTabs \ {t} : Mounted(u))
    BY <1>2 DEF MountBoard, Opens
  <2>2. CopiesOK'
    BY <1>1, <2>1 DEF GoalInv, CopiesOK, Tabs
  <2>3. ASSUME ~shared'
        PROVE  OneBoard' /\ \A u \in BoardTabs : ~Mounted(u)
    BY <2>1, <2>3 DEF GoalInv, CopiesOK, OneBoard, Mounted
  <2>4. ASSUME ~shared', ~cut'
        PROVE  Kept'
    <3>1. Held(storage) = promised
      BY <2>1, <2>3, <2>4 DEF GoalInv, Kept
    <3>2. /\ boardTab'[t].phase = "mounting" /\ boardTab'[t].local = storage
          /\ \A u \in BoardTabs \ {t} : boardTab'[u].phase = "closed"
      BY <2>1, <2>3, <2>4 DEF GoalInv, CopiesOK, Mounted
    <3>3. QED
      BY <2>1, <3>1, <3>2 DEF Kept, Mounted
  <2>5. QED
    BY <2>2, <2>3, <2>4 DEF GoalInv
<1>3. CASE Rendered(t)
  <2>1. /\ boardTab[t].phase = "mounting" /\ boardTab' = [boardTab EXCEPT ![t].phase = "open"]
        /\ storage' = boardTab[t].local /\ UNCHANGED <<promised, changes, shared, cut>>
    BY <1>3 DEF Rendered
  <2>2. /\ boardTab'[t] = [phase |-> "open", local |-> boardTab[t].local, dialog |-> boardTab[t].dialog]
        /\ \A u \in BoardTabs \ {t} : boardTab'[u] = boardTab[u]
        /\ \A u \in BoardTabs : boardTab'[u].local = boardTab[u].local /\ (boardTab'[u].phase # "closed" <=> Mounted(u))
    BY <2>1 DEF GoalInv, CopiesOK, Tabs, Mounted
  <2>3. CopiesOK'
    BY <2>1, <2>2 DEF GoalInv, CopiesOK, Tabs
  <2>4. ~shared => OneBoard'
    BY <2>2 DEF GoalInv, OneBoard, Mounted
  <2>5. ASSUME ~shared, ~cut
        PROVE  Kept'
    BY <2>1, <2>2, <2>5 DEF GoalInv, OneBoard, Kept, Mounted
  <2>6. QED
    BY <2>1, <2>3, <2>4, <2>5 DEF GoalInv
<1>4. CASE LeaveBoard(t)
  <2>1. /\ Mounted(t) /\ boardTab' = [boardTab EXCEPT ![t] = ClosedTab]
        /\ cut' = (cut \/ boardTab[t].phase = "mounting") /\ UNCHANGED <<storage, promised, changes, shared>>
    BY <1>4 DEF LeaveBoard
  <2>2. ClosedTab \in Tabs /\ ClosedTab.phase = "closed" /\ ClosedTab.local = Nothing
    BY <1>1 DEF ClosedTab, Tabs
  <2>3. boardTab'[t] = ClosedTab /\ \A u \in BoardTabs \ {t} : boardTab'[u] = boardTab[u]
    BY <2>1 DEF GoalInv, CopiesOK
  <2>4. CopiesOK'
    BY <1>1, <2>1, <2>2, <2>3 DEF GoalInv, CopiesOK
  <2>5. ~shared => OneBoard'
    BY <2>2, <2>3 DEF GoalInv, OneBoard, Mounted
  <2>6. ASSUME ~shared', ~cut'
        PROVE  Kept'
    <3>1. boardTab[t].phase = "open"
      BY <2>1, <2>6 DEF GoalInv, CopiesOK, Tabs, Mounted
    <3>2. Held(storage) = promised /\ \A u \in BoardTabs : boardTab'[u].phase = "closed"
      BY <2>1, <2>2, <2>3, <2>6, <3>1 DEF GoalInv, OneBoard, Kept, Mounted
    <3>3. QED
      BY <2>1, <3>2 DEF Kept, Mounted
  <2>7. QED
    BY <2>1, <2>4, <2>5, <2>6 DEF GoalInv
<1>5. QED
  BY <1>2, <1>3, <1>4

\* A change of one entry in an open board.
LEMMA ChangeStep ==
    ASSUME GoalInv, NEW t \in BoardTabs, boardTab[t].phase = "open", NEW s \in GoalStudents,
           NEW entry \in Entry, NumberedTo(entry.goals, changes + 1), Change(t, s, entry),
           promised = Held(boardTab[t].local) =>
              promised' = {p \in promised : p.student # s} \cup Of(s, entry.goals)
    PROVE  GoalInv'
<1> DEFINE new == [boardTab[t].local EXCEPT ![s] = entry]
<1>1. /\ changes' = changes + 1 /\ storage' = new /\ UNCHANGED <<shared, cut>>
      /\ boardTab' = [boardTab EXCEPT ![t].local[s] = entry]
  BY DEF Change
<1>2. boardTab \in [BoardTabs -> Tabs] /\ boardTab[t] \in Tabs /\ boardTab[t].local \in Copies
  BY DEF GoalInv, CopiesOK, Tabs
<1>3. /\ boardTab'[t] = [phase |-> "open", local |-> new, dialog |-> boardTab[t].dialog]
      /\ \A u \in BoardTabs \ {t} : boardTab'[u] = boardTab[u]
      /\ boardTab' = [u \in BoardTabs |-> boardTab'[u]]
  BY <1>1, <1>2 DEF Tabs
<1>4. /\ new \in Copies
      /\ Held(new) = {p \in Held(boardTab[t].local) : p.student # s} \cup Of(s, entry.goals)
  BY <1>2, HeldEntry
<1>5. new[s] = entry /\ \A r \in GoalStudents \ {s} : new[r] = boardTab[t].local[r]
  BY <1>2 DEF Copies
<1> HIDE DEF new
<1>6. CopiesOK'
  <2>1. storage' \in Copies /\ boardTab' \in [BoardTabs -> Tabs] /\ changes' \in Nat
    BY <1>1, <1>2, <1>3, <1>4 DEF GoalInv, CopiesOK, Tabs
  <2>2. ASSUME NEW goals \in Seq(Goal), NumberedTo(goals, changes)
        PROVE  NumberedTo(goals, changes + 1)
    <3>1. \A i \in DOMAIN goals : goals[i].id \in Nat
      BY GoalsAre
    <3>2. QED
      BY <2>2, <3>1 DEF NumberedTo, GoalInv, CopiesOK
  <2>3. \A l \in Copies : AllNumbered(l, changes) => AllNumbered(l, changes + 1)
    BY <2>2 DEF AllNumbered, Copies, Entry
  <2>4. AllNumbered(new, changes + 1)
    BY <1>2, <1>5, <2>3 DEF GoalInv, CopiesOK, AllNumbered
  <2>5. \A u \in BoardTabs : AllNumbered(boardTab'[u].local, changes')
    BY <1>1, <1>2, <1>3, <2>3, <2>4 DEF GoalInv, CopiesOK, Tabs
  <2>6. AllNumbered(storage', changes')
    BY <1>1, <2>4
  <2>7. QED
    BY <2>1, <2>5, <2>6 DEF CopiesOK, AllNumbered
<1>7. \A u \in BoardTabs : boardTab'[u].phase = boardTab[u].phase
  BY <1>3
<1>8. ~shared => OneBoard'
  BY <1>7 DEF GoalInv, OneBoard, Mounted
<1>9. ASSUME ~shared, ~cut
      PROVE  Kept'
  <2>1. Held(boardTab[t].local) = promised /\ \A u \in BoardTabs \ {t} : boardTab[u].phase = "closed"
    BY <1>9 DEF GoalInv, OneBoard, Kept, Mounted
  <2>2. promised' = Held(new)
    BY <1>4, <2>1
  <2>3. QED
    BY <1>1, <1>3, <1>7, <2>1, <2>2 DEF Kept, Mounted
<1>10. QED
  BY <1>1, <1>6, <1>8, <1>9 DEF GoalInv

\* What is promised to a student is changed with the student's entry.
LEMMA PromiseStep ==
    ASSUME GoalInv, NEW t \in BoardTabs, NEW s \in GoalStudents,
           \/ \E deadline \in Deadlines : AddGoal(t, s, deadline)
           \/ \E i \in DOMAIN boardTab[t].local[s].goals : ToggleGoal(t, s, i) \/ RemoveGoal(t, s, i)
           \/ NoteAccepted(t, s)
    PROVE  GoalInv'
<1> DEFINE local == boardTab[t].local
           goals == local[s].goals
           Others == {p \in promised : p.student # s}
<1>1. /\ local \in Copies /\ goals \in Seq(Goal) /\ NumberedTo(goals, changes) /\ changes \in Nat
      /\ local[s] = [goals |-> goals, accepted |-> local[s].accepted] /\ local[s].accepted \in BOOLEAN
  BY DEF GoalInv, CopiesOK, Tabs, Copies, Entry, AllNumbered
<1>2. promised = Held(local) => promised = Others \cup Of(s, goals)
  <2>1. local[s] \in Entry
    BY <1>1 DEF Copies
  <2>2. Held(local) = {p \in Held(local) : p.student # s} \cup Of(s, goals)
    BY <1>1, <2>1, HeldEntry
  <2>3. QED
    BY <2>2
<1>3. \A g : Promise(s, g).student = s
  BY DEF Promise
<1>4. ASSUME NEW deadline \in Deadlines, AddGoal(t, s, deadline)
      PROVE  GoalInv'
  <2> DEFINE goal == [id |-> changes, done |-> FALSE, deadline |-> deadline]
             entry == [local[s] EXCEPT !.goals = Append(@, goal)]
  <2>1. boardTab[t].phase = "open" /\ Change(t, s, entry) /\ promised' = promised \cup {Promise(s, goal)}
    BY <1>4 DEF AddGoal, InDialog
  <2>2. goal \in Goal /\ goal.id = changes
    BY <1>1 DEF Goal
  <2> HIDE DEF goal
  <2>3. /\ Append(goals, goal) \in Seq(Goal) /\ NumberedTo(Append(goals, goal), changes + 1)
        /\ Of(s, Append(goals, goal)) = Of(s, goals) \cup {Promise(s, goal)}
    BY <1>1, <2>2, Added
  <2>4. entry \in Entry /\ entry.goals = Append(goals, goal)
    BY <1>1, <2>3 DEF Entry
  <2>5. promised = Held(local) => promised' = Others \cup Of(s, entry.goals)
    BY <1>2, <2>1, <2>3, <2>4
  <2>6. QED
    BY <2>1, <2>3, <2>4, <2>5, ChangeStep
<1>5. ASSUME NEW i \in DOMAIN goals, ToggleGoal(t, s, i)
      PROVE  GoalInv'
  <2> DEFINE goal == [goals[i] EXCEPT !.done = ~@]
             new == [goals EXCEPT ![i] = goal]
             entry == [local[s] EXCEPT !.goals[i].done = ~@]
  <2>1. /\ boardTab[t].phase = "open" /\ Change(t, s, entry)
        /\ promised' = (promised \ {Promise(s, goals[i])}) \cup {Promise(s, goal)}
    BY <1>5 DEF ToggleGoal, InDialog
  <2>2. /\ new \in Seq(Goal) /\ NumberedTo(new, changes + 1)
        /\ Of(s, new) = (Of(s, goals) \ {Promise(s, goals[i])}) \cup {Promise(s, goal)}
    <3>1. goals[i] \in Goal
      BY <1>1, GoalsAre
    <3>2. goal \in Goal /\ goal.id = goals[i].id
      BY <3>1 DEF Goal
    <3>3. goals \in Seq(Goal) /\ changes \in Nat /\ NumberedTo(goals, changes)
      BY <1>1
    <3> HIDE DEF goal
    <3>4. new \in Seq(Goal) /\ Replaces(goals, i, goal, new)
      BY <3>2, <3>3, Replaced
    <3> HIDE DEF new
    <3>5. NumberedTo(new, changes + 1)
      BY <3>2, <3>3, <3>4, Ticked
    <3>6. \A p : p \in Of(s, new) <=> (p \in Of(s, goals) /\ p # Promise(s, goals[i])) \/ p = Promise(s, goal)
      BY <3>2, <3>3, <3>4, Ticked
    <3>7. QED
      BY <3>4, <3>5, <3>6
  <2>3. entry = [goals |-> new, accepted |-> local[s].accepted]
    <3>1. entry = [local[s] EXCEPT !.goals = new]
      OBVIOUS
    <3> HIDE DEF entry, new
    <3>2. QED
      BY <1>1, <3>1
  <2>4. entry \in Entry /\ entry.goals = new
    BY <1>1, <2>2, <2>3 DEF Entry
  <2> HIDE DEF new, entry, goal
  <2>5. promised = Held(local) => promised' = Others \cup Of(s, entry.goals)
    BY <1>2, <1>3, <2>1, <2>2, <2>4
  <2>6. QED
    BY <2>1, <2>2, <2>4, <2>5, ChangeStep
<1>6. ASSUME NEW i \in DOMAIN goals, RemoveGoal(t, s, i)
      PROVE  GoalInv'
  <2> DEFINE entry == [local[s] EXCEPT !.goals = RemoveAt(@, i)]
  <2>1. boardTab[t].phase = "open" /\ Change(t, s, entry) /\ promised' = promised \ {Promise(s, goals[i])}
    BY <1>6 DEF RemoveGoal, InDialog
  <2>2. /\ RemoveAt(goals, i) \in Seq(Goal) /\ NumberedTo(RemoveAt(goals, i), changes + 1)
        /\ Of(s, RemoveAt(goals, i)) = Of(s, goals) \ {Promise(s, goals[i])}
    BY <1>1, Removed
  <2>3. entry \in Entry /\ entry.goals = RemoveAt(goals, i)
    BY <1>1, <2>2 DEF Entry
  <2>4. promised = Held(local) => promised' = Others \cup Of(s, entry.goals)
    BY <1>2, <1>3, <2>1, <2>2, <2>3
  <2>5. QED
    BY <2>1, <2>2, <2>3, <2>4, ChangeStep
<1>7. CASE NoteAccepted(t, s)
  <2> DEFINE entry == [local[s] EXCEPT !.accepted = TRUE]
  <2>1. boardTab[t].phase = "open" /\ Change(t, s, entry) /\ promised' = promised
    BY <1>7 DEF NoteAccepted
  <2>2. entry \in Entry /\ entry.goals = goals
    BY <1>1 DEF Entry
  <2>3. NumberedTo(goals, changes + 1)
    <3>1. \A i \in DOMAIN goals : goals[i].id \in Nat
      BY <1>1, GoalsAre
    <3>2. QED
      BY <1>1, <3>1 DEF NumberedTo
  <2>4. QED
    BY <1>2, <2>1, <2>2, <2>3, ChangeStep
<1>8. QED
  BY <1>4, <1>5, <1>6, <1>7

\* A dialog opens or closes.
LEMMA DialogStep ==
    ASSUME GoalInv, NEW t \in BoardTabs, NEW s \in GoalStudents \cup {NoStudent},
           boardTab' = [boardTab EXCEPT ![t].dialog = s],
           UNCHANGED <<storage, promised, changes, shared, cut>>
    PROVE  GoalInv'
<1>1. /\ boardTab' \in [BoardTabs -> Tabs]
      /\ \A u \in BoardTabs : boardTab'[u].phase = boardTab[u].phase /\ boardTab'[u].local = boardTab[u].local
  BY DEF GoalInv, CopiesOK, Tabs
<1>2. CopiesOK' /\ (~shared => OneBoard')
  BY <1>1 DEF GoalInv, CopiesOK, OneBoard, Mounted
<1>3. ~shared /\ ~cut => Kept'
  BY <1>1 DEF GoalInv, Kept, Mounted
<1>4. QED
  BY <1>2, <1>3 DEF GoalInv

-----------------------------------------------------------------------------
(* Theorem *)

LEMMA GoalInvariant == GoalSpec => []GoalInv
<1>1. GoalInit => GoalInv
  <2> SUFFICES ASSUME GoalInit
               PROVE  GoalInv
    OBVIOUS
  <2>1. Nothing \in Copies /\ AllNumbered(Nothing, 0) /\ Held(Nothing) = {}
    BY DEF Nothing, Copies, Entry, AllNumbered, NumberedTo, Held, ToSet
  <2>2. ClosedTab \in Tabs /\ ClosedTab.local = Nothing /\ ClosedTab.phase = "closed"
    BY <2>1 DEF ClosedTab, Tabs
  <2>3. \A t \in BoardTabs : boardTab[t] = ClosedTab /\ ~Mounted(t)
    BY <2>2 DEF GoalInit, Mounted
  <2>4. CopiesOK
    BY <2>1, <2>2, <2>3 DEF GoalInit, CopiesOK
  <2>5. OneBoard /\ Kept
    BY <2>1, <2>2, <2>3 DEF GoalInit, OneBoard, Kept
  <2>6. QED
    BY <2>4, <2>5 DEF GoalInv
<1>2. GoalInv /\ [GoalNext]_goalVars => GoalInv'
  <2> SUFFICES ASSUME GoalInv, [GoalNext]_goalVars
               PROVE  GoalInv'
    OBVIOUS
  <2>1. CASE UNCHANGED goalVars
    BY <2>1 DEF goalVars, GoalInv, CopiesOK, OneBoard, Kept, Mounted
  <2>2. ASSUME NEW t \in BoardTabs, CloseGoals(t) \/ \E s \in GoalStudents : OpenGoals(t, s)
        PROVE  GoalInv'
    BY <2>2, DialogStep DEF CloseGoals, OpenGoals
  <2>3. QED
    BY <2>1, <2>2, BoardStep, PromiseStep DEF GoalNext
<1>3. QED
  BY <1>1, <1>2, PTL DEF GoalSpec

\* Goals are neither lost nor changed by leaving the board and coming back,
\* unless two boards were open at once or one was left before it was rendered.
THEOREM Survive == GoalSpec => []GoalsSurvive
<1>1. GoalInv => GoalsSurvive
  <2> SUFFICES ASSUME GoalInv, ~shared, ~cut
               PROVE  Held(Current) = promised
    BY DEF GoalsSurvive
  <2>1. CASE \A t \in BoardTabs : ~Mounted(t)
    BY <2>1 DEF GoalInv, Kept, Current
  <2>2. CASE \E t \in BoardTabs : Mounted(t)
    <3> DEFINE t == CHOOSE t \in BoardTabs : Mounted(t)
    <3>1. t \in BoardTabs /\ Mounted(t)
      BY <2>2
    <3>2. Current = boardTab[t].local
      BY <2>2 DEF Current
    <3>3. QED
      BY <3>1, <3>2 DEF GoalInv, Kept
  <2>3. QED
    BY <2>1, <2>2
<1>2. QED
  BY <1>1, GoalInvariant, PTL

-----------------------------------------------------------------------------
(* Goals: types *)

\* Boards that are left were mounted when there was still one to leave.
Boards == {t \in BoardTabs : Mounted(t)}
LeavesInv ==
    /\ changes \in 0 .. MaxGoals /\ leaves \in Nat
    /\ leaves + Cardinality(Boards) <= MaxLeaves + Cardinality(BoardTabs)
    /\ shared \in BOOLEAN /\ cut \in BOOLEAN

LEMMA LeavesStep ==
    ASSUME GoalInv, LeavesInv, [GoalNext]_goalVars
    PROVE  LeavesInv'
<1>1. boardTab \in [BoardTabs -> Tabs] /\ {MaxGoals, MaxLeaves} \subseteq Nat /\ IsFiniteSet(BoardTabs)
  BY GoalsAssumption DEF GoalInv, CopiesOK
<1>2. IsFiniteSet(Boards) /\ Cardinality(Boards) \in Nat /\ Cardinality(BoardTabs) \in Nat
  BY <1>1, FS_Subset, FS_CardinalityType DEF Boards
<1>3. Cardinality(Boards') <= Cardinality(BoardTabs) /\ Cardinality(Boards') \in Nat
  <2>1. Boards' \in SUBSET BoardTabs
    BY DEF Boards
  <2>2. IsFiniteSet(Boards')
    BY <1>1, <2>1, FS_Subset
  <2>3. QED
    BY <1>1, <2>1, <2>2, FS_Subset, FS_CardinalityType
<1>4. ASSUME UNCHANGED <<leaves, shared, cut>>, changes' \in 0 .. MaxGoals, Boards' = Boards
      PROVE  LeavesInv'
  BY <1>4 DEF LeavesInv
<1>5. ASSUME NEW t \in BoardTabs, MountBoard(t)
      PROVE  LeavesInv'
  <2>1. leaves < MaxLeaves /\ UNCHANGED <<changes, leaves, cut>> /\ shared' \in BOOLEAN
    BY <1>5 DEF MountBoard, Opens, LeavesInv
  <2>2. QED
    BY <1>1, <1>2, <1>3, <2>1 DEF LeavesInv
<1>6. ASSUME NEW t \in BoardTabs, LeaveBoard(t)
      PROVE  LeavesInv'
  <2>1. /\ leaves' = leaves + 1 /\ UNCHANGED <<changes, shared>> /\ cut' \in BOOLEAN /\ t \in Boards
        /\ boardTab' = [boardTab EXCEPT ![t] = ClosedTab]
    BY <1>6 DEF LeaveBoard, LeavesInv, Boards
  <2>2. Boards' = Boards \ {t}
    BY <1>1, <2>1 DEF Boards, Mounted, ClosedTab
  <2>3. Cardinality(Boards') = Cardinality(Boards) - 1
    BY <1>2, <2>1, <2>2, FS_RemoveElement
  <2>4. QED
    BY <1>1, <1>2, <2>1, <2>3 DEF LeavesInv
<1>7. ASSUME NEW t \in BoardTabs, Rendered(t) \/ CloseGoals(t) \/ \E s \in GoalStudents : OpenGoals(t, s)
      PROVE  LeavesInv'
  <2>1. \A u \in BoardTabs : boardTab'[u].phase = "closed" <=> boardTab[u].phase = "closed"
    BY <1>1, <1>7 DEF Rendered, CloseGoals, OpenGoals, Tabs
  <2>2. Boards' = Boards
    BY <2>1 DEF Boards, Mounted
  <2>3. QED
    BY <1>4, <1>7, <2>2 DEF Rendered, CloseGoals, OpenGoals, LeavesInv
<1>8. ASSUME NEW t \in BoardTabs, NEW s \in GoalStudents, NEW entry, Change(t, s, entry)
      PROVE  LeavesInv'
  <2>1. boardTab' = [boardTab EXCEPT ![t].local[s] = entry] /\ UNCHANGED <<leaves, shared, cut>>
    BY <1>8 DEF Change
  <2>2. \A u \in BoardTabs : boardTab'[u].phase = boardTab[u].phase
    BY <1>1, <2>1 DEF Tabs
  <2>3. Boards' = Boards
    BY <2>2 DEF Boards, Mounted
  <2>4. changes' \in 0 .. MaxGoals
    BY <1>1, <1>8 DEF Change, LeavesInv
  <2>5. QED
    BY <1>4, <2>1, <2>3, <2>4
<1>9. ASSUME NEW t \in BoardTabs, NEW s \in GoalStudents,
             \/ NoteAccepted(t, s) \/ \E deadline \in Deadlines : AddGoal(t, s, deadline)
             \/ \E i \in DOMAIN boardTab[t].local[s].goals : ToggleGoal(t, s, i) \/ RemoveGoal(t, s, i)
      PROVE  LeavesInv'
  BY <1>8, <1>9, Zenon DEF NoteAccepted, AddGoal, ToggleGoal, RemoveGoal
<1>10. CASE UNCHANGED goalVars
  <2>1. Boards' = Boards
    BY <1>10 DEF goalVars, Boards, Mounted
  <2>2. QED
    BY <1>4, <1>10, <2>1 DEF goalVars, LeavesInv
<1>11. QED
  BY <1>5, <1>6, <1>7, <1>9, <1>10 DEF GoalNext

\* However boards are mounted and left, dialogs are of students there are and the
\* two counters keep within their bounds.
THEOREM GoalTypes == GoalSpec => []GoalTypeOK
<1>1. GoalInit => LeavesInv
  <2> SUFFICES ASSUME GoalInit
               PROVE  LeavesInv
    OBVIOUS
  <2>1. Boards = {}
    BY DEF GoalInit, Boards, Mounted, ClosedTab
  <2>2. Cardinality(Boards) = 0 /\ Cardinality(BoardTabs) \in Nat
    BY <2>1, GoalsAssumption, FS_EmptySet, FS_CardinalityType
  <2>3. MaxGoals \in Nat /\ MaxLeaves \in Nat
    BY GoalsAssumption
  <2>4. leaves = 0 /\ changes = 0
    BY DEF GoalInit
  <2>5. leaves + Cardinality(Boards) <= MaxLeaves + Cardinality(BoardTabs)
    BY <2>2, <2>3, <2>4
  <2>6. changes \in 0 .. MaxGoals /\ leaves \in Nat
    BY <2>3, <2>4
  <2>7. shared \in BOOLEAN /\ cut \in BOOLEAN
    BY DEF GoalInit
  <2>8. QED
    BY <2>5, <2>6, <2>7 DEF LeavesInv
<1>2. GoalInv /\ LeavesInv => GoalTypeOK
  <2> SUFFICES ASSUME GoalInv, LeavesInv
               PROVE  GoalTypeOK
    OBVIOUS
  <2>1. Cardinality(Boards) \in Nat /\ Cardinality(BoardTabs) \in Nat
    BY GoalsAssumption, FS_Subset, FS_CardinalityType DEF Boards
  <2>2. leaves \in 0 .. MaxLeaves + Cardinality(BoardTabs)
    BY <2>1, GoalsAssumption DEF LeavesInv
  <2>3. \A t \in BoardTabs : boardTab[t].dialog \in GoalStudents \cup {NoStudent}
    BY DEF GoalInv, CopiesOK, Tabs
  <2>4. QED
    BY <2>2, <2>3 DEF LeavesInv, GoalTypeOK
<1>3. QED
  BY <1>1, <1>2, LeavesStep, GoalInvariant, PTL DEF GoalSpec
===============================================================================
