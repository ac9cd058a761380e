------------------------------ MODULE Pages_proofs ------------------------------
(***************************************************************************)
(* Proofs about what a tab and its pages show, for all values of the       *)
(* constants: who is signed in (Session), the one WebSocket (LiveSocket),  *)
(* the number on the bell (Notices), the settings (SettingsPage), what the *)
(* booking page tells the student (StudentPages), and what the import page *)
(* calls a success (CsvImport).                                            *)
(***************************************************************************)
EXTENDS Session, LiveSocket, Notices, SettingsPage, StudentPages, CsvImport,
        TLAPS, SequenceTheorems, FiniteSetTheorems

-----------------------------------------------------------------------------
(* Session: types *)

\* Every variable of the tab and both cookies keep their types, in every order of
\* loads, fetches, logins and rejected calls.
THEOREM SessionTypes == SessionSpec => []SessionTypeOK
<1>1. SessionInit => SessionTypeOK
  BY DEF SessionInit, Fresh, SessionTypeOK, Pages
<1>2. SessionTypeOK /\ [SessionNext]_sessionVars => SessionTypeOK'
  <2> SUFFICES ASSUME SessionTypeOK, [SessionNext]_sessionVars
               PROVE  SessionTypeOK'
    OBVIOUS
  <2> USE DEF SessionTypeOK
  <2>0. \A p \in Pages : Guarded(p) \in Pages
    BY DEF Guarded, Pages, Protected, Public
  <2>1. ASSUME NEW p \in Pages, Visit(p) \/ Open(p)
        PROVE  SessionTypeOK'
    BY <2>0, <2>1 DEF Visit, Open, Load, tabVars
  <2>2. CASE CookiesExpire \/ Hydrate \/ Refetch
    BY <2>2 DEF CookiesExpire, Hydrate, Refetch, tabVars
  <2>3. CASE ProfileAnswered \/ ProfileFails
    <3>1. Guarded("dashboard") \in Pages
      BY <2>0 DEF Pages, Protected
    <3>2. QED
      BY <2>3, <3>1 DEF ProfileAnswered, ProfileFails, AfterFetch
  <2>4. CASE LoginSubmit \/ LoginRefused \/ Logout \/ CallRejected
    BY <2>4 DEF LoginSubmit, LoginRefused, Logout, CallRejected
  <2>5. ASSUME NEW u \in Users, LoginAccepted(u)
        PROVE  SessionTypeOK'
    BY <2>5 DEF LoginAccepted
  <2>6. CASE SignedOut
    BY <2>6 DEF SignedOut, Load, Pages, Public
  <2>7. CASE UNCHANGED sessionVars
    BY <2>7 DEF sessionVars
  <2>8. QED
    BY <2>1, <2>2, <2>3, <2>4, <2>5, <2>6, <2>7 DEF SessionNext
<1>3. QED
  BY <1>1, <1>2, PTL DEF SessionSpec

-----------------------------------------------------------------------------
(* Session: whom the tab shows *)

\* A fetch that the login did not join asks for whoever holds the cookie, or did
\* until it expired: this is what its answer will be taken for.
FetchIsOfCookie == ~joined /\ fetching \in Users => cookie \in {fetching, NoUser}

SessionInv == ShownUserIsSignedIn /\ FetchIsOfCookie

\* The user shown is the one the cookie is of, unless a fetch failed or the login
\* joined an older one: for any accounts and any interleaving.
THEOREM ShownUser == SessionSpec => []ShownUserIsSignedIn
<1>1. SessionInit => SessionInv
  BY UsersAssumption DEF SessionInit, Fresh, SessionInv, ShownUserIsSignedIn, FetchIsOfCookie
<1>2. SessionInv /\ [SessionNext]_sessionVars => SessionInv'
  <2> SUFFICES ASSUME SessionInv, [SessionNext]_sessionVars
               PROVE  SessionInv'
    OBVIOUS
  <2> USE UsersAssumption DEF SessionInv, ShownUserIsSignedIn, FetchIsOfCookie
  <2>1. ASSUME NEW p \in Pages, Visit(p) \/ Open(p)
        PROVE  SessionInv'
    BY <2>1 DEF Visit, Open, Load, tabVars
  <2>2. CASE CookiesExpire
    BY <2>2 DEF CookiesExpire, tabVars
  <2>3. CASE Hydrate \/ Refetch
    BY <2>3 DEF Hydrate, Refetch
  <2>4. CASE ProfileAnswered
    BY <2>4 DEF ProfileAnswered
  <2>5. CASE ProfileFails
    BY <2>5 DEF ProfileFails
  <2>6. CASE LoginSubmit \/ LoginRefused \/ Logout \/ CallRejected
    BY <2>6 DEF LoginSubmit, LoginRefused, Logout, CallRejected
  <2>7. ASSUME NEW u \in Users, LoginAccepted(u)
        PROVE  SessionInv'
    BY <2>7 DEF LoginAccepted
  <2>8. CASE SignedOut
    BY <2>8 DEF SignedOut, Load
  <2>9. CASE UNCHANGED sessionVars
    BY <2>9 DEF sessionVars
  <2>10. QED
    BY <2>1, <2>2, <2>3, <2>4, <2>5, <2>6, <2>7, <2>8, <2>9 DEF SessionNext
<1>3. SessionInv => ShownUserIsSignedIn
  BY DEF SessionInv
<1>4. QED
  BY <1>1, <1>2, <1>3, PTL DEF SessionSpec

-----------------------------------------------------------------------------
(* LiveSocket *)

\* The hook refers to every socket that lives: one it let go is closing.
LiveIsCurrent == \A s \in SocketIds : sockets[s] \in Live => socketRef = s

SocketInv == SocketTypeOK /\ LiveIsCurrent

\* Starting from sockets none of which lives leaves one that does.
LEMMA StartKeeps ==
    ASSUME SocketInv, NEW before \in [SocketIds -> {"none", "connecting", "open", "closing"}],
           \A s \in SocketIds : before[s] \notin Live, Start(before)
    PROVE  /\ sockets' \in [SocketIds -> {"none", "connecting", "open", "closing"}]
           /\ socketRef' \in SocketIds /\ manuallyClosed' = FALSE /\ timerRef' = FALSE /\ refused' = FALSE
           /\ LiveIsCurrent'
<1>1. PICK s \in SocketIds :
        /\ sockets' = [before EXCEPT ![s] = "connecting"] /\ socketRef' = s
        /\ manuallyClosed' = FALSE /\ timerRef' = FALSE /\ refused' = FALSE
  BY DEF Start
<1>2. QED
  BY <1>1 DEF LiveIsCurrent, Live

\* disconnect leaves no socket that lives.
LEMMA DroppedLives ==
    ASSUME SocketInv
    PROVE  /\ Dropped \in [SocketIds -> {"none", "connecting", "open", "closing"}]
           /\ \A s \in SocketIds : Dropped[s] \notin Live
BY SocketAssumption DEF SocketInv, SocketTypeOK, LiveIsCurrent, Dropped, Live

\* Without a current connection no socket lives.
LEMMA NoneLives ==
    ASSUME SocketInv, CanConnect
    PROVE  \A s \in SocketIds : sockets[s] \notin Live
BY SocketAssumption DEF SocketInv, LiveIsCurrent, CanConnect

LEMMA ReconnectKeeps ==
    ASSUME SocketInv, Reconnect, timerRef' \in BOOLEAN, signedIn' = signedIn, leaked' \in 0 .. MaxLeaked
    PROVE  SocketInv'
<1>1. CASE CanConnect
  <2>1. Start(sockets)
    BY <1>1 DEF Reconnect
  <2>2. /\ sockets' \in [SocketIds -> {"none", "connecting", "open", "closing"}]
        /\ socketRef' \in SocketIds /\ manuallyClosed' = FALSE /\ timerRef' = FALSE /\ refused' = FALSE
        /\ LiveIsCurrent'
    BY <1>1, <2>1, NoneLives, StartKeeps DEF SocketInv, SocketTypeOK
  <2>3. QED
    BY <2>2 DEF SocketInv, SocketTypeOK
<1>2. CASE ~CanConnect
  BY <1>2 DEF Reconnect, SocketInv, SocketTypeOK, LiveIsCurrent
<1>3. QED
  BY <1>1, <1>2

LEMMA SocketInvariant == SocketInit /\ [][SocketNext]_socketVars => []SocketInv
<1>1. SocketInit => SocketInv
  <2> SUFFICES ASSUME SocketInit
               PROVE  SocketInv
    OBVIOUS
  <2>1. sockets \in [SocketIds -> {"none", "connecting", "open", "closing"}] /\ LiveIsCurrent
    BY DEF SocketInit, LiveIsCurrent, Live
  <2>2. leaked \in 0 .. MaxLeaked
    BY SocketAssumption DEF SocketInit
  <2>3. QED
    BY <2>1, <2>2 DEF SocketInit, SocketInv, SocketTypeOK
<1>2. SocketInv /\ [SocketNext]_socketVars => SocketInv'
  <2> SUFFICES ASSUME SocketInv, [SocketNext]_socketVars
               PROVE  SocketInv'
    OBVIOUS
  <2>1. CASE AuthChanges
    <3>1. signedIn' \in BOOLEAN /\ leaked' = leaked
      BY <2>1 DEF AuthChanges
    <3>2. CASE signedIn'
      <4>1. Start(Dropped)
        BY <2>1, <3>2 DEF AuthChanges
      <4>2. /\ sockets' \in [SocketIds -> {"none", "connecting", "open", "closing"}]
            /\ socketRef' \in SocketIds /\ manuallyClosed' = FALSE /\ timerRef' = FALSE /\ refused' = FALSE
            /\ LiveIsCurrent'
        BY <4>1, DroppedLives, StartKeeps
      <4>3. QED
        BY <3>1, <4>2 DEF SocketInv, SocketTypeOK
    <3>3. CASE ~signedIn'
      <4>1. /\ sockets' = Dropped /\ socketRef' = NoSocket
            /\ manuallyClosed' = TRUE /\ timerRef' = FALSE /\ refused' = refused
        BY <2>1, <3>3 DEF AuthChanges
      <4>2. QED
        BY <3>1, <4>1, DroppedLives DEF SocketInv, SocketTypeOK, LiveIsCurrent
    <3>4. QED
      BY <3>2, <3>3
  <2>2. CASE TimerFires
    BY <2>2, ReconnectKeeps DEF TimerFires, SocketInv, SocketTypeOK
  <2>3. CASE LeakedTimerFires
    <3>1. leaked' \in 0 .. MaxLeaked /\ signedIn' = signedIn /\ Reconnect
      BY <2>3, SocketAssumption DEF LeakedTimerFires, SocketInv, SocketTypeOK
    <3>2. timerRef' \in BOOLEAN
      BY <2>3 DEF LeakedTimerFires, Reconnect, Start, SocketInv, SocketTypeOK
    <3>3. QED
      BY <3>1, <3>2, ReconnectKeeps
  <2>4. ASSUME NEW s \in SocketIds, Opened(s)
        PROVE  SocketInv'
    BY <2>4 DEF Opened, SocketInv, SocketTypeOK, LiveIsCurrent, Live
  <2>5. ASSUME NEW s \in SocketIds, NEW final \in BOOLEAN, Closed(s, final)
        PROVE  SocketInv'
    <3>1. LiveIsCurrent'
      BY <2>5 DEF Closed, SocketInv, SocketTypeOK, LiveIsCurrent, Live
    <3>2. timerRef' \in BOOLEAN
      BY <2>5 DEF Closed, SocketInv, SocketTypeOK
    <3>3. leaked' \in 0 .. MaxLeaked
      <4>1. leaked \in 0 .. MaxLeaked /\ (leaked' = leaked \/ (leaked' = leaked + 1 /\ leaked' <= MaxLeaked))
        BY <2>5 DEF Closed, SocketInv, SocketTypeOK
      <4>2. QED
        BY <4>1, SocketAssumption
    <3>4. refused' \in BOOLEAN
      BY <2>5 DEF Closed, SocketInv, SocketTypeOK
    <3>5. QED
      BY <2>5, <3>1, <3>2, <3>3, <3>4 DEF Closed, SocketInv, SocketTypeOK
  <2>6. CASE UNCHANGED socketVars
    BY <2>6 DEF socketVars, SocketInv, SocketTypeOK, LiveIsCurrent
  <2>7. QED
    BY <2>1, <2>2, <2>3, <2>4, <2>5, <2>6 DEF SocketNext
<1>3. QED
  BY <1>1, <1>2, PTL

\* Sockets, timers and the hook's references keep their types.
THEOREM SocketTypes == SocketSpec => []SocketTypeOK
<1>1. SocketInv => SocketTypeOK
  BY DEF SocketInv
<1>2. QED
  BY <1>1, SocketInvariant, PTL DEF SocketSpec

\* The tab never has two connections that live, whatever sign-ins, failures and
\* leaked timers do, for any number of sockets and timers.
THEOREM OneSocket == SocketSpec => []OneLiveSocket
<1>1. SocketInv => OneLiveSocket
  BY DEF SocketInv, LiveIsCurrent, OneLiveSocket
<1>2. QED
  BY <1>1, SocketInvariant, PTL DEF SocketSpec

-----------------------------------------------------------------------------
(* Notices *)

States == {"none", "unread", "read"}

\* A list with its count.
IsBell(b) ==
    /\ b = [list |-> b.list, unread |-> b.unread]
    /\ b.list \in [Notes -> States] /\ b.unread \in 0 .. Cardinality(Notes)
Counts(b) == b.unread = UnreadIn(b.list)

\* The list shown and every list that may come back counts, until a read line is clicked.
BellInv ==
    /\ NoticeTypeOK
    /\ bell # NoNotes => IsBell(bell) /\ (~reclicked => Counts(bell))
    /\ bellRead \notin {<<>>, Unserved} => \E b : bellRead = <<b>> /\ IsBell(b) /\ Counts(b)
    /\ \A m \in marks : /\ m = [what |-> m.what, nth |-> m.nth, before |-> m.before, served |-> m.served]
                        /\ IsBell(m.before) /\ (~reclicked => Counts(m.before))

-----------------------------------------------------------------------------
(* Counting *)

\* Some of the notifications are unread, at most all.
LEMMA UnreadBound ==
    ASSUME NEW list \in [Notes -> States]
    PROVE  UnreadIn(list) \in 0 .. Cardinality(Notes)
<1>1. {n \in Notes : list[n] = "unread"} \subseteq Notes /\ IsFiniteSet(Notes)
  BY NoticeAssumption
<1>2. QED
  BY <1>1, FS_Subset, FS_CardinalityType DEF UnreadIn

\* A line that is marked is one unread less, if it was unread; all marked, none is.
LEMMA MarkedCount ==
    ASSUME NEW list \in [Notes -> States], NEW n \in Notes \cup {AllNotes}
    PROVE  /\ MarkedIn(list, n) \in [Notes -> States]
           /\ n = AllNotes => UnreadIn(MarkedIn(list, n)) = 0
           /\ n \in Notes /\ list[n] = "unread" =>
                 UnreadIn(list) > 0 /\ UnreadIn(MarkedIn(list, n)) = UnreadIn(list) - 1
<1> DEFINE U(l) == {k \in Notes : l[k] = "unread"}
<1>1. MarkedIn(list, n) \in [Notes -> States]
  BY DEF MarkedIn, States
<1>2. ASSUME n = AllNotes
      PROVE  UnreadIn(MarkedIn(list, n)) = 0
  <2>1. U(MarkedIn(list, n)) = {}
    BY <1>2 DEF MarkedIn, States
  <2>2. QED
    BY <2>1, FS_EmptySet DEF UnreadIn
<1>3. ASSUME n \in Notes, list[n] = "unread"
      PROVE  UnreadIn(list) > 0 /\ UnreadIn(MarkedIn(list, n)) = UnreadIn(list) - 1
  <2>1. U(MarkedIn(list, n)) = U(list) \ {n} /\ n \in U(list)
    BY <1>3, NoticeAssumption DEF MarkedIn
  <2>2. IsFiniteSet(U(list))
    BY NoticeAssumption, FS_Subset
  <2>3. Cardinality(U(list)) \in Nat /\ Cardinality(U(list) \ {n}) \in Nat
    BY <2>2, FS_CardinalityType, FS_RemoveElement
  <2>4. Cardinality(U(list) \ {n}) = Cardinality(U(list)) - 1
    BY <2>1, <2>2, FS_RemoveElement
  <2>5. UnreadIn(list) = Cardinality(U(list)) /\ UnreadIn(MarkedIn(list, n)) = Cardinality(U(list) \ {n})
    BY <2>1 DEF UnreadIn
  <2>6. QED
    BY <2>3, <2>4, <2>5
<1>4. QED
  BY <1>1, <1>2, <1>3

\* What the server answers counts.
LEMMA ServerCounts ==
    ASSUME NoticeTypeOK
    PROVE  IsBell(OnServer) /\ Counts(OnServer)
BY UnreadBound DEF NoticeTypeOK, IsBell, Counts, OnServer, States

-----------------------------------------------------------------------------
(* Steps *)

\* The list shown is kept and at most the server's list, pushes and reads change.
LEMMA ReadStep ==
    ASSUME BellInv, NoticeTypeOK', UNCHANGED <<bell, reclicked>>, marks' \subseteq marks,
           bellRead' \in {bellRead, <<>>, Unserved} \/ bellRead' = <<OnServer>>
    PROVE  BellInv'
<1>1. bellRead' \notin {<<>>, Unserved} => \E b : bellRead' = <<b>> /\ IsBell(b) /\ Counts(b)
  BY ServerCounts DEF BellInv
<1>2. bell' # NoNotes => IsBell(bell') /\ (~reclicked' => Counts(bell'))
  BY DEF BellInv
<1>3. \A m \in marks' : /\ m = [what |-> m.what, nth |-> m.nth, before |-> m.before, served |-> m.served]
                        /\ IsBell(m.before) /\ (~reclicked' => Counts(m.before))
  BY DEF BellInv
<1>4. QED
  BY <1>1, <1>2, <1>3 DEF BellInv

LEMMA MarkStep ==
    ASSUME BellInv, NEW n \in Notes \cup {AllNotes}, Mark(n)
    PROVE  BellInv'
<1>1. /\ bell # NoNotes /\ IsBell(bell) /\ (~reclicked => Counts(bell))
      /\ bell' = OptimisticBell(n) /\ bellRead' = <<>>
  BY DEF Mark, BellInv
<1>2. MarkedIn(bell.list, n) \in [Notes -> States]
  BY <1>1, MarkedCount DEF IsBell
<1>3. IsBell(bell')
  <2>1. Cardinality(Notes) \in Nat
    BY NoticeAssumption, FS_CardinalityType
  <2>2. QED
    BY <1>1, <1>2, <2>1 DEF IsBell, OptimisticBell
<1>4. ASSUME ~reclicked'
      PROVE  ~reclicked /\ Counts(bell')
  <2>1. ~reclicked /\ Counts(bell) /\ (n = AllNotes \/ bell.list[n] # "read")
    BY <1>1, <1>4 DEF Mark
  <2>2. CASE n = AllNotes
    <3> DEFINE b == [list |-> MarkedIn(bell.list, n), unread |-> 0]
    <3>1. Counts(b)
      BY <1>1, <2>2, MarkedCount DEF IsBell, Counts
    <3>2. bell' = b
      BY <1>1, <2>2 DEF OptimisticBell
    <3>3. QED
      BY <2>1, <3>1, <3>2
  <2>3. CASE n # AllNotes
    <3>1. n \in Notes /\ bell.list[n] = "unread"
      BY <1>1, <2>1, <2>3 DEF Mark, IsBell, States
    <3>2. UnreadIn(bell.list) > 0 /\ UnreadIn(MarkedIn(bell.list, n)) = UnreadIn(bell.list) - 1
      BY <1>1, <3>1, MarkedCount DEF IsBell
    <3>3. bell.unread = UnreadIn(bell.list) /\ bell.unread > 0
      BY <2>1, <3>2 DEF Counts
    <3> DEFINE b == [list |-> MarkedIn(bell.list, n), unread |-> bell.unread - 1]
    <3>4. Counts(b)
      BY <3>2, <3>3 DEF Counts
    <3>5. bell' = b
      BY <1>1, <2>3, <3>3 DEF OptimisticBell
    <3>6. QED
      BY <2>1, <3>4, <3>5
  <2>4. QED
    BY <2>1, <2>2, <2>3
<1>5. NoticeTypeOK'
  BY <1>3, NoticeAssumption DEF Mark, BellInv, NoticeTypeOK, IsBell
<1>6. \A m \in marks' : /\ m = [what |-> m.what, nth |-> m.nth, before |-> m.before, served |-> m.served]
                        /\ IsBell(m.before) /\ (~reclicked' => Counts(m.before))
  BY <1>1, <1>4 DEF Mark, BellInv
<1>7. QED
  BY <1>1, <1>3, <1>4, <1>5, <1>6 DEF BellInv

LEMMA AnswerStep ==
    ASSUME BellInv, NEW m \in marks, MarkServed(m) \/ MarkSucceeds(m) \/ MarkFails(m)
    PROVE  BellInv'
<1>1. CASE MarkServed(m)
  <2>1. NoticeTypeOK'
    BY <1>1 DEF MarkServed, MarkedIn, BellInv, NoticeTypeOK
  <2>2. \A k \in marks' : /\ k = [what |-> k.what, nth |-> k.nth, before |-> k.before, served |-> k.served]
                          /\ IsBell(k.before) /\ (~reclicked' => Counts(k.before))
    BY <1>1 DEF MarkServed, BellInv
  <2>3. UNCHANGED <<bell, bellRead, reclicked>>
    BY <1>1 DEF MarkServed
  <2>4. QED
    BY <2>1, <2>2, <2>3 DEF BellInv
<1>2. CASE MarkSucceeds(m)
  <2>1. NoticeTypeOK'
    BY <1>2 DEF MarkSucceeds, BellInv, NoticeTypeOK
  <2>2. QED
    BY <1>2, <2>1, ReadStep DEF MarkSucceeds
<1>3. CASE MarkFails(m)
  <2>1. bell' = m.before /\ bellRead' = Unserved /\ marks' \subseteq marks /\ reclicked' = reclicked
    BY <1>3 DEF MarkFails
  <2>2. NoticeTypeOK'
    BY <1>3, <2>1 DEF MarkFails, BellInv, NoticeTypeOK, IsBell
  <2>3. QED
    BY <2>1, <2>2 DEF BellInv
<1>4. QED
  BY <1>1, <1>2, <1>3

-----------------------------------------------------------------------------
(* Theorems *)

LEMMA BellInvariant == NoticeInit /\ [][NoticeNext]_noticeVars => []BellInv
<1>1. NoticeInit => BellInv
  <2> SUFFICES ASSUME NoticeInit
               PROVE  BellInv
    OBVIOUS
  <2>1. NoticeTypeOK
    <3>1. MaxMarks \in Nat /\ MaxNoteFails \in Nat
      BY NoticeAssumption
    <3>2. noteState \in [Notes -> {"none", "unread", "read"}] /\ pushes \subseteq Notes
      BY DEF NoticeInit
    <3>3. bell = NoNotes /\ marked \in 0 .. MaxMarks /\ noteFails \in 0 .. MaxNoteFails
      BY <3>1 DEF NoticeInit
    <3>4. reclicked \in BOOLEAN
      BY DEF NoticeInit
    <3>5. QED
      BY <3>2, <3>3, <3>4 DEF NoticeTypeOK
  <2>2. bell = NoNotes /\ bellRead = Unserved /\ marks = {}
    BY DEF NoticeInit
  <2>3. QED
    BY <2>1, <2>2 DEF BellInv
<1>2. BellInv /\ [NoticeNext]_noticeVars => BellInv'
  <2> SUFFICES ASSUME BellInv, [NoticeNext]_noticeVars
               PROVE  BellInv'
    OBVIOUS
  <2>1. ASSUME NEW n \in Notes, ServerNotifies(n) \/ PushArrives(n) \/ PushLost(n)
        PROVE  BellInv'
    <3>1. NoticeTypeOK'
      BY <2>1 DEF ServerNotifies, PushArrives, PushLost, BellInv, NoticeTypeOK
    <3>2. QED
      BY <2>1, <3>1, ReadStep DEF ServerNotifies, PushArrives, PushLost
  <2>2. CASE Poll \/ BellServed \/ BellFails
    <3>1. NoticeTypeOK'
      BY <2>2, NoticeAssumption DEF Poll, BellServed, BellFails, BellInv, NoticeTypeOK
    <3>2. QED
      BY <2>2, <3>1, ReadStep DEF Poll, BellServed, BellFails
  <2>3. CASE BellLands
    <3>1. PICK b : bellRead = <<b>> /\ IsBell(b) /\ Counts(b)
      BY <2>3 DEF BellLands, BellInv
    <3>2. bell' = b /\ bellRead' = <<>> /\ UNCHANGED <<marks, reclicked>>
      BY <2>3, <3>1 DEF BellLands
    <3>3. NoticeTypeOK'
      BY <2>3, <3>1, <3>2 DEF BellLands, BellInv, NoticeTypeOK, IsBell
    <3>4. QED
      BY <3>1, <3>2, <3>3 DEF BellInv
  <2>4. CASE UNCHANGED noticeVars
    <3>1. NoticeTypeOK'
      BY <2>4 DEF noticeVars, BellInv, NoticeTypeOK
    <3>2. QED
      BY <2>4, <3>1, ReadStep DEF noticeVars
  <2>5. QED
    BY <2>1, <2>2, <2>3, <2>4, MarkStep, AnswerStep DEF NoticeNext
<1>3. QED
  BY <1>1, <1>2, PTL

\* The list on the server, the count and the counters keep their types: the
\* count of the bell is never negative nor more than there are notifications.
THEOREM NoticeTypes == NoticeSpec => []NoticeTypeOK
<1>1. BellInv => NoticeTypeOK
  BY DEF BellInv
<1>2. QED
  BY <1>1, BellInvariant, PTL DEF NoticeSpec

\* However marks overlap, fail and are rolled back, the number on the bell is
\* the number of unread lines, until a line that was read is clicked.
THEOREM Badge == NoticeSpec => []BadgeMatchesList
<1>1. BellInv => BadgeMatchesList
  BY DEF BellInv, BadgeMatchesList, Counts
<1>2. QED
  BY <1>1, BellInvariant, PTL DEF NoticeSpec

-----------------------------------------------------------------------------
(* The settings page *)

\* Nothing is stored that the page was not told of.
Told(d) == d \notin lostUpdate /\ \A u \in updates : u.doc = d => u.phase # "stored"

\* Then the document is known, read, or still to be read.
UpToDate(d) ==
    \/ loadingDoc[d] = <<>> /\ known[d] \in {NotLoaded, document[d]}
    \/ loadingDoc[d] = <<NotLoaded>>
    \/ loadingDoc[d] = <<document[d]>>

SettingsShape ==
    /\ document = [d \in Docs |-> document[d]] /\ known = [d \in Docs |-> known[d]]
    /\ loadingDoc = [d \in Docs |-> loadingDoc[d]]
    /\ \A u \in updates : u = [doc |-> u.doc, id |-> u.id, patch |-> u.patch, phase |-> u.phase] /\ u.doc \in Docs

SettingsInv == SettingsShape /\ \A d \in Docs : Told(d) => UpToDate(d)

\* Reads of one document.
LEMMA ReadingStep ==
    ASSUME SettingsInv, NEW d \in Docs, DocRead(d) \/ DocLands(d) \/ DocReadFails(d) \/ DocRefocus(d)
    PROVE  SettingsInv'
<1>1. UNCHANGED <<document, updates>>
  BY DEF DocRead, DocLands, DocReadFails, DocRefocus
<1>2. SettingsShape'
  BY <1>1 DEF SettingsInv, SettingsShape, DocRead, DocLands, DocReadFails, DocRefocus
<1>3. \A e \in Docs \ {d} : (Told(e)' => Told(e)) /\ loadingDoc'[e] = loadingDoc[e] /\ known'[e] = known[e]
  BY <1>1 DEF SettingsInv, SettingsShape, Told, DocRead, DocLands, DocReadFails, DocRefocus
<1>4. \A e \in Docs \ {d} : Told(e)' => UpToDate(e)'
  BY <1>1, <1>3 DEF SettingsInv, UpToDate
<1>5. Told(d)' => UpToDate(d)'
  <2>1. CASE DocRead(d)
    <3>1. loadingDoc'[d] = <<document'[d]>>
      BY <1>1, <2>1 DEF DocRead, SettingsInv, SettingsShape
    <3>2. QED
      BY <3>1 DEF UpToDate
  <2>2. CASE DocLands(d)
    <3>1. Told(d)' => loadingDoc[d] = <<document[d]>>
      BY <1>1, <2>2 DEF DocLands, SettingsInv, Told, UpToDate
    <3>2. loadingDoc'[d] = <<>> /\ known'[d] = loadingDoc[d][1]
      BY <2>2 DEF DocLands, SettingsInv, SettingsShape
    <3>3. QED
      BY <1>1, <3>1, <3>2 DEF UpToDate
  <2>3. CASE DocReadFails(d)
    BY <2>3 DEF DocReadFails, Told
  <2>4. CASE DocRefocus(d)
    <3>1. loadingDoc'[d] = <<NotLoaded>>
      BY <2>4 DEF DocRefocus, SettingsInv, SettingsShape
    <3>2. QED
      BY <3>1 DEF UpToDate
  <2>5. QED
    BY <2>1, <2>2, <2>3, <2>4
<1>6. QED
  BY <1>2, <1>4, <1>5 DEF SettingsInv

\* Steps that at most add an update that is sent.
LEMMA EnteringStep ==
    ASSUME SettingsInv, UNCHANGED <<document, known, loadingDoc, lostUpdate>>,
           \/ updates' = updates
           \/ \E d \in Docs : \E id, patch :
                 updates' = updates \cup {[doc |-> d, id |-> id, patch |-> patch, phase |-> "sent"]}
    PROVE  SettingsInv'
<1>1. SettingsShape'
  BY DEF SettingsInv, SettingsShape
<1>2. \A d \in Docs : (Told(d)' => Told(d)) /\ (UpToDate(d) => UpToDate(d)')
  BY DEF Told, UpToDate
<1>3. QED
  BY <1>1, <1>2 DEF SettingsInv

LEMMA UpdatingStep ==
    ASSUME SettingsInv, NEW u \in updates, SettingServed(u) \/ UpdateSucceeds(u) \/ UpdateFails(u)
    PROVE  SettingsInv'
<1>1. u.doc \in Docs /\ u = [doc |-> u.doc, id |-> u.id, patch |-> u.patch, phase |-> u.phase]
  BY DEF SettingsInv, SettingsShape
<1>2. CASE SettingServed(u)
  <2> DEFINE served == [u EXCEPT !.phase = "stored"]
  <2>1. served = [doc |-> u.doc, id |-> u.id, patch |-> u.patch, phase |-> "stored"]
    BY <1>1
  <2>2. /\ updates' = (updates \ {u}) \cup {served} /\ UNCHANGED <<known, loadingDoc, lostUpdate>>
        /\ document' = [document EXCEPT ![u.doc] = document'[u.doc]]
    BY <1>1, <1>2 DEF SettingServed, SettingsInv, SettingsShape
  <2>3. SettingsShape'
    BY <1>1, <2>1, <2>2 DEF SettingsInv, SettingsShape
  <2>4. ~Told(u.doc)'
    BY <2>1, <2>2 DEF Told
  <2>5. \A d \in Docs \ {u.doc} : (Told(d)' => Told(d)) /\ (UpToDate(d) => UpToDate(d)')
    BY <1>1, <2>2 DEF SettingsInv, SettingsShape, Told, UpToDate
  <2>6. QED
    BY <2>3, <2>4, <2>5 DEF SettingsInv
<1>3. CASE UpdateSucceeds(u)
  <2>1. updates' = updates \ {u} /\ UNCHANGED <<document, known>>
    BY <1>3 DEF UpdateSucceeds
  <2>2. SettingsShape'
    BY <1>3, <2>1 DEF UpdateSucceeds, SettingsInv, SettingsShape
  <2>3. \A d \in Docs \ {u.doc} : (Told(d)' => Told(d)) /\ (UpToDate(d) => UpToDate(d)')
    BY <1>1, <1>3, <2>1 DEF UpdateSucceeds, SettingsInv, SettingsShape, Told, UpToDate
  <2>4. Told(u.doc)' => UpToDate(u.doc)'
    <3>1. JoinsFirst(u) => u.doc \in lostUpdate'
      BY <1>3 DEF UpdateSucceeds
    <3>2. ~JoinsFirst(u) => loadingDoc'[u.doc] = <<NotLoaded>>
      BY <1>1, <1>3 DEF UpdateSucceeds, SettingsInv, SettingsShape
    <3>3. QED
      BY <3>1, <3>2 DEF Told, UpToDate
  <2>5. QED
    BY <2>2, <2>3, <2>4 DEF SettingsInv
<1>4. CASE UpdateFails(u)
  <2>1. /\ updates' = updates \ {u} /\ UNCHANGED <<document, known, loadingDoc>>
        /\ lostUpdate' = IF u.phase = "stored" THEN lostUpdate \cup {u.doc} ELSE lostUpdate
    BY <1>4 DEF UpdateFails
  <2>2. SettingsShape'
    BY <2>1 DEF SettingsInv, SettingsShape
  <2>3. \A d \in Docs : (Told(d)' => Told(d)) /\ (UpToDate(d) => UpToDate(d)')
    BY <2>1 DEF Told, UpToDate
  <2>4. QED
    BY <2>2, <2>3 DEF SettingsInv
<1>5. QED
  BY <1>2, <1>3, <1>4

LEMMA SettingsInvariant == SettingsSpec => []SettingsInv
<1>1. SettingsInit => SettingsInv
  BY DEF SettingsInit, SettingsInv, SettingsShape, UpToDate
<1>2. SettingsInv /\ [SettingsNext]_settingsVars => SettingsInv'
  <2> SUFFICES ASSUME SettingsInv, [SettingsNext]_settingsVars
               PROVE  SettingsInv'
    OBVIOUS
  <2>1. CASE UNCHANGED settingsVars
    BY <2>1, EnteringStep DEF settingsVars
  <2>2. ASSUME NEW d \in Docs, \/ DocRead(d) \/ DocLands(d) \/ DocReadFails(d) \/ DocRefocus(d) \/ SaveFields(d)
                               \/ \E v \in Entries : EnterField(d, v)
        PROVE  SettingsInv'
    <3>1. CASE SaveFields(d)
      BY <3>1, EnteringStep DEF SaveFields, Update
    <3>2. ASSUME NEW v \in Entries, EnterField(d, v)
          PROVE  SettingsInv'
      BY <3>2, EnteringStep DEF EnterField
    <3>3. QED
      BY <2>2, <3>1, <3>2, ReadingStep
  <2>3. CASE OpenRuleDialog \/ CancelRule
    BY <2>3, EnteringStep DEF OpenRuleDialog, CancelRule
  <2>4. ASSUME NEW v \in Entries, AddRule(v)
        PROVE  SettingsInv'
    BY <2>4, EnteringStep DEF AddRule, Update, Docs
  <2>5. ASSUME NEW i \in 1 .. MaxEntries, RemoveRule(i)
        PROVE  SettingsInv'
    BY <2>5, EnteringStep DEF RemoveRule, Update, Docs
  <2>6. QED
    BY <2>1, <2>2, <2>3, <2>4, <2>5, UpdatingStep DEF SettingsNext
<1>3. QED
  BY <1>1, <1>2, PTL DEF SettingsSpec

\* However updates overlap and fail and whatever reads overtake them, the
\* settings on the screen are the server's once nothing is under way.
THEOREM SettingsShown == SettingsSpec => []SettingsShownAreServers
<1>1. SettingsInv => SettingsShownAreServers
  BY DEF SettingsInv, SettingsShownAreServers, Told, UpToDate
<1>2. QED
  BY <1>1, SettingsInvariant, PTL

\* Counters keep within their bounds, and only documents there are can miss an update.
THEOREM SettingsTypes == SettingsSpec => []SettingsTypeOK
<1>1. SettingsInit => SettingsTypeOK
  <2>1. 0 \in 0 .. MaxUpdates /\ 0 \in 0 .. MaxEntries /\ 0 \in 0 .. MaxRefocuses
    BY SettingsAssumption
  <2>2. SettingsInit => lastUpdate \in [Docs -> 0 .. MaxUpdates]
    BY <2>1 DEF SettingsInit
  <2>3. QED
    BY <2>1, <2>2 DEF SettingsInit, SettingsTypeOK
<1>2. SettingsInv /\ SettingsTypeOK /\ [SettingsNext]_settingsVars => SettingsTypeOK'
  <2> SUFFICES ASSUME SettingsInv, SettingsTypeOK, [SettingsNext]_settingsVars
               PROVE  SettingsTypeOK'
    OBVIOUS
  <2>1. CASE UNCHANGED settingsVars
    BY <2>1 DEF settingsVars, SettingsTypeOK
  <2>2. ASSUME NEW d \in Docs, NEW patch, Update(d, patch)
        PROVE  lastUpdate' \in [Docs -> 0 .. MaxUpdates] /\ UNCHANGED <<lostUpdate, refocused>>
    BY <2>2, SettingsAssumption DEF Update, SettingsTypeOK, Docs
  <2>3. ASSUME NEW d \in Docs, \/ DocRead(d) \/ DocLands(d) \/ DocReadFails(d) \/ DocRefocus(d) \/ SaveFields(d)
                               \/ \E v \in Entries : EnterField(d, v)
        PROVE  SettingsTypeOK'
    <3>1. CASE SaveFields(d)
      BY <2>2, <3>1 DEF SaveFields, SettingsTypeOK
    <3>2. CASE ~SaveFields(d)
      BY <2>3, <3>2, SettingsAssumption
      DEF DocRead, DocLands, DocReadFails, DocRefocus, EnterField, SettingsTypeOK
    <3>3. QED
      BY <3>1, <3>2
  <2>4. CASE OpenRuleDialog \/ CancelRule
    BY <2>4 DEF OpenRuleDialog, CancelRule, SettingsTypeOK
  <2>5. ASSUME NEW v \in Entries, AddRule(v)
        PROVE  SettingsTypeOK'
    <3>1. "settings" \in Docs /\ Update("settings", Rules(Append(known["settings"].rules, v)))
      BY <2>5 DEF AddRule, Docs
    <3>2. lastUpdate' \in [Docs -> 0 .. MaxUpdates] /\ UNCHANGED <<lostUpdate, refocused>>
      BY <2>2, <3>1
    <3>3. entered' \in 0 .. MaxEntries /\ dialog' = FALSE
      BY <2>5, SettingsAssumption DEF AddRule, SettingsTypeOK
    <3>4. QED
      BY <3>2, <3>3 DEF SettingsTypeOK
  <2>6. ASSUME NEW i \in 1 .. MaxEntries, RemoveRule(i)
        PROVE  SettingsTypeOK'
    BY <2>2, <2>6 DEF RemoveRule, SettingsTypeOK, Docs
  <2>7. ASSUME NEW u \in updates, SettingServed(u) \/ UpdateSucceeds(u) \/ UpdateFails(u)
        PROVE  SettingsTypeOK'
    <3>1. u.doc \in Docs
      BY DEF SettingsInv, SettingsShape
    <3>2. QED
      BY <2>7, <3>1 DEF SettingServed, UpdateSucceeds, UpdateFails, SettingsTypeOK
  <2>8. QED
    BY <2>1, <2>3, <2>4, <2>5, <2>6, <2>7 DEF SettingsNext
<1>3. QED
  BY <1>1, <1>2, SettingsInvariant, PTL DEF SettingsSpec

-----------------------------------------------------------------------------
(* The booking page *)

Selected == [date |-> visit.date, slot |-> visit.slot, mode |-> visit.mode]

StudentShape ==
    /\ visit = [date |-> visit.date, slot |-> visit.slot, mode |-> visit.mode, stage |-> visit.stage]
    /\ \A a \in asking : a = [date |-> a.date, read |-> a.read, slots |-> a.slots, cancelled |-> a.cancelled]
    /\ post # NoPost => post = [phase |-> post.phase, appt |-> post.appt] /\ post.phase # "none"

\* Reads that are still looked at ask for the date that is selected.
AsksForDate == \A a \in asking : a.cancelled \/ a.date = visit.date

\* While a call is under way it carries what is selected; what it booked is booked.
PostAgrees ==
    /\ post = NoPost <=> visit.stage # "syncing"
    /\ post # NoPost /\ ~moved => post.appt = Selected
    /\ post # NoPost /\ post.phase = "booked" => mine = post.appt

\* What the page calls done is what the server has.
DoneAgrees == visit.stage = "done" /\ ~moved => mine = Selected

BookingInv == StudentShape /\ AsksForDate /\ TakenIsOfDate /\ PostAgrees /\ DoneAgrees

\* The student picks something.
LEMMA PickStep ==
    ASSUME BookingInv, Moves, UNCHANGED <<post, mine>>, visit'.stage = visit.stage,
           visit' = [date |-> visit'.date, slot |-> visit'.slot, mode |-> visit'.mode, stage |-> visit'.stage],
           \/ UNCHANGED <<asking, taken>> /\ visit'.date = visit.date
           \/ /\ taken' = [of |-> NoDate, slots |-> {}]
              /\ \A a \in asking' : /\ a = [date |-> a.date, read |-> a.read, slots |-> a.slots, cancelled |-> a.cancelled]
                                    /\ a.cancelled \/ a.date = visit'.date
    PROVE  BookingInv'
<1>1. StudentShape'
  BY DEF BookingInv, StudentShape, NoPost
<1>2. AsksForDate' /\ TakenIsOfDate'
  BY DEF BookingInv, AsksForDate, TakenIsOfDate
<1>3. PostAgrees' /\ DoneAgrees'
  BY DEF BookingInv, PostAgrees, DoneAgrees, Moves, NoPost
<1>4. QED
  BY <1>1, <1>2, <1>3 DEF BookingInv

LEMMA PickingStep ==
    ASSUME BookingInv,
           \/ \E d \in Dates : PickDate(d)
           \/ \E t \in OfferedSlots : PickSlot(t)
           \/ ClearSlot \/ \E m \in Modes : PickMode(m)
    PROVE  BookingInv'
<1>1. ASSUME NEW d \in Dates, PickDate(d)
      PROVE  BookingInv'
  <2> DEFINE date == IF d = visit.date THEN NoDate ELSE d
             old == {[date |-> a.date, read |-> TRUE, slots |-> {}, cancelled |-> TRUE] : a \in asking}
             new == IF date = NoDate THEN {} ELSE {Asking(date)}
  <2>1. /\ visit' = [visit EXCEPT !.date = date, !.slot = NoSlot] /\ asking' = old \cup new
        /\ taken' = [of |-> NoDate, slots |-> {}] /\ Moves /\ UNCHANGED <<post, mine>>
    BY <1>1 DEF PickDate
  <2>2. visit' = [date |-> date, slot |-> NoSlot, mode |-> visit.mode, stage |-> visit.stage]
    BY <2>1 DEF BookingInv, StudentShape
  <2>3. \A a \in old : a = [date |-> a.date, read |-> a.read, slots |-> a.slots, cancelled |-> a.cancelled] /\ a.cancelled
    OBVIOUS
  <2>4. \A a \in new : /\ a = [date |-> a.date, read |-> a.read, slots |-> a.slots, cancelled |-> a.cancelled]
                       /\ a.date = visit'.date
    BY <2>2 DEF Asking
  <2> HIDE DEF old, new, date
  <2>5. QED
    BY <2>1, <2>2, <2>3, <2>4, PickStep
<1>2. ASSUME NEW t \in OfferedSlots, PickSlot(t)
      PROVE  BookingInv'
  BY <1>2, PickStep DEF PickSlot, BookingInv, StudentShape
<1>3. CASE ClearSlot
  BY <1>3, PickStep DEF ClearSlot, BookingInv, StudentShape
<1>4. ASSUME NEW m \in Modes, PickMode(m)
      PROVE  BookingInv'
  BY <1>4, PickStep DEF PickMode, BookingInv, StudentShape
<1>5. QED
  BY <1>1, <1>2, <1>3, <1>4

\* The slots of a date are read.
LEMMA TakenStep ==
    ASSUME BookingInv, NEW a \in asking, ServerReadsTaken(a) \/ TakenLands(a) \/ TakenFails(a)
    PROVE  BookingInv'
<1>1. UNCHANGED <<visit, post, mine, moved>>
  BY DEF ServerReadsTaken, TakenLands, TakenFails
<1>2. PostAgrees' /\ DoneAgrees'
  BY <1>1 DEF BookingInv, PostAgrees, DoneAgrees, Selected, NoPost
<1>3. a = [date |-> a.date, read |-> a.read, slots |-> a.slots, cancelled |-> a.cancelled] /\ (a.cancelled \/ a.date = visit.date)
  BY DEF BookingInv, StudentShape, AsksForDate
<1>4. CASE ServerReadsTaken(a)
  <2>1. PICK slots : asking' = (asking \ {a}) \cup {[date |-> a.date, read |-> TRUE, slots |-> slots, cancelled |-> a.cancelled]}
    BY <1>4 DEF ServerReadsTaken
  <2>2. taken' = taken
    BY <1>4 DEF ServerReadsTaken
  <2>3. QED
    BY <1>1, <1>2, <1>3, <2>1, <2>2 DEF BookingInv, StudentShape, AsksForDate, TakenIsOfDate, NoPost
<1>5. CASE TakenLands(a) \/ TakenFails(a)
  <2>1. asking' = asking \ {a} /\ (taken' = taken \/ (~a.cancelled /\ taken'.of = a.date))
    BY <1>5 DEF TakenLands, TakenFails
  <2>2. QED
    BY <1>1, <1>2, <1>3, <2>1 DEF BookingInv, StudentShape, AsksForDate, TakenIsOfDate, NoPost
<1>6. QED
  BY <1>4, <1>5

\* The booking call and its answer.
LEMMA CallStep ==
    ASSUME BookingInv, ConfirmBooking \/ ServerBooks \/ BookingAnswered \/ BookingLost
    PROVE  BookingInv'
<1>1. CASE ConfirmBooking
  <2>1. /\ visit' = [date |-> visit.date, slot |-> visit.slot, mode |-> visit.mode, stage |-> "syncing"]
        /\ post' = [phase |-> "sent", appt |-> Selected] /\ UNCHANGED <<taken, asking, mine>>
    BY <1>1 DEF ConfirmBooking, BookingInv, StudentShape, Selected
  <2>2. post' # NoPost /\ Selected' = Selected
    <3>1. post'.phase = "sent" /\ NoPost.phase = "none"
      BY <2>1 DEF NoPost
    <3>2. QED
      BY <2>1, <3>1 DEF Selected
  <2>3. QED
    BY <2>1, <2>2 DEF BookingInv, StudentShape, AsksForDate, TakenIsOfDate, PostAgrees, DoneAgrees
<1>2. CASE ServerBooks
  <2>1. post # NoPost /\ visit.stage = "syncing" /\ UNCHANGED <<visit, taken, asking, moved>>
    BY <1>2 DEF ServerBooks, NoPost, BookingInv, PostAgrees
  <2>2. /\ post' = [phase |-> post'.phase, appt |-> post.appt] /\ post'.phase \in {"refused", "taken", "booked"}
        /\ post'.phase = "booked" => mine' = post.appt
    BY <1>2, <2>1 DEF ServerBooks, BookingInv, StudentShape
  <2>3. post' # NoPost /\ Selected' = Selected
    BY <2>1, <2>2 DEF NoPost, Selected
  <2>4. QED
    BY <2>1, <2>2, <2>3 DEF BookingInv, StudentShape, AsksForDate, TakenIsOfDate, PostAgrees, DoneAgrees
<1>3. CASE BookingAnswered \/ BookingLost
  <2>1. post # NoPost
    BY <1>3 DEF BookingAnswered, BookingLost, NoPost
  <2>2. /\ post' = NoPost /\ UNCHANGED <<taken, asking, mine, moved>>
        /\ visit' = [date |-> visit.date, slot |-> visit'.slot, mode |-> visit.mode, stage |-> visit'.stage]
        /\ visit'.stage = "pick" \/ (post.phase = "booked" /\ visit'.stage = "done" /\ visit'.slot = visit.slot)
    BY <1>3 DEF BookingAnswered, BookingLost, BookingInv, StudentShape
  <2>3. visit'.stage = "done" /\ ~moved => mine = Selected /\ Selected' = Selected
    BY <2>1, <2>2 DEF BookingInv, PostAgrees, Selected
  <2>4. QED
    BY <2>2, <2>3 DEF BookingInv, StudentShape, AsksForDate, TakenIsOfDate, PostAgrees, DoneAgrees, NoPost
<1>4. QED
  BY <1>1, <1>2, <1>3

LEMMA BookingPageInvariant == StudentSpec => []BookingInv
<1>1. StudentInit => BookingInv
  BY DEF StudentInit, BookingInv, StudentShape, AsksForDate, TakenIsOfDate, PostAgrees, DoneAgrees, NoPost, Asking
<1>2. BookingInv /\ [StudentNext]_studentVars => BookingInv'
  <2> SUFFICES ASSUME BookingInv, [StudentNext]_studentVars
               PROVE  BookingInv'
    OBVIOUS
  <2>1. ASSUME UNCHANGED <<visit, taken, asking, post, mine, moved>>
        PROVE  BookingInv'
    BY <2>1 DEF BookingInv, StudentShape, AsksForDate, TakenIsOfDate, PostAgrees, DoneAgrees, Selected, NoPost
  <2>2. CASE ScheduleArrives \/ (\E n \in 1 .. 5 : Rate(n)) \/ SubmitReview \/ ReviewAnswered
    BY <2>1, <2>2 DEF ScheduleArrives, Rate, SubmitReview, ReviewAnswered
  <2>3. CASE \E d \in Dates : \E t \in StartsOn(d, PageSchedules[Len(PageSchedules)]) : OtherBooks(d, t)
    BY <2>1, <2>3 DEF OtherBooks
  <2>4. CASE UNCHANGED studentVars
    BY <2>1, <2>4 DEF studentVars
  <2>5. CASE \E a \in asking : ServerReadsTaken(a) \/ TakenLands(a) \/ TakenFails(a)
    BY <2>5, TakenStep
  <2>6. QED
    BY <2>2, <2>3, <2>4, <2>5, PickingStep, CallStep DEF StudentNext
<1>3. QED
  BY <1>1, <1>2, PTL DEF StudentSpec

\* However dates, answers and picks interleave, the slots shown as taken are
\* those of the selected date, and an appointment the page calls made is the
\* server's, unless something was picked after the call was sent.
THEOREM BookingPage == StudentSpec => []BookingPageIsTrue
<1>1. BookingInv => BookingPageIsTrue
  BY DEF BookingInv, BookingPageIsTrue, CardIsAppointment, CardShown, DoneAgrees, Selected
<1>2. QED
  BY <1>1, BookingPageInvariant, PTL

\* The page is in one of its stages, on a date there is; ratings are of one to five stars.
THEOREM StudentTypes == StudentSpec => []StudentTypeOK
<1> DEFINE Types == StudentTypeOK /\ review = [rating |-> review.rating, stage |-> review.stage]
<1>1. StudentInit => Types
  BY StudentAssumption DEF StudentInit, StudentTypeOK, Modes
<1>2. BookingInv /\ Types /\ [StudentNext]_studentVars => Types'
  <2> SUFFICES ASSUME BookingInv, Types, [StudentNext]_studentVars
               PROVE  Types'
    OBVIOUS
  <2>0. visit = [date |-> visit.date, slot |-> visit.slot, mode |-> visit.mode, stage |-> visit.stage]
    BY DEF BookingInv, StudentShape
  <2>1. ASSUME UNCHANGED <<visit, review, reviewed>>
        PROVE  Types'
    BY <2>1 DEF StudentTypeOK
  <2>2. ASSUME NEW d \in Dates, PickDate(d)
        PROVE  Types'
    <3>1. visit'.date \in Dates \cup {NoDate} /\ visit'.mode = visit.mode /\ visit'.stage = visit.stage
      BY <2>0, <2>2 DEF PickDate
    <3>2. QED
      BY <2>2, <3>1 DEF PickDate, StudentTypeOK, reviewVars
  <2>3. ASSUME NEW t \in OfferedSlots, PickSlot(t)
        PROVE  Types'
    BY <2>0, <2>3 DEF PickSlot, StudentTypeOK, reviewVars
  <2>4. ASSUME ClearSlot \/ \E m \in Modes : PickMode(m)
        PROVE  Types'
    BY <2>0, <2>4 DEF ClearSlot, PickMode, StudentTypeOK, reviewVars
  <2>5. CASE ScheduleArrives \/ \E d \in Dates : \E t \in StartsOn(d, PageSchedules[Len(PageSchedules)]) : OtherBooks(d, t)
    BY <2>1, <2>5 DEF ScheduleArrives, OtherBooks, reviewVars
  <2>6. ASSUME NEW a \in asking, ServerReadsTaken(a) \/ TakenLands(a) \/ TakenFails(a)
        PROVE  Types'
    BY <2>1, <2>6 DEF ServerReadsTaken, TakenLands, TakenFails, reviewVars
  <2>7. CASE ConfirmBooking \/ BookingAnswered \/ BookingLost
    <3>1. visit'.date = visit.date /\ visit'.mode = visit.mode /\ visit'.stage \in {"pick", "syncing", "done"}
      BY <2>0, <2>7 DEF ConfirmBooking, BookingAnswered, BookingLost
    <3>2. QED
      BY <2>7, <3>1 DEF ConfirmBooking, BookingAnswered, BookingLost, StudentTypeOK, reviewVars
  <2>8. CASE ServerBooks
    BY <2>1, <2>8 DEF ServerBooks, reviewVars
  <2>9. CASE (\E n \in 1 .. 5 : Rate(n)) \/ SubmitReview \/ ReviewAnswered
    BY <2>9 DEF Rate, SubmitReview, ReviewAnswered, StudentTypeOK
  <2>10. CASE UNCHANGED studentVars
    BY <2>1, <2>10 DEF studentVars, reviewVars
  <2>11. QED
    BY <2>2, <2>3, <2>4, <2>5, <2>6, <2>7, <2>8, <2>9, <2>10 DEF StudentNext
<1> HIDE DEF Types
<1>3. StudentSpec => []Types
  BY <1>1, <1>2, BookingPageInvariant, PTL DEF StudentSpec
<1>4. Types => StudentTypeOK
  BY DEF Types
<1>5. QED
  BY <1>3, <1>4, PTL

-----------------------------------------------------------------------------
(* The import page *)

\* A card is the idle one or names an upload that was stored.
CardStored(card) == card.kind = "ready" => card.upload \in ingested

ImportInv ==
    /\ CardStored(inflight) /\ (loading # NoFile => CardStored(loading.inflight))
    /\ submission.call = "answer" => submission.upload \in ingested
    /\ \E S : registry \in Seq(S)
    /\ \A id \in DOMAIN registry : "job" \in DOMAIN registry[id] /\ (registry[id].job => id \in ingested)

\* A field that a patch does not give is kept.
Changed(entry, patch) == [f \in DOMAIN entry |-> IF f \in DOMAIN patch THEN patch[f] ELSE entry[f]]

LEMMA ChangedKeeps ==
    ASSUME NEW patch, NEW entry, "job" \in DOMAIN entry
    PROVE  /\ "job" \in DOMAIN Changed(entry, patch)
           /\ "job" \notin DOMAIN patch => Changed(entry, patch).job = entry.job
BY DEF Changed

LEMMA RegistryStep ==
    ASSUME ImportInv, NEW id, NEW patch, registry' = UpdateUpload(id, patch),
           ingested' = ingested, id \in ingested \/ "job" \notin DOMAIN patch
    PROVE  /\ \E S : registry' \in Seq(S)
           /\ \A i \in DOMAIN registry' : "job" \in DOMAIN registry'[i] /\ (registry'[i].job => i \in ingested')
<1>1. PICK S : registry \in Seq(S)
  BY DEF ImportInv
<1>2. DOMAIN registry = 1 .. Len(registry) /\ Len(registry) \in Nat /\ \A i \in 1 .. Len(registry) : registry[i] \in S
  BY <1>1, LenProperties, ElementOfSeq
<1> DEFINE T == S \cup {Changed(registry[id], patch)}
<1>3. registry' = [i \in 1 .. Len(registry) |-> IF i = id THEN Changed(registry[id], patch) ELSE registry[i]]
  BY <1>2 DEF UpdateUpload, Changed
<1> HIDE DEF T
<1>4. registry' \in [1 .. Len(registry) -> T]
  BY <1>2, <1>3 DEF T
<1>5. registry' \in Seq(T)
  BY <1>2, <1>4, SeqDef
<1>6. \A i \in DOMAIN registry' : "job" \in DOMAIN registry'[i] /\ (registry'[i].job => i \in ingested)
  BY <1>2, <1>3, ChangedKeeps DEF ImportInv
<1>7. QED
  BY <1>5, <1>6

LEMMA ImportInvariant == ImportSpec => []ImportInv
<1>1. ImportInit => ImportInv
  <2> SUFFICES ASSUME ImportInit
               PROVE  ImportInv
    OBVIOUS
  <2>1. <<>> \in Seq({}) /\ DOMAIN registry = {}
    BY EmptySeq DEF ImportInit
  <2>2. QED
    BY <2>1 DEF ImportInit, ImportInv, CardStored, Idle, NoSubmission
<1>2. ImportInv /\ [ImportNext]_importVars => ImportInv'
  <2> SUFFICES ASSUME ImportInv, [ImportNext]_importVars
               PROVE  ImportInv'
    OBVIOUS
  <2>1. ASSUME UNCHANGED <<registry, ingested>>,
               submission' = submission \/ submission'.call # "answer",
               inflight' = inflight \/ inflight'.kind # "ready" \/ (loading # NoFile /\ inflight' = loading.inflight),
               loading' \in {loading, NoFile} \/ loading'.inflight = inflight
        PROVE  ImportInv'
    BY <2>1 DEF ImportInv, CardStored
  <2>2. ASSUME NEW s \in Sources, (\E f \in FilesOf(s) : StageFile(s, f)) \/ RemoveStaged(s)
        PROVE  ImportInv'
    BY <2>1, <2>2 DEF StageFile, RemoveStaged
  <2>3. ASSUME NEW r \in readers, ReadEnds(r)
        PROVE  ImportInv'
    BY <2>1, <2>3 DEF ReadEnds
  <2>4. CASE Reset \/ ReloadPage \/ LoadStored \/ HideCard
    BY <2>1, <2>4 DEF Reset, ReloadPage, LoadStored, HideCard, Idle, NoSubmission
  <2>5. CASE SettingsSaved
    <3>1. submission'.call # "answer"
      BY <2>5 DEF SettingsSaved
    <3>2. QED
      BY <2>1, <2>5, <3>1 DEF SettingsSaved
  <2>6. CASE IngestServed
    <3>1. /\ ingested' = ingested \cup {submission.upload} /\ submission'.upload = submission.upload
          /\ UNCHANGED <<inflight, loading, registry>>
      BY <2>6 DEF IngestServed
    <3>2. QED
      BY <3>1 DEF ImportInv, CardStored
  <2>7. CASE IngestAnswered
    <3>1. /\ submission.upload \in ingested /\ registry' = UpdateUpload(submission.upload, [job |-> TRUE])
          /\ UNCHANGED <<ingested, loading>>
      BY <2>7 DEF IngestAnswered, ImportInv
    <3>2. inflight'.upload = submission.upload /\ submission'.call = "none"
      BY <2>7 DEF IngestAnswered, NoSubmission
    <3>3. /\ \E S : registry' \in Seq(S)
          /\ \A i \in DOMAIN registry' : "job" \in DOMAIN registry'[i] /\ (registry'[i].job => i \in ingested')
      BY <3>1, RegistryStep
    <3>4. QED
      BY <3>1, <3>2, <3>3 DEF ImportInv, CardStored
  <2>8. CASE CallFails
    <3>1. registry' = UpdateUpload(submission.upload, Failed) /\ UNCHANGED <<ingested, loading>>
      BY <2>8 DEF CallFails
    <3>2. inflight'.kind = "error" /\ submission'.call = "none"
      BY <2>8 DEF CallFails, NoSubmission
    <3>3. "job" \notin DOMAIN Failed
      BY DEF Failed
    <3>4. /\ \E S : registry' \in Seq(S)
          /\ \A i \in DOMAIN registry' : "job" \in DOMAIN registry'[i] /\ (registry'[i].job => i \in ingested')
      BY <3>1, <3>3, RegistryStep
    <3>5. QED
      BY <3>1, <3>2, <3>4 DEF ImportInv, CardStored
  <2>9. CASE Confirm
    <3> DEFINE entry == [status |-> "processing", pair |-> staged, job |-> FALSE]
    <3>1. PICK e \in {entry, [entry EXCEPT !.status = "error"]} : registry' = Append(registry, e)
      BY <2>9 DEF Confirm
    <3>2. inflight'.kind # "ready" /\ submission'.call # "answer" /\ UNCHANGED <<ingested, loading>>
      BY <2>9 DEF Confirm, NoSubmission
    <3>3. "job" \in DOMAIN e /\ ~e.job
      OBVIOUS
    <3>4. PICK S : registry \in Seq(S)
      BY DEF ImportInv
    <3>5. registry \in Seq(S \cup {e})
      BY <3>4
    <3>6. /\ registry' \in Seq(S \cup {e}) /\ DOMAIN registry' = 1 .. Len(registry) + 1
          /\ DOMAIN registry = 1 .. Len(registry) /\ Len(registry) \in Nat
          /\ registry'[Len(registry) + 1] = e /\ \A i \in 1 .. Len(registry) : registry'[i] = registry[i]
      BY <3>1, <3>5, AppendProperties, LenProperties
    <3>7. \A i \in DOMAIN registry' : "job" \in DOMAIN registry'[i] /\ (registry'[i].job => i \in ingested')
      BY <3>2, <3>3, <3>6 DEF ImportInv
    <3>8. QED
      BY <3>2, <3>6, <3>7 DEF ImportInv, CardStored
  <2>10. CASE UNCHANGED importVars
    BY <2>1, <2>10 DEF importVars
  <2>11. QED
    BY <2>2, <2>3, <2>4, <2>5, <2>6, <2>7, <2>8, <2>9, <2>10 DEF ImportNext
<1>3. QED
  BY <1>1, <1>2, PTL DEF ImportSpec

\* Whatever is reset, reloaded or staged meanwhile, the page and the registry
\* call a success only what the server stored.
THEOREM Imported == ImportSpec => []SuccessWasStored
<1>1. ImportInv => SuccessWasStored
  BY DEF ImportInv, SuccessWasStored, CardStored
<1>2. QED
  BY <1>1, ImportInvariant, PTL

\* Files staged, being read or stored in the browser are of their source; a
\* confirmation names a registered upload.
Zones(zones) == \A s \in Sources : zones[s] \in FilesOf(s) \cup {NoFile}
Cards == {"idle", "processing", "ready", "error"}
StagingInv ==
    /\ ImportTypeOK /\ staged = [s \in Sources |-> staged[s]]
    /\ \A r \in readers : r.source \in Sources /\ r.file \in FilesOf(r.source)
    /\ loading # NoFile =>
          Zones(loading.staged) /\ loading.inflight.kind \in Cards /\ loading.staged = [s \in Sources |-> loading.staged[s]]
    /\ submission = [call |-> submission.call, upload |-> submission.upload, pair |-> submission.pair]
    /\ submission.call # "none" => submission.upload \in 1 .. Len(registry)

LEMMA UpdatedLength ==
    ASSUME ImportInv, NEW id, NEW patch, registry' = UpdateUpload(id, patch)
    PROVE  Len(registry') = Len(registry) /\ Len(registry) \in Nat
<1>1. PICK S : registry \in Seq(S)
  BY DEF ImportInv
<1>2. DOMAIN registry = 1 .. Len(registry) /\ Len(registry) \in Nat
  BY <1>1, LenProperties
<1>3. DOMAIN registry' = 1 .. Len(registry)
  BY <1>2 DEF UpdateUpload
<1>4. PICK T : registry' \in [1 .. Len(registry) -> T]
  <2>1. registry' = [i \in 1 .. Len(registry) |-> registry'[i]]
    BY <1>2 DEF UpdateUpload
  <2>2. registry' \in [1 .. Len(registry) -> {registry'[i] : i \in 1 .. Len(registry)}]
    BY <2>1
  <2>3. QED
    BY <2>2
<1>5. registry' \in Seq(T)
  BY <1>2, <1>4, SeqDef
<1>6. QED
  BY <1>2, <1>3, <1>5, LenProperties

LEMMA StagingStep ==
    ASSUME ImportInv, StagingInv, [ImportNext]_importVars
    PROVE  StagingInv'
<1>1. Len(registry) \in Nat
  <2>1. PICK S : registry \in Seq(S)
    BY DEF ImportInv
  <2>2. QED
    BY <2>1, LenProperties
<1>2. NothingStaged = [s \in Sources |-> NothingStaged[s]] /\ Zones(NothingStaged)
  BY DEF NothingStaged, Zones
<1>3. ASSUME NEW s \in Sources, (\E f \in FilesOf(s) : StageFile(s, f)) \/ RemoveStaged(s)
      PROVE  StagingInv'
  <2>1. CASE RemoveStaged(s)
    BY <2>1 DEF RemoveStaged, StagingInv, ImportTypeOK
  <2>2. ASSUME NEW f \in FilesOf(s), StageFile(s, f)
        PROVE  StagingInv'
    BY <2>2 DEF StageFile, StagingInv, ImportTypeOK
  <2>3. QED
    BY <1>3, <2>1, <2>2
<1>4. ASSUME NEW r \in readers, ReadEnds(r)
      PROVE  StagingInv'
  <2>1. r.source \in Sources /\ r.file \in FilesOf(r.source)
    BY DEF StagingInv
  <2>2. QED
    BY <1>4, <2>1 DEF ReadEnds, StagingInv, ImportTypeOK
<1>5. CASE Reset \/ HideCard
  BY <1>2, <1>5 DEF Reset, HideCard, Idle, StagingInv, ImportTypeOK, Zones
<1>6. CASE ReloadPage
  <2>1. /\ loading'.staged = staged /\ loading'.inflight = inflight /\ submission' = NoSubmission /\ readers' = {}
        /\ staged' = NothingStaged /\ inflight' = Idle /\ UNCHANGED <<registry, ingested>>
    BY <1>6 DEF ReloadPage
  <2>2. QED
    BY <1>2, <2>1 DEF NoSubmission, Idle, StagingInv, ImportTypeOK, Zones, Cards
<1>7. CASE LoadStored
  BY <1>7 DEF LoadStored, StagingInv, ImportTypeOK, Zones, Cards
<1>8. CASE SettingsSaved
  <2>1. submission' = [call |-> "ingest", upload |-> submission.upload, pair |-> submission.pair]
    BY <1>8 DEF SettingsSaved, StagingInv
  <2>2. QED
    BY <1>8, <2>1 DEF SettingsSaved, StagingInv, ImportTypeOK
<1>9. CASE IngestServed
  <2>1. submission' = [call |-> "answer", upload |-> submission.upload, pair |-> submission.pair]
    BY <1>9 DEF IngestServed, StagingInv
  <2>2. submission.upload \in 1 .. Len(registry)
    BY <1>9 DEF IngestServed, StagingInv
  <2>3. QED
    BY <1>9, <2>1, <2>2 DEF IngestServed, StagingInv, ImportTypeOK
<1>10. CASE IngestAnswered \/ CallFails
  <2>1. Len(registry') = Len(registry)
    BY <1>10, UpdatedLength DEF IngestAnswered, CallFails
  <2>2. /\ submission' = NoSubmission /\ inflight'.kind \in {"ready", "error"}
        /\ UNCHANGED <<staged, readers, loading, ingested>>
    BY <1>10 DEF IngestAnswered, CallFails
  <2>3. QED
    BY <2>1, <2>2 DEF NoSubmission, StagingInv, ImportTypeOK
<1>11. CASE Confirm
  <2>1. PICK e : registry' = Append(registry, e)
    BY <1>11 DEF Confirm
  <2>2. Len(registry') = Len(registry) + 1
    <3>1. PICK S : registry \in Seq(S)
      BY DEF ImportInv
    <3>2. registry \in Seq(S \cup {e})
      BY <3>1
    <3>3. QED
      BY <2>1, <3>2, AppendProperties
  <2>3. /\ staged' = NothingStaged /\ inflight'.kind \in {"processing", "error"} /\ UNCHANGED <<readers, loading, ingested>>
        /\ submission' \in {[call |-> "settings", upload |-> Len(registry) + 1, pair |-> staged], NoSubmission}
    BY <1>11 DEF Confirm
  <2>4. QED
    BY <1>1, <1>2, <2>2, <2>3 DEF NoSubmission, StagingInv, ImportTypeOK, Zones
<1>12. CASE UNCHANGED importVars
  BY <1>12 DEF importVars, StagingInv, ImportTypeOK
<1>13. QED
  BY <1>3, <1>4, <1>5, <1>6, <1>7, <1>8, <1>9, <1>10, <1>11, <1>12 DEF ImportNext

\* What is staged or stored in the browser is a file of its source; uploads the
\* server stored are registered ones.
THEOREM ImportTypes == ImportSpec => []ImportTypeOK
<1>1. ImportInit => StagingInv
  <2> SUFFICES ASSUME ImportInit
               PROVE  StagingInv
    OBVIOUS
  <2>1. QED
    BY DEF ImportInit, StagingInv, ImportTypeOK, NothingStaged, NoSubmission, Idle
<1>2. StagingInv => ImportTypeOK
  BY DEF StagingInv
<1>3. QED
  BY <1>1, <1>2, StagingStep, ImportInvariant, PTL DEF ImportSpec
===============================================================================
