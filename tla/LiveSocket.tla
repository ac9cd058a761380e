------------------------------- MODULE LiveSocket -------------------------------
(***************************************************************************)
(* The browser's WebSocket (use-websocket.ts): one connection while the    *)
(* user is signed in, opened again after a failure.  Sockets live on after *)
(* the hook let them go, until their close event; a timer lives on when    *)
(* the reference to it was overwritten.  How long a timer runs (the        *)
(* exponential delay) is left out.                                         *)
(***************************************************************************)
EXTENDS Integers, FiniteSets

CONSTANTS
    SocketIds,  \* sockets that exist at a time, a bound
    NoSocket,
    MaxLeaked   \* bound on timers nobody refers to

ASSUME SocketAssumption == NoSocket \notin SocketIds /\ MaxLeaked \in Nat

VARIABLES
    signedIn,       \* authReady and isAuthenticated, of AuthProvider
    sockets,        \* state of each socket
    socketRef,      \* the hook's current socket
    manuallyClosed,
    timerRef,       \* the timer the hook refers to is running
    leaked,         \* running timers it does not refer to
    refused         \* the server closed the last connection for good

socketVars == <<signedIn, sockets, socketRef, manuallyClosed, timerRef, leaked, refused>>

Live == {"connecting", "open"}
Free == {s \in SocketIds : sockets[s] = "none"}

SocketInit ==
    /\ signedIn = FALSE /\ sockets = [s \in SocketIds |-> "none"] /\ socketRef = NoSocket
    /\ manuallyClosed = TRUE /\ timerRef = FALSE /\ leaked = 0 /\ refused = FALSE

\* disconnect: a live socket is told to close, and forgotten.
Dropped ==
    IF socketRef # NoSocket /\ sockets[socketRef] \in Live
    THEN [sockets EXCEPT ![socketRef] = "closing"] ELSE sockets

\* Slip: only an open socket counts as a connection.
CanConnectOpen == socketRef = NoSocket \/ sockets[socketRef] # "open"

\* connect: not when a connection exists or is being made.
CanConnect == socketRef = NoSocket \/ sockets[socketRef] \notin Live

\* Slip: a new connection does not undo the manual close.
StartManual(before) ==
    \E s \in {s \in SocketIds : before[s] = "none"} :
        /\ sockets' = [before EXCEPT ![s] = "connecting"] /\ socketRef' = s
        /\ timerRef' = FALSE /\ refused' = FALSE
        /\ UNCHANGED manuallyClosed

Start(before) ==
    \E s \in {s \in SocketIds : before[s] = "none"} :
        /\ sockets' = [before EXCEPT ![s] = "connecting"] /\ socketRef' = s
        /\ manuallyClosed' = FALSE /\ timerRef' = FALSE /\ refused' = FALSE

\* The effect of useWebSocket when the user signs in or out: its cleanup
\* disconnects, and connect of the new render connects if signed in.
AuthChanges ==
    /\ signedIn' = ~signedIn
    /\ UNCHANGED leaked
    /\ IF signedIn'
       THEN Start(Dropped)
       ELSE /\ sockets' = Dropped /\ socketRef' = NoSocket
            /\ manuallyClosed' = TRUE /\ timerRef' = FALSE
            /\ UNCHANGED refused

Opened(s) ==
    /\ sockets[s] = "connecting"
    /\ sockets' = [sockets EXCEPT ![s] = "open"]
    /\ UNCHANGED <<signedIn, socketRef, manuallyClosed, timerRef, leaked, refused>>

\* onclose, also of a socket that is no longer current.  Codes 1000 and 4003 are
\* final; after any other a timer starts, and the one before is not stopped.
Closed(s, final) ==
    /\ sockets[s] # "none"
    /\ sockets' = [sockets EXCEPT ![s] = "none"]
    /\ socketRef' = IF socketRef = s THEN NoSocket ELSE socketRef
    /\ refused' = (refused \/ (final /\ socketRef = s))
    /\ IF manuallyClosed \/ final THEN UNCHANGED <<timerRef, leaked>>
       ELSE /\ timerRef' = TRUE
            /\ leaked' = IF timerRef THEN leaked + 1 ELSE leaked
            /\ leaked' <= MaxLeaked
    /\ UNCHANGED <<signedIn, manuallyClosed>>

\* The connect of a timer is that of the render that made the socket, which was
\* signed in then.
Reconnect ==
    IF CanConnect THEN Start(sockets)
    ELSE UNCHANGED <<sockets, socketRef, manuallyClosed, refused>>

TimerFires ==
    /\ timerRef /\ Reconnect /\ timerRef' = FALSE
    /\ UNCHANGED <<signedIn, leaked>>

LeakedTimerFires ==
    /\ leaked > 0 /\ leaked' = leaked - 1
    /\ Reconnect /\ (~CanConnect => UNCHANGED timerRef)
    /\ UNCHANGED signedIn

SocketNext ==
    \/ AuthChanges \/ TimerFires \/ LeakedTimerFires
    \/ \E s \in SocketIds : Opened(s) \/ \E final \in BOOLEAN : Closed(s, final)

\* Timers fire, and a socket that is closing closes.
SocketFairness ==
    /\ WF_socketVars(TimerFires)
    /\ \A s \in SocketIds : WF_socketVars(sockets[s] = "closing" /\ \E final \in BOOLEAN : Closed(s, final))

SocketSpec == SocketInit /\ [][SocketNext]_socketVars /\ SocketFairness

-----------------------------------------------------------------------------
(* Properties *)

SocketTypeOK ==
    /\ sockets \in [SocketIds -> {"none", "connecting", "open", "closing"}]
    /\ socketRef \in SocketIds \cup {NoSocket}
    /\ {signedIn, manuallyClosed, timerRef, refused} \subseteq BOOLEAN
    /\ leaked \in 0 .. MaxLeaked

\* However sign-ins, failures and timers are interleaved, the server counts one
\* connection of the tab: every event is shown once.
OneLiveSocket ==
    \A s, t \in SocketIds : sockets[s] \in Live /\ sockets[t] \in Live => s = t

\* A connection that is lost is made again while the user is signed in, unless
\* the server closed it for good.
LostIsRetried ==
    signedIn /\ socketRef = NoSocket ~> socketRef # NoSocket \/ refused \/ ~signedIn
===============================================================================
