-------------------------------- MODULE Session --------------------------------
(***************************************************************************)
(* Who a browser tab believes is signed in: the login page, the actions    *)
(* that set and delete the cookie, the route guard (proxy.ts), the profile *)
(* query and AuthProvider (use-auth.tsx), which wraps every page, the      *)
(* students' public ones included.                                         *)
(*                                                                         *)
(* The profile query is TanStack Query's (external): a refetch cancels a   *)
(* fetch in flight when there is data already, and joins it when there is  *)
(* none yet.                                                               *)
(***************************************************************************)
EXTENDS Integers

CONSTANTS
    Users,          \* accounts of the university
    Admins,         \* those whose token carries the role admin
    NoUser,         \* no cookie; a profile query that found nobody
    Unknown         \* a profile query without data; no fetch in flight

ASSUME UsersAssumption == Admins \subseteq Users /\ NoUser \notin Users /\ Unknown \notin Users \cup {NoUser}

Protected == {"dashboard", "import"}
Public == {"login", "booking"}
Pages == Protected \cup Public

VARIABLES
    cookie,     \* the user of nexusedu_auth_token, or NoUser
    wsCookie,   \* the user of nexusedu_ws_token, which scripts can read
    page,       \* where the tab is
    mounted,    \* AuthProvider has hydrated
    profile,    \* data of the profile query
    fetching,   \* the user the profile query in flight asks for, or Unknown
    profileOk,  \* the last profile fetch was answered
    signin,     \* the login: "none", "posting", "refetching"
    joined,     \* the login's refetch joined an earlier fetch
    signout,    \* isLoggingOut
    rejected    \* the tab was signed out by a rejected call: "no", "running", "done"

sessionVars == <<cookie, wsCookie, page, mounted, profile, fetching, profileOk, signin, joined, signout, rejected>>
tabVars == <<mounted, profile, fetching, profileOk, signin, joined, signout>>

IsAuthenticated == mounted /\ profile \in Users

\* A page load: everything the scripts knew is gone.
Fresh ==
    /\ mounted = FALSE /\ profile = Unknown /\ fetching = Unknown /\ profileOk = FALSE
    /\ signin = "none" /\ joined = FALSE /\ signout = FALSE

SessionInit ==
    /\ cookie = NoUser /\ wsCookie = NoUser
    /\ page \in Public
    /\ Fresh
    /\ rejected = "no"

Load(p) ==
    /\ page' = p
    /\ mounted' = FALSE /\ profile' = Unknown /\ fetching' = Unknown /\ profileOk' = FALSE
    /\ signin' = "none" /\ joined' = FALSE /\ signout' = FALSE

-----------------------------------------------------------------------------
(* Pages and the route guard *)

\* proxy: without a cookie to the login page, an advisor away from the import.
Guarded(p) ==
    IF p \in Public THEN p
    ELSE IF cookie = NoUser THEN "login"
    ELSE IF p = "import" /\ cookie \notin Admins THEN "dashboard"
    ELSE p

\* A link followed inside the application keeps the tab's state.
Visit(p) ==
    /\ mounted /\ ~signout
    /\ page' = Guarded(p)
    /\ UNCHANGED <<cookie, wsCookie, tabVars, rejected>>

\* An address opened anew, or a reload.
Open(p) ==
    /\ Load(Guarded(p))
    /\ rejected' = IF rejected = "running" THEN "no" ELSE rejected
    /\ UNCHANGED <<cookie, wsCookie>>

\* Eight hours; both cookies are set together.
CookiesExpire ==
    /\ cookie # NoUser
    /\ cookie' = NoUser /\ wsCookie' = NoUser
    /\ UNCHANGED <<page, tabVars, rejected>>

-----------------------------------------------------------------------------
(* The profile query *)

Hydrate ==
    /\ ~mounted
    /\ mounted' = TRUE /\ fetching' = cookie
    /\ UNCHANGED <<cookie, wsCookie, page, profile, profileOk, signin, joined, signout, rejected>>

\* A profile older than fifteen minutes is fetched again when the network comes
\* back (not when the window gets the focus).
Refetch ==
    /\ mounted /\ profile # Unknown /\ fetching = Unknown
    /\ fetching' = cookie
    /\ UNCHANGED <<cookie, wsCookie, page, mounted, profile, profileOk, signin, joined, signout, rejected>>

\* The end of the login: router.replace("/dashboard"), whatever the refetch gave.
AfterFetch ==
    /\ signin' = IF signin = "refetching" THEN "none" ELSE signin
    /\ page' = IF signin = "refetching" THEN Guarded("dashboard") ELSE page

\* getCurrentUser: the user, or null for 401 and 403.
ProfileAnswered ==
    /\ fetching # Unknown
    /\ profile' = fetching /\ profileOk' = TRUE /\ fetching' = Unknown
    /\ AfterFetch
    /\ UNCHANGED <<cookie, wsCookie, mounted, joined, signout, rejected>>

\* Any other error, or no answer in time: the data stays what it was.
ProfileFails ==
    /\ fetching # Unknown
    /\ profileOk' = FALSE /\ fetching' = Unknown
    /\ AfterFetch
    /\ UNCHANGED <<cookie, wsCookie, mounted, profile, joined, signout, rejected>>

-----------------------------------------------------------------------------
(* Signing in and out *)

LoginSubmit ==
    /\ page = "login" /\ mounted /\ signin = "none" /\ ~signout
    /\ signin' = "posting"
    /\ UNCHANGED <<cookie, wsCookie, page, mounted, profile, fetching, profileOk, joined, signout, rejected>>

\* Slip: the refetch joins whatever fetch is in flight.
LoginAcceptedJoins(u) ==
    /\ signin = "posting"
    /\ cookie' = u /\ wsCookie' = u /\ signin' = "refetching"
    /\ joined' = (fetching # Unknown /\ profile = Unknown)
    /\ fetching' = IF fetching # Unknown THEN fetching ELSE u
    /\ UNCHANGED <<page, mounted, profile, profileOk, signout, rejected>>

LoginAccepted(u) ==
    /\ signin = "posting"
    /\ cookie' = u /\ wsCookie' = u /\ signin' = "refetching"
    /\ joined' = (fetching # Unknown /\ profile = Unknown)
    /\ fetching' = IF joined' THEN fetching ELSE u
    /\ UNCHANGED <<page, mounted, profile, profileOk, signout, rejected>>

\* A wrong password, no token in the answer, or ten seconds without one.
LoginRefused ==
    /\ signin = "posting"
    /\ signin' = "none"
    /\ UNCHANGED <<cookie, wsCookie, page, mounted, profile, fetching, profileOk, joined, signout, rejected>>

\* logout does nothing while one is in progress.
Logout ==
    /\ page \in Protected /\ mounted /\ ~signout
    /\ signout' = TRUE
    /\ UNCHANGED <<cookie, wsCookie, page, mounted, profile, fetching, profileOk, signin, joined, rejected>>

\* authFetch: a 401, or a 403 of somebody who is signed in, raises the event
\* nexusedu:unauthorized, whose listener signs out on every page.  Pages make such
\* calls: the dashboard for its lists, the public booking page for the schedule.
CallRejected ==
    /\ mounted /\ page \in Protected \cup {"booking"} /\ ~signout
    /\ signout' = TRUE
    /\ rejected' = IF page = "booking" /\ cookie = NoUser THEN "running" ELSE rejected
    /\ UNCHANGED <<cookie, wsCookie, page, mounted, profile, fetching, profileOk, signin, joined>>

\* logoutAction deletes the cookie, or is not reached; the tab goes to /login
\* either way, by a page load.
SignedOut ==
    /\ signout
    /\ cookie' \in {NoUser, cookie}
    /\ wsCookie' = NoUser
    /\ Load("login")
    /\ rejected' = IF rejected = "running" THEN "done" ELSE rejected

SessionNext ==
    \/ \E p \in Pages : Visit(p) \/ Open(p)
    \/ CookiesExpire \/ Hydrate \/ Refetch \/ ProfileAnswered \/ ProfileFails
    \/ LoginSubmit \/ (\E u \in Users : LoginAccepted(u)) \/ LoginRefused
    \/ Logout \/ CallRejected \/ SignedOut

SessionSpec == SessionInit /\ [][SessionNext]_sessionVars

-----------------------------------------------------------------------------
(* Properties *)

SessionTypeOK ==
    /\ cookie \in Users \cup {NoUser} /\ wsCookie \in Users \cup {NoUser}
    /\ page \in Pages /\ mounted \in BOOLEAN
    /\ profile \in Users \cup {NoUser, Unknown} /\ fetching \in Users \cup {NoUser, Unknown}
    /\ profileOk \in BOOLEAN /\ joined \in BOOLEAN /\ signout \in BOOLEAN
    /\ signin \in {"none", "posting", "refetching"} /\ rejected \in {"no", "running", "done"}

\* The user the application shows is the one its requests are made for, however
\* page loads, profile fetches and a second login are interleaved: unless the
\* last fetch failed, or the login's refetch joined an older fetch.
ShownUserIsSignedIn ==
    profileOk /\ ~joined /\ signin # "refetching" /\ profile \in Users => cookie \in {profile, NoUser}

\* use-auth.tsx signs out on a 401 "if we were authenticated but now get a 401,
\* or if we're on a dashboard route": a student who books is neither.
VisitorStays == rejected # "done"
===============================================================================
