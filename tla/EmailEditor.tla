------------------------------- MODULE EmailEditor -------------------------------
(***************************************************************************)
(* The sheet in which an advisor writes the mail of a case                 *)
(* (email-editor-sheet.tsx), with all that changes its text: the draft     *)
(* query (useDraftStatus), the events of the drafting job                  *)
(* (websocket-provider.tsx), the debounced autosave, and generating and    *)
(* sending (alert-center.tsx).  Server* actions are handlers and jobs of   *)
(* the server.                                                             *)
(*                                                                         *)
(* A text stands for subject and body; EmptyText is none.  Every text      *)
(* written is a new number.  The effects of React run before the next      *)
(* event.                                                                  *)
(***************************************************************************)
EXTENDS Integers, FiniteSets, Sequences

CONSTANTS
    MailCases,
    NoMailCase,     \* no case; no data; nothing pending
    MaxTexts, MaxRequests, MaxSends, MaxSessions    \* bounds

ASSUME MailAssumption ==
    /\ NoMailCase \notin MailCases
    /\ {MaxTexts, MaxRequests, MaxSends, MaxSessions} \subseteq Nat

VARIABLES
    mails,      \* the mail of each case on the server: status and text, and how far
                \* its sending is; the case is SENT as soon as it is queued
    received,   \* what the student got: texts, with the booking link or not
    drafts,     \* the draft query of each case: text and generating, or NoMailCase
    rows,       \* draft text and status, and whether the case is SENT, in the cached list
    sheet,      \* the open sheet
    debounced,  \* the autosave that waits for a second without typing
    saving,     \* autosaves under way
    sends,      \* sends under way
    requests,   \* reads of the draft under way, with what they read
    jobs,       \* events of the drafting job under way, in order
    texts,      \* texts written so far
    chosen,     \* texts the advisor sent, for each case
    disturbed,  \* cases whose mail an autosave or a generation changed while being sent
    sessions    \* sheets opened so far

mailVars == <<mails, received, drafts, rows, sheet, debounced, saving, sends, requests, jobs, texts,
              chosen, disturbed, sessions>>
serverVars == <<mails, received>>
cacheVars == <<drafts, rows>>
netVars == <<saving, sends, requests, jobs>>
ghostVars == <<chosen, disturbed, sessions>>

EmptyText == 0
Closed0 == [case |-> NoMailCase, session |-> 0, text |-> EmptyText, typed |-> FALSE, sent |-> FALSE]
IsOpen == sheet.case # NoMailCase

MailInit ==
    /\ mails = [c \in MailCases |->
           [status |-> "unavailable", text |-> EmptyText, link |-> FALSE, sending |-> "none"]]
    /\ received = [c \in MailCases |-> NoMailCase]
    /\ drafts = [c \in MailCases |-> NoMailCase]
    /\ rows = [c \in MailCases |-> [status |-> "unavailable", text |-> EmptyText, sent |-> FALSE]]
    /\ sheet = Closed0 /\ debounced = NoMailCase /\ saving = {} /\ sends = {}
    /\ requests = {} /\ jobs = <<>> /\ texts = 0
    /\ chosen = [c \in MailCases |-> {}] /\ disturbed = {} /\ sessions = 0

-----------------------------------------------------------------------------
(* What the sheet shows *)

\* The text of the draft query, or of the list.
Incoming(c, cache, list) ==
    IF cache[c] # NoMailCase /\ cache[c].text # EmptyText THEN cache[c].text ELSE list[c].text

\* Slip: the effects do not look whether the advisor has typed.
SyncedAlways(s, cache, list) ==
    IF s.case = NoMailCase THEN s
    ELSE IF Incoming(s.case, cache, list) = EmptyText THEN s
    ELSE [s EXCEPT !.text = Incoming(s.case, cache, list)]

\* The two effects that bring a text of the cache into the form.
Synced(s, cache, list) ==
    IF s.case = NoMailCase \/ s.typed THEN s
    ELSE IF Incoming(s.case, cache, list) = EmptyText THEN s
    ELSE [s EXCEPT !.text = Incoming(s.case, cache, list)]

\* A draft in the cache decides alone; the list is asked without one.
IsGenerating(c) == IF drafts[c] # NoMailCase THEN drafts[c].generating ELSE rows[c].status = "generating"
IsSentMail(c) == rows[c].sent \/ sheet.sent

\* Badge, fields and buttons of the sheet.
SheetBadge ==
    CASE IsSentMail(sheet.case) -> "sent"
      [] IsGenerating(sheet.case) /\ ~IsSentMail(sheet.case) -> "generating"
      [] sheet.text # EmptyText /\ ~IsSentMail(sheet.case) /\ ~IsGenerating(sheet.case) -> "ready"
      [] OTHER -> "none"

SheetFields == [readOnly |-> IsSentMail(sheet.case), saving |-> \E s \in saving : s.session = sheet.session]

CanGenerate == ~IsSentMail(sheet.case) /\ ~IsGenerating(sheet.case)
CanRestore == ~IsSentMail(sheet.case)
CanSend == ~IsSentMail(sheet.case) /\ ~IsGenerating(sheet.case) /\ sheet.text # EmptyText

Request(c, kind) == [case |-> c, kind |-> kind, got |-> NoMailCase]

\* A fetch of the draft query in flight is cancelled if there is data, else joined.
Refetched(pending, c) ==
    IF drafts[c] = NoMailCase /\ (\E r \in pending : r.case = c /\ r.kind = "query") THEN pending
    ELSE {r \in pending : r.case # c \/ r.kind # "query"} \cup {Request(c, "query")}

-----------------------------------------------------------------------------
(* The advisor *)

\* Another session; the draft query is observed again, which fetches it.
OpenSheet(c) ==
    /\ ~IsOpen /\ sessions < MaxSessions
    /\ sessions' = sessions + 1
    /\ sheet' = [case |-> c, session |-> sessions', text |-> Incoming(c, drafts, rows),
                 typed |-> FALSE, sent |-> FALSE]
    /\ requests' = IF \E r \in requests : r.case = c /\ r.kind = "query" THEN requests
                   ELSE requests \cup {Request(c, "query")}
    /\ UNCHANGED <<serverVars, cacheVars, debounced, saving, sends, jobs, texts, chosen, disturbed>>

\* The pending autosave is not cancelled.
CloseSheet ==
    /\ IsOpen /\ sheet' = Closed0
    /\ UNCHANGED <<serverVars, cacheVars, debounced, netVars, texts, ghostVars>>

Type ==
    /\ IsOpen /\ ~SheetFields.readOnly /\ texts < MaxTexts
    /\ texts' = texts + 1
    /\ \E text \in {EmptyText, texts'} :
        /\ sheet' = [sheet EXCEPT !.text = text, !.typed = TRUE]
        /\ debounced' = [case |-> sheet.case, text |-> text, session |-> sheet.session]
    /\ UNCHANGED <<serverVars, cacheVars, netVars, ghostVars>>

\* reset: back to the draft of the cache; what was autosaved stays saved.
Restore ==
    /\ IsOpen /\ CanRestore
    /\ sheet' = [sheet EXCEPT !.text = Incoming(sheet.case, drafts, rows)]
    /\ debounced' = NoMailCase
    /\ UNCHANGED <<serverVars, cacheVars, netVars, texts, ghostVars>>

-----------------------------------------------------------------------------
(* Autosave *)

DebounceEnds ==
    /\ debounced # NoMailCase /\ Cardinality(saving) < MaxRequests
    /\ saving' = saving \cup {debounced} /\ debounced' = NoMailCase
    /\ UNCHANGED <<serverVars, cacheVars, sheet, sends, requests, jobs, texts, ghostVars>>

\* The server stores a text unless it is empty, being generated or sent: it looks
\* at the mail and not at the case, so also while the mail waits for the worker.
Stored(c, text, link) ==
    IF text # EmptyText /\ mails[c].status \in {"unavailable", "draft"}
    THEN [mails EXCEPT ![c] = [status |-> "draft", text |-> text, link |-> link, sending |-> mails[c].sending]]
    ELSE mails

\* A send of the case is under way, in the browser or before the worker.
BeingSent(c) == mails[c].sending = "queued" \/ \E d \in sends : d.case = c

\* Saves are served in any order, or lost on the way.
SaveServed(s) ==
    /\ saving' = saving \ {s}
    /\ \/ /\ mails' = Stored(s.case, s.text, FALSE)
          /\ disturbed' = IF mails' # mails /\ BeingSent(s.case) THEN disturbed \cup {s.case} ELSE disturbed
       \/ UNCHANGED <<mails, disturbed>>
    /\ UNCHANGED <<received, cacheVars, sheet, debounced, sends, requests, jobs, texts, chosen, sessions>>

-----------------------------------------------------------------------------
(* Generating: handleGenerateDraft, the drafting job and its events *)

\* The server does nothing if a draft is being generated, and refuses a case that
\* is SENT; after a success the draft is read again.
GenerateDraft ==
    /\ IsOpen /\ CanGenerate /\ mails[sheet.case].sending = "none"
    /\ IF mails[sheet.case].status = "generating" THEN UNCHANGED <<mails, jobs, disturbed>>
       ELSE /\ Len(jobs) < MaxRequests
            /\ mails' = [mails EXCEPT ![sheet.case] = [status |-> "generating", text |-> EmptyText,
                                                       link |-> FALSE, sending |-> "none"]]
            /\ jobs' = Append(jobs, [type |-> "STARTED", case |-> sheet.case, text |-> EmptyText])
            /\ disturbed' = IF BeingSent(sheet.case) THEN disturbed \cup {sheet.case} ELSE disturbed
    /\ requests' = Refetched(requests, sheet.case)
    /\ UNCHANGED <<received, cacheVars, sheet, debounced, saving, sends, texts, chosen, sessions>>

ServerDrafts(c) ==
    /\ mails[c].status = "generating" /\ Len(jobs) < MaxRequests /\ texts < MaxTexts
    /\ texts' = texts + 1
    /\ \/ /\ mails' = [mails EXCEPT ![c] = [status |-> "draft", text |-> texts', link |-> FALSE, sending |-> @.sending]]
          /\ jobs' = Append(jobs, [type |-> "COMPLETED", case |-> c, text |-> texts'])
       \/ /\ mails' = [mails EXCEPT ![c] = [status |-> "unavailable", text |-> EmptyText, link |-> FALSE, sending |-> @.sending]]
          /\ jobs' = Append(jobs, [type |-> "FAILED", case |-> c, text |-> EmptyText])
    /\ UNCHANGED <<received, cacheVars, sheet, debounced, saving, sends, requests, ghostVars>>

\* JOB:STARTED marks the list, and not the draft query.
JobStarted(c) ==
    /\ rows' = [rows EXCEPT ![c].status = "generating"]
    /\ UNCHANGED <<drafts, requests>>

\* markDraftCompletedImmediately, then hydrateDraftCache asks for the draft.
JobCompleted(c, text) ==
    /\ drafts' = [drafts EXCEPT ![c] = [text |-> text, generating |-> FALSE]]
    /\ rows' = [rows EXCEPT ![c] = [status |-> "draft", text |-> text, sent |-> rows[c].sent]]
    /\ requests' = requests \cup {Request(c, "hydrate")}

\* The draft query is read again if the sheet observes it.
JobFailed(c) ==
    /\ rows' = [rows EXCEPT ![c].status = "failed"]
    /\ requests' = IF sheet.case = c THEN Refetched(requests, c) ELSE requests
    /\ UNCHANGED drafts

\* An event of a case that nobody's list holds, or of another job, does nothing.
JobEventArrives ==
    /\ jobs # <<>> /\ jobs' = Tail(jobs)
    /\ LET event == Head(jobs)
       IN  \/ event.type = "STARTED" /\ JobStarted(event.case)
           \/ event.type = "COMPLETED" /\ JobCompleted(event.case, event.text)
           \/ event.type = "FAILED" /\ JobFailed(event.case)
    /\ sheet' = Synced(sheet, drafts', rows')
    /\ UNCHANGED <<serverVars, debounced, saving, sends, texts, ghostVars>>

JobEventLost ==
    /\ jobs # <<>> /\ jobs' = Tail(jobs)
    /\ UNCHANGED <<serverVars, cacheVars, sheet, debounced, saving, sends, requests, texts, ghostVars>>

\* GET /cases/{id}/email: read at some moment, answered later.
DraftRead(r) ==
    /\ r.got = NoMailCase
    /\ requests' = (requests \ {r}) \cup {[r EXCEPT !.got = mails[r.case]]}
    /\ UNCHANGED <<serverVars, cacheVars, sheet, debounced, saving, sends, jobs, texts, ghostVars>>

\* A hydration says "not generating" whatever it read, and writes to the list too.
DraftLands(r) ==
    /\ r.got # NoMailCase
    /\ requests' = requests \ {r}
    /\ drafts' = [drafts EXCEPT ![r.case] =
                     [text |-> r.got.text, generating |-> r.kind = "query" /\ r.got.status = "generating"]]
    /\ rows' = IF r.kind = "hydrate"
               THEN [rows EXCEPT ![r.case] = [status |-> r.got.status, text |-> r.got.text, sent |-> rows[r.case].sent]]
               ELSE rows
    /\ sheet' = Synced(sheet, drafts', rows')
    /\ UNCHANGED <<serverVars, debounced, saving, sends, jobs, texts, ghostVars>>

DraftReadFails(r) ==
    /\ requests' = requests \ {r}
    /\ UNCHANGED <<serverVars, cacheVars, sheet, debounced, saving, sends, jobs, texts, ghostVars>>

-----------------------------------------------------------------------------
(* Sending: the sheet says "sent" at once; handleSendEmail *)

\* Slip: the text is not stored before the mail is sent.
SendClickUnsaved ==
    /\ IsOpen /\ CanSend /\ Cardinality(sends) < MaxSends
    /\ sheet' = [sheet EXCEPT !.sent = TRUE]
    /\ sends' = sends \cup {[case |-> sheet.case, text |-> sheet.text, phase |-> "nudging"]}
    /\ chosen' = [chosen EXCEPT ![sheet.case] = @ \cup {sheet.text}]
    /\ UNCHANGED <<serverVars, cacheVars, debounced, saving, requests, jobs, texts, disturbed, sessions>>

\* The text is sent with the booking link below it.
SendClick ==
    /\ IsOpen /\ CanSend /\ Cardinality(sends) < MaxSends
    /\ sheet' = [sheet EXCEPT !.sent = TRUE]
    /\ sends' = sends \cup {[case |-> sheet.case, text |-> sheet.text, phase |-> "updating"]}
    /\ chosen' = [chosen EXCEPT ![sheet.case] = @ \cup {sheet.text}]
    /\ UNCHANGED <<serverVars, cacheVars, debounced, saving, requests, jobs, texts, disturbed, sessions>>

\* updateEmailDraft, first.
UpdateServed(d) ==
    /\ d.phase = "updating" /\ mails[d.case].status \in {"unavailable", "draft"}
    /\ mails' = Stored(d.case, d.text, TRUE)
    /\ sends' = (sends \ {d}) \cup {[d EXCEPT !.phase = "nudging"]}
    /\ UNCHANGED <<received, cacheVars, sheet, debounced, saving, requests, jobs, texts, ghostVars>>

\* sendNudge: the case is SENT and a task queued; the mail stays a draft, and the
\* text in the call is not looked at.
NudgeServed(d) ==
    /\ d.phase = "nudging" /\ mails[d.case].status = "draft" /\ mails[d.case].sending = "none"
    /\ mails' = [mails EXCEPT ![d.case].sending = "queued"]
    /\ sends' = (sends \ {d}) \cup {[d EXCEPT !.phase = "answered"]}
    /\ UNCHANGED <<received, cacheVars, sheet, debounced, saving, requests, jobs, texts, ghostVars>>

\* The worker mails the text stored by then; the task may also fail, or never run.
MailLeaves(c) ==
    /\ mails[c].sending = "queued" /\ mails[c].status # "sent"
    /\ mails' = [mails EXCEPT ![c].sending = "mailed"]
    /\ received' = [received EXCEPT ![c] = [text |-> mails[c].text, link |-> mails[c].link]]
    /\ UNCHANGED <<cacheVars, sheet, debounced, netVars, texts, ghostVars>>

\* It marks the mail after that, unless it stops in between.
MailMarked(c) ==
    /\ mails[c].sending = "mailed" /\ mails[c].status = "draft"
    /\ mails' = [mails EXCEPT ![c].status = "sent"]
    /\ UNCHANGED <<received, cacheVars, sheet, debounced, netVars, texts, ghostVars>>

\* The sheet is closed, whichever case it shows by now.
NudgeAnswered(d) ==
    /\ d.phase = "answered" /\ sends' = sends \ {d}
    /\ sheet' = Closed0
    /\ UNCHANGED <<serverVars, cacheVars, debounced, saving, requests, jobs, texts, ghostVars>>

\* The list of cases is fetched, after a send or for any reason of AlertBoard.
ListLands ==
    /\ rows' = [c \in MailCases |-> [status |-> mails[c].status, text |-> mails[c].text,
                                     sent |-> mails[c].sending # "none"]]
    /\ sheet' = Synced(sheet, drafts, rows')
    /\ UNCHANGED <<serverVars, drafts, debounced, netVars, texts, ghostVars>>

\* A refusal, a lost call or ten seconds: a message.  The sheet goes on saying "sent".
SendFails(d) ==
    /\ sends' = sends \ {d}
    /\ UNCHANGED <<serverVars, cacheVars, sheet, debounced, saving, requests, jobs, texts, ghostVars>>

MailNext ==
    \/ \E c \in MailCases : OpenSheet(c) \/ ServerDrafts(c) \/ MailLeaves(c) \/ MailMarked(c)
    \/ CloseSheet \/ Type \/ Restore \/ DebounceEnds \/ GenerateDraft
    \/ JobEventArrives \/ JobEventLost \/ ListLands
    \/ \E s \in saving : SaveServed(s)
    \/ \E r \in requests : DraftRead(r) \/ DraftLands(r) \/ DraftReadFails(r)
    \/ SendClick
    \/ \E d \in sends : UpdateServed(d) \/ NudgeServed(d) \/ NudgeAnswered(d) \/ SendFails(d)

MailSpec == MailInit /\ [][MailNext]_mailVars

-----------------------------------------------------------------------------
(* Properties *)

MailTypeOK ==
    /\ \A c \in MailCases : /\ mails[c].status \in {"unavailable", "generating", "draft", "sent"}
                            /\ mails[c].sending \in {"none", "queued", "mailed"}
    /\ sheet.case \in MailCases \cup {NoMailCase}
    /\ texts \in 0 .. MaxTexts /\ sessions \in 0 .. MaxSessions
    /\ disturbed \subseteq MailCases

\* What the student gets is a text the advisor sent, with the link to book: not
\* a draft of the AI that came in between, nor what the editor held before;
\* unless an autosave was served, or a draft asked for, between the click and the
\* worker's reading of the mail.
ReceivedWasChosen ==
    \A c \in MailCases : received[c] # NoMailCase /\ c \notin disturbed =>
        received[c].text \in chosen[c] /\ received[c].link

\* Once the advisor typed, nothing but the advisor changes the text of the sheet:
\* no draft, event or answer that comes in while it is open.
TypedTextStays ==
    [][sheet.typed /\ sheet'.session = sheet.session /\ sheet'.text # sheet.text =>
          UNCHANGED <<serverVars, cacheVars, netVars>>]_mailVars
===============================================================================
