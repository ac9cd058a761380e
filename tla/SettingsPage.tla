------------------------------- MODULE SettingsPage -------------------------------
(***************************************************************************)
(* The settings of a user (settings-view.tsx): tone and safety rules for   *)
(* the AI drafts, and an advisor's profile.  Each document has a query, a  *)
(* form that is filled from it, and a mutation after whose success it is   *)
(* read again.  Theme, integrations and sessions are decoration.           *)
(***************************************************************************)
EXTENDS Integers, FiniteSets, SequencesExt

CONSTANTS
    Entries,        \* what is entered: tones, rules, profiles
    DefaultEntry,   \* what a form holds before it is filled
    NotLoaded,
    MaxEntries, MaxUpdates, MaxRefocuses    \* bounds

ASSUME SettingsAssumption == {MaxEntries, MaxUpdates, MaxRefocuses} \subseteq Nat

Docs == {"settings", "profile"}

VARIABLES
    document,   \* the server's: form fields and safety rules
    known,      \* data of each query, or NotLoaded
    loadingDoc, \* fetches in flight: <<>> none, <<NotLoaded>> unread, or what was read
    form,       \* what the form fields hold
    dialog,     \* the dialog for a new rule is open
    updates,    \* mutations under way
    lastUpdate, \* the latest of each document
    lostUpdate, \* documents whose query may have missed an update
    entered, refocused

settingsVars == <<document, known, loadingDoc, form, dialog, updates, lastUpdate, lostUpdate, entered, refocused>>

SettingsInit ==
    /\ document = [d \in Docs |-> [fields |-> DefaultEntry, rules |-> <<>>]]
    /\ known = [d \in Docs |-> NotLoaded] /\ loadingDoc = [d \in Docs |-> <<NotLoaded>>]
    /\ form = [d \in Docs |-> DefaultEntry] /\ dialog = FALSE
    /\ updates = {} /\ lastUpdate = [d \in Docs |-> 0] /\ lostUpdate = {}
    /\ entered = 0 /\ refocused = 0

IsLoading(d) == known[d] = NotLoaded /\ loadingDoc[d] # <<>>
IsPending(d) == \E u \in updates : u.doc = d /\ u.id = lastUpdate[d]

-----------------------------------------------------------------------------
(* The queries *)

DocRead(d) ==
    /\ loadingDoc[d] = <<NotLoaded>> /\ loadingDoc' = [loadingDoc EXCEPT ![d] = <<document[d]>>]
    /\ UNCHANGED <<document, known, form, dialog, updates, lastUpdate, lostUpdate, entered, refocused>>

\* Other data than before fills the form again, over what was entered in it.
DocLands(d) ==
    /\ loadingDoc[d] \notin {<<>>, <<NotLoaded>>}
    /\ known' = [known EXCEPT ![d] = loadingDoc[d][1]] /\ loadingDoc' = [loadingDoc EXCEPT ![d] = <<>>]
    /\ form' = IF known'[d] = known[d] THEN form ELSE [form EXCEPT ![d] = known'[d].fields]
    /\ UNCHANGED <<document, dialog, updates, lastUpdate, lostUpdate, entered, refocused>>

DocReadFails(d) ==
    /\ loadingDoc[d] # <<>> /\ loadingDoc' = [loadingDoc EXCEPT ![d] = <<>>]
    /\ lostUpdate' = lostUpdate \cup {d}
    /\ UNCHANGED <<document, known, form, dialog, updates, lastUpdate, entered, refocused>>

DocRefocus(d) ==
    /\ loadingDoc[d] = <<>> /\ refocused < MaxRefocuses
    /\ refocused' = refocused + 1 /\ loadingDoc' = [loadingDoc EXCEPT ![d] = <<NotLoaded>>]
    /\ lostUpdate' = IF \E u \in updates : u.doc = d THEN lostUpdate ELSE lostUpdate \ {d}
    /\ UNCHANGED <<document, known, form, dialog, updates, lastUpdate, entered>>

-----------------------------------------------------------------------------
(* Forms and buttons *)

EnterField(d, v) ==
    /\ ~IsLoading(d) /\ entered < MaxEntries /\ form[d] # v
    /\ entered' = entered + 1 /\ form' = [form EXCEPT ![d] = v]
    /\ UNCHANGED <<document, known, loadingDoc, dialog, updates, lastUpdate, lostUpdate, refocused>>

Update(d, patch) ==
    LET id == lastUpdate["settings"] + lastUpdate["profile"] + 1
    IN  /\ id <= MaxUpdates
        /\ lastUpdate' = [lastUpdate EXCEPT ![d] = id]
        /\ updates' = updates \cup {[doc |-> d, id |-> id, patch |-> patch, phase |-> "sent"]}
        /\ UNCHANGED <<document, known, loadingDoc, form, lostUpdate, refocused>>

Fields(v) == [kind |-> "fields", fields |-> v]
Rules(s) == [kind |-> "rules", rules |-> s]

\* Also after a read that failed, with the defaults in the form.
SaveFields(d) ==
    /\ ~IsLoading(d) /\ ~IsPending(d) /\ Update(d, Fields(form[d]))
    /\ UNCHANGED <<dialog, entered>>

OpenRuleDialog ==
    /\ ~IsLoading("settings") /\ ~IsPending("settings") /\ ~dialog /\ dialog' = TRUE
    /\ UNCHANGED <<document, known, loadingDoc, form, updates, lastUpdate, lostUpdate, entered, refocused>>

CancelRule ==
    /\ dialog /\ dialog' = FALSE
    /\ UNCHANGED <<document, known, loadingDoc, form, updates, lastUpdate, lostUpdate, entered, refocused>>

\* The whole list is sent, the known one and the new rule: Enter does so also
\* while an update is under way.
AddRule(v) ==
    /\ dialog /\ known["settings"] # NotLoaded /\ entered < MaxEntries
    /\ Update("settings", Rules(Append(known["settings"].rules, v)))
    /\ dialog' = FALSE /\ entered' = entered + 1

RemoveRule(i) ==
    /\ known["settings"] # NotLoaded /\ i \in DOMAIN known["settings"].rules /\ ~IsPending("settings")
    /\ Update("settings", Rules(RemoveAt(known["settings"].rules, i)))
    /\ UNCHANGED <<dialog, entered>>

-----------------------------------------------------------------------------
(* The mutations *)

Patched0(doc, patch) ==
    IF patch.kind = "fields" THEN [doc EXCEPT !.fields = patch.fields] ELSE [doc EXCEPT !.rules = patch.rules]

SettingServed(u) ==
    /\ u.phase = "sent"
    /\ document' = [document EXCEPT ![u.doc] = Patched0(@, u.patch)]
    /\ updates' = (updates \ {u}) \cup {[u EXCEPT !.phase = "stored"]}
    /\ UNCHANGED <<known, loadingDoc, form, dialog, lastUpdate, lostUpdate, entered, refocused>>

JoinsFirst(u) == known[u.doc] = NotLoaded /\ loadingDoc[u.doc] # <<>>

\* Slip: any read under way is joined.
UpdateSucceedsJoins(u) ==
    /\ u.phase = "stored" /\ updates' = updates \ {u}
    /\ loadingDoc' = [loadingDoc EXCEPT ![u.doc] = IF @ = <<>> THEN <<NotLoaded>> ELSE @]
    /\ lostUpdate' = IF JoinsFirst(u) THEN lostUpdate \cup {u.doc} ELSE lostUpdate
    /\ UNCHANGED <<document, known, form, dialog, lastUpdate, entered, refocused>>

\* Read again; a read under way is given up, and the first one joined.
UpdateSucceeds(u) ==
    /\ u.phase = "stored" /\ updates' = updates \ {u}
    /\ loadingDoc' = [loadingDoc EXCEPT ![u.doc] = IF JoinsFirst(u) THEN @ ELSE <<NotLoaded>>]
    /\ lostUpdate' = IF JoinsFirst(u) THEN lostUpdate \cup {u.doc} ELSE lostUpdate
    /\ UNCHANGED <<document, known, form, dialog, lastUpdate, entered, refocused>>

\* Refused, lost, or ten seconds: a message, and nothing is read.
UpdateFails(u) ==
    /\ updates' = updates \ {u}
    /\ lostUpdate' = IF u.phase = "stored" THEN lostUpdate \cup {u.doc} ELSE lostUpdate
    /\ UNCHANGED <<document, known, loadingDoc, form, dialog, lastUpdate, entered, refocused>>

-----------------------------------------------------------------------------
(* What is on the screen *)

CanSaveProfile == ~IsLoading("profile") /\ ~IsPending("profile")
ProfileFields == IF IsLoading("profile") THEN <<>> ELSE <<form["profile"]>>

AiTab ==
    [skeleton |-> IsLoading("settings"), tone |-> form["settings"],
     canSave |-> ~IsLoading("settings") /\ ~IsPending("settings"),
     rules |-> IF known["settings"] = NotLoaded THEN <<>> ELSE known["settings"].rules,
     canChangeRules |-> ~IsPending("settings")]

\* Button and key do not ask the same.
RuleDialog(text) ==
    [open |-> dialog, button |-> text # DefaultEntry /\ ~IsPending("settings"), enter |-> text # DefaultEntry]

SettingsNext ==
    \/ \E d \in Docs :
          \/ DocRead(d) \/ DocLands(d) \/ DocReadFails(d) \/ DocRefocus(d) \/ SaveFields(d)
          \/ \E v \in Entries : EnterField(d, v)
    \/ OpenRuleDialog \/ CancelRule
    \/ \E v \in Entries : AddRule(v)
    \/ \E i \in 1 .. MaxEntries : RemoveRule(i)
    \/ \E u \in updates : SettingServed(u) \/ UpdateSucceeds(u) \/ UpdateFails(u)

SettingsSpec == SettingsInit /\ [][SettingsNext]_settingsVars

-----------------------------------------------------------------------------
(* Properties *)

SettingsTypeOK ==
    /\ dialog \in BOOLEAN /\ lostUpdate \subseteq Docs
    /\ entered \in 0 .. MaxEntries /\ refocused \in 0 .. MaxRefocuses
    /\ lastUpdate \in [Docs -> 0 .. MaxUpdates]

\* Once nothing is under way the page shows what the server will use for the
\* drafts: updates that overlap, fail or are overtaken by a read leave no other
\* rules on the screen; unless a read failed, the answer to an update was lost,
\* or it came while the first read was under way.
SettingsShownAreServers ==
    \A d \in Docs : ~(\E u \in updates : u.doc = d) /\ loadingDoc[d] = <<>> /\ known[d] # NotLoaded
                        /\ d \notin lostUpdate => known[d] = document[d]
===============================================================================
