-------------------------------- MODULE MCClient --------------------------------
(***************************************************************************)
(* The browser's modules in one instance: each initial state picks the     *)
(* part of the application that runs, the others rest.  Parts whose        *)
(* interaction matters are within one module; what is left between two     *)
(* parts is a request to the server, which is an action of each.           *)
(***************************************************************************)
EXTENDS Sheets, CsvImport, Session, LiveSocket, AlertBoard, EmailEditor,
        ScheduleEditor, StudentPages, SettingsPage, Notices, TLC

CONSTANTS l1, s1, s2, k1, k2

VARIABLE part   \* the part that runs

clientVars == <<sample, importVars, sessionVars, socketVars, boardVars, mailVars, scheduleVars,
                studentVars, settingsVars, noticeVars, goalVars>>

-----------------------------------------------------------------------------
(* Data of the instance *)

Names == {<<<<"h">>>>, <<<<"h">>, <<"j">>>>, <<<<"k">>, <<"h">>>>}
Cells == {<<>>, <<"x">>, <<Comma>>, <<Quote>>, <<"x", Quote, Comma>>, <<"x", LF, "x">>}
OneRow(names, cells) == {[headers |-> names, rows |-> <<row>>] : row \in [ToSet(names) -> cells]}
MCFiles == UNION {OneRow(names, Cells) : names \in Names} \cup {[headers |-> <<<<"h">>>>, rows |-> <<>>]}

\* Headers with a blank or a quoted name; bodies with blank lines, the header again,
\* a line break in quotes, a quote left open, and the other kinds of line break.
Heads == {<<"h">>, <<"j", Comma, "h">>, <<"h", Comma>>, <<Comma, "j">>, <<Quote, "h", LF, "j", Quote>>}
Bodies == {<<>>, <<LF>>, <<"h">>, <<"x">>, <<Comma>>, <<Comma, "x", Comma>>, <<Quote, Comma, Quote>>, <<"x", LF, LF, "y">>,
           <<Quote, "x", LF, "y", Quote>>, <<Quote, "x", CR, "y", Quote>>, <<Quote, "x">>, <<"x", CR, "y">>, <<CR, LF, "x">>}
MCTexts == {head \o <<LF>> \o body : head \in Heads, body \in Bodies}

MCRiskHeaders == <<"sid", "studentname", "testtype", "score", "academicyear", "lastnotifiedtimestamp">>
RiskMark(sid, type, score, year) ==
    [sid |-> sid, studentname |-> "Lan", testtype |-> type, score |-> score, academicyear |-> year,
     lastnotifiedtimestamp |-> NoText]
Contact(sid, time) ==
    [sid |-> sid, studentname |-> NoText, testtype |-> NoText, score |-> NoText, academicyear |-> NoText,
     lastnotifiedtimestamp |-> time]
MCNumberOf == ("0" :> 0) @@ ("1" :> 1) @@ ("3" :> 3) @@ ("5" :> 5) @@ ("9" :> 9)
                @@ ("40" :> 40) @@ ("45" :> 45) @@ ("80" :> 80)
MCRiskRows ==
    {RiskMark("s1", "final", "45", "1"), RiskMark("s1", "midterm", "80", "0"), RiskMark("s2", "quiz", "absent", "1"),
     RiskMark("s2", "quiz", "5", "0"), Contact("s1", "9"), Contact("s1", "5"), Contact("s2", "2026-01-11"),
     Contact(NoText, "9")}

\* The fit pair is l1 with s1; a profile of s2 has a line break in the name.
Field(text) == IF text = NoText THEN <<>> ELSE <<text>>
Text(lines) == JoinWith([i \in DOMAIN lines |-> JoinWith([k \in DOMAIN lines[i] |-> Field(lines[i][k])], Comma)], LF)
Quoted(text) == <<Quote>> \o text \o <<Quote>>
MCText == [f \in {l1, s1, s2} |->
    CASE f = l1 -> Text(<< <<"sid", "testtype", "score">>, <<"s1", "final", "40">>, <<"s1", "quiz">>, <<"s2", "quiz", "80">> >>)
      [] f = s1 -> Text(<< <<"sid", "studentname">>, <<"s1", "Lan">>, <<"s4">> >>)
      [] f = s2 -> Text(<< <<"sid", "studentname">>, <<"s1">> >>) \o <<Comma>> \o Quoted(<<"Lan", LF, "Anh">>)]

\* What the proof that totals are those sent assumes of the texts.
ASSUME MergesRead

CaseRow(status, advisor, risk) ==
    [sid |-> "s1", caseId |-> "c1", status |-> status, advisor |-> advisor, risk |-> risk, draft |-> "none",
     appointment |-> Never, sentAt |-> Never, createdAt |-> 1, concern |-> FALSE, overview |-> <<>>]
MCCaseRows == {CaseRow(status, advisor, risk) : status \in BackendStatuses, advisor \in {Nobody, "me"},
                                                risk \in {{"critical"}, {"elevated", "final"}}}
Item(points, sent, resolved) == [points |-> points, sent |-> sent, resolved |-> resolved]
MCTeam == {Item(0, 0, 0), Item(5, 3, 1), Item(5, 2, 2), Item(9, 1, 0), Item(7, 0, 1)}
MCDemo == <<Item(8, 24, 18), Item(6, 19, 13), Item(5, 17, 11)>>
MCGoals == [done : BOOLEAN, deadline : {Never, 1, 2}]
MCOffsets == {-300, 0, 420}

MCStudentOf == [c \in BoardCases |-> c]
MCStart == [c \in BoardCases |->
    IF c = k1 THEN [status |-> "new", owner |-> Nobody] ELSE [status |-> "sent", owner |-> "me"]]

MCDayOf == [d \in 1 .. 2 |-> "mon"]
Hours(from, to) == [from |-> from, to |-> to]
Open1(ranges) == [week |-> [d \in DayKeys |-> [enabled |-> TRUE, ranges |-> ranges]], overrides |-> <<>>]
MCDefault == Open1(<<Hours(840, 1020)>>)
\* The browser is told of the first day off; the other is further ahead.
MCRows == [hours |-> {[id |-> 1, day |-> "mon", from |-> 540, to |-> 690]},
           offs |-> {[id |-> 2, date |-> 1, reason |-> <<Custom, "y">>],
                     [id |-> 3, date |-> 2, reason |-> <<"y">>]}, issued |-> 3]
MCInputs == {[hour |-> 9, minute |-> 0, period |-> "PM"]}
MCNotes == {<<"y">>}
MCPages == <<Open1(<<Hours(540, 600)>>), Open1(<<Hours(560, 600)>>)>>

-----------------------------------------------------------------------------
(* One part at a time *)


Init ==
    /\ part \in {"sheets", "import", "session", "socket", "board", "mail", "schedule", "student",
                 "settings", "notices", "goals"}
    /\ IF part = "sheets" THEN SheetInit ELSE sample = NoSample
    /\ ImportInit
    /\ SessionInit /\ (part # "session" => page = "login")
    /\ SocketInit /\ BoardInit /\ MailInit /\ ScheduleInit
    /\ StudentInit /\ (part # "student" => link = "invalid")
    /\ SettingsInit /\ NoticeInit /\ GoalInit

Next ==
    /\ UNCHANGED <<part, sample>>
    /\ \/ /\ part = "import" /\ ImportNext
          /\ UNCHANGED <<sessionVars, socketVars, boardVars, mailVars, scheduleVars, studentVars, settingsVars, noticeVars, goalVars>>
       \/ /\ part = "session" /\ SessionNext
          /\ UNCHANGED <<importVars, socketVars, boardVars, mailVars, scheduleVars, studentVars, settingsVars, noticeVars, goalVars>>
       \/ /\ part = "socket" /\ SocketNext
          /\ UNCHANGED <<importVars, sessionVars, boardVars, mailVars, scheduleVars, studentVars, settingsVars, noticeVars, goalVars>>
       \/ /\ part = "board" /\ BoardNext
          /\ UNCHANGED <<importVars, sessionVars, socketVars, mailVars, scheduleVars, studentVars, settingsVars, noticeVars, goalVars>>
       \/ /\ part = "mail" /\ MailNext
          /\ UNCHANGED <<importVars, sessionVars, socketVars, boardVars, scheduleVars, studentVars, settingsVars, noticeVars, goalVars>>
       \/ /\ part = "schedule" /\ ScheduleNext
          /\ UNCHANGED <<importVars, sessionVars, socketVars, boardVars, mailVars, studentVars, settingsVars, noticeVars, goalVars>>
       \/ /\ part = "student" /\ StudentNext
          /\ UNCHANGED <<importVars, sessionVars, socketVars, boardVars, mailVars, scheduleVars, settingsVars, noticeVars, goalVars>>
       \/ /\ part = "settings" /\ SettingsNext
          /\ UNCHANGED <<importVars, sessionVars, socketVars, boardVars, mailVars, scheduleVars, studentVars, noticeVars, goalVars>>
       \/ /\ part = "notices" /\ NoticeNext
          /\ UNCHANGED <<importVars, sessionVars, socketVars, boardVars, mailVars, scheduleVars, studentVars, settingsVars, goalVars>>
       \/ /\ part = "goals" /\ GoalNext
          /\ UNCHANGED <<importVars, sessionVars, socketVars, boardVars, mailVars, scheduleVars, studentVars,
                         settingsVars, noticeVars>>

\* Fairness of each part, as far as it runs.
Fairness ==
    /\ WF_socketVars(part = "socket" /\ TimerFires)
    /\ \A s \in SocketIds :
          WF_socketVars(part = "socket" /\ sockets[s] = "closing" /\ \E final \in BOOLEAN : Closed(s, final))
    /\ WF_noticeVars(part = "notices" /\ Poll)
    /\ WF_noticeVars(part = "notices" /\ BellServed)
    /\ WF_noticeVars(part = "notices" /\ BellLands)

Spec == Init /\ [][Next]_<<part, clientVars>> /\ Fairness

\* Every part's state is of its type: the cached lists are of cases there are,
\* counters keep within their bounds, the number on the bell is one there can be.
ClientTypeOK ==
    /\ ImportTypeOK /\ SessionTypeOK /\ SocketTypeOK /\ BoardTypeOK /\ MailTypeOK
    /\ ScheduleTypeOK /\ StudentTypeOK /\ SettingsTypeOK /\ NoticeTypeOK /\ GoalTypeOK
===============================================================================
