----------------------------- MODULE ScheduleEditor -----------------------------
(***************************************************************************)
(* An advisor changes the weekly schedule: the page with one switch per    *)
(* day (schedule-view.tsx), the sheet in which all of it is edited         *)
(* (schedule-editor-sheet.tsx), and the query and the mutation that each   *)
(* of the two holds an instance of (use-schedule-query.ts).  A save reads  *)
(* the server's rows and sends the differences, one call after the other.  *)
(***************************************************************************)
EXTENDS Timetable

CONSTANTS
    Weekdays, Monday,   \* the days "copy Monday" writes, and its source
    DefaultSchedule,    \* DEFAULT_SCHEDULE, shown until the real one is there
    InitialRows,        \* what the server has
    Horizon,            \* the dates of which the server tells the days off
    TimeInputs,         \* what is typed into a time field
    NoteInputs, NewDates,
    NoSchedule,
    MaxRanges,  \* ranges a day can have
    MaxEdits,   \* bound on edits in the sheet and returns to the window
    MaxSaves    \* bound on saves

ASSUME ScheduleAssumption ==
    /\ IsFiniteSet(DayKeys) /\ Weekdays \subseteq DayKeys /\ Monday \in DayKeys
    /\ DefaultSchedule \in Schedules /\ \A o \in ToSet(DefaultSchedule.overrides) : o.id = Local
    /\ NoSchedule \notin Schedules /\ NoteInputs \subseteq Reasons /\ NewDates \cup Horizon \subseteq Dates
    /\ InitialRows \in Tables
    /\ Identified(InitialRows.hours, InitialRows.issued) /\ Identified(InitialRows.offs, InitialRows.issued)
    /\ {MaxRanges, MaxEdits, MaxSaves} \subseteq Nat

VARIABLES
    stored,      \* the server's hours and days off, and the identifiers given out
    cached,     \* data of the schedule query, or NoSchedule
    reading,    \* the fetch in flight: <<>> none, <<NoSchedule>> unread, or what it read
    readFailed, \* isError
    editor,     \* the sheet
    saves,      \* mutations under way
    latest,     \* the last mutation of each instance
    edits       \* edits and returns so far

\* Calls of a save, and saves.
Commanded ==
    [op : {"deleteHours", "deleteOff"}, id : Nat]
        \cup [op : {"addHours"}, day : DayKeys, range : Ranges, nth : Nat]
        \cup [op : {"addOff"}, date : Dates, reason : Reasons, nth : Nat]
Saves == [who : {"view", "sheet"}, id : 1 .. MaxSaves, next : Schedules, before : Schedules \cup {NoSchedule},
          planned : BOOLEAN, todo : Seq(Commanded), alone : BOOLEAN]

scheduleVars == <<stored, cached, reading, readFailed, editor, saves, latest, edits>>

Editors == {"view", "sheet"}
Unread == <<NoSchedule>>
ClosedEditor == [open |-> FALSE, week |-> DefaultSchedule.week, overrides |-> DefaultSchedule.overrides, errors |-> FALSE]

\* The placeholder, until there is data.
Shown(data) == IF data = NoSchedule THEN DefaultSchedule ELSE data
Busy(who) == \E s \in saves : s.who = who /\ s.id = latest[who]

ScheduleInit ==
    /\ stored = InitialRows /\ cached = NoSchedule /\ reading = Unread /\ readFailed = FALSE
    /\ editor = ClosedEditor /\ saves = {} /\ latest = [who \in Editors |-> 0]
    /\ edits = 0

-----------------------------------------------------------------------------
(* Times that are typed in *)

NoTime == -1

\* normalizeTimeToHHMM: twelve or twenty-four hours; else nothing.
TimeOf(raw) ==
    IF raw.period = "none"
    THEN IF raw.hour \in 0 .. 23 /\ raw.minute \in 0 .. 59 THEN raw.hour * 60 + raw.minute ELSE NoTime
    ELSE IF raw.hour \in 1 .. 12 /\ raw.minute \in 0 .. 59
         THEN ((raw.hour % 12) + (IF raw.period = "PM" THEN 12 ELSE 0)) * 60 + raw.minute ELSE NoTime

-----------------------------------------------------------------------------
(* The query *)

\* Another schedule, while the sheet is open, replaces what is in it.
Resynced(sheet, data) ==
    IF sheet.open /\ Shown(data) # Shown(cached)
    THEN [open |-> TRUE, week |-> Shown(data).week, overrides |-> Shown(data).overrides, errors |-> FALSE]
    ELSE sheet

\* get_advisor_schedule: the days off from today to 90 days ahead.
Visible(rows) == [rows EXCEPT !.offs = {f \in @ : f.date \in Horizon}]

WindowFocus ==
    /\ reading = <<>> /\ edits < MaxEdits
    /\ edits' = edits + 1 /\ reading' = Unread
    /\ UNCHANGED <<stored, cached, readFailed, editor, saves, latest>>

ReadServed ==
    /\ reading = Unread /\ reading' = <<FromServer(Visible(stored))>>
    /\ UNCHANGED <<stored, cached, readFailed, editor, saves, latest, edits>>

ReadLands ==
    /\ reading \notin {<<>>, Unread}
    /\ cached' = reading[1] /\ reading' = <<>> /\ readFailed' = FALSE
    /\ editor' = Resynced(editor, cached')
    /\ UNCHANGED <<stored, saves, latest, edits>>

\* After one retry the page shows the error alone: the sheet is gone with the rest.
ReadFails ==
    /\ reading # <<>>
    /\ reading' = <<>> /\ readFailed' = TRUE /\ editor' = ClosedEditor
    /\ UNCHANGED <<stored, cached, saves, latest, edits>>

-----------------------------------------------------------------------------
(* The mutation *)

\* onMutate: a fetch in flight is given up, and the new schedule shown at once.
Save(who, next) ==
    LET id == latest["view"] + latest["sheet"] + 1
    IN  /\ id <= MaxSaves
        /\ latest' = [latest EXCEPT ![who] = id]
        /\ saves' = {[s EXCEPT !.alone = FALSE] : s \in saves}
                        \cup {[who |-> who, id |-> id, next |-> next, before |-> cached,
                               planned |-> FALSE, todo |-> <<>>, alone |-> saves = {}]}
        /\ cached' = next /\ reading' = <<>> /\ readFailed' = FALSE
        /\ UNCHANGED stored

\* Slip: a fetch in flight is joined.
FinishJoins(s) ==
    /\ saves' = saves \ {s}
    /\ reading' = IF reading = <<>> THEN Unread ELSE reading
    /\ UNCHANGED <<latest, edits>>

\* onSettled: read again; a fetch in flight is given up.
Finish(s) ==
    /\ saves' = saves \ {s}
    /\ reading' = Unread
    /\ UNCHANGED <<latest, edits>>

\* The rows are read anew for the comparison, by the same call.
PlanSave(s) ==
    /\ ~s.planned
    /\ saves' = (saves \ {s}) \cup {[s EXCEPT !.planned = TRUE, !.todo = Commands(Visible(stored), s.next)]}
    /\ UNCHANGED <<stored, cached, reading, readFailed, editor, latest, edits>>

\* Deleting what is not there is no error.
Executed(rows, c) ==
    CASE c.op = "deleteHours" -> [rows EXCEPT !.hours = {h \in @ : h.id # c.id}]
      [] c.op = "deleteOff" -> [rows EXCEPT !.offs = {f \in @ : f.id # c.id}]
      [] c.op = "addHours" ->
            [rows EXCEPT !.issued = @ + 1,
                         !.hours = @ \cup {[id |-> rows.issued + 1, day |-> c.day, from |-> c.range.from, to |-> c.range.to]}]
      [] c.op = "addOff" ->
            [rows EXCEPT !.issued = @ + 1,
                         !.offs = @ \cup {[id |-> rows.issued + 1, date |-> c.date, reason |-> c.reason]}]

CommandServed(s) ==
    /\ s.todo # <<>>
    /\ stored' = Executed(stored, Head(s.todo))
    /\ saves' = (saves \ {s}) \cup {[s EXCEPT !.todo = Tail(@)]}
    /\ UNCHANGED <<cached, reading, readFailed, editor, latest, edits>>

SaveEnds(s) ==
    /\ s.planned /\ s.todo = <<>> /\ Finish(s)
    /\ UNCHANGED <<stored, cached, readFailed, editor>>

\* A call fails, executed or not: those after it are not made, and the schedule
\* from before the save is shown, until the read that follows.
SaveFails(s) ==
    /\ (s.planned => s.todo # <<>>) /\ Finish(s)
    /\ stored' \in {stored} \cup (IF ~s.planned THEN {} ELSE {Executed(stored, Head(s.todo))})
    /\ cached' = IF s.before = NoSchedule THEN cached ELSE s.before
    /\ readFailed' = FALSE
    /\ editor' = Resynced(editor, cached')

-----------------------------------------------------------------------------
(* The page *)

MorningToEvening == [from |-> 540, to |-> 1020]
Switched(day, on) ==
    [enabled |-> on, ranges |-> IF on /\ day.ranges = <<>> THEN <<MorningToEvening>> ELSE day.ranges]

\* The switch of a day saves at once.
ToggleShown(d) ==
    /\ ~readFailed /\ ~Busy("view")
    /\ LET day == Shown(cached).week[d]
       IN  Save("view", [Shown(cached) EXCEPT !.week[d] = Switched(day, ~day.enabled)])
    /\ editor' = Resynced(editor, cached')
    /\ UNCHANGED edits

-----------------------------------------------------------------------------
(* The sheet *)

OpenEditor ==
    /\ ~readFailed /\ ~editor.open
    /\ editor' = [open |-> TRUE, week |-> Shown(cached).week, overrides |-> Shown(cached).overrides, errors |-> FALSE]
    /\ UNCHANGED <<stored, cached, reading, readFailed, saves, latest, edits>>

CloseEditor ==
    /\ editor.open /\ editor' = [editor EXCEPT !.open = FALSE]
    /\ UNCHANGED <<stored, cached, reading, readFailed, saves, latest, edits>>

Edit(week, overrides) ==
    /\ editor.open /\ edits < MaxEdits
    /\ edits' = edits + 1
    /\ editor' = [editor EXCEPT !.week = week, !.overrides = overrides]
    /\ UNCHANGED <<stored, cached, reading, readFailed, saves, latest>>

WithDay(d, day) == [editor.week EXCEPT ![d] = day]

ToggleDay(d) == Edit(WithDay(d, Switched(editor.week[d], ~editor.week[d].enabled)), editor.overrides)

AddRange(d) ==
    /\ editor.week[d].enabled /\ Len(editor.week[d].ranges) < MaxRanges
    /\ Edit(WithDay(d, [enabled |-> TRUE, ranges |-> Append(editor.week[d].ranges, [from |-> 780, to |-> 840])]),
            editor.overrides)

\* An entry that is no time is ignored; nothing asks that a range begins before it ends.
EditRange(d, i, field, raw) ==
    /\ editor.week[d].enabled /\ TimeOf(raw) # NoTime
    /\ Edit([editor.week EXCEPT ![d].ranges[i][field] = TimeOf(raw)], editor.overrides)

RemoveRange(d, i) ==
    /\ editor.week[d].enabled
    /\ Edit([editor.week EXCEPT ![d].ranges = RemoveAt(@, i)], editor.overrides)

\* A day off needs a date, from today on, and a reason.
AddOff(date, note) ==
    Edit(editor.week, <<[id |-> Local, date |-> date, type |-> TimeOff, note |-> note]>> \o editor.overrides)

RemoveOff(i) == Edit(editor.week, RemoveAt(editor.overrides, i))

\* Copy T2 -> T6.
CopyMonday ==
    Edit([d \in DayKeys |-> IF d \in Weekdays THEN [enabled |-> TRUE, ranges |-> editor.week[Monday].ranges]
                            ELSE editor.week[d]], editor.overrides)

\* "Khôi phục mặc định" puts the defaults into the sheet and empties the server;
\* what is then shown is the empty schedule.
ResetSchedule ==
    /\ editor.open
    /\ Save("sheet", EmptySchedule)
    /\ editor' = Resynced([editor EXCEPT !.week = DefaultSchedule.week, !.overrides = DefaultSchedule.overrides], cached')
    /\ UNCHANGED edits

WithoutRanges == {d \in DayKeys : editor.week[d].enabled /\ editor.week[d].ranges = <<>>}

CanSave == ~Busy("sheet")

SaveEditor ==
    /\ editor.open /\ CanSave
    /\ IF WithoutRanges # {}
       THEN /\ editor' = [editor EXCEPT !.errors = TRUE]
            /\ UNCHANGED <<stored, cached, reading, readFailed, saves, latest>>
       ELSE /\ Save("sheet", [week |-> editor.week, overrides |-> editor.overrides])
            /\ editor' = [editor EXCEPT !.open = FALSE, !.errors = FALSE]
    /\ UNCHANGED edits

-----------------------------------------------------------------------------
(* What is on the screen *)

DayLine(config) ==
    [on |-> config.enabled, text |-> IF ~config.enabled THEN <<"off">>
                                     ELSE IF config.ranges = <<>> THEN <<"empty">> ELSE config.ranges]

\* The next four, or a word that there are none.
ComingOffs(s) == SubSeq(s.overrides, 1, IF Len(s.overrides) < 4 THEN Len(s.overrides) ELSE 4)

WeekStats(s) ==
    [minutes |-> WeeklyMinutes(s.week), capacity |-> Capacity(WeeklyMinutes(s.week)), duration |-> Duration]

PageView ==
    LET s == Shown(cached)
    IN  IF readFailed THEN [error |-> TRUE]
        ELSE [error    |-> FALSE,
              days     |-> [d \in DayKeys |-> DayLine(s.week[d])],
              disabled |-> Busy("view"),
              coming   |-> ComingOffs(s),
              stats    |-> WeekStats(s)]

\* The badges of the sheet's head; the public link it shows is the same for every
\* advisor.
EditorBadges ==
    [tenths |-> BadgeTenths(editor.week), capacity |-> Capacity(BadgeTenths(editor.week) * 6)]

\* Rows of days and of days off, and the two buttons that save or give up.
EditorView ==
    [badges  |-> EditorBadges,
     invalid |-> IF editor.errors THEN WithoutRanges ELSE {},
     ranges  |-> [d \in {d \in DayKeys : editor.week[d].enabled} |-> Len(editor.week[d].ranges)],
     offs    |-> editor.overrides]

ScheduleNext ==
    \/ WindowFocus \/ ReadServed \/ ReadLands \/ ReadFails
    \/ \E s \in saves : PlanSave(s) \/ CommandServed(s) \/ SaveEnds(s) \/ SaveFails(s)
    \/ \E d \in DayKeys :
          \/ ToggleShown(d) \/ ToggleDay(d) \/ AddRange(d)
          \/ \E i \in DOMAIN editor.week[d].ranges :
                RemoveRange(d, i) \/ \E field \in {"from", "to"}, raw \in TimeInputs : EditRange(d, i, field, raw)
    \/ OpenEditor \/ CloseEditor \/ CopyMonday \/ ResetSchedule \/ SaveEditor
    \/ \E date \in NewDates, note \in NoteInputs : AddOff(date, note)
    \/ \E i \in DOMAIN editor.overrides : RemoveOff(i)

ScheduleSpec == ScheduleInit /\ [][ScheduleNext]_scheduleVars

-----------------------------------------------------------------------------
(* Properties *)

ScheduleTypeOK ==
    /\ stored \in Tables /\ cached \in Schedules \cup {NoSchedule}
    /\ reading \in {<<>>, Unread} \/ (reading = <<reading[1]>> /\ reading[1] \in Schedules)
    /\ editor \in [open : BOOLEAN, week : [DayKeys -> [enabled : BOOLEAN, ranges : Seq(Ranges)]],
                   overrides : Seq(Overrides), errors : BOOLEAN]
    /\ saves \subseteq Saves /\ latest \in [Editors -> 0 .. MaxSaves]
    /\ readFailed \in BOOLEAN /\ edits \in 0 .. MaxEdits

HoursKept(s) == {[day |-> t.day, range |-> TargetRange(s, t)] : t \in Targets(s)}
OffsKept(s) == {<<o.date, ReasonOf(o)>> : o \in ToSet(s.overrides)}

\* What was saved is there, and nothing else on the dates the browser is told of.
OffsReached(kept, there) ==
    kept \subseteq there /\ \A off \in there \ kept : off[1] \notin Horizon

\* A save that was told to have worked leaves the server with the schedule that
\* was saved, whatever of it the server had before and whatever the browser
\* thought that was, unless another save overlapped it: the hours, neither more nor
\* less, and the days off.  Those further ahead than the server tells are added to
\* what it has.
SaveReachesServer ==
    [][\A s \in saves : s.planned /\ s.todo = <<>> /\ s.alone /\ s \notin saves' =>
          /\ HoursKept(s.next) = {[day |-> h.day, range |-> RangeOf(h)] : h \in stored.hours}
          /\ OffsReached(OffsKept(s.next), {<<f.date, f.reason>> : f \in stored.offs})]_scheduleVars

\* Once nothing is under way the page shows the server's schedule, as far ahead as
\* the server tells it, also after saves that overlapped, failed half-way, or were
\* overtaken by a read.
ScheduleShownIsServers ==
    saves = {} /\ reading = <<>> /\ ~readFailed => cached = FromServer(Visible(stored))
===============================================================================
