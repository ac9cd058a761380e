-------------------------------- MODULE Timetable --------------------------------
(***************************************************************************)
(* The weekly schedule of an advisor as the browser holds it (schedule.ts) *)
(* and its translation from and to the rows of the server                  *)
(* (schedule-adapter.ts).  Times are minutes of the day.  The identifiers  *)
(* of ranges are left out: nothing compares them.                          *)
(***************************************************************************)
EXTENDS Lists, SequencesExt

CONSTANTS
    DayKeys,        \* days of the week
    DayOf,          \* the day of the week of each date of the instance
    Words,          \* what a reason or a note consists of, beside the tag
    Duration, Buffer    \* minutes of a meeting, and between two

Dates == DOMAIN DayOf
Local == 0      \* the identifier of what the server does not have yet
Custom == "[CUSTOM]"
TimeOff == "off"

\* Ranges of minutes, days and days off as the browser has them.
Ranges == [from : Int, to : Int]
Reasons == Seq({Custom} \cup Words)
Overrides == [id : Nat, date : Dates, type : {"custom", TimeOff}, note : Reasons]
Schedules == [week : [DayKeys -> [enabled : BOOLEAN, ranges : Seq(Ranges)]], overrides : Seq(Overrides)]

\* The rows of the server, and how many identifiers it has given out.
HourRows == [id : Nat \ {Local}, day : DayKeys, from : Int, to : Int]
OffRows == [id : Nat \ {Local}, date : Dates, reason : Reasons]
Tables == [hours : SUBSET HourRows, offs : SUBSET OffRows, issued : Nat]

\* The identifiers of a table's rows differ, and have been given out.
Identified(table, issued) ==
    /\ IsFiniteSet(table) /\ \A row \in table : row.id <= issued
    /\ \A a, b \in table : a.id = b.id => a = b

-----------------------------------------------------------------------------
(* The server's rows and the browser's schedule *)

RangeOf(row) == [from |-> row.from, to |-> row.to]
EarlierRow(a, b) == a.from < b.from \/ (a.from = b.from /\ a.id < b.id)
OlderRow(a, b) == a.id < b.id

\* A reason that begins with the tag [CUSTOM] makes a day with hours of its own.
OverrideOf(row) ==
    IF row.reason # <<>> /\ Head(row.reason) = Custom
    THEN [id |-> row.id, date |-> row.date, type |-> "custom", note |-> Tail(row.reason)]
    ELSE [id |-> row.id, date |-> row.date, type |-> TimeOff, note |-> row.reason]

ReasonOf(o) == IF o.type = "custom" THEN <<Custom>> \o o.note ELSE o.note

\* backendToFrontend: a day is enabled if it has hours.
FromServer(rows) ==
    [week |-> [d \in DayKeys |->
                  LET own == InOrder({h \in rows.hours : h.day = d}, EarlierRow)
                  IN  [enabled |-> own # <<>>, ranges |-> [i \in DOMAIN own |-> RangeOf(own[i])]]],
     overrides |-> LET offs == InOrder(rows.offs, OlderRow)
                   IN  [i \in DOMAIN offs |-> OverrideOf(offs[i])]]

NoHours == [enabled |-> FALSE, ranges |-> <<>>]
EmptySchedule == [week |-> [d \in DayKeys |-> NoHours], overrides |-> <<>>]

-----------------------------------------------------------------------------
(* generateDiffCommands *)

\* Occurrences of ranges in enabled days: two equal ranges are two targets.
Targets(s) ==
    UNION {{[day |-> d, nth |-> i] : i \in DOMAIN s.week[d].ranges} : d \in {d \in DayKeys : s.week[d].enabled}}
TargetRange(s, t) == s.week[t.day].ranges[t.nth]

SameHours(s, t, row) == row.day = t.day /\ RangeOf(row) = TargetRange(s, t)
SameOff(o, row) == row.id = o.id \/ (row.date = o.date /\ row.reason = ReasonOf(o))

HoursToDelete(rows, s) == {h \in rows.hours : ~\E t \in Targets(s) : SameHours(s, t, h)}

\* Slip: a day that has hours already gets no others.
HoursToAddByDay(rows, s) == {t \in Targets(s) : ~\E h \in rows.hours : h.day = t.day}

HoursToAdd(rows, s) == {t \in Targets(s) : ~\E h \in rows.hours : SameHours(s, t, h)}

OffsToDelete(rows, s) == {f \in rows.offs : ~\E i \in DOMAIN s.overrides : SameOff(s.overrides[i], f)}
OffsToAdd(rows, s) == {i \in DOMAIN s.overrides : ~\E f \in rows.offs : SameOff(s.overrides[i], f)}

\* In the order they are executed.
Commands(rows, s) ==
    SetToSeq({[op |-> "deleteHours", id |-> h.id] : h \in HoursToDelete(rows, s)})
    \o SetToSeq({[op |-> "addHours", day |-> t.day, range |-> TargetRange(s, t), nth |-> t.nth] : t \in HoursToAdd(rows, s)})
    \o SetToSeq({[op |-> "deleteOff", id |-> f.id] : f \in OffsToDelete(rows, s)})
    \o SetToSeq({[op |-> "addOff", date |-> s.overrides[i].date, reason |-> ReasonOf(s.overrides[i]), nth |-> i]
                    : i \in OffsToAdd(rows, s)})

-----------------------------------------------------------------------------
(* What a schedule says *)

\* isDateOff: the first override of the date decides, whatever follows it.
IsDateOff(date, s) ==
    \/ ~s.week[DayOf[date]].enabled
    \/ LET same == SelectSeq(s.overrides, LAMBDA o : o.date = date)
       IN  same # <<>> /\ Head(same).type = TimeOff

\* generateSlotsForDate: a day with hours of its own is offered like any other.
StartsOn(date, s) ==
    IF IsDateOff(date, s) THEN {}
    ELSE UNION {{t \in r.from .. r.to : (t - r.from) % (Duration + Buffer) = 0 /\ t + Duration <= r.to}
                   : r \in ToSet(s.week[DayOf[date]].ranges)}

Minutes(week, Length(_)) ==
    MapThenFoldSet(+, 0, LAMBDA d : FoldSeq(LAMBDA r, sum : sum + Length(r), 0, week[d].ranges),
                   LAMBDA S : CHOOSE d \in S : TRUE, {d \in DOMAIN week : week[d].enabled})

\* totalWeeklyHours, in minutes: a range that ends before it begins counts negative.
WeeklyMinutes(week) ==
    LET sum == Minutes(week, LAMBDA r : r.to - r.from) IN IF sum > 0 THEN sum ELSE 0

\* The badges of the editor count no such range, and round to a tenth of an hour.
BadgeTenths(week) == (Minutes(week, LAMBDA r : IF r.to > r.from THEN r.to - r.from ELSE 0) + 3) \div 6
Capacity(minutes) == minutes \div (Duration + Buffer)
===============================================================================
