----------------------------- MODULE Availability -----------------------------
(***************************************************************************)
(* The calendar arithmetic of booking, without state: when a time is       *)
(* accepted for an appointment (AdvisorAvailabilityService, the command    *)
(* side) and which times are offered (the availability query).             *)
(*                                                                         *)
(* A time is a number of units since midnight UTC of day 0.  Every         *)
(* appointment lasts Duration, as the API books them.  Time zones are      *)
(* fixed offsets: changes of daylight saving time are left out.            *)
(***************************************************************************)
EXTENDS Integers

CONSTANTS
    DayLen,     \* units of a day
    WeekLen,    \* days of a week
    Duration,   \* length of an appointment and of an offered slot
    Dates       \* days for which slots are queried, an interval

ASSUME CalendarAssumption ==
    /\ DayLen \in Nat \ {0} /\ WeekLen \in Nat \ {0}
    /\ Duration \in 1..DayLen
    /\ Dates \subseteq Nat

\* A block of working hours: local times of a weekday, and the offset of the zone,
\* which is less than a day.
Block == [day : 0..(WeekLen - 1), start : 0..(DayLen - 1), end : 0..(DayLen - 1),
          zone : (1 - DayLen)..(DayLen - 1)]

Day(time) == time \div DayLen
Clock(time) == time % DayLen
Weekday(day) == day % WeekLen
Overnight(wh) == wh.start >= wh.end

-----------------------------------------------------------------------------
(* Accepting a time: is_slot_available *)

\* Slip: the tail of an overnight shift is looked for on the day it started.
InWorkingHoursSameDay(wh, time) ==
    LET local == time + wh.zone
    IN  /\ wh.day = Weekday(Day(local))
        /\ IF Overnight(wh) THEN Clock(local) >= wh.start \/ Clock(local) < wh.end
                            ELSE Clock(local) \in wh.start .. wh.end - 1

InWorkingHours(wh, time) ==
    LET local == time + wh.zone
    IN  \/ /\ wh.day = Weekday(Day(local))
           /\ IF Overnight(wh) THEN Clock(local) >= wh.start
                               ELSE Clock(local) \in wh.start .. wh.end - 1
        \/ /\ Overnight(wh)
           /\ wh.day = Weekday(Day(local) - 1)
           /\ Clock(local) < wh.end

\* max(start1, start2) < min(end1, end2)
Overlap(t, u) == t < u + Duration /\ u < t + Duration

\* Slip: only a later appointment that begins inside the slot is a conflict.
HasConflictStart(booked, time) == \E b \in booked : b \in time .. time + Duration - 1

\* has_overlapping_appointment looks one day back and one day ahead.
HasConflict(booked, time) ==
    \E b \in booked : /\ b \in time - DayLen .. time + Duration + DayLen
                      /\ Overlap(time, b)

\* The days off are looked up under the UTC date of the requested time.
IsDayOff(daysOff, time) == Day(time) \in daysOff

-----------------------------------------------------------------------------
(* Offering times: get_available_slots *)

ShiftEnd(wh) == IF wh.end <= wh.start THEN wh.end + DayLen ELSE wh.end

\* The slots of the shift that begins on a date, back to back, in UTC.
SlotsOf(wh, date) ==
    {date * DayLen + wh.start + k * Duration - wh.zone :
        k \in {k \in 0..DayLen : wh.start + (k + 1) * Duration <= ShiftEnd(wh)}}

\* Days off and weekdays are those of the date the shift begins on.
ShiftSlots(blocks, dates) ==
    UNION {SlotsOf(x[1], x[2]) : x \in {y \in blocks \X dates : y[1].day = Weekday(y[2])}}

\* The appointments read to decide: those of the dates asked for and, in UTC, of one
\* day to each side.
Read(booked) == {b \in booked : \E date \in Dates : Day(b) \in date - 1 .. date + 1}

\* Slip: a slot is hidden only by an appointment that begins with it.
OfferedExact(blocks, daysOff, booked, now) ==
    {time \in ShiftSlots(blocks, Dates \ daysOff) : time > now /\ time \notin Read(booked)}

Offered(blocks, daysOff, booked, now) ==
    {time \in ShiftSlots(blocks, Dates \ daysOff) :
        time > now /\ \A b \in Read(booked) : ~Overlap(time, b)}

-----------------------------------------------------------------------------
(* What a shift is: an interval of time for each of the days it begins on. *)

ShiftsAround(wh, time) ==
    {day \in Day(time) - 2 .. Day(time) + 2 : Weekday(day) = wh.day}

InShift(wh, time) ==
    \E day \in ShiftsAround(wh, time) :
        LET midnight == day * DayLen - wh.zone
        IN  midnight + wh.start <= time /\ time < midnight + ShiftEnd(wh)

\* The days around a date reach from before the first to after the last appointment that
\* may overlap a slot of the shift that begins on it.
Padded(wh) ==
    /\ wh.start - wh.zone >= Duration - DayLen
    /\ ShiftEnd(wh) - wh.zone <= 2 * DayLen
===============================================================================
