-------------------------------- MODULE Booking --------------------------------
(***************************************************************************)
(* Students book appointments with one advisor while the advisor edits     *)
(* working hours and days off.  handle_book_appointment reads the case,    *)
(* the schedule and the appointments of the advisor one after the other,   *)
(* and commits with the version test of the case it read; nothing it read  *)
(* of the schedule or of other cases is locked or compared.  Working hours *)
(* and days off are read in one step, and several rows for one day off are *)
(* one date: to delete all but the last of them changes no outcome.        *)
(***************************************************************************)
EXTENDS Availability, FiniteSets

CONSTANTS
    Cases,        \* cases that were sent, all assigned to the advisor
    Requests,     \* booking requests served at the same time
    BlockIds,     \* rows of advisor_working_hours
    Blocks,       \* working hours the advisor may enter
    NoBlock, NoTime,
    Times         \* times students ask for

ASSUME ScheduleAssumption == Blocks \subseteq Block /\ NoBlock \notin Blocks
ASSUME TimesAssumption == Times \subseteq Nat /\ NoTime \notin Times

VARIABLES
    now,
    hours,        \* hours[i]: a block, or NoBlock
    daysOff,      \* dates with a row in advisor_days_off
    appointment,  \* appointment[c]: the booked time, or NoTime
    version,      \* version[c]: of the row of case c
    session,      \* session[r]: what the handler of request r knows
    raced         \* history: a booking was saved between another one's conflict
                  \* check and its commit

vars == <<now, hours, daysOff, appointment, version, session, raced>>
schedule == <<hours, daysOff>>

Idle == [pc |-> "idle"]
Session == [pc : {"loaded", "checked", "free"}, case : Cases, time : Times, version : Nat]

WorkingHours == {hours[i] : i \in BlockIds} \ {NoBlock}
Booked == {appointment[c] : c \in Cases} \ {NoTime}

-----------------------------------------------------------------------------
(* Booking *)

\* Only a case that was sent and has no booking may be booked.
Load(r, c, time) ==
    /\ session[r] = Idle
    /\ appointment[c] = NoTime
    /\ session' = [session EXCEPT ![r] = [pc |-> "loaded", case |-> c, time |-> time,
                                          version |-> version[c]]]
    /\ UNCHANGED <<now, schedule, appointment, version, raced>>

Proceed(r, condition, pc) ==
    session' = [session EXCEPT ![r] = IF condition THEN [@ EXCEPT !.pc = pc] ELSE Idle]

CheckSchedule(r) ==
    /\ session[r].pc = "loaded"
    /\ LET time == session[r].time
       IN  Proceed(r, /\ time >= now
                      /\ \E wh \in WorkingHours : InWorkingHours(wh, time)
                      /\ ~IsDayOff(daysOff, time), "checked")
    /\ UNCHANGED <<now, schedule, appointment, version, raced>>

CheckConflict(r) ==
    /\ session[r].pc = "checked"
    /\ Proceed(r, ~HasConflict(Booked, session[r].time), "free")
    /\ UNCHANGED <<now, schedule, appointment, version, raced>>

\* Slip: the appointment is merged without the version test of the case.
CommitUnchecked(r) ==
    /\ session[r].pc = "free"
    /\ LET c == session[r].case
       IN  /\ appointment' = [appointment EXCEPT ![c] = session[r].time]
           /\ version' = [version EXCEPT ![c] = @ + 1]
    /\ session' = [session EXCEPT ![r] = Idle]
    /\ raced' = (raced \/ \E q \in Requests \ {r} : session[q].pc = "free")
    /\ UNCHANGED <<now, schedule>>

\* The appointment and the case row in one transaction.
Commit(r) ==
    /\ session[r].pc = "free"
    /\ LET c == session[r].case
       IN  IF version[c] = session[r].version
           THEN /\ appointment' = [appointment EXCEPT ![c] = session[r].time]
                /\ version' = [version EXCEPT ![c] = @ + 1]
           ELSE UNCHANGED <<appointment, version>>
    /\ session' = [session EXCEPT ![r] = Idle]
    /\ raced' = (raced \/ \E q \in Requests \ {r} : session[q].pc = "free")
    /\ UNCHANGED <<now, schedule>>

\* Slip: the version goes down.
OtherSaveDown(c) ==
    /\ version[c] = 0
    /\ version' = [version EXCEPT ![c] = @ - 1]
    /\ UNCHANGED <<now, schedule, appointment, session, raced>>

\* Any other save of the case that leaves it SENT, an AI overview for one.
OtherSave(c) ==
    /\ version[c] = 0
    /\ version' = [version EXCEPT ![c] = 1]
    /\ UNCHANGED <<now, schedule, appointment, session, raced>>

-----------------------------------------------------------------------------
(* The advisor's schedule, edited without regard to appointments *)

\* handle_add_working_hours; handle_update_working_hours writes every column of
\* an existing row; handle_delete_working_hours.
SetHours(i, wh) ==
    /\ hours' = [hours EXCEPT ![i] = wh]
    /\ UNCHANGED <<now, daysOff, appointment, version, session, raced>>

SetDaysOff(dates) ==
    /\ daysOff' = dates
    /\ UNCHANGED <<now, hours, appointment, version, session, raced>>

AddHours(i, wh) == hours[i] = NoBlock /\ SetHours(i, wh)
UpdateHours(i, wh) == hours[i] # NoBlock /\ SetHours(i, wh)
DeleteHours(i) == hours[i] # NoBlock /\ SetHours(i, NoBlock)
AddDayOff(date) == date \notin daysOff /\ SetDaysOff(daysOff \cup {date})
DeleteDayOff(date) == date \in daysOff /\ SetDaysOff(daysOff \ {date})

\* Time passes, to any later one of Times.
Tick ==
    /\ now' \in {time \in Times : time > now}
    /\ UNCHANGED <<schedule, appointment, version, session, raced>>

-----------------------------------------------------------------------------
Init ==
    /\ now = 0
    /\ hours = [i \in BlockIds |-> NoBlock]
    /\ daysOff = {}
    /\ appointment = [c \in Cases |-> NoTime]
    /\ version = [c \in Cases |-> 0]
    /\ session = [r \in Requests |-> Idle]
    /\ raced = FALSE

Book(r) ==
    \/ \E c \in Cases, time \in Times : Load(r, c, time)
    \/ CheckSchedule(r) \/ CheckConflict(r) \/ Commit(r)

Edit ==
    \/ \E i \in BlockIds : \/ \E wh \in Blocks : AddHours(i, wh) \/ UpdateHours(i, wh)
                           \/ DeleteHours(i)
    \/ \E date \in Dates : AddDayOff(date) \/ DeleteDayOff(date)

Next ==
    \/ \E r \in Requests : Book(r)
    \/ \E c \in Cases : OtherSave(c)
    \/ Edit
    \/ Tick

Spec == Init /\ [][Next]_vars
-----------------------------------------------------------------------------
(* Properties *)

\* Rows and handlers keep the shape the code gives them.
TypeOK ==
    /\ now \in Nat
    /\ hours \in [BlockIds -> Blocks \cup {NoBlock}]
    /\ daysOff \subseteq Dates
    /\ appointment \in [Cases -> Times \cup {NoTime}]
    /\ version \in [Cases -> Nat]
    /\ session \in [Requests -> Session \cup {Idle}]
    /\ raced \in BOOLEAN

\* "Conflict-Free Booking: ... built-in conflict detection": the advisor never
\* has two appointments at once.
NoDoubleBooking ==
    \A c, d \in Cases :
        c # d /\ appointment[c] # NoTime /\ appointment[d] # NoTime =>
            ~Overlap(appointment[c], appointment[d])

\* The conflict check is exact: appointments collide only after two handlers have
\* been between their check and their commit at the same time.
SerialBookingsAreDisjoint == ~raced => NoDoubleBooking

\* A booking is never replaced, although two requests for one case may both have
\* found it without appointment.
BookingIsFinal ==
    [][\A c \in Cases : appointment[c] # NoTime => appointment'[c] = appointment[c]]_vars

\* The case analysis of is_slot_available, by weekday and local clock, accepts
\* exactly the times at which a shift is going on.
HoursAreShifts ==
    \A wh \in WorkingHours, time \in 0 .. 2 * WeekLen * DayLen :
        InWorkingHours(wh, time) <=> InShift(wh, time)

\* A slot on offer lies in the working hours and, unless its shift reaches beyond the
\* days around its date, collides with no appointment, as the handler that books it will
\* see them.
OfferedIsOpen ==
    \A wh \in WorkingHours : \A time \in Offered({wh}, daysOff, Booked, now) :
        /\ InWorkingHours(wh, time)
        /\ Padded(wh) => ~HasConflict(Booked, time)

\* "Calculates available slots" (the query) against "valid and available for
\* booking" (the command): a slot on offer is not refused for a day off.
OfferedIsBookable ==
    \A time \in Offered(WorkingHours, daysOff, Booked, now) : ~IsDayOff(daysOff, time)
===============================================================================
