----------------------------- MODULE Booking_proofs -----------------------------
(***************************************************************************)
(* What the version test of the case and the conflict check guarantee, for *)
(* any number of cases, requests and working hours, and any length of day, *)
(* week and appointment.                                                   *)
(***************************************************************************)
EXTENDS Booking, TLAPS

\* A handler's copy of its case is never newer than the row, and while it is as
\* new, the case has no appointment.
CopyInv ==
    \A r \in Requests : session[r] # Idle =>
        LET c == session[r].case
        IN  /\ session[r].version <= version[c]
            /\ session[r].version = version[c] => appointment[c] = NoTime

\* Before the first race, a handler that has passed the conflict check still
\* would, and no two appointments overlap.
SerialInv ==
    ~raced => /\ NoDoubleBooking
              /\ \A r \in Requests : session[r].pc = "free" =>
                    ~HasConflict(Booked, session[r].time)

IInv == TypeOK /\ CopyInv /\ SerialInv

-----------------------------------------------------------------------------
\* The window of has_overlapping_appointment, one day to each side, hides no
\* collision: appointments are not longer than a day.
LEMMA ConflictIsExact ==
    ASSUME NEW booked \in SUBSET Nat, NEW time \in Nat, NEW b \in booked,
           ~HasConflict(booked, time)
    PROVE  ~Overlap(time, b) /\ ~Overlap(b, time)
  BY CalendarAssumption DEF HasConflict, Overlap

LEMMA BookedTimes == ASSUME TypeOK PROVE Booked \in SUBSET Nat
  BY TimesAssumption DEF TypeOK, Booked

\* A step of the handler of request r that changes its session only, as CheckSchedule
\* and CheckConflict do.
LEMMA ProceedTyped ==
    ASSUME TypeOK, NEW r \in Requests, NEW pc \in {"checked", "free"}, NEW condition \in BOOLEAN,
           session[r] # Idle, Proceed(r, condition, pc)
    PROVE  /\ session' \in [Requests -> Session \cup {Idle}]
           /\ \A q \in Requests \ {r} : session'[q] = session[q]
           /\ session'[r] # Idle => /\ condition
                                    /\ session'[r] = [session[r] EXCEPT !.pc = pc]
  BY DEF TypeOK, Proceed, Session, Idle

-----------------------------------------------------------------------------
LEMMA InitIInv == Init => IInv
<1> SUFFICES ASSUME Init PROVE IInv
  OBVIOUS
<1>1. TypeOK
  BY DEF Init, TypeOK
<1>2. CopyInv
  BY DEF Init, CopyInv
<1>3. SerialInv
  BY DEF Init, SerialInv, NoDoubleBooking, Idle
<1>4. QED
  BY <1>1, <1>2, <1>3 DEF IInv

LEMMA LoadKeeps ==
    ASSUME IInv, NEW r \in Requests, NEW c \in Cases, NEW time \in Times, Load(r, c, time)
    PROVE  IInv'
<1> USE DEF IInv
<1> DEFINE new == [pc |-> "loaded", case |-> c, time |-> time, version |-> version[c]]
<1>1. /\ session' = [session EXCEPT ![r] = new]
      /\ UNCHANGED <<now, hours, daysOff, appointment, version, raced>>
      /\ appointment[c] = NoTime
  BY DEF Load, schedule
<1>2. new \in Session
  BY DEF TypeOK, Session
<1>3. TypeOK'
  BY <1>1, <1>2 DEF TypeOK
<1>4. session'[r] = new /\ \A q \in Requests \ {r} : session'[q] = session[q]
  BY <1>1 DEF TypeOK
<1>5. CopyInv'
  <2> SUFFICES ASSUME NEW q \in Requests, session'[q] # Idle
               PROVE  LET d == session'[q].case
                      IN  /\ session'[q].version <= version[d]
                          /\ session'[q].version = version[d] => appointment[d] = NoTime
    BY <1>1 DEF CopyInv
  <2>1. CASE q = r
    BY <2>1, <1>1, <1>4 DEF TypeOK
  <2>2. CASE q # r
    BY <2>2, <1>4 DEF CopyInv
  <2>3. QED
    BY <2>1, <2>2
<1>6. SerialInv'
  <2>1. Booked' = Booked /\ NoDoubleBooking' = NoDoubleBooking
    BY <1>1 DEF Booked, NoDoubleBooking
  <2>2. QED
    BY <1>1, <1>4, <2>1 DEF SerialInv, HasConflict
<1>7. QED
  BY <1>3, <1>5, <1>6

\* The checks; the second one is what SerialInv records of a free session.
LEMMA CheckKeeps ==
    ASSUME IInv, NEW r \in Requests, CheckSchedule(r) \/ CheckConflict(r)
    PROVE  IInv'
<1> USE DEF IInv
<1>1. session[r] # Idle
  <2>1. session[r].pc \in {"loaded", "checked"}
    BY DEF CheckSchedule, CheckConflict
  <2>2. QED
    BY <2>1 DEF Idle
<1>2. UNCHANGED <<now, hours, daysOff, appointment, version, raced>>
  BY DEF CheckSchedule, CheckConflict, schedule
<1>3. /\ session' \in [Requests -> Session \cup {Idle}]
      /\ \A q \in Requests \ {r} : session'[q] = session[q]
      /\ session'[r] # Idle =>
            /\ \E pc \in {"checked", "free"} : session'[r] = [session[r] EXCEPT !.pc = pc]
            /\ session'[r].pc = "free" => ~HasConflict(Booked, session[r].time)
  <2>1. CASE CheckSchedule(r)
    <3>1. PICK condition \in BOOLEAN : Proceed(r, condition, "checked")
      BY <2>1 DEF CheckSchedule
    <3>2. session[r] \in Session
      BY <1>1 DEF TypeOK
    <3>3. session'[r] # Idle => session'[r] = [session[r] EXCEPT !.pc = "checked"]
      BY <3>1, <1>1, ProceedTyped
    <3>4. session'[r] # Idle => session'[r].pc = "checked"
      BY <3>2, <3>3 DEF Session
    <3>5. QED
      BY <3>1, <3>3, <3>4, <1>1, ProceedTyped
  <2>2. CASE CheckConflict(r)
    <3> DEFINE condition == ~HasConflict(Booked, session[r].time)
    <3>1. Proceed(r, condition, "free")
      BY <2>2 DEF CheckConflict
    <3>2. condition \in BOOLEAN
      BY DEF HasConflict
    <3> HIDE DEF condition
    <3>3. QED
      BY <3>1, <3>2, <1>1, ProceedTyped DEF condition
  <2>3. QED
    BY <2>1, <2>2
<1>4. TypeOK'
  BY <1>2, <1>3 DEF TypeOK
<1>5. session'[r] # Idle => /\ session'[r].case = session[r].case
                            /\ session'[r].time = session[r].time
                            /\ session'[r].version = session[r].version
  <2>1. session[r] \in Session
    BY <1>1 DEF TypeOK
  <2>2. QED
    BY <1>3, <2>1 DEF Session
<1>6. CopyInv'
  BY <1>1, <1>2, <1>3, <1>5 DEF CopyInv
<1>7. SerialInv'
  <2>1. Booked' = Booked /\ NoDoubleBooking' = NoDoubleBooking
    BY <1>2 DEF Booked, NoDoubleBooking
  <2>2. ASSUME ~raced, NEW q \in Requests, session'[q].pc = "free"
        PROVE  ~HasConflict(Booked, session'[q].time)
    <3>1. CASE q = r
      BY <2>2, <3>1, <1>3, <1>5 DEF Idle
    <3>2. CASE q # r
      BY <2>2, <3>2, <1>3 DEF SerialInv
    <3>3. QED
      BY <3>1, <3>2
  <2>3. QED
    BY <1>2, <2>1, <2>2 DEF SerialInv, HasConflict
<1>8. QED
  BY <1>4, <1>6, <1>7

\* The version test keeps the appointment a case already has; a commit without a
\* race finds no other handler past its check.
LEMMA CommitKeeps ==
    ASSUME IInv, NEW r \in Requests, Commit(r)
    PROVE  IInv'
<1> USE DEF IInv
<1> DEFINE c == session[r].case
           fresh == version[c] = session[r].version
<1>1. session[r].pc = "free" /\ session[r] \in Session /\ session[r] # Idle
  BY DEF Commit, TypeOK, Idle
<1>2. c \in Cases /\ session[r].time \in Times /\ session[r].version \in Nat
  BY <1>1 DEF Session
<1>3. /\ session' = [session EXCEPT ![r] = Idle]
      /\ UNCHANGED <<now, hours, daysOff>>
      /\ fresh => /\ appointment' = [appointment EXCEPT ![c] = session[r].time]
                  /\ version' = [version EXCEPT ![c] = @ + 1]
      /\ ~fresh => UNCHANGED <<appointment, version>>
      /\ raced' = (raced \/ \E q \in Requests \ {r} : session[q].pc = "free")
  BY DEF Commit, schedule
<1> HIDE DEF fresh
<1>4. session'[r] = Idle /\ \A q \in Requests \ {r} : session'[q] = session[q]
  BY <1>3 DEF TypeOK
<1>5. TypeOK'
  <2>1. session' \in [Requests -> Session \cup {Idle}]
    BY <1>3 DEF TypeOK
  <2>2. appointment' \in [Cases -> Times \cup {NoTime}] /\ version' \in [Cases -> Nat]
    <3>1. CASE fresh
      BY <3>1, <1>2, <1>3 DEF TypeOK
    <3>2. CASE ~fresh
      BY <3>2, <1>3 DEF TypeOK
    <3>3. QED
      BY <3>1, <3>2
  <2>3. raced' \in BOOLEAN
    BY <1>3 DEF TypeOK
  <2>4. QED
    BY <2>1, <2>2, <2>3, <1>3 DEF TypeOK
<1>6. CopyInv'
  <2> SUFFICES ASSUME NEW q \in Requests, session'[q] # Idle
               PROVE  LET d == session'[q].case
                      IN  /\ session'[q].version <= version'[d]
                          /\ session'[q].version = version'[d] => appointment'[d] = NoTime
    BY DEF CopyInv
  <2>1. q # r /\ session'[q] = session[q] /\ session[q] \in Session
    BY <1>4 DEF TypeOK
  <2>2. session[q].case \in Cases /\ session[q].version \in Nat
    BY <2>1 DEF Session
  <2>3. /\ session[q].version <= version[session[q].case]
        /\ session[q].version = version[session[q].case] =>
              appointment[session[q].case] = NoTime
    BY <2>1 DEF CopyInv
  <2>4. CASE fresh
    BY <2>1, <2>2, <2>3, <2>4, <1>2, <1>3 DEF TypeOK
  <2>5. CASE ~fresh
    BY <2>1, <2>3, <2>5, <1>3
  <2>6. QED
    BY <2>4, <2>5
<1>7. SerialInv'
  <2> SUFFICES ASSUME ~raced'
               PROVE  NoDoubleBooking' /\ \A q \in Requests : session'[q].pc = "free" =>
                                             ~HasConflict(Booked, session[q].time)'
    BY DEF SerialInv
  <2>1. ~raced /\ \A q \in Requests \ {r} : session[q].pc # "free"
    BY <1>3
  <2>2. \A q \in Requests : session'[q].pc # "free"
    BY <2>1, <1>4 DEF Idle
  <2>3. NoDoubleBooking'
    <3>1. CASE fresh
      <4>1. ~HasConflict(Booked, session[r].time) /\ NoDoubleBooking
        BY <2>1, <1>1 DEF SerialInv
      <4>2. \A d \in Cases \ {c} : appointment[d] # NoTime =>
               ~Overlap(session[r].time, appointment[d]) /\ ~Overlap(appointment[d], session[r].time)
        BY <4>1, <1>2, BookedTimes, ConflictIsExact, TimesAssumption DEF Booked
      <4>3. /\ appointment'[c] = session[r].time
            /\ \A d \in Cases \ {c} : appointment'[d] = appointment[d]
        BY <3>1, <1>2, <1>3 DEF TypeOK
      <4> HIDE DEF c
      <4>4. QED
        BY <4>1, <4>2, <4>3 DEF NoDoubleBooking
    <3>2. CASE ~fresh
      BY <3>2, <2>1, <1>3 DEF SerialInv, NoDoubleBooking
    <3>3. QED
      BY <3>1, <3>2
  <2>4. QED
    BY <2>2, <2>3
<1>8. QED
  BY <1>5, <1>6, <1>7

LEMMA OtherSaveKeeps ==
    ASSUME IInv, NEW c \in Cases, OtherSave(c)
    PROVE  IInv'
<1> USE DEF IInv
<1>1. /\ version[c] = 0 /\ version' = [version EXCEPT ![c] = 1]
      /\ UNCHANGED <<now, hours, daysOff, appointment, session, raced>>
  BY DEF OtherSave, schedule
<1>2. TypeOK'
  BY <1>1 DEF TypeOK
<1>3. CopyInv'
  <2> SUFFICES ASSUME NEW q \in Requests, session[q] # Idle
               PROVE  LET d == session[q].case
                      IN  /\ session[q].version <= version'[d]
                          /\ session[q].version = version'[d] => appointment[d] = NoTime
    BY <1>1 DEF CopyInv
  <2>1. session[q].case \in Cases /\ session[q].version \in Nat
    BY DEF TypeOK, Session
  <2>2. QED
    BY <1>1, <2>1 DEF CopyInv, TypeOK
<1>4. SerialInv'
  BY <1>1 DEF SerialInv, NoDoubleBooking, Booked, HasConflict
<1>5. QED
  BY <1>2, <1>3, <1>4

\* Edits of the schedule and the clock touch neither cases nor handlers.
LEMMA EditKeeps ==
    ASSUME IInv, Edit \/ Tick
    PROVE  IInv'
<1> USE DEF IInv
<1>1. UNCHANGED <<appointment, version, session, raced>>
  BY DEF Edit, AddHours, UpdateHours, DeleteHours, AddDayOff, DeleteDayOff,
         SetHours, SetDaysOff, Tick, schedule
<1>2. now' \in Nat
  BY TimesAssumption DEF Edit, AddHours, UpdateHours, DeleteHours, AddDayOff, DeleteDayOff,
         SetHours, SetDaysOff, Tick, schedule, TypeOK
<1>3. hours' \in [BlockIds -> Blocks \cup {NoBlock}] /\ daysOff' \subseteq Dates
  BY DEF Edit, AddHours, UpdateHours, DeleteHours, AddDayOff, DeleteDayOff,
         SetHours, SetDaysOff, Tick, schedule, TypeOK
<1>4. TypeOK'
  BY <1>1, <1>2, <1>3 DEF TypeOK
<1>5. CopyInv' /\ SerialInv'
  BY <1>1 DEF CopyInv, SerialInv, NoDoubleBooking, Booked, HasConflict
<1>6. QED
  BY <1>4, <1>5

-----------------------------------------------------------------------------
\* The inductive invariant of Booking.
THEOREM Inductive == Spec => []IInv
<1>1. IInv /\ [Next]_vars => IInv'
  <2> SUFFICES ASSUME IInv, [Next]_vars PROVE IInv'
    OBVIOUS
  <2>1. CASE UNCHANGED vars
    BY <2>1 DEF vars, IInv, TypeOK, CopyInv, SerialInv, NoDoubleBooking, Booked, HasConflict
  <2>2. ASSUME NEW r \in Requests, Book(r)
        PROVE  IInv'
    BY <2>2, LoadKeeps, CheckKeeps, CommitKeeps DEF Book
  <2>3. QED
    BY <2>1, <2>2, OtherSaveKeeps, EditKeeps DEF Next
<1>2. QED
  BY <1>1, InitIInv, PTL DEF Spec

\* Rows and handlers keep their types.
THEOREM TypeInvariant == Spec => []TypeOK
<1>1. IInv => TypeOK
  BY DEF IInv
<1>2. QED
  BY <1>1, Inductive, PTL

\* Without a race the conflict check of handle_book_appointment is enough.
THEOREM SerialBookings == Spec => []SerialBookingsAreDisjoint
<1>1. IInv => SerialBookingsAreDisjoint
  BY DEF IInv, SerialInv, SerialBookingsAreDisjoint
<1>2. QED
  BY <1>1, Inductive, PTL

\* No second booking replaces the first one of a case.
THEOREM Final == Spec => BookingIsFinal
<1>1. IInv /\ [Next]_vars =>
        [\A c \in Cases : appointment[c] # NoTime => appointment'[c] = appointment[c]]_vars
  <2> SUFFICES ASSUME IInv, Next, NEW c \in Cases, appointment[c] # NoTime
               PROVE  appointment'[c] = appointment[c]
    BY DEF vars
  <2>1. ASSUME NEW r \in Requests, Commit(r)
        PROVE  appointment'[c] = appointment[c]
    <3>1. session[r] # Idle /\ session[r].pc = "free"
      BY <2>1 DEF Commit, Idle
    <3>2. CASE session[r].case = c
      <4>1. version[c] # session[r].version
        BY <3>1, <3>2 DEF IInv, CopyInv
      <4>2. QED
        BY <2>1, <3>2, <4>1 DEF Commit
    <3>3. CASE session[r].case # c
      BY <2>1, <3>3 DEF Commit, IInv, TypeOK
    <3>4. QED
      BY <3>2, <3>3
  <2>2. ASSUME NEW r \in Requests, NEW d \in Cases, NEW time \in Times, Load(r, d, time)
        PROVE  appointment'[c] = appointment[c]
    BY <2>2 DEF Load
  <2>3. ASSUME NEW r \in Requests, CheckSchedule(r) \/ CheckConflict(r)
        PROVE  appointment'[c] = appointment[c]
    BY <2>3 DEF CheckSchedule, CheckConflict
  <2>4. ASSUME NEW d \in Cases, OtherSave(d)
        PROVE  appointment'[c] = appointment[c]
    BY <2>4 DEF OtherSave
  <2>5. ASSUME Edit \/ Tick
        PROVE  appointment'[c] = appointment[c]
    BY <2>5 DEF Edit, AddHours, UpdateHours, DeleteHours, AddDayOff, DeleteDayOff,
                SetHours, SetDaysOff, Tick
  <2>6. QED
    BY <2>1, <2>2, <2>3, <2>4, <2>5 DEF Next, Book
<1>2. QED
  BY <1>1, Inductive, PTL DEF Spec, BookingIsFinal

-----------------------------------------------------------------------------
(* Clocks and shifts *)

\* A time is a whole number of days and a clock.
LEMMA DayAndClock ==
    ASSUME NEW time \in Int
    PROVE  /\ Day(time) \in Int /\ Clock(time) \in 0 .. DayLen - 1
           /\ time = Day(time) * DayLen + Clock(time)
BY CalendarAssumption, SMT DEF Day, Clock

LEMMA LaterDay ==
    ASSUME NEW d \in Int, NEW e \in Int, d < e
    PROVE  d * DayLen \in Int /\ e * DayLen \in Int /\ e * DayLen >= d * DayLen + DayLen
<1>1. PICK k \in Nat : e = d + 1 + k
  <2>1. e - (d + 1) \in Nat /\ e = d + 1 + (e - (d + 1))
    OBVIOUS
  <2>2. QED
    BY <2>1
<1>2. e * DayLen = d * DayLen + DayLen + k * DayLen
  BY <1>1, CalendarAssumption
<1>3. k * DayLen >= 0 /\ d * DayLen \in Int /\ k * DayLen \in Int
  BY <1>1, CalendarAssumption
<1>4. QED
  BY <1>2, <1>3, CalendarAssumption

\* What lies in the first two days from a midnight, by day and by clock.
LEMMA FromMidnight ==
    ASSUME NEW d \in Int, NEW x \in 0 .. 2 * DayLen - 1
    PROVE  IF x < DayLen THEN Day(d * DayLen + x) = d /\ Clock(d * DayLen + x) = x
                         ELSE Day(d * DayLen + x) = d + 1 /\ Clock(d * DayLen + x) = x - DayLen
<1>1. d * DayLen \in Int /\ (d + 1) * DayLen = d * DayLen + DayLen
  BY CalendarAssumption
<1>2. PICK t \in Int : t = d * DayLen + x
  BY <1>1, CalendarAssumption
<1>3. /\ Day(t) \in Int /\ Clock(t) \in 0 .. DayLen - 1
      /\ t = Day(t) * DayLen + Clock(t)
  BY DayAndClock
<1>4. Day(t) * DayLen \in Int
  BY <1>3, CalendarAssumption
<1>5. ~(Day(t) < d)
  BY <1>1, <1>2, <1>3, <1>4, LaterDay, CalendarAssumption
<1>6. ~(d + 1 < Day(t))
  <2> SUFFICES ASSUME d + 1 < Day(t) PROVE FALSE
    OBVIOUS
  <2>1. Day(t) * DayLen >= (d + 1) * DayLen + DayLen
    BY <1>3, LaterDay
  <2>2. QED
    BY <2>1, <1>1, <1>2, <1>3, <1>4, CalendarAssumption
<1>7. Day(t) = d \/ Day(t) = d + 1
  BY <1>3, <1>5, <1>6
<1>8. CASE Day(t) = d
  <2>1. Clock(t) = x /\ x < DayLen
    BY <1>1, <1>2, <1>3, <1>8, CalendarAssumption
  <2>2. QED
    BY <1>2, <1>8, <2>1
<1>9. CASE Day(t) = d + 1
  <2>1. Day(t) * DayLen = d * DayLen + DayLen
    BY <1>1, <1>9
  <2>2. Clock(t) = x - DayLen /\ ~(x < DayLen)
    BY <1>1, <1>2, <1>3, <2>1, CalendarAssumption
  <2>3. QED
    BY <1>2, <1>9, <2>2
<1>10. QED
  BY <1>7, <1>8, <1>9

LEMMA ShiftLength ==
    ASSUME NEW wh \in Block
    PROVE  /\ wh.start \in 0 .. DayLen - 1 /\ wh.end \in 0 .. DayLen - 1
           /\ wh.zone \in (1 - DayLen) .. (DayLen - 1)
           /\ IF Overnight(wh) THEN ShiftEnd(wh) = wh.end + DayLen /\ wh.end <= wh.start
                               ELSE ShiftEnd(wh) = wh.end /\ wh.start < wh.end
BY CalendarAssumption DEF Block, ShiftEnd, Overnight

\* A clock that has run for x since the midnight before a shift is within the shift
\* exactly if is_slot_available says so.
LEMMA ShiftByClock ==
    ASSUME NEW wh \in Block, NEW time \in Int, NEW d \in Int, NEW x \in 0 .. 2 * DayLen - 1,
           time + wh.zone = d * DayLen + x, wh.day = Weekday(d),
           wh.start <= x, x < ShiftEnd(wh)
    PROVE  InWorkingHours(wh, time)
<1>1. CASE x < DayLen
  <2>1. Day(time + wh.zone) = d /\ Clock(time + wh.zone) = x
    BY <1>1, FromMidnight
  <2>2. QED
    BY <1>1, <2>1, ShiftLength, CalendarAssumption DEF InWorkingHours
<1>2. CASE ~(x < DayLen)
  <2>1. Day(time + wh.zone) = d + 1 /\ Clock(time + wh.zone) = x - DayLen
    BY <1>2, FromMidnight
  <2>2. Overnight(wh) /\ x - DayLen < wh.end
    BY <1>2, ShiftLength, CalendarAssumption
  <2>3. Weekday(Day(time + wh.zone) - 1) = wh.day
    BY <2>1
  <2>4. QED
    BY <2>1, <2>2, <2>3 DEF InWorkingHours
<1>3. QED
  BY <1>1, <1>2

\* The days of a time in UTC and on a local clock differ by one at most.
LEMMA NearbyDays ==
    ASSUME NEW time \in Int, NEW zone \in (1 - DayLen) .. (DayLen - 1)
    PROVE  Day(time + zone) \in Day(time) - 1 .. Day(time) + 1
<1>0. PICK local \in Int : local = time + zone
  BY CalendarAssumption
<1> DEFINE p == Day(time)
           q == Day(local)
<1>1. /\ p \in Int /\ q \in Int /\ Clock(time) \in 0 .. DayLen - 1 /\ Clock(local) \in 0 .. DayLen - 1
      /\ time = p * DayLen + Clock(time) /\ local = q * DayLen + Clock(local)
  BY DayAndClock
<1> HIDE DEF p, q
<1>2. /\ p * DayLen \in Int /\ q * DayLen \in Int
      /\ (p + 1) * DayLen = p * DayLen + DayLen /\ (p - 1) * DayLen = p * DayLen - DayLen
  BY <1>1, CalendarAssumption
<1>3. ~(q > p + 1)
  <2> SUFFICES ASSUME p + 1 < q PROVE FALSE
    BY <1>1
  <2>1. q * DayLen >= (p + 1) * DayLen + DayLen
    BY <1>1, LaterDay
  <2>2. QED
    BY <2>1, <1>0, <1>1, <1>2, CalendarAssumption
<1>4. ~(q < p - 1)
  <2> SUFFICES ASSUME q < p - 1 PROVE FALSE
    BY <1>1
  <2>1. (p - 1) * DayLen >= q * DayLen + DayLen
    BY <1>1, LaterDay
  <2>2. QED
    BY <2>1, <1>0, <1>1, <1>2, CalendarAssumption
<1>5. q \in p - 1 .. p + 1
  BY <1>1, <1>3, <1>4
<1>6. QED
  BY <1>0, <1>5 DEF p, q

LEMMA ClockIsShift ==
    ASSUME NEW wh \in Block, NEW time \in Int, InWorkingHours(wh, time)
    PROVE  InShift(wh, time)
<1>0. PICK local \in Int : local = time + wh.zone
  BY ShiftLength, CalendarAssumption
<1> DEFINE q == Day(local)
           r == Clock(local)
<1>1. /\ q \in Int /\ r \in 0 .. DayLen - 1 /\ local = q * DayLen + r
      /\ q \in Day(time) - 1 .. Day(time) + 1 /\ Day(time) \in Int
  BY <1>0, DayAndClock, NearbyDays, ShiftLength
<1>2. \/ wh.day = Weekday(q) /\ IF Overnight(wh) THEN r >= wh.start ELSE r \in wh.start .. wh.end - 1
      \/ Overnight(wh) /\ wh.day = Weekday(q - 1) /\ r < wh.end
  BY <1>0 DEF InWorkingHours
<1> HIDE DEF q, r
<1>3. q * DayLen \in Int /\ (q - 1) * DayLen = q * DayLen - DayLen
  BY <1>1, CalendarAssumption
<1>4. ASSUME wh.day = Weekday(q), wh.start <= r, r < ShiftEnd(wh)
      PROVE  InShift(wh, time)
  <2>1. q \in ShiftsAround(wh, time)
    BY <1>1, <1>4 DEF ShiftsAround
  <2>2. /\ q * DayLen - wh.zone + wh.start <= time
        /\ time < q * DayLen - wh.zone + ShiftEnd(wh)
    BY <1>0, <1>1, <1>3, <1>4, ShiftLength, CalendarAssumption
  <2>3. QED
    BY <2>1, <2>2 DEF InShift
<1>5. ASSUME wh.day = Weekday(q - 1), Overnight(wh), r < wh.end
      PROVE  InShift(wh, time)
  <2>1. q - 1 \in ShiftsAround(wh, time)
    BY <1>1, <1>5 DEF ShiftsAround
  <2>2. /\ (q - 1) * DayLen - wh.zone + wh.start <= time
        /\ time < (q - 1) * DayLen - wh.zone + ShiftEnd(wh)
    BY <1>0, <1>1, <1>3, <1>5, ShiftLength, CalendarAssumption
  <2>3. QED
    BY <2>1, <2>2 DEF InShift
<1>6. QED
  BY <1>1, <1>2, <1>4, <1>5, ShiftLength, CalendarAssumption

LEMMA ShiftIsClock ==
    ASSUME NEW wh \in Block, NEW time \in Int, InShift(wh, time)
    PROVE  InWorkingHours(wh, time)
<1>1. PICK d \in ShiftsAround(wh, time) :
        /\ d * DayLen - wh.zone + wh.start <= time
        /\ time < d * DayLen - wh.zone + ShiftEnd(wh)
  BY DEF InShift
<1>2. d \in Int /\ wh.day = Weekday(d) /\ d * DayLen \in Int
  BY <1>1, DayAndClock, CalendarAssumption DEF ShiftsAround
<1>3. PICK x : x = time + wh.zone - d * DayLen
  OBVIOUS
<1>4. /\ x \in 0 .. 2 * DayLen - 1 /\ time + wh.zone = d * DayLen + x
      /\ wh.start <= x /\ x < ShiftEnd(wh)
  BY <1>1, <1>2, <1>3, ShiftLength, CalendarAssumption
<1>5. QED
  BY <1>2, <1>4, ShiftByClock

\* A slot that get_available_slots cuts from a shift lies within it.
LEMMA SlotInHours ==
    ASSUME NEW wh \in Block, NEW date \in Nat, wh.day = Weekday(date), NEW time \in SlotsOf(wh, date)
    PROVE  time \in Int /\ InWorkingHours(wh, time)
<1>1. PICK k \in 0..DayLen :
        /\ time = date * DayLen + wh.start + k * Duration - wh.zone
        /\ wh.start + (k + 1) * Duration <= ShiftEnd(wh)
  BY DEF SlotsOf
<1>2. /\ k * Duration \in Nat /\ (k + 1) * Duration = k * Duration + Duration
      /\ date * DayLen \in Int
  BY CalendarAssumption
<1>3. PICK x : x = wh.start + k * Duration
  OBVIOUS
<1>4. /\ x \in 0 .. 2 * DayLen - 1 /\ wh.start <= x /\ x < ShiftEnd(wh)
      /\ time \in Int /\ time + wh.zone = date * DayLen + x
  BY <1>1, <1>2, <1>3, ShiftLength, CalendarAssumption
<1>5. QED
  BY <1>4, ShiftByClock

LEMMA HoursAreBlocks == ASSUME TypeOK PROVE WorkingHours \subseteq Block
  BY ScheduleAssumption DEF TypeOK, WorkingHours

\* The case analysis by weekday and clock is that of shifts as intervals of time, for
\* any length of day and week and any zone.
THEOREM Shifts == Spec => []HoursAreShifts
<1>1. TypeOK => HoursAreShifts
  <2> SUFFICES ASSUME TypeOK, NEW wh \in WorkingHours, NEW time \in 0 .. 2 * WeekLen * DayLen
               PROVE  InWorkingHours(wh, time) <=> InShift(wh, time)
    BY DEF HoursAreShifts
  <2>1. wh \in Block /\ time \in Int
    BY HoursAreBlocks
  <2>2. QED
    BY <2>1, ClockIsShift, ShiftIsClock
<1>2. QED
  BY <1>1, TypeInvariant, PTL

\* A slot of a padded shift overlaps no appointment beyond the days around its date.
LEMMA ReadSuffices ==
    ASSUME NEW wh \in Block, NEW date \in Nat, NEW time \in SlotsOf(wh, date), Padded(wh),
           NEW b \in Nat, Overlap(time, b)
    PROVE  Day(b) \in date - 1 .. date + 1
<1>1. PICK k \in 0..DayLen :
        /\ time = date * DayLen + wh.start + k * Duration - wh.zone
        /\ wh.start + (k + 1) * Duration <= ShiftEnd(wh)
  BY DEF SlotsOf
<1>2. /\ k * Duration \in Nat /\ (k + 1) * Duration = k * Duration + Duration
      /\ date * DayLen \in Int
  BY CalendarAssumption
<1>3. time \in Int /\ time >= date * DayLen + Duration - DayLen
      /\ time + Duration <= date * DayLen + 2 * DayLen
  BY <1>1, <1>2, ShiftLength, CalendarAssumption DEF Padded
<1>4. b > date * DayLen - DayLen /\ b < date * DayLen + 2 * DayLen
  BY <1>3, <1>2, CalendarAssumption DEF Overlap
<1> DEFINE q == Day(b)
<1>5. q \in Int /\ Clock(b) \in 0 .. DayLen - 1 /\ b = q * DayLen + Clock(b)
  BY DayAndClock
<1> HIDE DEF q
<1>6. /\ q * DayLen \in Int
      /\ (date + 1) * DayLen = date * DayLen + DayLen
      /\ (date - 1) * DayLen = date * DayLen - DayLen
  BY <1>5, CalendarAssumption
<1>7. ~(date + 1 < q)
  <2> SUFFICES ASSUME date + 1 < q PROVE FALSE
    OBVIOUS
  <2>1. q * DayLen >= (date + 1) * DayLen + DayLen
    BY <1>5, LaterDay
  <2>2. QED
    BY <2>1, <1>2, <1>4, <1>5, <1>6, CalendarAssumption
<1>8. ~(q < date - 1)
  <2> SUFFICES ASSUME q < date - 1 PROVE FALSE
    OBVIOUS
  <2>1. (date - 1) * DayLen >= q * DayLen + DayLen
    BY <1>5, LaterDay
  <2>2. QED
    BY <2>1, <1>2, <1>4, <1>5, <1>6, CalendarAssumption
<1>9. q \in date - 1 .. date + 1
  BY <1>5, <1>7, <1>8
<1>10. QED
  BY <1>9 DEF q

\* The slots on offer are inside the working hours and, for a shift within the days read
\* around its date, free, as the handler that books them will check by another computation.
THEOREM OfferedOpen == Spec => []OfferedIsOpen
<1>1. TypeOK => OfferedIsOpen
  <2> SUFFICES ASSUME TypeOK, NEW wh \in WorkingHours,
                      NEW time \in Offered({wh}, daysOff, Booked, now)
               PROVE  /\ InWorkingHours(wh, time)
                      /\ Padded(wh) => ~HasConflict(Booked, time)
    BY DEF OfferedIsOpen
  <2>1. PICK date \in Dates : wh.day = Weekday(date) /\ time \in SlotsOf(wh, date)
    BY DEF Offered, ShiftSlots
  <2>2. wh \in Block /\ date \in Nat
    BY HoursAreBlocks, CalendarAssumption
  <2>3. InWorkingHours(wh, time)
    BY <2>1, <2>2, SlotInHours
  <2>4. ASSUME Padded(wh), NEW b \in Booked, Overlap(time, b) PROVE FALSE
    <3>1. Day(b) \in date - 1 .. date + 1
      BY <2>1, <2>2, <2>4, BookedTimes, ReadSuffices
    <3>2. b \in Read(Booked)
      BY <3>1 DEF Read
    <3>3. QED
      BY <3>2, <2>4 DEF Offered
  <2>5. QED
    BY <2>3, <2>4 DEF HasConflict
<1>2. QED
  BY <1>1, TypeInvariant, PTL

\* The slots of a block begin, in UTC, on the date on which its shift begins.
SlotsOnDate(wh) == \A time \in SlotsOf(wh, 0) : Day(time) = 0

LEMMA SlotOnItsDate ==
    ASSUME NEW wh \in Block, NEW date \in Nat, NEW time \in SlotsOf(wh, date), SlotsOnDate(wh)
    PROVE  Day(time) = date
<1>1. PICK k \in 0..DayLen :
        /\ time = date * DayLen + wh.start + k * Duration - wh.zone
        /\ wh.start + (k + 1) * Duration <= ShiftEnd(wh)
  BY DEF SlotsOf
<1>2. PICK x : x = 0 * DayLen + wh.start + k * Duration - wh.zone
  OBVIOUS
<1>3. x \in SlotsOf(wh, 0)
  BY <1>1, <1>2 DEF SlotsOf
<1>4. k * Duration \in Nat /\ date * DayLen \in Int /\ 0 * DayLen = 0
  BY CalendarAssumption
<1>5. x \in Int /\ time = date * DayLen + x
  BY <1>1, <1>2, <1>4, ShiftLength
<1>6. x \in 0 .. DayLen - 1
  BY <1>3, <1>4, <1>5, DayAndClock, CalendarAssumption DEF SlotsOnDate
<1>7. x \in 0 .. 2 * DayLen - 1 /\ x < DayLen
  BY <1>6, CalendarAssumption
<1>8. QED
  BY <1>5, <1>7, FromMidnight

\* A slot on offer is refused for a day off only if a shift has slots on another UTC date
\* than the one it begins on: the query and the command then look under different dates
\* (finding of the run zone).
OfferedIsBookableOnDates ==
    (\A wh \in WorkingHours : SlotsOnDate(wh)) => OfferedIsBookable

\* Advisors whose slots begin, in UTC, on the date their shift begins on are offered nothing
\* that is refused for a day off.
THEOREM OfferedBookable == Spec => []OfferedIsBookableOnDates
<1>1. TypeOK => OfferedIsBookableOnDates
  <2> SUFFICES ASSUME TypeOK, \A wh \in WorkingHours : SlotsOnDate(wh),
                      NEW time \in Offered(WorkingHours, daysOff, Booked, now)
               PROVE  ~IsDayOff(daysOff, time)
    BY DEF OfferedIsBookableOnDates, OfferedIsBookable
  <2>1. PICK wh \in WorkingHours, date \in Dates \ daysOff : time \in SlotsOf(wh, date)
    BY DEF Offered, ShiftSlots
  <2>2. wh \in Block /\ date \in Nat /\ SlotsOnDate(wh)
    BY HoursAreBlocks, CalendarAssumption
  <2>3. QED
    BY <2>1, <2>2, SlotOnItsDate DEF IsDayOff
<1>2. QED
  BY <1>1, TypeInvariant, PTL
=================================================================================
