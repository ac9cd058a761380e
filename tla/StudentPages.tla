------------------------------- MODULE StudentPages -------------------------------
(***************************************************************************)
(* The two pages a student reaches by a link in a mail: choosing an        *)
(* appointment (booking-view.tsx) and rating the support                   *)
(* (feedback-view.tsx).  Server* actions are the server's side of a call;  *)
(* who else takes a slot is modelled in Booking.                           *)
(***************************************************************************)
EXTENDS Timetable

CONSTANTS
    PageSchedules,  \* the schedule the page shows first, and after its query was answered
    Today, NoDate, NoSlot, NoAppointment,
    MaxOthers, MaxPosts, MaxReads   \* bounds

Modes == {"video", "inperson"}
Tomorrow == Today + 1

ASSUME StudentAssumption == Tomorrow \in Dates

VARIABLES
    link,       \* the page the link leads to
    visit,      \* date, slot, mode and stage of the booking page
    scheduleNo, \* which of PageSchedules it shows
    taken,      \* the slots shown as taken, and the date they were asked for
    asking,     \* reads of taken slots under way
    post,       \* the booking call under way
    posts,      \* booking calls so far
    mine,       \* the appointment the server has for the student's case
    otherAppts, \* those of other students
    moved,      \* something was picked after the call was sent
    review,     \* the form of the review page
    reviewed    \* what the server stored of it

studentVars == <<link, visit, scheduleNo, taken, asking, post, posts, mine, otherAppts, moved, review, reviewed>>
reviewVars == <<review, reviewed>>

Asking(d) == [date |-> d, read |-> FALSE, slots |-> {}, cancelled |-> FALSE]
NoPost == [phase |-> "none"]
pageSchedule == PageSchedules[scheduleNo]

\* The page begins with tomorrow, and asks for its taken slots.
StudentInit ==
    /\ link \in {"booking", "review", "invalid"}
    /\ visit = [date |-> Tomorrow, slot |-> NoSlot, mode |-> "video", stage |-> "pick"]
    /\ scheduleNo = 1
    /\ taken = [of |-> NoDate, slots |-> {}]
    /\ asking = IF link = "booking" THEN {Asking(Tomorrow)} ELSE {}
    /\ post = NoPost /\ posts = 0 /\ mine = NoAppointment /\ otherAppts = {} /\ moved = FALSE
    /\ review = [rating |-> 0, stage |-> "form"] /\ reviewed = 0

-----------------------------------------------------------------------------
(* The booking page *)

\* The card that says the appointment is made takes the place of the picker.
CardShown == visit.stage = "done" /\ visit.date # NoDate /\ visit.slot # NoSlot

\* slotsForDate
OfferedSlots == IF visit.date = NoDate THEN {} ELSE StartsOn(visit.date, pageSchedule)

PickableDays == {d \in Dates : d >= Today /\ ~IsDateOff(d, pageSchedule)}

SlotButtons == [t \in OfferedSlots |-> IF t \in taken.slots THEN "taken" ELSE IF t = visit.slot THEN "picked" ELSE "free"]

CanClear == visit.slot # NoSlot
CanBook == visit.date # NoDate /\ visit.slot # NoSlot /\ visit.stage # "syncing"

Picking == link = "booking" /\ ~CardShown

\* Nothing is locked while the call is under way.
Moves == moved' = (moved \/ visit.stage = "syncing" \/ visit.stage = "done")

\* Another date, or the same again, which leaves none: the slot is given up, and
\* the read of the date before is cancelled: its answer is not looked at.
PickDate(d) ==
    /\ Picking /\ d \in PickableDays /\ Cardinality(asking) < MaxReads
    /\ LET date == IF d = visit.date THEN NoDate ELSE d
       IN  /\ visit' = [visit EXCEPT !.date = date, !.slot = NoSlot]
           /\ asking' = {[date |-> a.date, read |-> TRUE, slots |-> {}, cancelled |-> TRUE] : a \in asking}
                            \cup (IF date = NoDate THEN {} ELSE {Asking(date)})
    /\ taken' = [of |-> NoDate, slots |-> {}]
    /\ Moves
    /\ UNCHANGED <<link, scheduleNo, post, posts, mine, otherAppts, reviewVars>>

PickSlot(t) ==
    /\ Picking /\ t \in OfferedSlots /\ SlotButtons[t] # "taken"
    /\ visit' = [visit EXCEPT !.slot = t] /\ Moves
    /\ UNCHANGED <<link, scheduleNo, taken, asking, post, posts, mine, otherAppts, reviewVars>>

ClearSlot ==
    /\ Picking /\ CanClear
    /\ visit' = [visit EXCEPT !.slot = NoSlot] /\ Moves
    /\ UNCHANGED <<link, scheduleNo, taken, asking, post, posts, mine, otherAppts, reviewVars>>

PickMode(m) ==
    /\ Picking /\ m # visit.mode
    /\ visit' = [visit EXCEPT !.mode = m] /\ Moves
    /\ UNCHANGED <<link, scheduleNo, taken, asking, post, posts, mine, otherAppts, reviewVars>>

\* The schedule query is answered: the slots change, what was picked stays.
ScheduleArrives ==
    /\ link = "booking" /\ scheduleNo < Len(PageSchedules)
    /\ scheduleNo' = scheduleNo + 1
    /\ UNCHANGED <<link, visit, taken, asking, post, posts, mine, otherAppts, moved, reviewVars>>

ServerReadsTaken(a) ==
    /\ ~a.read
    /\ LET slots == {x.slot : x \in {x \in otherAppts \cup {mine} : x # NoAppointment /\ x.date = a.date}}
       IN  asking' = (asking \ {a}) \cup {[date |-> a.date, read |-> TRUE, slots |-> slots, cancelled |-> a.cancelled]}
    /\ UNCHANGED <<link, visit, scheduleNo, taken, post, posts, mine, otherAppts, moved, reviewVars>>

\* Slip: an answer is used whatever date is selected by now.
TakenLandsAlways(a) ==
    /\ a.read /\ asking' = asking \ {a}
    /\ taken' = [of |-> a.date, slots |-> a.slots]
    /\ UNCHANGED <<link, visit, scheduleNo, post, posts, mine, otherAppts, moved, reviewVars>>

TakenLands(a) ==
    /\ a.read /\ asking' = asking \ {a}
    /\ taken' = IF a.cancelled THEN taken ELSE [of |-> a.date, slots |-> a.slots]
    /\ UNCHANGED <<link, visit, scheduleNo, post, posts, mine, otherAppts, moved, reviewVars>>

\* A refused read counts as "nothing is taken"; a lost one changes nothing.
TakenFails(a) ==
    /\ asking' = asking \ {a}
    /\ taken' \in {taken} \cup (IF a.cancelled THEN {} ELSE {[of |-> a.date, slots |-> {}]})
    /\ UNCHANGED <<link, visit, scheduleNo, post, posts, mine, otherAppts, moved, reviewVars>>

\* The time is sent with the offset of Ho Chi Minh City.
ConfirmBooking ==
    /\ Picking /\ CanBook /\ post = NoPost /\ posts < MaxPosts
    /\ posts' = posts + 1 /\ moved' = FALSE
    /\ visit' = [visit EXCEPT !.stage = "syncing"]
    /\ post' = [phase |-> "sent", appt |-> [date |-> visit.date, slot |-> visit.slot, mode |-> visit.mode]]
    /\ UNCHANGED <<link, scheduleNo, taken, asking, mine, otherAppts, reviewVars>>

ServerBooks ==
    /\ post.phase = "sent"
    /\ IF mine # NoAppointment THEN post' = [post EXCEPT !.phase = "refused"] /\ UNCHANGED mine
       ELSE IF \E x \in otherAppts : x.date = post.appt.date /\ x.slot = post.appt.slot
       THEN post' = [post EXCEPT !.phase = "taken"] /\ UNCHANGED mine
       ELSE post' = [post EXCEPT !.phase = "booked"] /\ mine' = post.appt
    /\ UNCHANGED <<link, visit, scheduleNo, taken, asking, posts, otherAppts, moved, reviewVars>>

OtherBooks(d, t) ==
    /\ link = "booking" /\ Cardinality(otherAppts) < MaxOthers
    /\ \A x \in otherAppts \cup {mine} : x # NoAppointment => x.date # d \/ x.slot # t
    /\ otherAppts' = otherAppts \cup {[date |-> d, slot |-> t, mode |-> "video"]}
    /\ UNCHANGED <<link, visit, scheduleNo, taken, asking, post, posts, mine, moved, reviewVars>>

\* Slip: whatever the answer, the appointment is made.
BookingAnsweredBlindly ==
    /\ post.phase \in {"booked", "taken", "refused"} /\ post' = NoPost
    /\ visit' = [visit EXCEPT !.stage = "done"]
    /\ UNCHANGED <<link, scheduleNo, taken, asking, posts, mine, otherAppts, moved, reviewVars>>

\* After a success the card comes, with what is selected then.  A slot somebody
\* took is given up, and shown as free until the date is picked again.
BookingAnswered ==
    /\ post.phase \in {"booked", "taken", "refused"} /\ post' = NoPost
    /\ visit' = CASE post.phase = "booked"  -> [visit EXCEPT !.stage = "done"]
                  [] post.phase = "taken"   -> [visit EXCEPT !.stage = "pick", !.slot = NoSlot]
                  [] post.phase = "refused" -> [visit EXCEPT !.stage = "pick"]
    /\ UNCHANGED <<link, scheduleNo, taken, asking, posts, mine, otherAppts, moved, reviewVars>>

\* No answer in ten seconds, booked or not.
BookingLost ==
    /\ post # NoPost /\ post' = NoPost
    /\ visit' = [visit EXCEPT !.stage = "pick"]
    /\ UNCHANGED <<link, scheduleNo, taken, asking, posts, mine, otherAppts, moved, reviewVars>>

-----------------------------------------------------------------------------
(* The review page *)

\* toSatisfaction, of a rating the student calls resolved.
ToSatisfaction(rating) == <<"very_bad", "bad", "normal", "good", "very_good">>[rating]

Rate(n) ==
    /\ link = "review" /\ review.stage \in {"form", "sending"}
    /\ review' = [review EXCEPT !.rating = n]
    /\ UNCHANGED <<link, visit, scheduleNo, taken, asking, post, posts, mine, otherAppts, moved, reviewed>>

\* Without stars a message asks for them.
SubmitReview ==
    /\ link = "review" /\ review.stage = "form" /\ review.rating > 0
    /\ review' = [review EXCEPT !.stage = "sending"]
    /\ \/ reviewed' = IF reviewed = 0 THEN review.rating ELSE reviewed
       \/ UNCHANGED reviewed
    /\ UNCHANGED <<link, visit, scheduleNo, taken, asking, post, posts, mine, otherAppts, moved>>

\* A lost answer brings the form back, also when the review was stored.
ReviewAnswered ==
    /\ review.stage = "sending"
    /\ review' \in {[review EXCEPT !.stage = "form"]}
                       \cup (IF reviewed # 0 THEN {[review EXCEPT !.stage = "done"]} ELSE {})
    /\ UNCHANGED <<link, visit, scheduleNo, taken, asking, post, posts, mine, otherAppts, moved, reviewed>>

StudentNext ==
    \/ \E d \in Dates : PickDate(d)
    \/ \E t \in OfferedSlots : PickSlot(t)
    \/ ClearSlot \/ ScheduleArrives
    \/ \E m \in Modes : PickMode(m)
    \/ \E a \in asking : ServerReadsTaken(a) \/ TakenLands(a) \/ TakenFails(a)
    \/ ConfirmBooking \/ ServerBooks \/ BookingAnswered \/ BookingLost
    \/ \E d \in Dates : \E t \in StartsOn(d, PageSchedules[Len(PageSchedules)]) : OtherBooks(d, t)
    \/ \E n \in 1 .. 5 : Rate(n)
    \/ SubmitReview \/ ReviewAnswered

StudentSpec == StudentInit /\ [][StudentNext]_studentVars

-----------------------------------------------------------------------------
(* Properties *)

StudentTypeOK ==
    /\ visit.date \in Dates \cup {NoDate} /\ visit.mode \in Modes /\ visit.stage \in {"pick", "syncing", "done"}
    /\ review.rating \in 0 .. 5 /\ reviewed \in 0 .. 5

TakenIsOfDate == taken.of \in {NoDate, visit.date}

CardIsAppointment ==
    CardShown /\ ~moved => mine = [date |-> visit.date, slot |-> visit.slot, mode |-> visit.mode]

\* What the booking page tells the student is so.  The slots shown as taken are
\* those of the date that is selected, however fast the student goes from one date
\* to another and in whatever order answers come; and once the page says that the
\* appointment is made, the server has it, with the date, the slot and the mode on
\* the card, unless something else was picked after the call was sent, which the
\* page allows.
BookingPageIsTrue == TakenIsOfDate /\ CardIsAppointment
===============================================================================
