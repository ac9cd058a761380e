------------------------------- MODULE MCBooking -------------------------------
(***************************************************************************)
(* Booking on small calendars for TLC.                                     *)
(***************************************************************************)
EXTENDS Booking, TLC

CONSTANTS c1, c2

\* A shift around the clock half a day behind UTC, which ends two days of UTC after the
\* date it begins on.
LateShift == {[day |-> 1, start |-> 3, end |-> 3, zone |-> -2]}

\* A day shift and an overnight shift in UTC, and one overnight in a zone ahead,
\* which begins early on the UTC day, and the late shift.
DayAndNight ==
    {[day |-> 0, start |-> 1, end |-> 3, zone |-> 0],
     [day |-> 1, start |-> 3, end |-> 1, zone |-> 0],
     [day |-> 0, start |-> 3, end |-> 1, zone |-> 2]} \cup LateShift

\* An early shift in a zone ahead of UTC.
EarlyShift == {[day |-> 1, start |-> 0, end |-> 3, zone |-> 1]}

Symmetry == Permutations(Requests) \cup Permutations(Cases)
===============================================================================
