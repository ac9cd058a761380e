---------------------------- MODULE Schedule_proofs -----------------------------
(***************************************************************************)
(* Proofs about the schedule of an advisor (ScheduleEditor), for every set *)
(* of days, rows, time entries and saves: whose schedule the page shows,   *)
(* and that a save nobody overlaps leaves the server with what was saved.  *)
(***************************************************************************)
EXTENDS ScheduleEditor, SequenceFacts

-----------------------------------------------------------------------------
(* The schedule page *)

\* With no save under way the server's schedule, as it is told, is shown, read, or
\* still to be read.
ScheduleInv ==
    saves = {} =>
        /\ reading \in {<<>>, Unread, <<FromServer(Visible(stored))>>}
        /\ reading = <<>> /\ ~readFailed => cached = FromServer(Visible(stored))

LEMMA ScheduleStep ==
    ASSUME ScheduleInv, [ScheduleNext]_scheduleVars
    PROVE  ScheduleInv'
<1>0. Unread # <<>>
  BY DEF Unread
<1>1. ASSUME UNCHANGED <<stored, cached, reading, readFailed, saves>>
      PROVE  ScheduleInv'
  BY <1>1 DEF ScheduleInv
<1>2. CASE WindowFocus \/ ReadServed
  BY <1>0, <1>2 DEF ScheduleInv, WindowFocus, ReadServed, Unread
<1>3. CASE ReadLands
  <2>1. saves = {} => reading = <<FromServer(Visible(stored))>>
    BY <1>3 DEF ReadLands, ScheduleInv
  <2>2. saves = {} => cached' = FromServer(Visible(stored))
    BY <1>3, <2>1 DEF ReadLands
  <2>3. QED
    BY <1>3, <2>2 DEF ReadLands, ScheduleInv
<1>4. CASE ReadFails
  BY <1>4 DEF ReadFails, ScheduleInv
<1>5. ASSUME NEW s \in saves, PlanSave(s) \/ CommandServed(s)
      PROVE  ScheduleInv'
  BY <1>5 DEF PlanSave, CommandServed, ScheduleInv
<1>6. ASSUME NEW s \in saves, SaveEnds(s) \/ SaveFails(s)
      PROVE  ScheduleInv'
  BY <1>0, <1>6 DEF SaveEnds, SaveFails, Finish, ScheduleInv
<1>7. ASSUME NEW who, NEW next, Save(who, next)
      PROVE  ScheduleInv'
  BY <1>7 DEF Save, ScheduleInv
<1>8. ASSUME NEW week, NEW overrides, Edit(week, overrides)
      PROVE  ScheduleInv'
  BY <1>1, <1>8 DEF Edit
<1>9. ASSUME NEW d \in DayKeys,
             \/ ToggleShown(d) \/ ToggleDay(d) \/ AddRange(d)
             \/ \E i \in DOMAIN editor.week[d].ranges :
                   \/ RemoveRange(d, i)
                   \/ \E field \in {"from", "to"}, raw \in TimeInputs : EditRange(d, i, field, raw)
      PROVE  ScheduleInv'
  <2>1. ASSUME NEW i, RemoveRange(d, i)
        PROVE  ScheduleInv'
    BY <1>8, <2>1 DEF RemoveRange
  <2>2. ASSUME NEW i, NEW field, NEW raw, EditRange(d, i, field, raw)
        PROVE  ScheduleInv'
    BY <1>8, <2>2, Zenon DEF EditRange
  <2>3. CASE ToggleShown(d)
    BY <1>7, <2>3 DEF ToggleShown
  <2>4. CASE ToggleDay(d) \/ AddRange(d)
    BY <1>8, <2>4 DEF ToggleDay, AddRange
  <2>5. QED
    BY <1>9, <2>1, <2>2, <2>3, <2>4
<1>10. CASE OpenEditor \/ CloseEditor \/ CopyMonday
  BY <1>1, <1>8, <1>10 DEF OpenEditor, CloseEditor, CopyMonday
<1>11. CASE ResetSchedule \/ SaveEditor
  BY <1>1, <1>7, <1>11 DEF ResetSchedule, SaveEditor
<1>12. ASSUME \/ \E date \in NewDates, note \in NoteInputs : AddOff(date, note)
              \/ \E i \in DOMAIN editor.overrides : RemoveOff(i)
       PROVE  ScheduleInv'
  BY <1>8, <1>12 DEF AddOff, RemoveOff
<1>13. CASE UNCHANGED scheduleVars
  BY <1>1, <1>13 DEF scheduleVars
<1>14. QED
  BY <1>2, <1>3, <1>4, <1>5, <1>6, <1>9, <1>10, <1>11, <1>12, <1>13 DEF ScheduleNext

\* Whatever saves overlapped, failed half-way or were overtaken by reads: in the end the
\* page shows the schedule of the server, as far ahead as the server tells it.
THEOREM ScheduleShown == ScheduleSpec => []ScheduleShownIsServers
<1>1. ScheduleInit => ScheduleInv
  BY DEF ScheduleInit, ScheduleInv, Unread
<1>2. ScheduleInv /\ [ScheduleNext]_scheduleVars => ScheduleInv'
  BY ScheduleStep
<1>3. ScheduleInv => ScheduleShownIsServers
  BY DEF ScheduleInv, ScheduleShownIsServers
<1>4. QED
  BY <1>1, <1>2, <1>3, PTL DEF ScheduleSpec

-----------------------------------------------------------------------------
(* The server's rows as the browser has them *)

LEMMA OlderInOrder ==
    ASSUME NEW S, IsFiniteSet(S), \A a \in S : a.id \in Nat, \A a, b \in S : a.id = b.id => a = b
    PROVE  InOrder(S, OlderRow) \in Seq(S)
<1> DEFINE before == {pair \in S \X S : OlderRow(pair[1], pair[2])}
<1>1. OrderOn(S, before)
  BY DEF OlderRow, OrderOn
<1>2. InOrder(S, OlderRow) = Ordered(S, before)
  BY Zenon DEF InOrder
<1> HIDE DEF before
<1>3. Ordered(S, before) \in Seq(S)
  BY <1>1, OrderedInSeq
<1>4. QED
  BY <1>2, <1>3

LEMMA EarlierInOrder ==
    ASSUME NEW S, IsFiniteSet(S), \A a \in S : a.id \in Nat /\ a.from \in Int, \A a, b \in S : a.id = b.id => a = b
    PROVE  InOrder(S, EarlierRow) \in Seq(S)
<1> DEFINE before == {pair \in S \X S : EarlierRow(pair[1], pair[2])}
<1>1. OrderOn(S, before)
  BY DEF EarlierRow, OrderOn
<1>2. InOrder(S, EarlierRow) = Ordered(S, before)
  BY Zenon DEF InOrder
<1> HIDE DEF before
<1>3. Ordered(S, before) \in Seq(S)
  BY <1>1, OrderedInSeq
<1>4. QED
  BY <1>2, <1>3

\* Reading a day off and writing it again changes neither its date nor its reason.
Parts == {Custom} \cup Words

LEMMA ReasonKept ==
    ASSUME NEW row \in OffRows
    PROVE  /\ OverrideOf(row) \in Overrides
           /\ OverrideOf(row).id = row.id /\ OverrideOf(row).date = row.date
           /\ ReasonOf(OverrideOf(row)) = row.reason
<1>1. row.reason \in Seq(Parts) /\ row.id \in Nat /\ row.date \in Dates
  BY DEF OffRows, Reasons, Parts
<1>2. CASE row.reason # <<>> /\ Head(row.reason) = Custom
  <2> DEFINE note == Tail(row.reason)
  <2>1. note \in Seq(Parts) /\ <<Custom>> \o note = row.reason
    <3>1. /\ Tail(row.reason) \in Seq(Parts) /\ Len(Tail(row.reason)) = Len(row.reason) - 1
          /\ \A i \in 1 .. Len(Tail(row.reason)) : Tail(row.reason)[i] = row.reason[i + 1]
          /\ Len(row.reason) \in Nat \ {0}
      BY <1>1, <1>2, HeadTailProperties, EmptySeq
    <3>a. row.reason[1] = Custom
      BY <1>1, <1>2
    <3> DEFINE one == <<Custom>>
    <3>2. one \in Seq(Parts) /\ Len(one) = 1 /\ one[1] = Custom
      BY DEF Parts
    <3> HIDE DEF note, one
    <3>3. note \in Seq(Parts) /\ Len(note) \in Nat
      BY <3>1, LenProperties DEF note
    <3>4. /\ one \o note \in Seq(Parts) /\ Len(one \o note) = Len(one) + Len(note)
          /\ \A i \in 1 .. Len(one) + Len(note) : (one \o note)[i] = IF i <= Len(one) THEN one[i] ELSE note[i - Len(one)]
      BY <3>2, <3>3, ConcatProperties
    <3>5. Len(one \o note) = Len(row.reason)
      BY <3>1, <3>2, <3>4 DEF note
    <3>6. ASSUME NEW i \in 1 .. Len(one \o note)
          PROVE  (one \o note)[i] = row.reason[i]
      <4>1. CASE i = 1
        BY <3>1, <3>a, <3>2, <3>3, <3>4, <4>1
      <4>2. CASE i # 1
        <5>1. (one \o note)[i] = note[i - 1] /\ i - 1 \in 1 .. Len(note)
          BY <3>2, <3>3, <3>4, <4>2
        <5>2. note[i - 1] = row.reason[(i - 1) + 1] /\ (i - 1) + 1 = i
          BY <3>1, <3>3, <5>1 DEF note
        <5>3. QED
          BY <5>1, <5>2
      <4>3. QED
        BY <4>1, <4>2
    <3>7. one \o note = row.reason
      BY <1>1, <3>4, <3>5, <3>6, SeqEqual
    <3>8. QED
      BY <3>3, <3>7 DEF one
  <2> HIDE DEF note
  <2>2. OverrideOf(row) = [id |-> row.id, date |-> row.date, type |-> "custom", note |-> note]
    BY <1>2 DEF OverrideOf, note
  <2>3. QED
    BY <1>1, <2>1, <2>2 DEF ReasonOf, Overrides, Reasons, Parts
<1>3. CASE ~(row.reason # <<>> /\ Head(row.reason) = Custom)
  <2>1. OverrideOf(row) = [id |-> row.id, date |-> row.date, type |-> TimeOff, note |-> row.reason]
    BY <1>3 DEF OverrideOf
  <2>2. QED
    BY <1>1, <2>1 DEF ReasonOf, Overrides, Reasons, Parts, TimeOff
<1>4. QED
  BY <1>2, <1>3

LEMMA ReasonTyped ==
    ASSUME NEW o \in Overrides
    PROVE  ReasonOf(o) \in Reasons
<1>1. o.note \in Seq(Parts)
  BY DEF Overrides, Reasons, Parts
<1>2. <<Custom>> \in Seq(Parts)
  BY DEF Parts
<1>3. <<Custom>> \o o.note \in Seq(Parts)
  BY <1>1, <1>2, ConcatProperties
<1>4. QED
  BY <1>1, <1>3 DEF ReasonOf, Reasons, Parts

\* What is read is a schedule, whose days off are the server's.
LEMMA ReadSchedule ==
    ASSUME NEW rows \in Tables, Identified(rows.hours, rows.issued), Identified(rows.offs, rows.issued)
    PROVE  /\ FromServer(rows) \in Schedules
           /\ \A o \in ToSet(FromServer(rows).overrides) : \E f \in rows.offs : o = OverrideOf(f)
<1> DEFINE own(d) == InOrder({h \in rows.hours : h.day = d}, EarlierRow)
           offs == InOrder(rows.offs, OlderRow)
           day(d) == [enabled |-> own(d) # <<>>, ranges |-> [i \in DOMAIN own(d) |-> RangeOf(own(d)[i])]]
           over == [i \in DOMAIN offs |-> OverrideOf(offs[i])]
<1>1. rows.hours \subseteq HourRows /\ rows.offs \subseteq OffRows /\ IsFiniteSet(rows.hours) /\ IsFiniteSet(rows.offs)
  BY DEF Tables, Identified
<1>2. ASSUME NEW d \in DayKeys
      PROVE  day(d) \in [enabled : BOOLEAN, ranges : Seq(Ranges)]
  <2> DEFINE mine == {h \in rows.hours : h.day = d}
  <2>1. /\ IsFiniteSet(mine) /\ \A a \in mine : a.id \in Nat /\ a.from \in Int
        /\ \A a, b \in mine : a.id = b.id => a = b
    <3>1. mine \in SUBSET rows.hours
      OBVIOUS
    <3>2. IsFiniteSet(mine)
      BY <1>1, <3>1, FS_Subset
    <3>3. QED
      BY <1>1, <3>1, <3>2 DEF HourRows, Identified
  <2>2. own(d) \in Seq(mine)
    <3> HIDE DEF mine
    <3>1. InOrder(mine, EarlierRow) \in Seq(mine)
      BY <2>1, EarlierInOrder
    <3>2. QED
      BY <3>1 DEF mine
  <2> DEFINE q == own(d)
  <2> HIDE DEF own
  <2>3. DOMAIN q = 1 .. Len(q) /\ Len(q) \in Nat /\ \A i \in 1 .. Len(q) : q[i] \in mine
    BY <2>2, LenProperties, ElementOfSeq
  <2>4. \A i \in 1 .. Len(q) : RangeOf(q[i]) \in Ranges
    BY <1>1, <2>3 DEF HourRows, RangeOf, Ranges
  <2>5. [i \in DOMAIN q |-> RangeOf(q[i])] \in Seq(Ranges)
    <3> HIDE DEF q
    <3>1. [i \in DOMAIN q |-> RangeOf(q[i])] \in [1 .. Len(q) -> Ranges]
      BY <2>3, <2>4
    <3>2. QED
      BY <2>3, <3>1, SeqDef
  <2>6. QED
    BY <2>5
<1>3. offs \in Seq(rows.offs)
  <2>1. \A a \in rows.offs : a.id \in Nat
    BY <1>1 DEF OffRows
  <2>2. \A a, b \in rows.offs : a.id = b.id => a = b
    BY DEF Identified
  <2>3. QED
    BY <1>1, <2>1, <2>2, OlderInOrder
<1> HIDE DEF offs
<1>4. DOMAIN offs = 1 .. Len(offs) /\ Len(offs) \in Nat /\ \A i \in 1 .. Len(offs) : offs[i] \in rows.offs
  BY <1>3, LenProperties, ElementOfSeq
<1>5. over \in Seq(Overrides) /\ DOMAIN over = DOMAIN offs
  <2>1. \A i \in 1 .. Len(offs) : OverrideOf(offs[i]) \in Overrides
    BY <1>1, <1>4, ReasonKept
  <2>2. over \in [1 .. Len(offs) -> Overrides]
    BY <1>4, <2>1
  <2>3. QED
    BY <1>4, <2>2, SeqDef
<1>6. \A o \in ToSet(over) : \E f \in rows.offs : o = OverrideOf(f)
  BY <1>4, <1>5 DEF ToSet
<1> HIDE DEF over
<1>7. FromServer(rows) = [week |-> [d \in DayKeys |-> day(d)], overrides |-> over]
  BY DEF FromServer, over, offs
<1> HIDE DEF day
<1>8. [d \in DayKeys |-> day(d)] \in [DayKeys -> [enabled : BOOLEAN, ranges : Seq(Ranges)]]
  BY <1>2
<1> DEFINE week == [d \in DayKeys |-> day(d)]
<1> HIDE DEF week
<1>9. QED
  BY <1>5, <1>6, <1>7, <1>8 DEF Schedules, week

-----------------------------------------------------------------------------
(* Commands *)

\* The rows that are to be deleted, and what the tables hold when all of a list
\* of commands is executed.
Deletes(todo, op) == {c.id : c \in {c \in ToSet(todo) : c.op = op}}
HoursLeft(t, todo) ==
    {[day |-> h.day, range |-> RangeOf(h)] : h \in {h \in t.hours : h.id \notin Deletes(todo, "deleteHours")}}
        \cup {[day |-> c.day, range |-> c.range] : c \in {c \in ToSet(todo) : c.op = "addHours"}}
OffsLeft(t, todo) ==
    {<<f.date, f.reason>> : f \in {f \in t.offs : f.id \notin Deletes(todo, "deleteOff")}}
        \cup {<<c.date, c.reason>> : c \in {c \in ToSet(todo) : c.op = "addOff"}}

\* What a day off of the browser with an identifier says of the server's.
Means(t, o) ==
    o.id = Local \/ (/\ o.id <= t.issued
                     /\ \A f \in t.offs : f.id = o.id => f.date = o.date /\ f.reason = ReasonOf(o))
Meant(t, overrides) == \A o \in ToSet(overrides) : Means(t, o)

RowsIdentified(t) == Identified(t.hours, t.issued) /\ Identified(t.offs, t.issued)

\* Deletions name rows there were.
Issued(t, todo) == \A c \in ToSet(todo) : c.op \in {"deleteHours", "deleteOff"} => c.id <= t.issued

DeleteHours(t, s) == {[op |-> "deleteHours", id |-> h.id] : h \in HoursToDelete(t, s)}
AddHours(t, s) == {[op |-> "addHours", day |-> x.day, range |-> TargetRange(s, x), nth |-> x.nth] : x \in HoursToAdd(t, s)}
DeleteOffs(t, s) == {[op |-> "deleteOff", id |-> f.id] : f \in OffsToDelete(t, s)}
AddOffs(t, s) == {[op |-> "addOff", date |-> s.overrides[i].date, reason |-> ReasonOf(s.overrides[i]), nth |-> i]
                    : i \in OffsToAdd(t, s)}

\* The image of a finite set is finite.
LEMMA ImageFinite ==
    ASSUME NEW S, IsFiniteSet(S), NEW f, DOMAIN f = S
    PROVE  IsFiniteSet({f[x] : x \in S})
<1> DEFINE T == {f[x] : x \in S}
           g == [x \in S |-> f[x]]
<1>1. g \in Surjection(S, T)
  BY DEF Surjection
<1> HIDE DEF T
<1>2. IsFiniteSet(T)
  BY <1>1, FS_Surjection
<1>3. QED
  BY <1>2 DEF T

LEMMA ScheduleShape ==
    ASSUME NEW s \in Schedules, IsFiniteSet(DayKeys)
    PROVE  /\ IsFiniteSet(Targets(s))
           /\ \A x \in Targets(s) : x.day \in DayKeys /\ x.nth \in Nat /\ TargetRange(s, x) \in Ranges
           /\ s.overrides \in Seq(Overrides)
           /\ IsFiniteSet(DOMAIN s.overrides)
           /\ \A i \in DOMAIN s.overrides : i \in Nat /\ s.overrides[i] \in Overrides
<1>1. /\ s.week \in [DayKeys -> [enabled : BOOLEAN, ranges : Seq(Ranges)]] /\ s.overrides \in Seq(Overrides)
      /\ \A d \in DayKeys : s.week[d].ranges \in Seq(Ranges)
  BY DEF Schedules
<1>2. ASSUME NEW d \in DayKeys
      PROVE  /\ IsFiniteSet(DOMAIN s.week[d].ranges)
             /\ \A i \in DOMAIN s.week[d].ranges : i \in Nat /\ s.week[d].ranges[i] \in Ranges
  <2> DEFINE q == s.week[d].ranges
  <2>1. q \in Seq(Ranges)
    BY <1>1
  <2> HIDE DEF q
  <2>2. DOMAIN q = 1 .. Len(q) /\ Len(q) \in Nat /\ \A i \in 1 .. Len(q) : i \in Nat /\ q[i] \in Ranges
    BY <2>1, LenProperties, ElementOfSeq
  <2>3. IsFiniteSet(1 .. Len(q))
    BY <2>2, FS_Interval
  <2>4. QED
    BY <2>2, <2>3 DEF q
<1> DEFINE places(d) == {[day |-> d, nth |-> i] : i \in DOMAIN s.week[d].ranges}
           on == {d \in DayKeys : s.week[d].enabled}
           all == {places(d) : d \in on}
<1>3. \A d \in DayKeys : IsFiniteSet(places(d))
  <2> TAKE d \in DayKeys
  <2> DEFINE I == DOMAIN s.week[d].ranges
             f == [i \in I |-> [day |-> d, nth |-> i]]
  <2>1. IsFiniteSet(I)
    BY <1>2
  <2> HIDE DEF I
  <2>2. IsFiniteSet({f[i] : i \in I})
    BY <2>1, ImageFinite
  <2>3. QED
    BY <2>2 DEF I
<1>4. IsFiniteSet(all)
  <2> DEFINE f == [d \in on |-> places(d)]
  <2>1. on \in SUBSET DayKeys
    OBVIOUS
  <2>2. IsFiniteSet(on)
    <3> HIDE DEF on
    <3>1. QED
      BY <2>1, FS_Subset
  <2> HIDE DEF places, on
  <2>3. IsFiniteSet({f[d] : d \in on})
    BY <2>2, ImageFinite
  <2>4. QED
    BY <2>3
<1>5. \A T \in all : IsFiniteSet(T)
  BY <1>3
<1>6. Targets(s) = UNION all
  BY DEF Targets
<1>7. IsFiniteSet(Targets(s))
  <2> HIDE DEF all
  <2>1. QED
    BY <1>4, <1>5, <1>6, FS_UNION
<1>8. \A x \in Targets(s) : x.day \in DayKeys /\ x.nth \in Nat /\ TargetRange(s, x) \in Ranges
  BY <1>2 DEF Targets, TargetRange
<1>9. IsFiniteSet(DOMAIN s.overrides) /\ \A i \in DOMAIN s.overrides : i \in Nat /\ s.overrides[i] \in Overrides
  <2> DEFINE q == s.overrides
  <2>1. q \in Seq(Overrides)
    BY <1>1
  <2> HIDE DEF q
  <2>2. DOMAIN q = 1 .. Len(q) /\ Len(q) \in Nat /\ \A i \in 1 .. Len(q) : i \in Nat /\ q[i] \in Overrides
    BY <2>1, LenProperties, ElementOfSeq
  <2>3. IsFiniteSet(1 .. Len(q))
    BY <2>2, FS_Interval
  <2>4. QED
    BY <2>2, <2>3 DEF q
<1>10. QED
  BY <1>1, <1>7, <1>8, <1>9

\* The comparison yields commands: what the list of them contains.
LEMMA CommandsContain ==
    ASSUME NEW t \in Tables, RowsIdentified(t), NEW s \in Schedules, IsFiniteSet(DayKeys)
    PROVE  /\ Commands(t, s) \in Seq(Commanded)
           /\ ToSet(Commands(t, s)) = DeleteHours(t, s) \cup AddHours(t, s) \cup DeleteOffs(t, s) \cup AddOffs(t, s)
<1>1. t.hours \subseteq HourRows /\ t.offs \subseteq OffRows /\ IsFiniteSet(t.hours) /\ IsFiniteSet(t.offs)
  BY DEF Tables, RowsIdentified, Identified
<1>2. DeleteHours(t, s) \subseteq Commanded /\ DeleteOffs(t, s) \subseteq Commanded
  BY <1>1 DEF DeleteHours, DeleteOffs, HoursToDelete, OffsToDelete, Commanded, HourRows, OffRows
<1>3. AddHours(t, s) \subseteq Commanded
  BY ScheduleShape DEF AddHours, HoursToAdd, Commanded
<1>4. AddOffs(t, s) \subseteq Commanded
  <2>1. \A i \in DOMAIN s.overrides : i \in Nat /\ s.overrides[i].date \in Dates /\ ReasonOf(s.overrides[i]) \in Reasons
    BY ScheduleShape, ReasonTyped DEF Overrides
  <2>2. QED
    BY <2>1 DEF AddOffs, OffsToAdd, Commanded
<1>5. IsFiniteSet(DeleteHours(t, s))
  <2> DEFINE S == HoursToDelete(t, s)
             f == [h \in S |-> [op |-> "deleteHours", id |-> h.id]]
  <2>1. IsFiniteSet(S)
    BY <1>1, FS_Subset DEF HoursToDelete
  <2> HIDE DEF S
  <2>2. IsFiniteSet({f[h] : h \in S})
    BY <2>1, ImageFinite
  <2>3. QED
    BY <2>2 DEF DeleteHours, S
<1>6. IsFiniteSet(DeleteOffs(t, s))
  <2> DEFINE S == OffsToDelete(t, s)
             f == [h \in S |-> [op |-> "deleteOff", id |-> h.id]]
  <2>1. IsFiniteSet(S)
    BY <1>1, FS_Subset DEF OffsToDelete
  <2> HIDE DEF S
  <2>2. IsFiniteSet({f[h] : h \in S})
    BY <2>1, ImageFinite
  <2>3. QED
    BY <2>2 DEF DeleteOffs, S
<1>7. IsFiniteSet(AddHours(t, s))
  <2> DEFINE S == HoursToAdd(t, s)
             f == [x \in S |-> [op |-> "addHours", day |-> x.day, range |-> TargetRange(s, x), nth |-> x.nth]]
  <2>1. IsFiniteSet(S)
    BY ScheduleShape, FS_Subset DEF HoursToAdd
  <2> HIDE DEF S
  <2>2. IsFiniteSet({f[x] : x \in S})
    BY <2>1, ImageFinite
  <2>3. QED
    BY <2>2 DEF AddHours, S
<1>8. IsFiniteSet(AddOffs(t, s))
  <2> DEFINE S == OffsToAdd(t, s)
             f == [i \in S |-> [op |-> "addOff", date |-> s.overrides[i].date,
                                reason |-> ReasonOf(s.overrides[i]), nth |-> i]]
  <2>1. IsFiniteSet(S)
    BY ScheduleShape, FS_Subset DEF OffsToAdd
  <2> HIDE DEF S
  <2>2. IsFiniteSet({f[x] : x \in S})
    BY <2>1, ImageFinite
  <2>3. QED
    BY <2>2 DEF AddOffs, S
<1> DEFINE a == SetToSeq(DeleteHours(t, s))
           b == SetToSeq(AddHours(t, s))
           c == SetToSeq(DeleteOffs(t, s))
           e == SetToSeq(AddOffs(t, s))
<1>9. /\ a \in Seq(Commanded) /\ ToSet(a) = DeleteHours(t, s)
      /\ b \in Seq(Commanded) /\ ToSet(b) = AddHours(t, s)
      /\ c \in Seq(Commanded) /\ ToSet(c) = DeleteOffs(t, s)
      /\ e \in Seq(Commanded) /\ ToSet(e) = AddOffs(t, s)
  <2>1. ASSUME NEW S \in SUBSET Commanded, IsFiniteSet(S)
        PROVE  SetToSeq(S) \in Seq(Commanded) /\ ToSet(SetToSeq(S)) = S
    <3>1. SetToSeq(S) \in Seq(S) /\ ToSet(SetToSeq(S)) = S
      BY <2>1, SetAsSeq
    <3>2. QED
      BY <3>1, SeqMonotonic
  <2>2. QED
    BY <1>2, <1>3, <1>4, <1>5, <1>6, <1>7, <1>8, <2>1
<1> DEFINE ab == a \o b
           abc == ab \o c
           abce == abc \o e
<1>10. Commands(t, s) = abce
  BY DEF Commands, DeleteHours, AddHours, DeleteOffs, AddOffs
<1> HIDE DEF a, b, c, e
<1>11. ab \in Seq(Commanded) /\ ToSet(ab) = ToSet(a) \cup ToSet(b)
  BY <1>9, ConcatContains
<1> HIDE DEF ab
<1>12. abc \in Seq(Commanded) /\ ToSet(abc) = ToSet(ab) \cup ToSet(c)
  BY <1>9, <1>11, ConcatContains
<1> HIDE DEF abc
<1>13. abce \in Seq(Commanded) /\ ToSet(abce) = ToSet(abc) \cup ToSet(e)
  BY <1>9, <1>12, ConcatContains
<1> HIDE DEF abce
<1>14. QED
  BY <1>9, <1>10, <1>11, <1>12, <1>13

\* A comparison leads to the schedule it is made for.
LEMMA PlanLeads ==
    ASSUME NEW t \in Tables, RowsIdentified(t), NEW s \in Schedules, IsFiniteSet(DayKeys), Meant(t, s.overrides)
    PROVE  /\ Issued(t, Commands(t, s))
           /\ HoursLeft(t, Commands(t, s)) = HoursKept(s)
           /\ OffsLeft(t, Commands(t, s)) = OffsKept(s)
<1> DEFINE all == ToSet(Commands(t, s))
<1>1. all = DeleteHours(t, s) \cup AddHours(t, s) \cup DeleteOffs(t, s) \cup AddOffs(t, s)
  BY CommandsContain
<1>2. /\ Deletes(Commands(t, s), "deleteHours") = {h.id : h \in HoursToDelete(t, s)}
      /\ Deletes(Commands(t, s), "deleteOff") = {f.id : f \in OffsToDelete(t, s)}
      /\ {c \in all : c.op = "addHours"} = AddHours(t, s)
      /\ {c \in all : c.op = "addOff"} = AddOffs(t, s)
  <2>1. \A c \in DeleteHours(t, s) : c.op = "deleteHours" /\ \E h \in HoursToDelete(t, s) : c.id = h.id
    BY DEF DeleteHours
  <2>2. ASSUME NEW h \in HoursToDelete(t, s)
        PROVE  \E c \in DeleteHours(t, s) : c.id = h.id
    <3>1. [op |-> "deleteHours", id |-> h.id] \in DeleteHours(t, s)
      BY DEF DeleteHours
    <3>2. QED
      BY <3>1
  <2>3. \A c \in DeleteOffs(t, s) : c.op = "deleteOff" /\ \E f \in OffsToDelete(t, s) : c.id = f.id
    BY DEF DeleteOffs
  <2>4. ASSUME NEW f \in OffsToDelete(t, s)
        PROVE  \E c \in DeleteOffs(t, s) : c.id = f.id
    <3>1. [op |-> "deleteOff", id |-> f.id] \in DeleteOffs(t, s)
      BY DEF DeleteOffs
    <3>2. QED
      BY <3>1
  <2>5. (\A c \in AddHours(t, s) : c.op = "addHours") /\ (\A c \in AddOffs(t, s) : c.op = "addOff")
    BY DEF AddHours, AddOffs
  <2> HIDE DEF all
  <2>6. {c \in all : c.op = "addHours"} = AddHours(t, s) /\ {c \in all : c.op = "addOff"} = AddOffs(t, s)
    BY <1>1, <2>1, <2>3, <2>5
  <2>7. /\ {c \in all : c.op = "deleteHours"} = DeleteHours(t, s)
        /\ {c \in all : c.op = "deleteOff"} = DeleteOffs(t, s)
    BY <1>1, <2>1, <2>3, <2>5
  <2>8. {c.id : c \in DeleteHours(t, s)} = {h.id : h \in HoursToDelete(t, s)}
    BY <2>1, <2>2
  <2>9. {c.id : c \in DeleteOffs(t, s)} = {f.id : f \in OffsToDelete(t, s)}
    BY <2>3, <2>4
  <2>10. QED
    BY <2>6, <2>7, <2>8, <2>9 DEF Deletes, all
<1>3. Issued(t, Commands(t, s))
  <2>1. \A h \in t.hours \cup t.offs : h.id <= t.issued
    BY DEF RowsIdentified, Identified
  <2>2. \A c \in all : c.op \in {"deleteHours", "deleteOff"} => c \in DeleteHours(t, s) \cup DeleteOffs(t, s)
    BY <1>1 DEF AddHours, AddOffs
  <2>3. QED
    BY <2>1, <2>2 DEF Issued, DeleteHours, DeleteOffs, HoursToDelete, OffsToDelete
<1> HIDE DEF all
<1>4. HoursLeft(t, Commands(t, s)) = HoursKept(s)
  <2> DEFINE left == {h \in t.hours : h.id \notin {g.id : g \in HoursToDelete(t, s)}}
             there == {[day |-> h.day, range |-> RangeOf(h)] : h \in left}
             added == {[day |-> c.day, range |-> c.range] : c \in AddHours(t, s)}
  <2>1. HoursLeft(t, Commands(t, s)) = there \cup added
    BY <1>2 DEF HoursLeft, all
  <2>2. \A h \in t.hours : h \in left <=> \E x \in Targets(s) : SameHours(s, x, h)
    BY DEF HoursToDelete, RowsIdentified, Identified
  <2>3. added = {[day |-> x.day, range |-> TargetRange(s, x)] : x \in HoursToAdd(t, s)}
    <3>1. ASSUME NEW x \in HoursToAdd(t, s)
          PROVE  \E c \in AddHours(t, s) : c.day = x.day /\ c.range = TargetRange(s, x)
      <4> DEFINE c == [op |-> "addHours", day |-> x.day, range |-> TargetRange(s, x), nth |-> x.nth]
      <4>1. c \in AddHours(t, s)
        BY DEF AddHours
      <4>2. QED
        BY <4>1
    <3>2. \A c \in AddHours(t, s) : \E x \in HoursToAdd(t, s) : c.day = x.day /\ c.range = TargetRange(s, x)
      BY DEF AddHours
    <3>3. QED
      BY <3>1, <3>2
  <2> HIDE DEF left, added
  <2>4. ASSUME NEW k \in there
        PROVE  k \in HoursKept(s)
    <3>1. PICK h \in left : k = [day |-> h.day, range |-> RangeOf(h)]
      OBVIOUS
    <3>2. PICK x \in Targets(s) : SameHours(s, x, h)
      BY <2>2 DEF left
    <3>3. k = [day |-> x.day, range |-> TargetRange(s, x)]
      BY <3>1, <3>2 DEF SameHours
    <3>4. QED
      BY <3>3 DEF HoursKept
  <2>5. ASSUME NEW k \in added
        PROVE  k \in HoursKept(s)
    BY <2>3 DEF HoursKept, HoursToAdd
  <2>6. ASSUME NEW x \in Targets(s)
        PROVE  [day |-> x.day, range |-> TargetRange(s, x)] \in there \cup added
    <3>1. CASE x \in HoursToAdd(t, s)
      BY <2>3, <3>1
    <3>2. CASE x \notin HoursToAdd(t, s)
      <4>1. PICK h \in t.hours : SameHours(s, x, h)
        BY <3>2 DEF HoursToAdd
      <4>2. h \in left
        BY <2>2, <4>1
      <4>3. [day |-> x.day, range |-> TargetRange(s, x)] = [day |-> h.day, range |-> RangeOf(h)]
        BY <4>1 DEF SameHours
      <4>4. QED
        BY <4>2, <4>3
    <3>3. QED
      BY <3>1, <3>2
  <2> HIDE DEF there
  <2>7. there \cup added = HoursKept(s)
    BY <2>4, <2>5, <2>6 DEF HoursKept
  <2>8. QED
    BY <2>1, <2>7
<1>5. OffsLeft(t, Commands(t, s)) = OffsKept(s)
  <2> DEFINE left == {f \in t.offs : f.id \notin {g.id : g \in OffsToDelete(t, s)}}
             there == {<<f.date, f.reason>> : f \in left}
             added == {<<c.date, c.reason>> : c \in AddOffs(t, s)}
             I == DOMAIN s.overrides
             Said(i) == <<s.overrides[i].date, ReasonOf(s.overrides[i])>>
  <2>1. OffsLeft(t, Commands(t, s)) = there \cup added
    BY <1>2 DEF OffsLeft, all
  <2>2. \A f \in t.offs : f \in left <=> \E i \in I : SameOff(s.overrides[i], f)
    BY DEF OffsToDelete, RowsIdentified, Identified
  <2>3. added = {Said(i) : i \in OffsToAdd(t, s)}
    <3>1. ASSUME NEW i \in OffsToAdd(t, s)
          PROVE  \E c \in AddOffs(t, s) : <<c.date, c.reason>> = Said(i)
      <4> DEFINE c == [op |-> "addOff", date |-> s.overrides[i].date, reason |-> ReasonOf(s.overrides[i]), nth |-> i]
      <4>1. c \in AddOffs(t, s)
        BY DEF AddOffs
      <4>2. QED
        BY <4>1
    <3>2. \A c \in AddOffs(t, s) : \E i \in OffsToAdd(t, s) : <<c.date, c.reason>> = Said(i)
      BY DEF AddOffs
    <3> HIDE DEF Said
    <3>3. QED
      BY <3>1, <3>2
  <2>4. \A f \in t.offs : \A i \in I : SameOff(s.overrides[i], f) => <<f.date, f.reason>> = Said(i)
    <3> SUFFICES ASSUME NEW f \in t.offs, NEW i \in I, SameOff(s.overrides[i], f)
                 PROVE  <<f.date, f.reason>> = Said(i)
      OBVIOUS
    <3>1. f.id \in Nat \ {Local}
      BY DEF Tables, OffRows
    <3>2. Means(t, s.overrides[i])
      BY DEF Meant, ToSet
    <3>3. f.date = s.overrides[i].date /\ f.reason = ReasonOf(s.overrides[i])
      BY <3>1, <3>2 DEF SameOff, Means
    <3>4. QED
      BY <3>3
  <2>5. OffsKept(s) = {Said(i) : i \in I}
    BY DEF OffsKept, ToSet
  <2> HIDE DEF left, added, Said
  <2>6. ASSUME NEW f \in left
        PROVE  \E i \in I : <<f.date, f.reason>> = Said(i)
    <3>1. f \in t.offs
      BY DEF left
    <3>2. PICK i \in I : SameOff(s.overrides[i], f)
      BY <2>2, <3>1
    <3>3. QED
      BY <2>4, <3>1, <3>2
  <2>7. OffsToAdd(t, s) \subseteq I
    BY DEF OffsToAdd
  <2>8. ASSUME NEW i \in I
        PROVE  Said(i) \in there \cup added
    <3>1. CASE i \in OffsToAdd(t, s)
      BY <2>3, <3>1
    <3>2. CASE i \notin OffsToAdd(t, s)
      <4>1. PICK f \in t.offs : SameOff(s.overrides[i], f)
        BY <3>2 DEF OffsToAdd
      <4>2. f \in left /\ <<f.date, f.reason>> = Said(i)
        BY <2>2, <2>4, <4>1
      <4>3. QED
        BY <4>2
    <3>3. QED
      BY <3>1, <3>2
  <2>9. there \cup added = {Said(i) : i \in I}
    BY <2>3, <2>6, <2>7, <2>8
  <2>10. QED
    BY <2>1, <2>5, <2>9
<1>6. QED
  BY <1>3, <1>4, <1>5

\* A command keeps the rows apart; a row it adds is new.
LEMMA ExecutedKeeps ==
    ASSUME NEW t \in Tables, RowsIdentified(t), NEW c \in Commanded
    PROVE  /\ Executed(t, c) \in Tables /\ RowsIdentified(Executed(t, c))
           /\ Executed(t, c).issued \in Nat /\ Executed(t, c).issued >= t.issued
           /\ \A f \in Executed(t, c).offs : f \in t.offs \/ f.id > t.issued
           /\ CASE c.op = "deleteHours" -> /\ Executed(t, c).hours = {h \in t.hours : h.id # c.id}
                                           /\ Executed(t, c).offs = t.offs
                [] c.op = "deleteOff"   -> /\ Executed(t, c).offs = {f \in t.offs : f.id # c.id}
                                           /\ Executed(t, c).hours = t.hours
                [] c.op = "addHours"    -> /\ Executed(t, c).offs = t.offs
                                           /\ \E h : /\ Executed(t, c).hours = t.hours \cup {h} /\ h.id = t.issued + 1
                                                     /\ h.day = c.day /\ RangeOf(h) = c.range
                [] c.op = "addOff"      -> /\ Executed(t, c).hours = t.hours
                                           /\ \E f : /\ Executed(t, c).offs = t.offs \cup {f} /\ f.id = t.issued + 1
                                                     /\ f.date = c.date /\ f.reason = c.reason
<1> DEFINE n == Executed(t, c)
<1>1. /\ t = [hours |-> t.hours, offs |-> t.offs, issued |-> t.issued] /\ t.issued \in Nat
      /\ t.hours \subseteq HourRows /\ t.offs \subseteq OffRows
      /\ IsFiniteSet(t.hours) /\ IsFiniteSet(t.offs)
      /\ \A row \in t.hours \cup t.offs : row.id <= t.issued /\ row.id \in Nat \ {Local}
      /\ \A a, b \in t.hours : a.id = b.id => a = b
      /\ \A a, b \in t.offs : a.id = b.id => a = b
  BY DEF Tables, RowsIdentified, Identified, HourRows, OffRows
<1>2. CASE c.op = "deleteHours"
  <2>1. n = [hours |-> {h \in t.hours : h.id # c.id}, offs |-> t.offs, issued |-> t.issued]
    BY <1>1, <1>2 DEF Executed
  <2>2. IsFiniteSet({h \in t.hours : h.id # c.id})
    BY <1>1, FS_Subset
  <2> HIDE DEF n
  <2>3. RowsIdentified(n)
    BY <1>1, <2>1, <2>2 DEF RowsIdentified, Identified
  <2>4. n \in Tables
    BY <1>1, <2>1 DEF Tables
  <2>5. QED
    BY <1>1, <1>2, <2>1, <2>3, <2>4 DEF n
<1>3. CASE c.op = "deleteOff"
  <2>1. n = [hours |-> t.hours, offs |-> {f \in t.offs : f.id # c.id}, issued |-> t.issued]
    BY <1>1, <1>3 DEF Executed
  <2>2. IsFiniteSet({f \in t.offs : f.id # c.id})
    BY <1>1, FS_Subset
  <2> HIDE DEF n
  <2>3. RowsIdentified(n)
    BY <1>1, <2>1, <2>2 DEF RowsIdentified, Identified
  <2>4. n \in Tables
    BY <1>1, <2>1 DEF Tables
  <2>5. QED
    BY <1>1, <1>3, <2>1, <2>3, <2>4 DEF n
<1>4. CASE c.op = "addHours"
  <2> DEFINE h == [id |-> t.issued + 1, day |-> c.day, from |-> c.range.from, to |-> c.range.to]
  <2>1. n = [hours |-> t.hours \cup {h}, offs |-> t.offs, issued |-> t.issued + 1]
    BY <1>1, <1>4 DEF Executed
  <2>2. c.day \in DayKeys /\ c.range \in Ranges
    BY <1>4 DEF Commanded
  <2>3. h \in HourRows /\ h.id = t.issued + 1 /\ h.day = c.day /\ RangeOf(h) = c.range
    BY <1>1, <2>2 DEF HourRows, RangeOf, Ranges, Local
  <2> HIDE DEF n, h
  <2>4. IsFiniteSet(t.hours \cup {h})
    BY <1>1, FS_AddElement
  <2>5. RowsIdentified(n)
    <3>1. Identified(t.hours \cup {h}, t.issued + 1)
      BY <1>1, <2>3, <2>4 DEF Identified
    <3>2. Identified(t.offs, t.issued + 1)
      BY <1>1 DEF Identified
    <3>3. QED
      BY <2>1, <3>1, <3>2 DEF RowsIdentified
  <2>6. n \in Tables
    BY <1>1, <2>1, <2>3 DEF Tables
  <2>7. QED
    BY <1>1, <1>4, <2>1, <2>3, <2>5, <2>6 DEF n
<1>5. CASE c.op = "addOff"
  <2> DEFINE f == [id |-> t.issued + 1, date |-> c.date, reason |-> c.reason]
  <2>1. n = [hours |-> t.hours, offs |-> t.offs \cup {f}, issued |-> t.issued + 1]
    BY <1>1, <1>5 DEF Executed
  <2>2. c.date \in Dates /\ c.reason \in Reasons
    BY <1>5 DEF Commanded
  <2>3. f \in OffRows /\ f.id = t.issued + 1 /\ f.date = c.date /\ f.reason = c.reason
    BY <1>1, <2>2 DEF OffRows, Local
  <2> HIDE DEF n, f
  <2>4. IsFiniteSet(t.offs \cup {f})
    BY <1>1, FS_AddElement
  <2>5. RowsIdentified(n)
    <3>1. Identified(t.offs \cup {f}, t.issued + 1)
      BY <1>1, <2>3, <2>4 DEF Identified
    <3>2. Identified(t.hours, t.issued + 1)
      BY <1>1 DEF Identified
    <3>3. QED
      BY <2>1, <3>1, <3>2 DEF RowsIdentified
  <2>6. n \in Tables
    BY <1>1, <2>1, <2>3 DEF Tables
  <2>7. \A g \in n.offs : g \in t.offs \/ g.id > t.issued
    BY <1>1, <2>1, <2>3
  <2>8. QED
    BY <1>1, <1>5, <2>1, <2>3, <2>5, <2>6, <2>7 DEF n
<1>6. c.op \in {"deleteHours", "deleteOff", "addHours", "addOff"}
  BY DEF Commanded
<1>7. QED
  BY <1>2, <1>3, <1>4, <1>5, <1>6

LEMMA MeansKept ==
    ASSUME NEW t \in Tables, NEW n \in Tables, n.issued >= t.issued,
           \A f \in n.offs : f \in t.offs \/ f.id > t.issued, NEW overrides \in Seq(Overrides), Meant(t, overrides)
    PROVE  Meant(n, overrides)
<1>1. t.issued \in Nat /\ n.issued \in Nat /\ \A f \in n.offs : f.id \in Nat
  BY DEF Tables, OffRows
<1>2. \A o \in ToSet(overrides) : o.id \in Nat
  <2>1. \A o \in ToSet(overrides) : o \in Overrides
    BY LenProperties, ElementOfSeq DEF ToSet
  <2>2. QED
    BY <2>1 DEF Overrides
<1>3. QED
  BY <1>1, <1>2 DEF Meant, Means

\* Executing the first of some commands changes nothing of what they lead to.
LEMMA CommandLeads ==
    ASSUME NEW t \in Tables, RowsIdentified(t), NEW q \in Seq(Commanded), q # <<>>, Issued(t, q)
    PROVE  /\ Issued(Executed(t, Head(q)), Tail(q))
           /\ HoursLeft(Executed(t, Head(q)), Tail(q)) = HoursLeft(t, q)
           /\ OffsLeft(Executed(t, Head(q)), Tail(q)) = OffsLeft(t, q)
<1> DEFINE c == Head(q)
           r == Tail(q)
           n == Executed(t, c)
           hours(todo) == {x \in ToSet(todo) : x.op = "addHours"}
           offs(todo) == {x \in ToSet(todo) : x.op = "addOff"}
           later(todo) == {[day |-> x.day, range |-> x.range] : x \in hours(todo)}
           laterOffs(todo) == {<<x.date, x.reason>> : x \in offs(todo)}
           left(x, todo) == {h \in x.hours : h.id \notin Deletes(todo, "deleteHours")}
           leftOffs(x, todo) == {f \in x.offs : f.id \notin Deletes(todo, "deleteOff")}
<1>1. c \in Commanded /\ r \in Seq(Commanded) /\ ToSet(q) = {c} \cup ToSet(r)
  BY TailContains
<1> HIDE DEF c, r
<1>2. \A x \in ToSet(r) : x \in Commanded
  BY <1>1, LenProperties, ElementOfSeq DEF ToSet
<1>3. t.issued \in Nat /\ \A x \in Commanded : x.op \in {"deleteHours", "deleteOff"} => x.id \in Nat
  BY DEF Tables, Commanded
<1>4. n.issued \in Nat /\ n.issued >= t.issued
  BY <1>1, ExecutedKeeps
<1> HIDE DEF n
<1>5. Issued(n, r)
  BY <1>1, <1>2, <1>3, <1>4 DEF Issued
<1>6. \A op \in {"deleteHours", "deleteOff"} : t.issued + 1 \notin Deletes(r, op)
  BY <1>1, <1>2, <1>3 DEF Deletes, Issued
<1>7. /\ HoursLeft(n, r) = {[day |-> h.day, range |-> RangeOf(h)] : h \in left(n, r)} \cup later(r)
      /\ HoursLeft(t, q) = {[day |-> h.day, range |-> RangeOf(h)] : h \in left(t, q)} \cup later(q)
      /\ OffsLeft(n, r) = {<<f.date, f.reason>> : f \in leftOffs(n, r)} \cup laterOffs(r)
      /\ OffsLeft(t, q) = {<<f.date, f.reason>> : f \in leftOffs(t, q)} \cup laterOffs(q)
  BY DEF HoursLeft, OffsLeft
<1>8. CASE c.op = "deleteHours"
  <2>1. n.hours = {h \in t.hours : h.id # c.id} /\ n.offs = t.offs
    BY <1>1, <1>8, ExecutedKeeps DEF n
  <2>2. Deletes(q, "deleteHours") = {c.id} \cup Deletes(r, "deleteHours") /\ Deletes(q, "deleteOff") = Deletes(r, "deleteOff")
    BY <1>1, <1>8 DEF Deletes
  <2>3. hours(q) = hours(r) /\ offs(q) = offs(r)
    BY <1>1, <1>8
  <2>4. left(n, r) = left(t, q) /\ leftOffs(n, r) = leftOffs(t, q)
    BY <2>1, <2>2
  <2> HIDE DEF hours, offs, left, leftOffs
  <2>5. QED
    BY <1>5, <1>7, <2>3, <2>4 DEF n, c, r
<1>9. CASE c.op = "deleteOff"
  <2>1. n.offs = {f \in t.offs : f.id # c.id} /\ n.hours = t.hours
    BY <1>1, <1>9, ExecutedKeeps DEF n
  <2>2. Deletes(q, "deleteOff") = {c.id} \cup Deletes(r, "deleteOff") /\ Deletes(q, "deleteHours") = Deletes(r, "deleteHours")
    BY <1>1, <1>9 DEF Deletes
  <2>3. hours(q) = hours(r) /\ offs(q) = offs(r)
    BY <1>1, <1>9
  <2>4. left(n, r) = left(t, q) /\ leftOffs(n, r) = leftOffs(t, q)
    BY <2>1, <2>2
  <2> HIDE DEF hours, offs, left, leftOffs
  <2>5. QED
    BY <1>5, <1>7, <2>3, <2>4 DEF n, c, r
<1>10. CASE c.op = "addHours"
  <2>1. PICK h : n.hours = t.hours \cup {h} /\ h.id = t.issued + 1 /\ h.day = c.day /\ RangeOf(h) = c.range
    BY <1>1, <1>10, ExecutedKeeps DEF n
  <2>2. n.offs = t.offs
    BY <1>1, <1>10, ExecutedKeeps DEF n
  <2>3. Deletes(q, "deleteHours") = Deletes(r, "deleteHours") /\ Deletes(q, "deleteOff") = Deletes(r, "deleteOff")
    BY <1>1, <1>10 DEF Deletes
  <2>4. hours(q) = hours(r) \cup {c} /\ offs(q) = offs(r)
    BY <1>1, <1>10
  <2>5. left(n, r) = left(t, q) \cup {h} /\ leftOffs(n, r) = leftOffs(t, q)
    BY <1>6, <2>1, <2>2, <2>3
  <2> HIDE DEF hours, offs, left, leftOffs
  <2>6. HoursLeft(n, r) = HoursLeft(t, q)
    <3>1. {[day |-> g.day, range |-> RangeOf(g)] : g \in left(n, r)}
              = {[day |-> g.day, range |-> RangeOf(g)] : g \in left(t, q)} \cup {[day |-> c.day, range |-> c.range]}
      BY <2>1, <2>5
    <3>2. later(q) = later(r) \cup {[day |-> c.day, range |-> c.range]}
      BY <2>4
    <3> HIDE DEF later
    <3>3. QED
      BY <1>7, <3>1, <3>2
  <2>7. OffsLeft(n, r) = OffsLeft(t, q)
    BY <1>7, <2>4, <2>5
  <2>8. QED
    BY <1>5, <2>6, <2>7 DEF n, c, r
<1>11. CASE c.op = "addOff"
  <2>1. PICK f : n.offs = t.offs \cup {f} /\ f.id = t.issued + 1 /\ f.date = c.date /\ f.reason = c.reason
    BY <1>1, <1>11, ExecutedKeeps DEF n
  <2>2. n.hours = t.hours
    BY <1>1, <1>11, ExecutedKeeps DEF n
  <2>3. Deletes(q, "deleteHours") = Deletes(r, "deleteHours") /\ Deletes(q, "deleteOff") = Deletes(r, "deleteOff")
    BY <1>1, <1>11 DEF Deletes
  <2>4. offs(q) = offs(r) \cup {c} /\ hours(q) = hours(r)
    BY <1>1, <1>11
  <2>5. leftOffs(n, r) = leftOffs(t, q) \cup {f} /\ left(n, r) = left(t, q)
    BY <1>6, <2>1, <2>2, <2>3
  <2> HIDE DEF hours, offs, left, leftOffs
  <2>6. OffsLeft(n, r) = OffsLeft(t, q)
    <3>1. {<<g.date, g.reason>> : g \in leftOffs(n, r)}
              = {<<g.date, g.reason>> : g \in leftOffs(t, q)} \cup {<<c.date, c.reason>>}
      BY <2>1, <2>5
    <3>2. laterOffs(q) = laterOffs(r) \cup {<<c.date, c.reason>>}
      BY <2>4
    <3> HIDE DEF laterOffs
    <3>3. QED
      BY <1>7, <3>1, <3>2
  <2>7. HoursLeft(n, r) = HoursLeft(t, q)
    BY <1>7, <2>4, <2>5
  <2>8. QED
    BY <1>5, <2>6, <2>7 DEF n, c, r
<1>12. c.op \in {"deleteHours", "deleteOff", "addHours", "addOff"}
  BY <1>1 DEF Commanded
<1>13. QED
  BY <1>8, <1>9, <1>10, <1>11, <1>12

-----------------------------------------------------------------------------
(* A lone save *)

Weeks == [DayKeys -> [enabled : BOOLEAN, ranges : Seq(Ranges)]]
SheetStates == [open : BOOLEAN, week : Weeks, overrides : Seq(Overrides), errors : BOOLEAN]

\* Schedules whose days off say of the server's what is true.
KnownTo(t) == {s \in Schedules : Meant(t, s.overrides)}

\* What is still to be called leads to the schedule that is saved.
Leads(t, s) ==
    /\ s.next \in KnownTo(t) /\ s.before \in KnownTo(t) \cup {NoSchedule} /\ Issued(t, s.todo)
    /\ s.alone /\ s.planned =>
          HoursLeft(t, s.todo) = HoursKept(s.next) /\ OffsReached(OffsKept(s.next), OffsLeft(t, s.todo))

Alone == \A s \in saves : s.alone => saves = {s}

LoneSaveInv ==
    /\ ScheduleTypeOK /\ RowsIdentified(stored)
    /\ cached \in KnownTo(stored) \cup {NoSchedule}
    /\ reading \notin {<<>>, Unread} => reading[1] \in KnownTo(stored)
    /\ Meant(stored, editor.overrides)
    /\ Alone /\ \A s \in saves : Leads(stored, s)

LEMMA DefaultKnown ==
    ASSUME NEW t
    PROVE  DefaultSchedule \in KnownTo(t)
BY ScheduleAssumption DEF KnownTo, Meant, Means

LEMMA ShownKnown ==
    ASSUME NEW t, NEW data \in KnownTo(t) \cup {NoSchedule}
    PROVE  Shown(data) \in KnownTo(t)
BY DefaultKnown DEF Shown

LEMMA KnownShape ==
    ASSUME NEW t, NEW s \in KnownTo(t)
    PROVE  /\ s \in Schedules /\ s # NoSchedule /\ s.week \in Weeks /\ s.overrides \in Seq(Overrides)
           /\ Meant(t, s.overrides)
           /\ s = [week |-> s.week, overrides |-> s.overrides]
BY ScheduleAssumption DEF KnownTo, Schedules, Weeks

LEMMA KnownMade ==
    ASSUME NEW t, NEW week \in Weeks, NEW overrides \in Seq(Overrides), Meant(t, overrides)
    PROVE  [week |-> week, overrides |-> overrides] \in KnownTo(t)
BY DEF KnownTo, Schedules, Weeks

\* The sheet after another schedule was shown.
LEMMA ResyncedKnown ==
    ASSUME NEW t, NEW sheet \in SheetStates, Meant(t, sheet.overrides), NEW data \in KnownTo(t) \cup {NoSchedule}
    PROVE  Resynced(sheet, data) \in SheetStates /\ Meant(t, Resynced(sheet, data).overrides)
<1>1. Shown(data) \in KnownTo(t)
  BY ShownKnown
<1>2. Shown(data).week \in Weeks /\ Shown(data).overrides \in Seq(Overrides) /\ Meant(t, Shown(data).overrides)
  BY <1>1, KnownShape
<1>3. QED
  BY <1>2 DEF Resynced, SheetStates

LEMMA ClosedKnown ==
    ASSUME NEW t
    PROVE  ClosedEditor \in SheetStates /\ Meant(t, ClosedEditor.overrides)
BY DefaultKnown, KnownShape DEF ClosedEditor, SheetStates

LEMMA EmptyKnown ==
    ASSUME NEW t
    PROVE  EmptySchedule \in KnownTo(t)
<1>1. <<>> \in Seq(Ranges) /\ <<>> \in Seq(Overrides) /\ ToSet(<<>>) = {}
  BY EmptySeq DEF ToSet
<1>2. EmptySchedule.week \in Weeks
  BY <1>1 DEF EmptySchedule, NoHours, Weeks
<1>3. QED
  BY <1>1, <1>2, KnownMade DEF EmptySchedule, Meant

\* What was known stays so when a command is executed.
LEMMA KnownKept ==
    ASSUME NEW t \in Tables, RowsIdentified(t), NEW c \in Commanded
    PROVE  /\ KnownTo(t) \subseteq KnownTo(Executed(t, c))
           /\ \A overrides \in Seq(Overrides) : Meant(t, overrides) => Meant(Executed(t, c), overrides)
<1>1. /\ Executed(t, c) \in Tables /\ Executed(t, c).issued >= t.issued
      /\ \A f \in Executed(t, c).offs : f \in t.offs \/ f.id > t.issued
  BY ExecutedKeeps
<1>2. \A overrides \in Seq(Overrides) : Meant(t, overrides) => Meant(Executed(t, c), overrides)
  BY <1>1, MeansKept
<1>3. QED
  BY <1>2 DEF KnownTo, Schedules

\* The rows that are told are rows there are.
LEMMA VisibleRows ==
    ASSUME NEW t \in Tables, RowsIdentified(t)
    PROVE  /\ Visible(t) \in Tables /\ RowsIdentified(Visible(t))
           /\ Visible(t).hours = t.hours /\ Visible(t).offs \subseteq t.offs
           /\ Visible(t).issued = t.issued
           /\ \A f \in t.offs \ Visible(t).offs : f.date \notin Horizon
           /\ \A overrides : Meant(t, overrides) => Meant(Visible(t), overrides)
<1> DEFINE offs == {f \in t.offs : f.date \in Horizon}
           v == Visible(t)
<1>1. t = [hours |-> t.hours, offs |-> t.offs, issued |-> t.issued]
  BY DEF Tables
<1>2. v = [hours |-> t.hours, offs |-> offs, issued |-> t.issued]
  BY <1>1 DEF Visible
<1>3. v.hours = t.hours /\ v.offs = offs /\ v.issued = t.issued
  BY <1>2
<1>4. v \in Tables
  BY <1>2 DEF Tables
<1>5. IsFiniteSet(offs)
  BY FS_Subset DEF RowsIdentified, Identified
<1> HIDE DEF v
<1>6. RowsIdentified(v)
  BY <1>3, <1>5 DEF RowsIdentified, Identified
<1>7. \A overrides : Meant(t, overrides) => Meant(v, overrides)
  BY <1>3 DEF Meant, Means
<1>8. QED
  BY <1>3, <1>4, <1>6, <1>7 DEF v

\* What a list of commands leads to from all rows, and from those that are told.
LEMMA BeyondHorizon ==
    ASSUME NEW t \in Tables, RowsIdentified(t), NEW todo
    PROVE  /\ HoursLeft(t, todo) = HoursLeft(Visible(t), todo)
           /\ OffsReached(OffsLeft(Visible(t), todo), OffsLeft(t, todo))
<1> DEFINE left(x) == {<<f.date, f.reason>> : f \in {f \in x.offs : f.id \notin Deletes(todo, "deleteOff")}}
           added == {<<c.date, c.reason>> : c \in {c \in ToSet(todo) : c.op = "addOff"}}
<1>1. /\ Visible(t).hours = t.hours /\ Visible(t).offs \subseteq t.offs
      /\ \A f \in t.offs \ Visible(t).offs : f.date \notin Horizon
  BY VisibleRows
<1>2. HoursLeft(t, todo) = HoursLeft(Visible(t), todo)
  BY <1>1 DEF HoursLeft
<1>3. OffsLeft(t, todo) = left(t) \cup added /\ OffsLeft(Visible(t), todo) = left(Visible(t)) \cup added
  BY DEF OffsLeft
<1>4. left(Visible(t)) \subseteq left(t)
  BY <1>1
<1>5. \A off \in left(t) \ left(Visible(t)) : off[1] \notin Horizon
  BY <1>1
<1> HIDE DEF left, added
<1>6. QED
  BY <1>2, <1>3, <1>4, <1>5 DEF OffsReached

\* Reading.
LEMMA QueryKeeps ==
    ASSUME LoneSaveInv, WindowFocus \/ ReadServed \/ ReadLands \/ ReadFails \/ OpenEditor \/ CloseEditor
    PROVE  LoneSaveInv'
<1>1. UNCHANGED <<stored, saves, latest>> /\ edits' \in 0 .. MaxEdits
  BY ScheduleAssumption DEF LoneSaveInv, ScheduleTypeOK, WindowFocus, ReadServed, ReadLands, ReadFails, OpenEditor, CloseEditor
<1>2. cached' \in KnownTo(stored) \cup {NoSchedule} /\ readFailed' \in BOOLEAN
  <2>1. CASE ReadLands
    BY <2>1 DEF ReadLands, LoneSaveInv
  <2>2. CASE ~ReadLands
    BY <2>2 DEF LoneSaveInv, ScheduleTypeOK, WindowFocus, ReadServed, ReadFails, OpenEditor, CloseEditor
  <2>3. QED
    BY <2>1, <2>2
<1>3. /\ reading' \in {<<>>, Unread} \/ (reading' = <<reading'[1]>> /\ reading'[1] \in Schedules)
      /\ reading' \notin {<<>>, Unread} => reading'[1] \in KnownTo(stored)
  <2>1. CASE ReadServed
    <3> DEFINE t == Visible(stored)
               s == FromServer(t)
    <3>1. t \in Tables /\ RowsIdentified(t) /\ t.offs \subseteq stored.offs
      BY VisibleRows DEF LoneSaveInv, ScheduleTypeOK
    <3> HIDE DEF t
    <3>2. s \in Schedules /\ \A o \in ToSet(s.overrides) : \E f \in t.offs : o = OverrideOf(f)
      BY <3>1, ReadSchedule DEF RowsIdentified
    <3>3. reading' = <<s>> /\ reading'[1] = s
      BY <2>1 DEF ReadServed, t
    <3> HIDE DEF s
    <3>4. \A f \in stored.offs : Means(stored, OverrideOf(f))
      <4> TAKE f \in stored.offs
      <4>1. f \in OffRows /\ f.id <= stored.issued /\ \A g \in stored.offs : g.id = f.id => g = f
        BY DEF LoneSaveInv, ScheduleTypeOK, Tables, RowsIdentified, Identified
      <4>2. OverrideOf(f).id = f.id /\ OverrideOf(f).date = f.date /\ ReasonOf(OverrideOf(f)) = f.reason
        BY <4>1, ReasonKept
      <4>3. QED
        BY <4>1, <4>2 DEF Means
    <3>5. s \in KnownTo(stored)
      BY <3>1, <3>2, <3>4 DEF KnownTo, Meant
    <3>6. QED
      BY <3>2, <3>3, <3>5
  <2>2. CASE ~ReadServed
    BY <2>2 DEF LoneSaveInv, ScheduleTypeOK, WindowFocus, ReadLands, ReadFails, OpenEditor, CloseEditor
  <2>3. QED
    BY <2>1, <2>2
<1>4. editor \in SheetStates /\ Meant(stored, editor.overrides)
  BY DEF LoneSaveInv, ScheduleTypeOK, SheetStates, Weeks
<1>5. editor' \in SheetStates /\ Meant(stored, editor'.overrides)
  <2>1. CASE WindowFocus \/ ReadServed
    BY <1>4, <2>1 DEF WindowFocus, ReadServed
  <2>2. CASE ReadLands
    BY <1>2, <1>4, <2>2, ResyncedKnown DEF ReadLands
  <2>3. CASE ReadFails
    BY <2>3, ClosedKnown DEF ReadFails
  <2>4. CASE OpenEditor
    <3>1. Shown(cached) \in KnownTo(stored)
      BY ShownKnown DEF LoneSaveInv
    <3>2. QED
      BY <2>4, <3>1, KnownShape DEF OpenEditor, SheetStates
  <2>5. CASE CloseEditor
    BY <1>4, <2>5 DEF CloseEditor, SheetStates
  <2>6. QED
    BY <2>1, <2>2, <2>3, <2>4, <2>5
<1>6. cached' \in Schedules \cup {NoSchedule}
  BY <1>2 DEF KnownTo
<1>7. ScheduleTypeOK'
  BY <1>1, <1>2, <1>3, <1>5, <1>6 DEF LoneSaveInv, ScheduleTypeOK, SheetStates, Weeks
<1>8. QED
  BY <1>1, <1>2, <1>3, <1>5, <1>7 DEF LoneSaveInv, Alone

\* A save begins.
LEMMA SaveKeeps ==
    ASSUME LoneSaveInv, NEW who \in Editors, NEW next \in KnownTo(stored), Save(who, next),
           editor' \in SheetStates, Meant(stored, editor'.overrides), UNCHANGED edits
    PROVE  LoneSaveInv'
<1> DEFINE id == latest["view"] + latest["sheet"] + 1
           new == [who |-> who, id |-> id, next |-> next, before |-> cached,
                   planned |-> FALSE, todo |-> <<>>, alone |-> saves = {}]
           old == {[s EXCEPT !.alone = FALSE] : s \in saves}
<1>1. id \in 1 .. MaxSaves
  BY ScheduleAssumption DEF Save, LoneSaveInv, ScheduleTypeOK, Editors
<1>2. /\ latest' = [latest EXCEPT ![who] = id] /\ saves' = old \cup {new}
      /\ cached' = next /\ reading' = <<>> /\ readFailed' = FALSE /\ stored' = stored
  BY DEF Save
<1>3. next \in Schedules /\ cached \in Schedules \cup {NoSchedule} /\ cached \in KnownTo(stored) \cup {NoSchedule}
  BY KnownShape DEF LoneSaveInv, ScheduleTypeOK
<1>4. new \in Saves /\ Leads(stored, new)
  <2>1. <<>> \in Seq(Commanded) /\ ToSet(<<>>) = {}
    BY EmptySeq DEF ToSet
  <2>2. new \in Saves
    BY <1>1, <1>3, <2>1 DEF Saves, Editors
  <2>3. new.next = next /\ new.before = cached /\ new.todo = <<>> /\ ~new.planned
    OBVIOUS
  <2> HIDE DEF new
  <2>4. QED
    BY <1>3, <2>1, <2>2, <2>3 DEF Leads, Issued
<1>5. \A s \in old : s \in Saves /\ Leads(stored, s) /\ ~s.alone
  <2> SUFFICES ASSUME NEW r \in saves
               PROVE  /\ [r EXCEPT !.alone = FALSE] \in Saves /\ Leads(stored, [r EXCEPT !.alone = FALSE])
                      /\ ~[r EXCEPT !.alone = FALSE].alone
    OBVIOUS
  <2> DEFINE s == [r EXCEPT !.alone = FALSE]
  <2>1. r \in Saves /\ Leads(stored, r)
    BY DEF LoneSaveInv, ScheduleTypeOK
  <2>2. s \in Saves /\ ~s.alone /\ s.next = r.next /\ s.before = r.before /\ s.todo = r.todo
    BY <2>1 DEF Saves
  <2> HIDE DEF s
  <2>3. Leads(stored, s)
    BY <2>1, <2>2 DEF Leads
  <2>4. QED
    BY <2>2, <2>3 DEF s
<1>6. new.alone => old = {}
  OBVIOUS
<1> HIDE DEF new, old
<1>7. Alone'
  BY <1>2, <1>5, <1>6 DEF Alone
<1>8. latest' \in [Editors -> 0 .. MaxSaves]
  BY <1>1, <1>2 DEF LoneSaveInv, ScheduleTypeOK
<1>9. ScheduleTypeOK'
  BY <1>2, <1>3, <1>4, <1>5, <1>8 DEF LoneSaveInv, ScheduleTypeOK, SheetStates, Weeks
<1>10. QED
  BY <1>2, <1>4, <1>5, <1>7, <1>9 DEF LoneSaveInv

\* A save goes on.
LEMMA PlanKeeps ==
    ASSUME LoneSaveInv, NEW s \in saves, PlanSave(s)
    PROVE  LoneSaveInv'
<1> DEFINE new == [s EXCEPT !.planned = TRUE, !.todo = Commands(Visible(stored), s.next)]
<1>1. s \in Saves /\ Leads(stored, s) /\ stored \in Tables /\ RowsIdentified(stored) /\ IsFiniteSet(DayKeys)
  BY ScheduleAssumption DEF LoneSaveInv, ScheduleTypeOK
<1>2. s.next \in Schedules /\ Meant(stored, s.next.overrides)
  BY <1>1, KnownShape DEF Leads
<1> DEFINE told == Visible(stored)
<1>3. /\ told \in Tables /\ RowsIdentified(told) /\ told.issued = stored.issued
      /\ Meant(told, s.next.overrides)
  BY <1>1, <1>2, VisibleRows
<1>4. /\ Commands(told, s.next) \in Seq(Commanded)
      /\ Issued(stored, Commands(told, s.next))
      /\ HoursLeft(stored, Commands(told, s.next)) = HoursKept(s.next)
      /\ OffsReached(OffsKept(s.next), OffsLeft(stored, Commands(told, s.next)))
  <2> DEFINE todo == Commands(told, s.next)
  <2> HIDE DEF told
  <2>1. todo \in Seq(Commanded)
    BY <1>1, <1>2, <1>3, CommandsContain
  <2>2. Issued(told, todo) /\ HoursLeft(told, todo) = HoursKept(s.next) /\ OffsLeft(told, todo) = OffsKept(s.next)
    BY <1>1, <1>2, <1>3, PlanLeads
  <2> HIDE DEF todo
  <2>3. Issued(stored, todo)
    BY <1>3, <2>2 DEF Issued
  <2>4. HoursLeft(stored, todo) = HoursLeft(told, todo) /\ OffsReached(OffsLeft(told, todo), OffsLeft(stored, todo))
    BY <1>1, BeyondHorizon DEF told
  <2>5. QED
    BY <2>1, <2>2, <2>3, <2>4 DEF todo
<1>5. new \in Saves /\ new.next = s.next /\ new.before = s.before /\ new.todo = Commands(Visible(stored), s.next) /\ new.alone = s.alone
  BY <1>1, <1>4 DEF Saves
<1>6. /\ saves' = (saves \ {s}) \cup {new}
      /\ UNCHANGED <<stored, cached, reading, readFailed, editor, latest, edits>>
  BY DEF PlanSave
<1> HIDE DEF new
<1>7. Leads(stored, new)
  BY <1>1, <1>4, <1>5 DEF Leads
<1>8. Alone'
  BY <1>5, <1>6 DEF LoneSaveInv, Alone
<1>9. ScheduleTypeOK'
  BY <1>5, <1>6 DEF LoneSaveInv, ScheduleTypeOK
<1>10. QED
  BY <1>6, <1>7, <1>8, <1>9 DEF LoneSaveInv

\* What holds of the rows holds of those a command leaves.
LEMMA RowsStep ==
    ASSUME LoneSaveInv, NEW c \in Commanded
    PROVE  /\ Executed(stored, c) \in Tables /\ RowsIdentified(Executed(stored, c))
           /\ cached \in KnownTo(Executed(stored, c)) \cup {NoSchedule}
           /\ reading \notin {<<>>, Unread} => reading[1] \in KnownTo(Executed(stored, c))
           /\ Meant(Executed(stored, c), editor.overrides)
           /\ \A s \in saves :
                 /\ s.next \in KnownTo(Executed(stored, c)) /\ s.before \in KnownTo(Executed(stored, c)) \cup {NoSchedule}
                 /\ Issued(Executed(stored, c), s.todo)
<1> DEFINE n == Executed(stored, c)
<1>1. stored \in Tables /\ RowsIdentified(stored) /\ editor.overrides \in Seq(Overrides)
  BY DEF LoneSaveInv, ScheduleTypeOK
<1>2. /\ n \in Tables /\ RowsIdentified(n) /\ n.issued \in Nat /\ n.issued >= stored.issued
  BY <1>1, ExecutedKeeps
<1>3. /\ KnownTo(stored) \subseteq KnownTo(n)
      /\ \A overrides \in Seq(Overrides) : Meant(stored, overrides) => Meant(n, overrides)
  BY <1>1, KnownKept
<1> HIDE DEF n
<1>4. ASSUME NEW s \in saves
      PROVE  Issued(n, s.todo)
  <2>1. s.todo \in Seq(Commanded) /\ Issued(stored, s.todo)
    BY DEF LoneSaveInv, ScheduleTypeOK, Saves, Leads
  <2>2. \A x \in ToSet(s.todo) : x \in Commanded
    BY <2>1, LenProperties, ElementOfSeq DEF ToSet
  <2>3. \A x \in ToSet(s.todo) : x.op \in {"deleteHours", "deleteOff"} => x.id \in Nat
    BY <2>2 DEF Commanded
  <2>4. stored.issued \in Nat
    BY <1>1 DEF Tables
  <2>5. QED
    BY <1>2, <2>1, <2>3, <2>4 DEF Issued
<1>5. QED
  BY <1>1, <1>2, <1>3, <1>4 DEF LoneSaveInv, Leads, n

LEMMA CommandKeeps ==
    ASSUME LoneSaveInv, NEW s \in saves, CommandServed(s)
    PROVE  LoneSaveInv'
<1> DEFINE c == Head(s.todo)
           n == Executed(stored, c)
           new == [s EXCEPT !.todo = Tail(@)]
<1>1. s \in Saves /\ Leads(stored, s) /\ stored \in Tables /\ RowsIdentified(stored) /\ s.todo \in Seq(Commanded) /\ s.todo # <<>>
  BY DEF LoneSaveInv, ScheduleTypeOK, Saves, CommandServed
<1>2. c \in Commanded /\ Tail(s.todo) \in Seq(Commanded)
  BY <1>1, TailContains
<1>3. new \in Saves /\ new.next = s.next /\ new.before = s.before /\ new.planned = s.planned
      /\ new.todo = Tail(s.todo) /\ new.alone = s.alone
  BY <1>1, <1>2 DEF Saves
<1>4. /\ saves' = (saves \ {s}) \cup {new} /\ stored' = n
      /\ UNCHANGED <<cached, reading, readFailed, editor, latest, edits>>
  BY DEF CommandServed
<1>5. /\ Issued(n, Tail(s.todo)) /\ HoursLeft(n, Tail(s.todo)) = HoursLeft(stored, s.todo)
      /\ OffsLeft(n, Tail(s.todo)) = OffsLeft(stored, s.todo)
  BY <1>1, CommandLeads DEF Leads
<1>6. /\ n \in Tables /\ RowsIdentified(n)
      /\ cached \in KnownTo(n) \cup {NoSchedule}
      /\ reading \notin {<<>>, Unread} => reading[1] \in KnownTo(n)
      /\ Meant(n, editor.overrides)
      /\ \A r \in saves : r.next \in KnownTo(n) /\ r.before \in KnownTo(n) \cup {NoSchedule} /\ Issued(n, r.todo)
  BY <1>2, RowsStep
<1> HIDE DEF n, new, c
<1>7. Leads(n, new)
  BY <1>1, <1>3, <1>5, <1>6 DEF Leads
<1>8. \A r \in saves \ {s} : ~r.alone
  BY DEF LoneSaveInv, Alone
<1>9. \A r \in saves' : Leads(n, r)
  BY <1>4, <1>6, <1>7, <1>8 DEF Leads
<1>10. Alone'
  BY <1>3, <1>4 DEF LoneSaveInv, Alone
<1>11. ScheduleTypeOK'
  BY <1>3, <1>4, <1>6 DEF LoneSaveInv, ScheduleTypeOK
<1>12. QED
  BY <1>4, <1>6, <1>9, <1>10, <1>11 DEF LoneSaveInv

LEMMA EndKeeps ==
    ASSUME LoneSaveInv, NEW s \in saves, SaveEnds(s) \/ SaveFails(s)
    PROVE  LoneSaveInv'
<1>1. /\ saves' = saves \ {s} /\ reading' = Unread /\ UNCHANGED <<latest, edits>>
      /\ s \in Saves /\ Leads(stored, s) /\ readFailed' \in BOOLEAN
  BY DEF SaveEnds, SaveFails, Finish, LoneSaveInv, ScheduleTypeOK
<1>2. Alone'
  BY <1>1 DEF LoneSaveInv, Alone
<1>3. \A r \in saves' : ~r.alone
  BY <1>1 DEF LoneSaveInv, Alone
<1>4. \/ stored' = stored
      \/ s.todo # <<>> /\ stored' = Executed(stored, Head(s.todo)) /\ Head(s.todo) \in Commanded
  <2>1. s.todo \in Seq(Commanded)
    BY <1>1 DEF Saves
  <2>2. s.todo # <<>> => Head(s.todo) \in Commanded
    BY <2>1, TailContains
  <2>3. QED
    BY <2>2 DEF SaveEnds, SaveFails
<1>5. /\ stored' \in Tables /\ RowsIdentified(stored')
      /\ cached \in KnownTo(stored') \cup {NoSchedule} /\ Meant(stored', editor.overrides)
      /\ \A r \in saves : r.next \in KnownTo(stored') /\ r.before \in KnownTo(stored') \cup {NoSchedule} /\ Issued(stored', r.todo)
  <2>1. CASE stored' = stored
    BY <2>1 DEF LoneSaveInv, ScheduleTypeOK, Leads
  <2>2. CASE stored' # stored
    BY <1>4, <2>2, RowsStep
  <2>3. QED
    BY <2>1, <2>2
<1>6. cached' \in KnownTo(stored') \cup {NoSchedule}
  BY <1>5 DEF SaveEnds, SaveFails
<1>7. editor' \in SheetStates /\ Meant(stored', editor'.overrides)
  <2>1. editor \in SheetStates
    BY DEF LoneSaveInv, ScheduleTypeOK, SheetStates, Weeks
  <2>2. CASE SaveEnds(s)
    BY <1>5, <2>1, <2>2 DEF SaveEnds
  <2>3. CASE SaveFails(s)
    BY <1>5, <1>6, <2>1, <2>3, ResyncedKnown DEF SaveFails
  <2>4. QED
    BY <2>2, <2>3
<1>8. \A r \in saves' : Leads(stored', r)
  BY <1>1, <1>3, <1>5 DEF Leads
<1>9. cached' \in Schedules \cup {NoSchedule}
  BY <1>6 DEF KnownTo
<1>10. ScheduleTypeOK'
  BY <1>1, <1>5, <1>7, <1>9 DEF LoneSaveInv, ScheduleTypeOK, SheetStates, Weeks
<1>11. QED
  BY <1>1, <1>2, <1>5, <1>6, <1>7, <1>8, <1>10 DEF LoneSaveInv

-----------------------------------------------------------------------------
(* The sheet *)

\* A schedule edited in the sheet, whose days off still say what is true.
LEMMA EditKeeps ==
    ASSUME LoneSaveInv, NEW week \in Weeks, NEW overrides \in Seq(Overrides), Meant(stored, overrides),
           Edit(week, overrides)
    PROVE  LoneSaveInv'
<1>1. editor \in SheetStates
  BY DEF LoneSaveInv, ScheduleTypeOK, SheetStates, Weeks
<1>2. editor' \in SheetStates /\ editor'.overrides = overrides
  BY <1>1 DEF Edit, SheetStates
<1>3. edits' \in 0 .. MaxEdits /\ UNCHANGED <<stored, cached, reading, readFailed, saves, latest>>
  BY ScheduleAssumption DEF Edit, LoneSaveInv, ScheduleTypeOK
<1>4. ScheduleTypeOK'
  BY <1>2, <1>3 DEF LoneSaveInv, ScheduleTypeOK, SheetStates, Weeks
<1>5. QED
  BY <1>2, <1>3, <1>4 DEF LoneSaveInv, Alone

LEMMA EditorShape ==
    ASSUME LoneSaveInv
    PROVE  /\ editor \in SheetStates /\ editor.week \in Weeks /\ editor.overrides \in Seq(Overrides)
           /\ Meant(stored, editor.overrides)
           /\ \A d \in DayKeys : editor.week[d] \in [enabled : BOOLEAN, ranges : Seq(Ranges)]
           /\ \A d \in DayKeys, day \in [enabled : BOOLEAN, ranges : Seq(Ranges)] : WithDay(d, day) \in Weeks
BY DEF LoneSaveInv, ScheduleTypeOK, SheetStates, Weeks, WithDay

LEMMA SwitchedTyped ==
    ASSUME NEW day \in [enabled : BOOLEAN, ranges : Seq(Ranges)], NEW on \in BOOLEAN
    PROVE  Switched(day, on) \in [enabled : BOOLEAN, ranges : Seq(Ranges)]
<1>1. MorningToEvening \in Ranges
  BY DEF MorningToEvening, Ranges
<1>2. <<MorningToEvening>> \in Seq(Ranges)
  BY <1>1
<1>3. QED
  BY <1>2 DEF Switched

LEMMA DayEditKeeps ==
    ASSUME LoneSaveInv, NEW d \in DayKeys, ToggleDay(d) \/ AddRange(d)
    PROVE  LoneSaveInv'
<1> DEFINE day == editor.week[d]
           lunch == [from |-> 780, to |-> 840]
<1>1. day \in [enabled : BOOLEAN, ranges : Seq(Ranges)]
  BY EditorShape
<1>2. CASE ToggleDay(d)
  <2>1. Switched(day, ~day.enabled) \in [enabled : BOOLEAN, ranges : Seq(Ranges)]
    BY <1>1, SwitchedTyped
  <2>2. WithDay(d, Switched(day, ~day.enabled)) \in Weeks
    BY <2>1, EditorShape
  <2>3. QED
    BY <1>2, <2>2, EditorShape, EditKeeps DEF ToggleDay
<1>3. CASE AddRange(d)
  <2>1. lunch \in Ranges
    BY DEF Ranges
  <2>2. Append(day.ranges, lunch) \in Seq(Ranges)
    BY <1>1, <2>1, AppendProperties
  <2> DEFINE longer == [enabled |-> TRUE, ranges |-> Append(day.ranges, lunch)]
  <2>3. longer \in [enabled : BOOLEAN, ranges : Seq(Ranges)]
    BY <2>2
  <2>4. Edit(WithDay(d, longer), editor.overrides)
    BY <1>3 DEF AddRange
  <2> HIDE DEF longer
  <2>5. WithDay(d, longer) \in Weeks
    BY <2>3, EditorShape
  <2>6. QED
    BY <2>4, <2>5, EditorShape, EditKeeps
<1>4. QED
  BY <1>2, <1>3

LEMMA RangeEditKeeps ==
    ASSUME LoneSaveInv, NEW d \in DayKeys, NEW i \in DOMAIN editor.week[d].ranges,
           NEW field \in {"from", "to"}, NEW raw \in TimeInputs, EditRange(d, i, field, raw)
    PROVE  LoneSaveInv'
<1> DEFINE q == editor.week[d].ranges
           at == TimeOf(raw)
           range == [q[i] EXCEPT ![field] = at]
           ranges == [q EXCEPT ![i] = range]
           day == [editor.week[d] EXCEPT !.ranges = ranges]
           week == [editor.week EXCEPT ![d] = day]
<1>1. at \in Int
  <2>1. CASE raw.hour \in 0 .. 23 /\ raw.minute \in 0 .. 59
    <3> DEFINE h == raw.hour
               m == raw.minute
    <3>1. h \in Int /\ m \in Int
      BY <2>1
    <3> HIDE DEF h, m
    <3>2. h % 12 \in Int
      BY <3>1
    <3>3. h * 60 + m \in Int /\ ((h % 12) + 0) * 60 + m \in Int /\ ((h % 12) + 12) * 60 + m \in Int /\ -1 \in Int
      BY <3>1, <3>2
    <3>4. QED
      BY <3>3, Zenon DEF TimeOf, NoTime, h, m
  <2>2. CASE ~(raw.hour \in 0 .. 23 /\ raw.minute \in 0 .. 59)
    <3>1. ~(raw.hour \in 1 .. 12 /\ raw.minute \in 0 .. 59)
      BY <2>2
    <3>2. QED
      BY <2>2, <3>1 DEF TimeOf, NoTime
  <2>3. QED
    BY <2>1, <2>2
<1>2. editor.week[d] \in [enabled : BOOLEAN, ranges : Seq(Ranges)] /\ editor.week \in Weeks
  BY EditorShape
<1>3. q \in Seq(Ranges) /\ i \in DOMAIN q
  BY <1>2
<1> HIDE DEF at, q
<1>4. DOMAIN q = 1 .. Len(q) /\ Len(q) \in Nat /\ q[i] \in Ranges
  BY <1>3, LenProperties, ElementOfSeq
<1>5. range \in Ranges
  BY <1>1, <1>4 DEF Ranges
<1> HIDE DEF range
<1>6. ranges \in Seq(Ranges)
  <2>1. q \in [1 .. Len(q) -> Ranges]
    BY <1>3, LenProperties, ElementOfSeq
  <2>2. ranges \in [1 .. Len(q) -> Ranges]
    BY <1>5, <2>1
  <2> HIDE DEF ranges
  <2>3. QED
    BY <1>4, <2>2, FunctionAsSeq
<1> HIDE DEF ranges
<1>7. day \in [enabled : BOOLEAN, ranges : Seq(Ranges)]
  BY <1>2, <1>6
<1> HIDE DEF day
<1>8. week \in Weeks
  BY <1>2, <1>7 DEF Weeks
<1>9. Edit(week, editor.overrides)
  BY DEF EditRange, week, day, ranges, range, at, q
<1> HIDE DEF week
<1>10. QED
  BY <1>8, <1>9, EditorShape, EditKeeps

LEMMA RangeGoneKeeps ==
    ASSUME LoneSaveInv, NEW d \in DayKeys, NEW i \in DOMAIN editor.week[d].ranges, RemoveRange(d, i)
    PROVE  LoneSaveInv'
<1> DEFINE q == editor.week[d].ranges
           day == [editor.week[d] EXCEPT !.ranges = RemoveAt(q, i)]
           week == [editor.week EXCEPT ![d] = day]
<1>1. editor.week[d] \in [enabled : BOOLEAN, ranges : Seq(Ranges)] /\ editor.week \in Weeks
  BY EditorShape
<1>2. q \in Seq(Ranges) /\ i \in DOMAIN q
  BY <1>1
<1>3. RemoveAt(q, i) \in Seq(Ranges)
  <2> HIDE DEF q
  <2>1. i \in 1 .. Len(q)
    BY <1>2, LenProperties
  <2>2. QED
    BY <1>2, <2>1, RemovedSeq
<1>4. day \in [enabled : BOOLEAN, ranges : Seq(Ranges)]
  BY <1>1, <1>3
<1>5. week \in Weeks
  <2> HIDE DEF day
  <2>1. QED
    BY <1>1, <1>4 DEF Weeks
<1>6. Edit(week, editor.overrides)
  BY DEF RemoveRange
<1> HIDE DEF week
<1>7. QED
  BY <1>5, <1>6, EditorShape, EditKeeps

LEMMA MondayKeeps ==
    ASSUME LoneSaveInv, CopyMonday
    PROVE  LoneSaveInv'
<1> DEFINE week == [d \in DayKeys |-> IF d \in Weekdays THEN [enabled |-> TRUE, ranges |-> editor.week[Monday].ranges]
                                      ELSE editor.week[d]]
<1>1. editor.week[Monday] \in [enabled : BOOLEAN, ranges : Seq(Ranges)]
  BY ScheduleAssumption, EditorShape
<1>2. [enabled |-> TRUE, ranges |-> editor.week[Monday].ranges] \in [enabled : BOOLEAN, ranges : Seq(Ranges)]
  BY <1>1
<1>3. week \in Weeks
  BY <1>2, EditorShape DEF Weeks
<1>4. Edit(week, editor.overrides)
  BY DEF CopyMonday
<1> HIDE DEF week
<1>5. QED
  BY <1>3, <1>4, EditorShape, EditKeeps

\* A day off added in the sheet has no identifier yet.
LEMMA OffAddedKeeps ==
    ASSUME LoneSaveInv, NEW date \in NewDates, NEW note \in NoteInputs, AddOff(date, note)
    PROVE  LoneSaveInv'
<1> DEFINE new == [id |-> Local, date |-> date, type |-> TimeOff, note |-> note]
           one == <<new>>
           old == editor.overrides
<1>1. new \in Overrides /\ new.id = Local
  BY ScheduleAssumption DEF Overrides, Local, TimeOff
<1> HIDE DEF new
<1>2. one \in Seq(Overrides) /\ ToSet(one) = {new}
  BY <1>1 DEF ToSet
<1>3. old \in Seq(Overrides) /\ Meant(stored, old)
  BY EditorShape
<1>4. Edit(editor.week, one \o old)
  BY DEF AddOff, new
<1> HIDE DEF one, old
<1>5. one \o old \in Seq(Overrides) /\ ToSet(one \o old) = {new} \cup ToSet(old)
  BY <1>2, <1>3, ConcatContains
<1>6. Meant(stored, one \o old)
  BY <1>1, <1>3, <1>5 DEF Meant, Means
<1>7. QED
  BY <1>4, <1>5, <1>6, EditorShape, EditKeeps

LEMMA OffGoneKeeps ==
    ASSUME LoneSaveInv, NEW i \in DOMAIN editor.overrides, RemoveOff(i)
    PROVE  LoneSaveInv'
<1> DEFINE q == editor.overrides
<1>1. q \in Seq(Overrides) /\ Meant(stored, q) /\ i \in DOMAIN q
  BY EditorShape
<1>2. Edit(editor.week, RemoveAt(q, i))
  BY DEF RemoveOff
<1> HIDE DEF q
<1>3. i \in 1 .. Len(q) /\ DOMAIN q = 1 .. Len(q) /\ Len(q) \in Nat
  BY <1>1, LenProperties
<1>4. /\ RemoveAt(q, i) \in Seq(Overrides) /\ Len(RemoveAt(q, i)) = Len(q) - 1
      /\ \A j \in 1 .. Len(q) - 1 : RemoveAt(q, i)[j] = IF j < i THEN q[j] ELSE q[j + 1]
  BY <1>1, <1>3, RemovedSeq
<1>5. DOMAIN RemoveAt(q, i) = 1 .. Len(q) - 1
  BY <1>4, LenProperties
<1>6. ToSet(RemoveAt(q, i)) \subseteq ToSet(q)
  <2>1. \A j \in 1 .. Len(q) - 1 : j \in DOMAIN q /\ j + 1 \in DOMAIN q
    BY <1>3
  <2>2. QED
    BY <1>4, <1>5, <2>1 DEF ToSet
<1>7. Meant(stored, RemoveAt(q, i))
  BY <1>1, <1>6 DEF Meant
<1>8. QED
  BY <1>2, <1>4, <1>7, EditorShape, EditKeeps

-----------------------------------------------------------------------------
(* Saves from the page and from the sheet *)

LEMMA ShownToggleKeeps ==
    ASSUME LoneSaveInv, NEW d \in DayKeys, ToggleShown(d)
    PROVE  LoneSaveInv'
<1> DEFINE s == Shown(cached)
           day == s.week[d]
           week == [s.week EXCEPT ![d] = Switched(day, ~day.enabled)]
           next == [s EXCEPT !.week[d] = Switched(day, ~day.enabled)]
<1>1. s \in KnownTo(stored)
  BY ShownKnown DEF LoneSaveInv
<1>2. Save("view", next)
  BY DEF ToggleShown
<1>3. UNCHANGED edits /\ editor' = Resynced(editor, cached')
  BY DEF ToggleShown
<1> HIDE DEF s
<1>4. s.week \in Weeks /\ s.overrides \in Seq(Overrides) /\ Meant(stored, s.overrides)
      /\ s = [week |-> s.week, overrides |-> s.overrides]
  BY <1>1, KnownShape
<1>5. day \in [enabled : BOOLEAN, ranges : Seq(Ranges)]
  BY <1>4 DEF Weeks
<1>6. Switched(day, ~day.enabled) \in [enabled : BOOLEAN, ranges : Seq(Ranges)]
  BY <1>5, SwitchedTyped
<1>7. week \in Weeks
  BY <1>4, <1>6 DEF Weeks
<1>8. next = [week |-> week, overrides |-> s.overrides]
  BY <1>4
<1> HIDE DEF week, next
<1>9. next \in KnownTo(stored)
  BY <1>4, <1>7, <1>8, KnownMade
<1>10. cached' = next
  BY <1>2 DEF Save
<1>11. editor' \in SheetStates /\ Meant(stored, editor'.overrides)
  BY <1>3, <1>9, <1>10, EditorShape, ResyncedKnown
<1>12. QED
  BY <1>2, <1>3, <1>9, <1>11, SaveKeeps DEF Editors

LEMMA ResetKeeps ==
    ASSUME LoneSaveInv, ResetSchedule
    PROVE  LoneSaveInv'
<1> DEFINE sheet == [editor EXCEPT !.week = DefaultSchedule.week, !.overrides = DefaultSchedule.overrides]
<1>1. Save("sheet", EmptySchedule) /\ UNCHANGED edits /\ editor' = Resynced(sheet, cached') /\ cached' = EmptySchedule
  BY DEF ResetSchedule, Save
<1>2. EmptySchedule \in KnownTo(stored)
  BY EmptyKnown
<1>3. DefaultSchedule.week \in Weeks /\ DefaultSchedule.overrides \in Seq(Overrides) /\ Meant(stored, DefaultSchedule.overrides)
  BY DefaultKnown, KnownShape
<1>4. sheet \in SheetStates /\ sheet.overrides = DefaultSchedule.overrides
  BY <1>3, EditorShape DEF SheetStates
<1> HIDE DEF sheet
<1>5. editor' \in SheetStates /\ Meant(stored, editor'.overrides)
  BY <1>1, <1>2, <1>3, <1>4, ResyncedKnown
<1>6. QED
  BY <1>1, <1>2, <1>5, SaveKeeps DEF Editors

LEMMA SheetSaveKeeps ==
    ASSUME LoneSaveInv, SaveEditor
    PROVE  LoneSaveInv'
<1>1. CASE WithoutRanges # {}
  <2>1. /\ editor' = [editor EXCEPT !.errors = TRUE]
        /\ UNCHANGED <<stored, cached, reading, readFailed, saves, latest, edits>>
    BY <1>1 DEF SaveEditor
  <2>2. editor' \in SheetStates /\ editor'.overrides = editor.overrides
    BY <2>1, EditorShape DEF SheetStates
  <2>3. ScheduleTypeOK'
    BY <2>1, <2>2 DEF LoneSaveInv, ScheduleTypeOK, SheetStates, Weeks
  <2>4. QED
    BY <2>1, <2>2, <2>3 DEF LoneSaveInv, Alone
<1>2. CASE WithoutRanges = {}
  <2> DEFINE next == [week |-> editor.week, overrides |-> editor.overrides]
  <2>1. /\ Save("sheet", next) /\ UNCHANGED edits
        /\ editor' = [editor EXCEPT !.open = FALSE, !.errors = FALSE]
    BY <1>2 DEF SaveEditor
  <2>2. next \in KnownTo(stored)
    BY EditorShape, KnownMade
  <2>3. editor' \in SheetStates /\ editor'.overrides = editor.overrides
    BY <2>1, EditorShape DEF SheetStates
  <2> HIDE DEF next
  <2>4. QED
    BY <2>1, <2>2, <2>3, EditorShape, SaveKeeps DEF Editors
<1>3. QED
  BY <1>1, <1>2

-----------------------------------------------------------------------------
(* The invariant *)

LEMMA LoneSaveStarts ==
    ASSUME ScheduleInit
    PROVE  LoneSaveInv
<1>1. ClosedEditor \in SheetStates /\ Meant(InitialRows, ClosedEditor.overrides)
  BY ClosedKnown
<1>2. ScheduleTypeOK
  <2>1. 0 \in 0 .. MaxSaves /\ 0 \in 0 .. MaxEdits
    BY ScheduleAssumption
  <2>2. latest \in [Editors -> 0 .. MaxSaves]
    BY <2>1 DEF ScheduleInit
  <2>3. editor \in SheetStates
    BY <1>1 DEF ScheduleInit
  <2>4. QED
    BY <2>1, <2>2, <2>3, ScheduleAssumption DEF ScheduleInit, ScheduleTypeOK, SheetStates, Weeks
<1>3. QED
  BY <1>1, <1>2, ScheduleAssumption DEF ScheduleInit, LoneSaveInv, RowsIdentified, Alone

LEMMA LoneSaveKept ==
    ASSUME LoneSaveInv, [ScheduleNext]_scheduleVars
    PROVE  LoneSaveInv'
<1>1. CASE WindowFocus \/ ReadServed \/ ReadLands \/ ReadFails \/ OpenEditor \/ CloseEditor
  BY <1>1, QueryKeeps
<1>2. ASSUME NEW s \in saves, PlanSave(s) \/ CommandServed(s) \/ SaveEnds(s) \/ SaveFails(s)
      PROVE  LoneSaveInv'
  BY <1>2, PlanKeeps, CommandKeeps, EndKeeps
<1>3. ASSUME NEW d \in DayKeys, ToggleShown(d) \/ ToggleDay(d) \/ AddRange(d)
      PROVE  LoneSaveInv'
  BY <1>3, ShownToggleKeeps, DayEditKeeps
<1>4. ASSUME NEW d \in DayKeys, NEW i \in DOMAIN editor.week[d].ranges,
             RemoveRange(d, i) \/ \E field \in {"from", "to"}, raw \in TimeInputs : EditRange(d, i, field, raw)
      PROVE  LoneSaveInv'
  BY <1>4, RangeGoneKeeps, RangeEditKeeps
<1>5. CASE CopyMonday \/ ResetSchedule \/ SaveEditor
  BY <1>5, MondayKeeps, ResetKeeps, SheetSaveKeeps
<1>6. ASSUME NEW date \in NewDates, NEW note \in NoteInputs, AddOff(date, note)
      PROVE  LoneSaveInv'
  BY <1>6, OffAddedKeeps
<1>7. ASSUME NEW i \in DOMAIN editor.overrides, RemoveOff(i)
      PROVE  LoneSaveInv'
  BY <1>7, OffGoneKeeps
<1>8. CASE UNCHANGED scheduleVars
  BY <1>8 DEF scheduleVars, LoneSaveInv, ScheduleTypeOK, Alone
<1>9. QED
  BY <1>1, <1>2, <1>3, <1>4, <1>5, <1>6, <1>7, <1>8 DEF ScheduleNext

LEMMA LoneSaveInvariant == ScheduleSpec => []LoneSaveInv
BY LoneSaveStarts, LoneSaveKept, PTL DEF ScheduleSpec

\* The server's rows, what the page and the sheet show, saves and the calls they
\* still make keep their types, whatever is typed into the sheet.
THEOREM ScheduleTypes == ScheduleSpec => []ScheduleTypeOK
<1>1. LoneSaveInv => ScheduleTypeOK
  BY DEF LoneSaveInv
<1>2. QED
  BY <1>1, LoneSaveInvariant, PTL

\* A save that no other overlaps, and whose calls succeed, leaves the server with
\* the hours and, as far ahead as it tells them, the days off that were saved: the differences computed by
\* generateDiffCommands lead there one call after the other.
THEOREM SaveReaches == ScheduleSpec => SaveReachesServer
<1> DEFINE Reached == \A s \in saves : s.planned /\ s.todo = <<>> /\ s.alone /\ s \notin saves' =>
              /\ HoursKept(s.next) = {[day |-> h.day, range |-> RangeOf(h)] : h \in stored.hours}
              /\ OffsReached(OffsKept(s.next), {<<f.date, f.reason>> : f \in stored.offs})
<1>1. LoneSaveInv => Reached
  <2> SUFFICES ASSUME LoneSaveInv, NEW s \in saves, s.planned, s.todo = <<>>, s.alone
               PROVE  /\ HoursKept(s.next) = {[day |-> h.day, range |-> RangeOf(h)] : h \in stored.hours}
                      /\ OffsReached(OffsKept(s.next), {<<f.date, f.reason>> : f \in stored.offs})
    OBVIOUS
  <2>1. HoursLeft(stored, <<>>) = HoursKept(s.next) /\ OffsReached(OffsKept(s.next), OffsLeft(stored, <<>>))
    BY DEF LoneSaveInv, Leads
  <2>2. ToSet(<<>>) = {}
    BY EmptySeq DEF ToSet
  <2>3. Deletes(<<>>, "deleteHours") = {} /\ Deletes(<<>>, "deleteOff") = {}
    BY <2>2 DEF Deletes
  <2>4. QED
    BY <2>1, <2>2, <2>3 DEF HoursLeft, OffsLeft
<1>2. QED
  <2>1. LoneSaveInv /\ [ScheduleNext]_scheduleVars => [Reached]_scheduleVars
    BY <1>1
  <2> HIDE DEF Reached
  <2>2. ScheduleSpec => [][Reached]_scheduleVars
    BY <2>1, LoneSaveInvariant, PTL DEF ScheduleSpec
  <2>3. QED
    BY <2>2 DEF SaveReachesServer, Reached
===============================================================================
