------------------------------ MODULE Client_proofs ------------------------------
(***************************************************************************)
(* The browser's modules composed (MCClient), for all values of their      *)
(* constants: what is proved of a part alone holds of it in the whole,     *)
(* which runs one part and leaves the others at rest.                      *)
(***************************************************************************)
EXTENDS MCClient, Board_proofs, Pages_proofs, Schedule_proofs

-----------------------------------------------------------------------------
(* The parts *)

LEMMA PartsStart ==
    ASSUME Init
    PROVE  /\ ImportInit /\ SessionInit /\ SocketInit /\ BoardInit /\ MailInit
           /\ ScheduleInit /\ StudentInit /\ SettingsInit /\ NoticeInit /\ GoalInit
BY DEF Init

\* A step of the whole is a step of one part, and of the others none.
LEMMA PartsStep ==
    ASSUME [Next]_<<part, clientVars>>
    PROVE  /\ [ImportNext]_importVars
           /\ [SessionNext]_sessionVars
           /\ [SocketNext]_socketVars
           /\ [BoardNext]_boardVars
           /\ [MailNext]_mailVars
           /\ [ScheduleNext]_scheduleVars
           /\ [StudentNext]_studentVars
           /\ [SettingsNext]_settingsVars
           /\ [NoticeNext]_noticeVars
           /\ [GoalNext]_goalVars
<1>1. [ImportNext]_importVars
  BY Zenon DEF Next, clientVars
<1>2. [SessionNext]_sessionVars
  BY Zenon DEF Next, clientVars
<1>3. [SocketNext]_socketVars
  BY Zenon DEF Next, clientVars
<1>4. [BoardNext]_boardVars
  BY Zenon DEF Next, clientVars
<1>5. [MailNext]_mailVars
  BY Zenon DEF Next, clientVars
<1>6. [ScheduleNext]_scheduleVars
  BY Zenon DEF Next, clientVars
<1>7. [StudentNext]_studentVars
  BY Zenon DEF Next, clientVars
<1>8. [SettingsNext]_settingsVars
  BY Zenon DEF Next, clientVars
<1>9. [NoticeNext]_noticeVars
  BY Zenon DEF Next, clientVars
<1>10. [GoalNext]_goalVars
  BY Zenon DEF Next, clientVars
<1>11. QED
  BY <1>1, <1>2, <1>3, <1>4, <1>5, <1>6, <1>7, <1>8, <1>9, <1>10

LEMMA PartsRun ==
    Spec => /\ ImportInit /\ [][ImportNext]_importVars
            /\ SessionInit /\ [][SessionNext]_sessionVars
            /\ SocketInit /\ [][SocketNext]_socketVars
            /\ BoardInit /\ [][BoardNext]_boardVars
            /\ MailInit /\ [][MailNext]_mailVars
            /\ ScheduleInit /\ [][ScheduleNext]_scheduleVars
            /\ StudentInit /\ [][StudentNext]_studentVars
            /\ SettingsInit /\ [][SettingsNext]_settingsVars
            /\ NoticeInit /\ [][NoticeNext]_noticeVars
            /\ GoalInit /\ [][GoalNext]_goalVars
BY PartsStart, PartsStep, PTL DEF Spec

-----------------------------------------------------------------------------
(* What holds of the whole *)

LEMMA PartsTyped ==
    Spec => /\ []ImportTypeOK /\ []SessionTypeOK /\ []SocketTypeOK /\ []BoardTypeOK /\ []MailTypeOK
            /\ []ScheduleTypeOK /\ []StudentTypeOK /\ []SettingsTypeOK /\ []NoticeTypeOK /\ []GoalTypeOK
<1>1. SocketInv => SocketTypeOK
  BY DEF SocketInv
<1>2. BellInv => NoticeTypeOK
  BY DEF BellInv
<1>3. Spec => []SocketTypeOK /\ []NoticeTypeOK
  BY <1>1, <1>2, PartsRun, SocketInvariant, BellInvariant, PTL
<1>4. Spec => []ImportTypeOK /\ []SessionTypeOK /\ []BoardTypeOK /\ []MailTypeOK
  BY PartsRun, ImportTypes, SessionTypes, BoardTypes, MailTypes, PTL
     DEF ImportSpec, SessionSpec, BoardSpec, MailSpec
<1>5. Spec => []ScheduleTypeOK /\ []StudentTypeOK /\ []SettingsTypeOK /\ []GoalTypeOK
  BY PartsRun, ScheduleTypes, StudentTypes, SettingsTypes, GoalTypes, PTL
     DEF ScheduleSpec, StudentSpec, SettingsSpec, GoalSpec
<1>6. QED
  BY <1>3, <1>4, <1>5, PTL

\* The state of every part keeps its type while the browser runs.
THEOREM ClientTypes == Spec => []ClientTypeOK
BY PartsTyped, PTL DEF ClientTypeOK

\* The safety properties of the parts, of the whole.
THEOREM ClientSafe ==
    Spec => /\ [](SuccessWasStored /\ ShownUserIsSignedIn /\ OneLiveSocket)
            /\ [](SettledIsTrue /\ OfferedIsLegal /\ ReceivedWasChosen /\ GoalsSurvive)
            /\ [](ScheduleShownIsServers /\ BookingPageIsTrue /\ SettingsShownAreServers /\ BadgeMatchesList)
            /\ TypedTextStays /\ SaveReachesServer
<1>1. SocketInv => OneLiveSocket
  BY DEF SocketInv, LiveIsCurrent, OneLiveSocket
<1>2. BellInv => BadgeMatchesList
  BY DEF BellInv, BadgeMatchesList, Counts
<1>3. Spec => []OneLiveSocket /\ []BadgeMatchesList
  BY <1>1, <1>2, PartsRun, SocketInvariant, BellInvariant, PTL
<1>4. Spec => []SuccessWasStored /\ []ShownUserIsSignedIn /\ []BookingPageIsTrue /\ []SettingsShownAreServers
  BY PartsRun, Imported, ShownUser, BookingPage, SettingsShown, PTL
     DEF ImportSpec, SessionSpec, StudentSpec, SettingsSpec
<1>5. Spec => []SettledIsTrue /\ []OfferedIsLegal /\ []ReceivedWasChosen /\ []GoalsSurvive
  BY PartsRun, SettledTrue, OfferedLegal, Received, Survive, PTL
     DEF BoardSpec, MailSpec, GoalSpec
<1>6. Spec => []ScheduleShownIsServers
  BY PartsRun, ScheduleShown, PTL DEF ScheduleSpec
<1>7. Spec => TypedTextStays
  BY PartsRun, TypedStays, PTL DEF MailSpec
<1>8. Spec => SaveReachesServer
  BY PartsRun, SaveReaches, PTL DEF ScheduleSpec
<1>9. QED
  BY <1>3, <1>4, <1>5, <1>6, <1>7, <1>8, PTL

-----------------------------------------------------------------------------
(* The screens on the cases *)

OnBoard(cases) == {k \in 1 .. Len(cases) : cases[k].status # "dismissed"}

\* The cards of a list: one of each case that is not dismissed, in the order of the list.
LEMMA CardsOfList ==
    ASSUME NEW cases \in Seq(CaseRows), NEW locals
    PROVE  /\ Cardinality(OnBoard(cases)) \in Nat
           /\ Enumerates(Ordered(OnBoard(cases), Ascending(OnBoard(cases))), OnBoard(cases), Ascending(OnBoard(cases)))
           /\ DOMAIN CardsOf(cases, locals, {}) = 1 .. Cardinality(OnBoard(cases))
           /\ Len(CardsOf(cases, locals, {})) = Cardinality(OnBoard(cases))
           /\ CardsOf(cases, locals, {}) \in Seq(ToSet(CardsOf(cases, locals, {})))
           /\ \A i \in 1 .. Cardinality(OnBoard(cases)) :
                 CardsOf(cases, locals, {})[i] =
                    Card(cases[Ordered(OnBoard(cases), Ascending(OnBoard(cases)))[i]],
                         locals[cases[Ordered(OnBoard(cases), Ascending(OnBoard(cases)))[i]].sid])
<1> DEFINE K == OnBoard(cases)
           n == Cardinality(K)
           order == Ordered(K, Ascending(K))
           shown == Arranged(cases, K, Ascending(K))
           cards == [i \in DOMAIN shown |-> Card(shown[i], locals[shown[i].sid])]
<1>1. Len(cases) \in Nat /\ DOMAIN cases = 1 .. Len(cases)
  BY LenProperties
<1>2. K \in SUBSET (1 .. Len(cases))
  BY DEF OnBoard
<1> HIDE DEF K
<1>3. n \in Nat /\ Enumerates(order, K, Ascending(K)) /\ OrderOn(K, Ascending(K))
  BY <1>1, <1>2, AscendingOrder
<1>4. shown \in Seq(CaseRows) /\ Len(shown) = n /\ \A i \in 1 .. n : shown[i] = cases[order[i]]
  BY <1>2, <1>3, ArrangedFacts
<1>5. DOMAIN shown = 1 .. n
  BY <1>4, LenProperties
<1>6. CardsOf(cases, locals, {}) = cards
  <2>1. {i \in DOMAIN cases : cases[i].status # "dismissed" /\ cases[i].sid \notin {}} = K
    BY <1>1 DEF K, OnBoard
  <2>2. QED
    BY <2>1 DEF CardsOf, Filtered
<1> HIDE DEF n, order, shown
<1>7. \A i \in 1 .. n : cards[i] = Card(cases[order[i]], locals[cases[order[i]].sid])
  BY <1>4, <1>5
<1>8. cards \in [1 .. n -> ToSet(cards)] /\ DOMAIN cards = 1 .. n
  BY <1>5 DEF ToSet
<1> HIDE DEF cards
<1>9. cards \in Seq(ToSet(cards)) /\ Len(cards) = n
  BY <1>3, <1>8, FunctionAsSeq
<1>10. QED
  BY <1>3, <1>6, <1>7, <1>8, <1>9 DEF K, n, order

\* The places I of cards are those of the cases X.
CardsOfCases(I, X, cases, locals) ==
    /\ X \in SUBSET OnBoard(cases)
    /\ I = {i \in DOMAIN CardsOf(cases, locals, {}) : Ordered(OnBoard(cases), Ascending(OnBoard(cases)))[i] \in X}

\* A number counted on the cards is the number of their cases.
LEMMA CardsCounted ==
    ASSUME NEW cases \in Seq(CaseRows), NEW locals, NEW I, NEW X, CardsOfCases(I, X, cases, locals)
    PROVE  Cardinality(I) = Cardinality(X)
<1>1. Len(cases) \in Nat
  BY LenProperties
<1>2. OnBoard(cases) \in SUBSET (1 .. Len(cases)) /\ X \in SUBSET OnBoard(cases)
  BY DEF OnBoard, CardsOfCases
<1>3. Cardinality({i \in 1 .. Cardinality(OnBoard(cases)) : Ordered(OnBoard(cases), Ascending(OnBoard(cases)))[i] \in X}) = Cardinality(X)
  BY <1>1, <1>2, CountsAreCards
<1>4. DOMAIN CardsOf(cases, locals, {}) = 1 .. Cardinality(OnBoard(cases))
  BY CardsOfList
<1>5. QED
  BY <1>3, <1>4 DEF CardsOfCases

\* What cases and cards have in common, whichever columns, problems and risks they have.
LEMMA CardFacts ==
    ASSUME NEW row, NEW local
    PROVE  /\ Card(row, local).severity = "high" <=> "critical" \in row.risk
           /\ Card(row, local).status \in {"new", "accepted"} <=> FromBackend(row.status) \in {"new", "accepted"}
           /\ Card(row, local).status = "resolved" <=> row.status \in {"pending_review", "resolved", "failed"}
           /\ Card(row, local).status \in {"new", "accepted", "scheduled", "in_progress", "resolved"}
           /\ Card(row, local).problem \in {"failed_final", "failed_midterm", "low_average"}
           /\ RiskKey(row.risk) \in {"critical", "elevated", "normal", "unknown"}
<1>1. FromBackend(row.status) \in {"new", "accepted", "scheduled", "in_progress", "resolved"}
  BY DEF FromBackend
<1>2. FromBackend(row.status) = "resolved" <=> row.status \in {"pending_review", "resolved", "failed"}
  BY DEF FromBackend
<1>3. Card(row, local).status = ColumnOf(row.status, row.advisor)
  BY DEF Card
<1>4. Card(row, local).severity = SeverityOf(row.risk) /\ Card(row, local).problem = ProblemOf(row.risk)
  BY DEF Card
<1>5. SeverityOf(row.risk) = "high" <=> "critical" \in row.risk
  BY DEF SeverityOf
<1>6. ProblemOf(row.risk) \in {"failed_final", "failed_midterm", "low_average"}
  BY DEF ProblemOf
<1>7. RiskKey(row.risk) \in {"critical", "elevated", "normal", "unknown"}
  BY DEF RiskKey
<1>8. /\ ColumnOf(row.status, row.advisor) \in {"new", "accepted"} <=> FromBackend(row.status) \in {"new", "accepted"}
      /\ ColumnOf(row.status, row.advisor) = "resolved" <=> FromBackend(row.status) = "resolved"
      /\ ColumnOf(row.status, row.advisor) \in {"new", "accepted", "scheduled", "in_progress", "resolved"}
  BY <1>1 DEF ColumnOf
<1>9. QED
  BY <1>2, <1>3, <1>4, <1>5, <1>6, <1>7, <1>8

ColumnNames == {"new", "accepted", "scheduled", "in_progress", "resolved"}

\* The columns of the Kanban.
LEMMA ColumnsNamed == ToSet(Columns) = ColumnNames
<1>1. DOMAIN Columns = 1 .. 5
  BY DEF Columns
<1>2. 1 .. 5 = {1, 2, 3, 4, 5}
  OBVIOUS
<1>3. ToSet(Columns) = {Columns[i] : i \in {1, 2, 3, 4, 5}}
  BY <1>1, <1>2 DEF ToSet
<1>4. /\ Columns[1] = "new" /\ Columns[2] = "accepted" /\ Columns[3] = "scheduled"
      /\ Columns[4] = "in_progress" /\ Columns[5] = "resolved"
  BY DEF Columns
<1>5. QED
  BY <1>3, <1>4 DEF ColumnNames

\* Every case that waits is counted once on the overview and once on the board.
LEMMA UrgentAgree ==
    ASSUME NEW cases \in Seq(CaseRows), NEW locals
    PROVE  PriorityCount(cases) =
              CountIn(CardsOf(cases, locals, {}), LAMBDA a : a.severity = "high" /\ a.status \in {"new", "accepted"})
<1> DEFINE cards == CardsOf(cases, locals, {})
           K == OnBoard(cases)
           order == Ordered(K, Ascending(K))
           I == {i \in DOMAIN cards : cards[i].severity = "high" /\ cards[i].status \in {"new", "accepted"}}
           X == {k \in K : FromBackend(cases[k].status) \in {"new", "accepted"} /\ "critical" \in cases[k].risk}
<1>1. /\ DOMAIN cards = 1 .. Cardinality(K)
      /\ \A i \in 1 .. Cardinality(K) : cards[i] = Card(cases[order[i]], locals[cases[order[i]].sid])
      /\ Enumerates(order, K, Ascending(K))
  BY CardsOfList
<1> HIDE DEF cards, K, order
<1>2. \A i \in 1 .. Cardinality(K) : order[i] \in K
  BY <1>1 DEF Enumerates
<1>3. \A i \in DOMAIN cards :
         cards[i].severity = "high" /\ cards[i].status \in {"new", "accepted"}
            <=> FromBackend(cases[order[i]].status) \in {"new", "accepted"} /\ "critical" \in cases[order[i]].risk
  BY <1>1, CardFacts
<1>4. I = {i \in DOMAIN cards : order[i] \in X}
  BY <1>1, <1>2, <1>3
<1> HIDE DEF I, X
<1>5. X \in SUBSET K
  BY DEF X
<1>6. Cardinality(I) = Cardinality(X)
  <2>1. CardsOfCases(I, X, cases, locals)
    BY <1>4, <1>5 DEF CardsOfCases, cards, K, order
  <2>2. QED
    BY <2>1, CardsCounted
<1>7. DOMAIN cases = 1 .. Len(cases)
  BY LenProperties
<1>8. {k \in DOMAIN cases : /\ cases[k].status # "dismissed"
                           /\ FromBackend(cases[k].status) \in {"new", "accepted"}
                           /\ "critical" \in cases[k].risk} = X
  BY <1>7 DEF X, K, OnBoard
<1>9. QED
  BY <1>6, <1>8 DEF PriorityCount, CountIn, I, cards

\* Every card is counted in one column, and under one problem.
LEMMA ColumnsAddUp ==
    ASSUME NEW cases \in Seq(CaseRows), NEW locals
    PROVE  LET cards == CardsOf(cases, locals, {})
               total == TotalCounts(cards)
               problems == ProblemCounts(cards)
           IN  /\ total["new"] + total["accepted"] + total["scheduled"] + total["in_progress"] + total["resolved"] = Len(cards)
               /\ problems["failed_final"] + problems["failed_midterm"] + problems["low_average"] = Len(cards)
<1> DEFINE cards == CardsOf(cases, locals, {})
           n == Cardinality(OnBoard(cases))
           status == [i \in 1 .. n |-> cards[i].status]
           problem == [i \in 1 .. n |-> cards[i].problem]
           Those(label, x) == {i \in 1 .. n : label[i] = x}
<1>1. n \in Nat /\ DOMAIN cards = 1 .. n /\ Len(cards) = n
  BY CardsOfList
<1>2. \A i \in 1 .. n : /\ cards[i].status \in {"new", "accepted", "scheduled", "in_progress", "resolved"}
                        /\ cards[i].problem \in {"failed_final", "failed_midterm", "low_average"}
  BY CardsOfList, CardFacts
<1> HIDE DEF cards, n
<1>3. IsFiniteSet(1 .. n) /\ Cardinality(1 .. n) = n
  BY <1>1, FirstNumbers
<1>4. \A label, x, y : x # y => Those(label, x) \cap Those(label, y) = {}
  OBVIOUS
<1>5. /\ Those(status, "new") \cup Those(status, "accepted") \cup Those(status, "scheduled")
            \cup Those(status, "in_progress") \cup Those(status, "resolved") = 1 .. n
      /\ Those(problem, "failed_final") \cup Those(problem, "failed_midterm") \cup Those(problem, "low_average") = 1 .. n
  BY <1>2
<1>6. /\ \A column \in ColumnNames : TotalCounts(cards)[column] = Cardinality(Those(status, column))
      /\ \A p \in Problem3 : ProblemCounts(cards)[p] = Cardinality(Those(problem, p))
  <2>1. \A x : Those(status, x) = {i \in DOMAIN cards : cards[i].status = x}
    BY <1>1
  <2>2. \A x : Those(problem, x) = {i \in DOMAIN cards : cards[i].problem = x}
    BY <1>1
  <2> HIDE DEF Of, status, problem
  <2>3. QED
    BY <2>1, <2>2, ColumnsNamed DEF TotalCounts, ProblemCounts, CountIn
<1> HIDE DEF status, problem
<1> HIDE DEF Of
<1>7. Cardinality(Those(status, "new")) + Cardinality(Those(status, "accepted")) + Cardinality(Those(status, "scheduled"))
         + Cardinality(Those(status, "in_progress")) + Cardinality(Those(status, "resolved")) = n
  <2> DEFINE R == Those(status, "new") \cup Those(status, "accepted") \cup Those(status, "scheduled")
  <2>1. \A x, y \in ColumnNames : x # y => Those(status, x) \cap Those(status, y) = {}
    BY <1>4
  <2>2. Parted(R, Those(status, "new"), Those(status, "accepted"), Those(status, "scheduled"))
    BY <2>1 DEF ColumnNames, Parted
  <2>3. Parted(1 .. n, R, Those(status, "in_progress"), Those(status, "resolved"))
    BY <1>5, <2>1 DEF ColumnNames, Parted
  <2> HIDE DEF R
  <2>4. /\ Cardinality(R) + Cardinality(Those(status, "in_progress")) + Cardinality(Those(status, "resolved")) = n
        /\ IsFiniteSet(R)
    BY <1>3, <2>3, PartsAddUp
  <2>5. Cardinality(Those(status, "new")) + Cardinality(Those(status, "accepted")) + Cardinality(Those(status, "scheduled")) = Cardinality(R)
    BY <2>2, <2>4, PartsAddUp
  <2>6. QED
    BY <2>4, <2>5
<1>8. Cardinality(Those(problem, "failed_final")) + Cardinality(Those(problem, "failed_midterm"))
         + Cardinality(Those(problem, "low_average")) = n
  <2>1. Parted(1 .. n, Those(problem, "failed_final"), Those(problem, "failed_midterm"), Those(problem, "low_average"))
    BY <1>4, <1>5 DEF Parted
  <2>2. QED
    BY <1>3, <2>1, PartsAddUp
<1>9. QED
  BY <1>1, <1>6, <1>7, <1>8 DEF cards, ColumnNames, Problem3

\* No column loses or doubles a card when it is sorted.
LEMMA ColumnsHoldCards ==
    ASSUME NEW cases \in Seq(CaseRows), NEW locals, NEW column \in ToSet(Columns)
    PROVE  Len(Grouped(CardsOf(cases, locals, {}))[column]) = TotalCounts(CardsOf(cases, locals, {}))[column]
<1> DEFINE cards == CardsOf(cases, locals, {})
           I == {i \in DOMAIN cards : cards[i].status = column}
           inColumn == Filtered(cards, LAMBDA a : a.status = column)
<1>1. cards \in Seq(ToSet(cards)) /\ Len(cards) \in Nat /\ DOMAIN cards = 1 .. Len(cards)
  <2>1. cards \in Seq(ToSet(cards))
    BY CardsOfList
  <2> HIDE DEF cards
  <2>2. QED
    BY <2>1, LenProperties
<1> HIDE DEF cards
<1>2. I \in SUBSET (1 .. Len(cards))
  BY <1>1
<1>3. inColumn = Arranged(cards, I, Ascending(I))
  BY DEF Filtered
<1> HIDE DEF I, inColumn
<1>4. OrderOn(I, Ascending(I))
  BY <1>1, <1>2, AscendingOrder
<1>5. inColumn \in Seq(ToSet(cards)) /\ Len(inColumn) = Cardinality(I)
  BY <1>1, <1>2, <1>3, <1>4, ArrangedFacts
<1>6. /\ Len(Sorted(inColumn, AcceptedBefore)) = Len(inColumn)
      /\ Len(Sorted(inColumn, ScheduledBefore)) = Len(inColumn)
  BY <1>5, ArrangedLen DEF Sorted
<1>7. Grouped(cards)[column] \in {inColumn, Sorted(inColumn, AcceptedBefore), Sorted(inColumn, ScheduledBefore)}
  BY DEF Grouped, inColumn
<1>8. TotalCounts(cards)[column] = Cardinality(I)
  BY DEF TotalCounts, CountIn, I
<1>9. QED
  BY <1>5, <1>6, <1>7, <1>8 DEF cards

\* The administrators' figures split the list by risk and by who has the case.
LEMMA StatsAddUp ==
    ASSUME NEW cases \in Seq(CaseRows)
    PROVE  LET stats == CaseStats(cases)
               risks == stats.byRisk
           IN  /\ risks["critical"] + risks["elevated"] + risks["normal"] + risks["unknown"] = Len(cases)
               /\ stats.assigned + stats.unassigned = Len(cases)
<1> DEFINE n == Len(cases)
           Risk(x) == {i \in DOMAIN cases : RiskKey(cases[i].risk) = x}
           Unassigned == {i \in DOMAIN cases : cases[i].advisor = Nobody}
           Taken == {i \in DOMAIN cases : cases[i].advisor # Nobody}
           R == Risk("critical") \cup Risk("elevated")
           keys == {"critical", "elevated", "normal", "unknown"}
<1>1. n \in Nat /\ DOMAIN cases = 1 .. n
  BY LenProperties
<1>2. IsFiniteSet(1 .. n) /\ Cardinality(1 .. n) = n /\ Cardinality({}) = 0
  BY <1>1, FirstNumbers, FS_EmptySet
<1>3. \A i \in DOMAIN cases : RiskKey(cases[i].risk) \in keys
  BY CardFacts
<1>4. Parted(R, Risk("critical"), Risk("elevated"), {}) /\ Parted(1 .. n, R, Risk("normal"), Risk("unknown"))
  BY <1>1, <1>3 DEF Parted
<1>5. Parted(1 .. n, Taken, Unassigned, {})
  BY <1>1 DEF Parted
<1>6. /\ CaseStats(cases).byRisk = [k \in keys |-> Cardinality(Risk(k))]
      /\ CaseStats(cases).assigned = Cardinality(Taken) /\ CaseStats(cases).unassigned = Cardinality(Unassigned)
  BY DEF CaseStats, CountIn
<1> HIDE DEF n, Risk, Unassigned, Taken, R
<1>7. Cardinality(R) + Cardinality(Risk("normal")) + Cardinality(Risk("unknown")) = n /\ IsFiniteSet(R)
  BY <1>2, <1>4, PartsAddUp
<1>8. Cardinality(Risk("critical")) + Cardinality(Risk("elevated")) + 0 = Cardinality(R)
      /\ Cardinality(Risk("critical")) \in Nat /\ Cardinality(Risk("elevated")) \in Nat
  BY <1>2, <1>4, <1>7, PartsAddUp
<1>9. Cardinality(Taken) + Cardinality(Unassigned) + 0 = n /\ Cardinality(Taken) \in Nat /\ Cardinality(Unassigned) \in Nat
  BY <1>2, <1>5, PartsAddUp
<1>10. Cardinality(Risk("critical")) + Cardinality(Risk("elevated")) + Cardinality(Risk("normal")) + Cardinality(Risk("unknown")) = n
  BY <1>7, <1>8
<1>11. Cardinality(Taken) + Cardinality(Unassigned) = n
  BY <1>9
<1>12. QED
  BY <1>6, <1>10, <1>11 DEF n

\* What the board shows as resolved is what the stories call completed, and what waits for feedback.
LEMMA ResolvedAgree ==
    ASSUME NEW cases \in Seq(CaseRows), NEW locals
    PROVE  TotalCounts(CardsOf(cases, locals, {}))["resolved"] =
              ImpactHero(cases).completed + CountIn(cases, LAMBDA r : r.status = "pending_review")
<1> DEFINE cards == CardsOf(cases, locals, {})
           K == OnBoard(cases)
           order == Ordered(K, Ascending(K))
           I == {i \in DOMAIN cards : cards[i].status = "resolved"}
           Those(x) == {i \in DOMAIN cases : cases[i].status = x}
           X == {k \in K : cases[k].status \in {"pending_review", "resolved", "failed"}}
<1>1. /\ DOMAIN cards = 1 .. Cardinality(K)
      /\ \A i \in 1 .. Cardinality(K) : cards[i] = Card(cases[order[i]], locals[cases[order[i]].sid])
      /\ Enumerates(order, K, Ascending(K))
  BY CardsOfList
<1>2. Len(cases) \in Nat /\ DOMAIN cases = 1 .. Len(cases) /\ K = {k \in 1 .. Len(cases) : cases[k].status # "dismissed"}
  BY LenProperties DEF OnBoard
<1> HIDE DEF cards, K, order
<1>3. \A i \in 1 .. Cardinality(K) : order[i] \in K
  BY <1>1 DEF Enumerates
<1>4. \A i \in DOMAIN cards :
         cards[i].status = "resolved" <=> cases[order[i]].status \in {"pending_review", "resolved", "failed"}
  BY <1>1, CardFacts
<1>5. I = {i \in DOMAIN cards : order[i] \in X} /\ X \in SUBSET K
  BY <1>1, <1>3, <1>4
<1>6. Parted(X, Those("resolved"), Those("failed"), Those("pending_review"))
  BY <1>2 DEF Parted
<1>7. X \in SUBSET (1 .. Len(cases))
  BY <1>2
<1>8. TotalCounts(cards)["resolved"] = Cardinality(I)
  BY ColumnsNamed DEF TotalCounts, CountIn, ColumnNames
<1>9. ImpactHero(cases).completed = Cardinality(Those("resolved")) + Cardinality(Those("failed"))
  BY DEF ImpactHero, CountIn
<1>10. CountIn(cases, LAMBDA r : r.status = "pending_review") = Cardinality(Those("pending_review"))
  BY DEF CountIn
<1> HIDE DEF I, X, Of
<1>11. Cardinality(I) = Cardinality(X)
  <2>1. CardsOfCases(I, X, cases, locals)
    BY <1>5 DEF CardsOfCases, cards, K, order
  <2>2. QED
    BY <2>1, CardsCounted
<1>12. IsFiniteSet(X)
  BY <1>2, <1>7, FirstNumbers, FS_Subset
<1>13. Cardinality(Those("resolved")) + Cardinality(Those("failed")) + Cardinality(Those("pending_review")) = Cardinality(X)
  BY <1>6, <1>12, PartsAddUp
<1>14. QED
  BY <1>8, <1>9, <1>10, <1>11, <1>13 DEF cards

\* The screens agree on the cases, for any list of them.
LEMMA CasesOfList ==
    ASSUME NEW cases \in Seq(CaseRows), NEW locals
    PROVE  CasesAgree(cases, locals)
BY UrgentAgree, ColumnsAddUp, ColumnsHoldCards, StatsAddUp, ResolvedAgree DEF CasesAgree

-----------------------------------------------------------------------------
(* The screens on the goals *)

GoalRows == [id : Int, done : BOOLEAN, deadline : Int \cup {Never}]
DistinctGoals(goals) == \A i, j \in 1 .. Len(goals) : goals[i].id = goals[j].id => i = j

\* The dialog's order of goals that differ in their ids.
LEMMA GoalOrder ==
    ASSUME NEW a \in GoalRows, NEW b \in GoalRows, NEW c \in GoalRows
    PROVE  /\ ~GoalBefore(a, a)
           /\ GoalBefore(a, b) => ~GoalBefore(b, a)
           /\ a.id # b.id => GoalBefore(a, b) \/ GoalBefore(b, a)
           /\ GoalBefore(a, b) /\ GoalBefore(b, c) => GoalBefore(a, c)
           /\ a.done /\ GoalBefore(a, b) => b.done
<1> /\ a.id \in Int /\ b.id \in Int /\ c.id \in Int
    /\ a.done \in BOOLEAN /\ b.done \in BOOLEAN /\ c.done \in BOOLEAN
    /\ a.deadline \in Int \cup {Never} /\ b.deadline \in Int \cup {Never} /\ c.deadline \in Int \cup {Never}
  BY DEF GoalRows
<1>1. GoalBefore(a, b) <=> \/ ~a.done /\ b.done
                           \/ (a.done <=> b.done) /\ \/ a.deadline # Never /\ b.deadline = Never
                                                     \/ a.deadline # Never /\ b.deadline # Never /\ a.deadline < b.deadline
                                                     \/ a.deadline = b.deadline /\ a.id > b.id
  BY NeverAssumption DEF GoalBefore
<1>2. GoalBefore(b, a) <=> \/ ~b.done /\ a.done
                           \/ (a.done <=> b.done) /\ \/ b.deadline # Never /\ a.deadline = Never
                                                     \/ b.deadline # Never /\ a.deadline # Never /\ b.deadline < a.deadline
                                                     \/ b.deadline = a.deadline /\ b.id > a.id
  BY NeverAssumption DEF GoalBefore
<1>3. GoalBefore(b, c) <=> \/ ~b.done /\ c.done
                           \/ (b.done <=> c.done) /\ \/ b.deadline # Never /\ c.deadline = Never
                                                     \/ b.deadline # Never /\ c.deadline # Never /\ b.deadline < c.deadline
                                                     \/ b.deadline = c.deadline /\ b.id > c.id
  BY NeverAssumption DEF GoalBefore
<1>4. GoalBefore(a, c) <=> \/ ~a.done /\ c.done
                           \/ (a.done <=> c.done) /\ \/ a.deadline # Never /\ c.deadline = Never
                                                     \/ a.deadline # Never /\ c.deadline # Never /\ a.deadline < c.deadline
                                                     \/ a.deadline = c.deadline /\ a.id > c.id
  BY NeverAssumption DEF GoalBefore
<1>5. ~GoalBefore(a, a)
  BY NeverAssumption DEF GoalBefore
<1>6. GoalBefore(a, b) => ~GoalBefore(b, a)
  BY <1>1, <1>2, NeverAssumption
<1>7. a.id # b.id => GoalBefore(a, b) \/ GoalBefore(b, a)
  BY <1>1, <1>2, NeverAssumption
<1>8. GoalBefore(a, b) /\ GoalBefore(b, c) => GoalBefore(a, c)
  BY <1>1, <1>3, <1>4, NeverAssumption
<1>9. a.done /\ GoalBefore(a, b) => b.done
  BY <1>1
<1>10. QED
  BY <1>5, <1>6, <1>7, <1>8, <1>9

DialogOrder(goals) ==
    {pair \in (1 .. Len(goals)) \X (1 .. Len(goals)) :
        \/ GoalBefore(goals[pair[1]], goals[pair[2]])
        \/ ~GoalBefore(goals[pair[2]], goals[pair[1]]) /\ pair[1] < pair[2]}

\* The lines of the dialog: every goal once, the done ones behind the others.
LEMMA LinesOfGoals ==
    ASSUME NEW goals \in Seq(GoalRows), DistinctGoals(goals)
    PROVE  /\ Sorted(goals, GoalBefore) = Arranged(goals, 1 .. Len(goals), DialogOrder(goals))
           /\ OrderOn(1 .. Len(goals), DialogOrder(goals))
           /\ \A i, j \in 1 .. Len(goals) :
                 <<i, j>> \in DialogOrder(goals) <=> GoalBefore(goals[i], goals[j])
<1> DEFINE n == Len(goals)
           before == DialogOrder(goals)
<1>1. n \in Nat /\ DOMAIN goals = 1 .. n /\ \A i \in 1 .. n : goals[i] \in GoalRows
  BY LenProperties, ElementOfSeq
<1>2. Sorted(goals, GoalBefore) = Arranged(goals, 1 .. n, before)
  BY <1>1, Zenon DEF Sorted, DialogOrder
<1>3. \A i, j \in 1 .. n : <<i, j>> \in before <=>
         GoalBefore(goals[i], goals[j]) \/ (~GoalBefore(goals[j], goals[i]) /\ i < j)
  BY DEF DialogOrder
<1> HIDE DEF n, before
<1>4. \A i, j \in 1 .. n : i # j => goals[i].id # goals[j].id
  BY DEF DistinctGoals, n
<1>5. \A i, j \in 1 .. n : <<i, j>> \in before <=> GoalBefore(goals[i], goals[j])
  <2> SUFFICES ASSUME NEW i \in 1 .. n, NEW j \in 1 .. n
               PROVE  <<i, j>> \in before <=> GoalBefore(goals[i], goals[j])
    OBVIOUS
  <2>1. goals[i] \in GoalRows /\ goals[j] \in GoalRows
    BY <1>1
  <2>2. CASE i = j
    BY <1>1, <1>3, <2>1, <2>2, GoalOrder
  <2>3. CASE i # j
    BY <1>3, <1>4, <2>1, <2>3, GoalOrder
  <2>4. QED
    BY <2>2, <2>3
<1>6. OrderOn(1 .. n, before)
  <2>1. ASSUME NEW x \in 1 .. n, NEW y \in 1 .. n, NEW z \in 1 .. n, <<x, y>> \in before, <<y, z>> \in before
        PROVE  <<x, z>> \in before
    BY <1>1, <1>5, <2>1, GoalOrder
  <2>2. \A x \in 1 .. n : <<x, x>> \notin before
    BY <1>1, <1>5, GoalOrder
  <2>3. \A x, y \in 1 .. n : x = y \/ <<x, y>> \in before \/ <<y, x>> \in before
    BY <1>1, <1>4, <1>5, GoalOrder
  <2>4. QED
    BY <2>1, <2>2, <2>3 DEF OrderOn
<1>7. QED
  BY <1>2, <1>5, <1>6 DEF n, before

\* What the dialog says of a list of goals is what the goals say.
DialogSays(goals, today) ==
    LET view == GoalsView(goals, today)
    IN  /\ (\E g \in ToSet(goals) : ~g.done /\ g.deadline # Never /\ g.deadline < today)
              <=> \E i \in DOMAIN view.lines : view.lines[i].status = "overdue"
        /\ Cardinality({g \in ToSet(goals) : g.done}) = view.done
        /\ \A i \in 1 .. view.done : view.lines[view.total - i + 1].done

LEMMA DialogOfList ==
    ASSUME NEW goals \in Seq(GoalRows), DistinctGoals(goals), NEW today \in Int
    PROVE  DialogSays(goals, today)
<1> DEFINE n == Len(goals)
           before == DialogOrder(goals)
           order == Ordered(1 .. n, before)
           sorted == Sorted(goals, GoalBefore)
           Done == {i \in 1 .. n : goals[i].done}
           done == Cardinality(Done)
           Ready == {k \in 1 .. n : order[k] \in Done}
           view == GoalsView(goals, today)
           lines == GoalLines(goals, today)
<1>1. /\ n \in Nat /\ DOMAIN goals = 1 .. n
      /\ \A i \in 1 .. n : goals[i] \in GoalRows /\ goals[i].done \in BOOLEAN
  <2>1. n \in Nat /\ DOMAIN goals = 1 .. n /\ \A i \in 1 .. n : goals[i] \in GoalRows
    BY LenProperties, ElementOfSeq
  <2>2. QED
    BY <2>1 DEF GoalRows
<1>2. /\ sorted = Arranged(goals, 1 .. n, before) /\ OrderOn(1 .. n, before)
      /\ \A i, j \in 1 .. n : <<i, j>> \in before <=> GoalBefore(goals[i], goals[j])
  BY LinesOfGoals
<1> HIDE DEF before, sorted, n
<1>3. IsFiniteSet(1 .. n) /\ Cardinality(1 .. n) = n
  BY <1>1, FirstNumbers
<1>4. Rearranges(sorted, goals, order, n, GoalRows, before)
  BY <1>2, ArrangedAll DEF n
<1>5. /\ sorted \in Seq(GoalRows) /\ Len(sorted) = n
      /\ \A i \in 1 .. n : order[i] \in 1 .. n /\ sorted[i] = goals[order[i]]
      /\ \A i, j \in 1 .. n : i < j => <<order[i], order[j]>> \in before
      /\ \A x \in 1 .. n : \E i \in 1 .. n : order[i] = x
      /\ \A X \in SUBSET (1 .. n) : Cardinality({i \in 1 .. n : order[i] \in X}) = Cardinality(X)
  BY <1>4 DEF Rearranges
<1> HIDE DEF order
<1>6. DOMAIN sorted = 1 .. n
  BY <1>5, LenProperties
<1>7. /\ DOMAIN lines = 1 .. n
      /\ \A i \in 1 .. n : lines[i].done = goals[order[i]].done /\ lines[i].status = DeadlineStatus(goals[order[i]], today)
  BY <1>5, <1>6 DEF GoalLines, sorted
<1>8. view.lines = lines /\ view.done = done /\ view.total = n
  <2>1. {i \in DOMAIN goals : goals[i].done} = Done
    BY <1>1
  <2>2. QED
    BY <2>1 DEF GoalsView, n
<1> HIDE DEF lines, view
<1>9. \A i \in 1 .. n : DeadlineStatus(goals[i], today) = "overdue" <=>
                           ~goals[i].done /\ goals[i].deadline # Never /\ goals[i].deadline < today
  <2> TAKE i \in 1 .. n
  <2> DEFINE goal == goals[i]
  <2>1. goal.done \in BOOLEAN
    BY <1>1
  <2> HIDE DEF goal
  <2>2. ASSUME goal.deadline = Never \/ goal.done
        PROVE  DeadlineStatus(goal, today) # "overdue"
    BY <2>2 DEF DeadlineStatus
  <2>3. ASSUME ~(goal.deadline = Never \/ goal.done), goal.deadline < today
        PROVE  DeadlineStatus(goal, today) = "overdue"
    BY <2>3 DEF DeadlineStatus
  <2>4. ASSUME ~(goal.deadline = Never \/ goal.done), ~(goal.deadline < today)
        PROVE  DeadlineStatus(goal, today) # "overdue"
    BY <2>4 DEF DeadlineStatus
  <2>5. (DeadlineStatus(goal, today) = "overdue") <=> ~goal.done /\ goal.deadline # Never /\ goal.deadline < today
    BY <2>1, <2>2, <2>3, <2>4, Zenon
  <2>6. QED
    BY <2>5 DEF goal
<1>10. (\E g \in ToSet(goals) : ~g.done /\ g.deadline # Never /\ g.deadline < today)
          <=> \E i \in DOMAIN view.lines : view.lines[i].status = "overdue"
  <2>1. (\E g \in ToSet(goals) : ~g.done /\ g.deadline # Never /\ g.deadline < today)
          <=> \E i \in 1 .. n : DeadlineStatus(goals[i], today) = "overdue"
    BY <1>1, <1>9 DEF ToSet
  <2>2. (\E i \in DOMAIN view.lines : view.lines[i].status = "overdue")
          <=> \E i \in 1 .. n : DeadlineStatus(goals[order[i]], today) = "overdue"
    BY <1>7, <1>8
  <2>3. QED
    BY <1>5, <2>1, <2>2
<1>11. IsFiniteSet(Done) /\ done \in Nat
  <2>1. Done \in SUBSET (1 .. n)
    OBVIOUS
  <2> HIDE DEF Done
  <2>2. QED
    BY <1>3, <2>1, FS_Subset, FS_CardinalityType
<1>12. Cardinality({g \in ToSet(goals) : g.done}) = done
  <2> DEFINE D == {g \in ToSet(goals) : g.done}
             f == [i \in Done |-> goals[i]]
  <2>1. f \in [Done -> D]
    BY <1>1 DEF ToSet
  <2>2. \A i, j \in Done : f[i] = f[j] => i = j
    BY DEF DistinctGoals, n
  <2>3. \A g \in D : \E i \in Done : f[i] = g
    BY <1>1 DEF ToSet
  <2> HIDE DEF D, f, Done
  <2>4. f \in Bijection(Done, D)
    BY <2>1, <2>2, <2>3 DEF Bijection, Injection, Surjection, IsInjective
  <2>5. ExistsBijection(Done, D)
    BY <2>4 DEF ExistsBijection
  <2>6. QED
    BY <1>11, <2>5, FS_Bijection DEF D
<1>13. Cardinality(Ready) = done /\ Done \in SUBSET (1 .. n)
  <2>1. Done \in SUBSET (1 .. n)
    OBVIOUS
  <2> HIDE DEF Done
  <2>2. QED
    BY <1>5, <2>1
<1> HIDE DEF done, Done, Ready
<1>14. ASSUME NEW i \in 1 .. done
       PROVE  lines[n - i + 1].done
  <2>1. i \in Nat /\ i >= 1 /\ i <= done /\ done <= n
    <3>1. Cardinality(Done) <= Cardinality(1 .. n)
      BY <1>3, <1>13, FS_Subset
    <3>2. QED
      BY <1>3, <1>11, <3>1 DEF done
  <2> DEFINE p == n - i + 1
  <2>2. p \in 1 .. n
    BY <1>1, <1>11, <2>1
  <2> SUFFICES ASSUME ~lines[p].done
               PROVE  FALSE
    OBVIOUS
  <2>3. ~goals[order[p]].done
    BY <1>7, <2>2
  <2> HIDE DEF p
  <2>4. \A k \in Ready : k \in p + 1 .. n
    <3> SUFFICES ASSUME NEW k \in Ready, k <= p
                 PROVE  FALSE
      BY <1>1, <2>2 DEF Ready
    <3>1. k \in 1 .. n /\ goals[order[k]].done
      BY DEF Ready, Done
    <3>2. k # p /\ k < p
      BY <1>1, <2>2, <2>3, <3>1
    <3>3. GoalBefore(goals[order[k]], goals[order[p]])
      BY <1>2, <1>5, <2>2, <3>1, <3>2
    <3>4. goals[order[k]] \in GoalRows /\ goals[order[p]] \in GoalRows
      BY <1>1, <1>5, <2>2, <3>1
    <3>5. QED
      BY <2>3, <3>1, <3>3, <3>4, GoalOrder
  <2>5. IsFiniteSet(p + 1 .. n) /\ Cardinality(p + 1 .. n) = n - p
    <3>1. p + 1 \in Int /\ n \in Int
      BY <1>1, <2>2
    <3>2. IsFiniteSet(p + 1 .. n) /\ Cardinality(p + 1 .. n) = IF p + 1 > n THEN 0 ELSE n - (p + 1) + 1
      BY <3>1, FS_Interval
    <3>3. QED
      BY <1>1, <2>2, <3>2
  <2>6. Cardinality(Ready) <= n - p
    <3>1. Ready \in SUBSET (p + 1 .. n)
      BY <2>4
    <3>2. QED
      BY <2>5, <3>1, FS_Subset
  <2>7. QED
    BY <1>1, <1>11, <1>13, <2>1, <2>6 DEF p
<1>15. QED
  BY <1>8, <1>10, <1>12, <1>14 DEF DialogSays, view

\* The card's comparison is the dialog's, but for a goal due today west of UTC.
LEMMA OverdueOnCard ==
    ASSUME NEW g \in GoalRows, NEW today \in Int, NEW zone \in Int, 0 - 1440 < zone, zone < 1440
    PROVE  IsOverdue(g, today, zone) <=>
              \/ ~g.done /\ g.deadline # Never /\ g.deadline < today
              \/ zone < 0 /\ ~g.done /\ g.deadline = today
<1>1. CASE g.deadline = Never
  BY <1>1, NeverAssumption DEF IsOverdue
<1>2. CASE g.deadline # Never
  <2>1. PICK date \in Int : date = g.deadline
    BY <1>2 DEF GoalRows
  <2>2. (1440 * date < 1440 * today - zone) <=> (date < today \/ (zone < 0 /\ date = today))
    OBVIOUS
  <2>3. QED
    BY <1>2, <2>1, <2>2 DEF IsOverdue
<1>3. QED
  BY <1>1, <1>2

\* A card and its dialog agree on the goals, for any list of goals with different ids.
LEMMA GoalsOfList ==
    ASSUME NEW goals \in Seq(GoalRows), DistinctGoals(goals), NEW today \in Int, NEW zone \in Int, 0 - 1440 < zone, zone < 1440
    PROVE  GoalsAgree(goals, today, zone)
<1> DEFINE Late(g) == ~g.done /\ g.deadline # Never /\ g.deadline < today
           DueToday(g) == ~g.done /\ g.deadline = today
           Overdue(g) == IsOverdue(g, today, zone)
           G == ToSet(goals)
           west == zone < 0
<1>1. ASSUME NEW g \in G
      PROVE  Overdue(g) <=> (Late(g) \/ (west /\ DueToday(g)))
  <2>1. g \in GoalRows
    BY DEF ToSet
  <2> HIDE DEF G
  <2>2. today \in Int /\ zone \in Int /\ 0 - 1440 < zone /\ zone < 1440
    OBVIOUS
  <2>3. QED
    BY <2>1, <2>2, OverdueOnCard, SMTT(30)
<1>2. (\E g \in ToSet(goals) : IsOverdue(g, today, zone)) <=> \E g \in G : Overdue(g)
  OBVIOUS
<1>3. DialogSays(goals, today)
  BY DialogOfList
<1> HIDE DEF Late, DueToday, Overdue, G, west
<1>4. (\E g \in G : Overdue(g)) <=> ((\E g \in G : Late(g)) \/ (west /\ \E g \in G : DueToday(g)))
  <2>1. ASSUME NEW g \in G, Overdue(g)
        PROVE  (\E h \in G : Late(h)) \/ (west /\ \E h \in G : DueToday(h))
    BY <1>1, <2>1
  <2>2. ASSUME NEW g \in G, Late(g) \/ (west /\ DueToday(g))
        PROVE  \E h \in G : Overdue(h)
    BY <1>1, <2>2
  <2>3. QED
    BY <2>1, <2>2
<1>5. QED
  BY <1>2, <1>3, <1>4 DEF DialogSays, GoalsAgree, CardFlags, Late, DueToday, Overdue, G, west

\* The goals of a sample are such a list.
LEMMA GoalsNumbered ==
    ASSUME NEW items, items \in SeqOf(GoalItems, 3)
    PROVE  Numbered(items) \in Seq(GoalRows) /\ DistinctGoals(Numbered(items))
<1>1. PICK n \in 0 .. 3 : items \in [1 .. n -> GoalItems]
  BY DEF SeqOf
<1> DEFINE goals == Numbered(items)
<1>2. goals = [i \in 1 .. n |-> [id |-> i, done |-> items[i].done, deadline |-> items[i].deadline]]
  BY <1>1 DEF Numbered
<1>3. \A i \in 1 .. n : items[i] \in [done : BOOLEAN, deadline : Int \cup {Never}]
  BY <1>1, ItemsAssumption
<1>4. goals \in [1 .. n -> GoalRows]
  BY <1>2, <1>3 DEF GoalRows
<1>5. \A i \in 1 .. n : goals[i].id = i
  BY <1>2
<1> HIDE DEF goals
<1>6. goals \in Seq(GoalRows) /\ Len(goals) = n
  BY <1>4, FunctionAsSeq
<1>7. QED
  BY <1>5, <1>6 DEF DistinctGoals, goals

\* The links of the sidebar and of the overview are those the route guard lets through.
LEMMA LinksOfRoles == LinksAgree
BY DEF LinksAgree, OverviewPage, SidebarLinks, AdminLinks, AdvisorLinks, Arrives

-----------------------------------------------------------------------------
(* The leaderboard *)

\* What a rate of at most k per cent says.
LEMMA PercentAtMost ==
    ASSUME NEW x \in Nat, NEW y \in Nat, y > 0
    PROVE  /\ Percent(x, y) \in Int
           /\ \A k \in Int : Percent(x, y) <= k <=> 200 * x < y * (2 * k + 1)
<1>1. Percent(x, y) = (200 * x + y) \div (2 * y) /\ 200 * x + y \in Nat /\ 2 * y \in Nat \ {0}
  BY DEF Percent
<1>2. Percent(x, y) \in Int
  BY <1>1
<1>3. ASSUME NEW k \in Int
      PROVE  Percent(x, y) <= k <=> 200 * x < y * (2 * k + 1)
  <2>1. Percent(x, y) <= k <=> 200 * x + y < (2 * y) * (k + 1)
    BY <1>1, AtMost
  <2>2. (2 * y) * (k + 1) = y * (2 * k + 1) + y
    OBVIOUS
  <2>3. y * (2 * k + 1) \in Int
    OBVIOUS
  <2>4. 200 * x + y < y * (2 * k + 1) + y <=> 200 * x < y * (2 * k + 1)
    BY <2>3
  <2>5. QED
    BY <2>1, <2>2, <2>4
<1>4. QED
  BY <1>2, <1>3

\* A rate is the percentage, but at most 100.
LEMMA RateCapped ==
    ASSUME NEW x \in Nat, NEW y \in Nat, y > 0
    PROVE  /\ ResolveRate(x, y) \in Int /\ ResolveRate(x, y) <= 100
           /\ ResolveRate(x, y) < 100 => ResolveRate(x, y) = Percent(x, y)
           /\ ResolveRate(x, y) <= Percent(x, y)
<1>1. Percent(x, y) \in Int
  BY PercentAtMost
<1>2. QED
  BY <1>1 DEF ResolveRate

\* What the rate of a pair says of the pair, when it is over a rate or under it.
LEMMA RateSplits ==
    ASSUME NEW x \in Nat, NEW y \in Nat, NEW q \in Int, q <= 100, y = 0 => x = 0
    PROVE  /\ (y > 0 => ~(ResolveRate(x, y) <= q)) => 200 * x >= y * (2 * q + 1)
           /\ (y > 0 => ~(ResolveRate(x, y) >= q)) =>
                 (x = 0 /\ y = 0) \/ 200 * x < y * (2 * (q - 1) + 1)
<1>1. CASE y = 0
  <2>1. x = 0 /\ y * (2 * q + 1) = 0
    BY <1>1, ZeroTimes
  <2>2. QED
    BY <1>1, <2>1
<1>2. CASE y # 0
  <2> DEFINE rate == ResolveRate(x, y)
             percent == Percent(x, y)
             lower == q - 1
  <2>1. y > 0
    BY <1>2, NotNone
  <2>2. rate \in Int /\ rate <= 100 /\ (rate < 100 => rate = percent) /\ rate <= percent
    BY <2>1, RateCapped
  <2>3. percent \in Int /\ \A k \in Int : percent <= k <=> 200 * x < y * (2 * k + 1)
    BY <2>1, PercentAtMost
  <2>4. lower \in Int /\ y * (2 * q + 1) \in Int
    OBVIOUS
  <2>5. (percent <= q <=> 200 * x < y * (2 * q + 1)) /\ (percent <= lower <=> 200 * x < y * (2 * lower + 1))
    BY <2>3, <2>4
  <2> HIDE DEF rate, percent
  <2>6. ASSUME ~(rate <= q)
        PROVE  200 * x >= y * (2 * q + 1)
    <3>1. ~(percent <= q)
      BY <2>2, <2>3, <2>6
    <3>2. QED
      BY <2>4, <2>5, <3>1
  <2>7. ASSUME ~(rate >= q)
        PROVE  200 * x < y * (2 * lower + 1)
    <3>1. percent <= lower
      BY <2>2, <2>3, <2>7
    <3>2. QED
      BY <2>5, <3>1
  <2>8. QED
    BY <2>1, <2>6, <2>7 DEF rate
<1>3. QED
  BY <1>1, <1>2

\* The rate of the sums lies between the rates of the pairs.
LEMMA RateBetween ==
    ASSUME NEW as \in Seq(Nat), NEW bs \in Seq(Nat), NEW len, len = Len(as), len = Len(bs),
           \A i \in 1 .. len : bs[i] = 0 => as[i] = 0,
           NEW some \in 1 .. len, bs[some] > 0
    PROVE  /\ \E i \in 1 .. len : bs[i] > 0 /\ ResolveRate(as[i], bs[i]) <= ResolveRate(SumOf(as), SumOf(bs))
           /\ \E i \in 1 .. len : bs[i] > 0 /\ ResolveRate(as[i], bs[i]) >= ResolveRate(SumOf(as), SumOf(bs))
<1> DEFINE a == SumOf(as)
           b == SumOf(bs)
           q == ResolveRate(a, b)
           percent == Percent(a, b)
           RateOf(i) == ResolveRate(as[i], bs[i])
<1>1. len \in Nat /\ \A i \in 1 .. len : as[i] \in Nat /\ bs[i] \in Nat
  BY LenProperties, ElementOfSeq
<1>2. a \in Nat /\ b \in Nat /\ b >= bs[some]
  BY SumsOfNumbers
<1>3. b > 0
  BY <1>1, <1>2
<1> HIDE DEF a, b
<1>4. q \in Int /\ q <= 100 /\ (q < 100 => q = percent) /\ q <= percent
  BY <1>2, <1>3, RateCapped
<1>5. percent \in Int /\ \A k \in Int : percent <= k <=> 200 * a < b * (2 * k + 1)
  BY <1>2, <1>3, PercentAtMost
<1>6. RateOf(some) \in Int /\ RateOf(some) <= 100
  BY <1>1, RateCapped
<1>7. ASSUME NEW i \in 1 .. len
      PROVE  /\ (bs[i] > 0 => ~(RateOf(i) <= q)) => 200 * as[i] >= bs[i] * (2 * q + 1)
             /\ (bs[i] > 0 => ~(RateOf(i) >= q)) =>
                   (as[i] = 0 /\ bs[i] = 0) \/ 200 * as[i] < bs[i] * (2 * (q - 1) + 1)
  <2>1. as[i] \in Nat /\ bs[i] \in Nat /\ (bs[i] = 0 => as[i] = 0)
    BY <1>1
  <2>2. QED
    BY <1>4, <2>1, RateSplits
<1> HIDE DEF q, RateOf, percent
<1>8. \E i \in 1 .. len : bs[i] > 0 /\ RateOf(i) <= q
  <2> SUFFICES ASSUME \A i \in 1 .. len : bs[i] > 0 => ~(RateOf(i) <= q)
               PROVE  FALSE
    OBVIOUS
  <2>1. ~(RateOf(some) <= q)
    OBVIOUS
  <2>2. q = percent
    BY <1>4, <1>6, <2>1
  <2> DEFINE k == 2 * q + 1
  <2>3. k \in Int
    BY <1>4
  <2>4. \A i \in 1 .. len : 200 * as[i] >= bs[i] * k
    BY <1>7
  <2>5. 200 * a < b * k
    BY <1>4, <1>5, <2>2
  <2> HIDE DEF k
  <2>6. 200 * a >= b * k
    BY <2>3, <2>4, SumsCompare DEF a, b
  <2>7. b * k \in Int
    BY <1>2, <2>3
  <2>8. QED
    BY <1>2, <2>5, <2>6, <2>7
<1>9. \E i \in 1 .. len : bs[i] > 0 /\ RateOf(i) >= q
  <2> SUFFICES ASSUME \A i \in 1 .. len : bs[i] > 0 => ~(RateOf(i) >= q)
               PROVE  FALSE
    OBVIOUS
  <2> DEFINE less == q - 1
             k == 2 * less + 1
  <2>1. less \in Int /\ k \in Int
    BY <1>4
  <2>2. \A i \in 1 .. len : (as[i] = 0 /\ bs[i] = 0) \/ 200 * as[i] < bs[i] * k
    BY <1>7
  <2> HIDE DEF less
  <2>3. 200 * a < b * k
    <3> HIDE DEF k
    <3>1. b = 0 \/ 200 * a < b * k
      BY <2>1, <2>2, SumsCompare DEF a, b
    <3>2. b # 0
      BY <1>2, <1>3
    <3>3. QED
      BY <3>1, <3>2
  <2>4. percent <= less
    BY <1>5, <2>1, <2>3
  <2>5. QED
    BY <1>4, <1>5, <2>4 DEF less
<1>10. QED
  BY <1>8, <1>9 DEF a, b, q, RateOf

TeamRows == [advisor : Int, points : Int, sent : Nat, resolved : Nat]

PointsOrder(items) ==
    {pair \in (1 .. Len(items)) \X (1 .. Len(items)) :
        \/ items[pair[1]].points > items[pair[2]].points
        \/ ~(items[pair[2]].points > items[pair[1]].points) /\ pair[1] < pair[2]}

\* The list of the leaderboard has every advisor once, in the order of points.
LEMMA RankedFacts ==
    ASSUME NEW items \in Seq(TeamRows), NEW n, n = Len(items)
    PROVE  LET order == Ordered(1 .. n, PointsOrder(items))
           IN  /\ DOMAIN Ranked(items) = 1 .. n
               /\ \A r \in 1 .. n :
                     /\ order[r] \in 1 .. n
                     /\ Ranked(items)[r].advisor = items[order[r]].advisor
                     /\ Ranked(items)[r].points = items[order[r]].points
                     /\ Ranked(items)[r].sent = items[order[r]].sent
                     /\ Ranked(items)[r].resolved = items[order[r]].resolved
                     /\ Ranked(items)[r].rate = ResolveRate(items[order[r]].resolved, items[order[r]].sent)
               /\ \A x \in 1 .. n : \E r \in 1 .. n : order[r] = x
               /\ \A r, s \in 1 .. n : r < s => items[order[r]].points >= items[order[s]].points
<1> DEFINE before == PointsOrder(items)
           order == Ordered(1 .. n, before)
           sorted == Arranged(items, 1 .. n, before)
<1>1. n \in Nat /\ DOMAIN items = 1 .. n /\ \A i \in 1 .. n : items[i] \in TeamRows
  BY LenProperties, ElementOfSeq
<1>2. \A i \in 1 .. n : items[i].points \in Int
  BY <1>1 DEF TeamRows
<1>3. Sorted(items, LAMBDA a, b : a.points > b.points) = sorted
  BY <1>1, Zenon DEF Sorted, PointsOrder
<1>4. \A i, j \in 1 .. n : <<i, j>> \in before <=>
         items[i].points > items[j].points \/ (~(items[j].points > items[i].points) /\ i < j)
  BY DEF PointsOrder
<1> HIDE DEF before
<1>5. OrderOn(1 .. n, before)
  <2>1. ASSUME NEW x \in 1 .. n, NEW y \in 1 .. n, NEW z \in 1 .. n, <<x, y>> \in before, <<y, z>> \in before
        PROVE  <<x, z>> \in before
    BY <1>2, <1>4, <2>1
  <2>2. \A x \in 1 .. n : <<x, x>> \notin before
    BY <1>2, <1>4
  <2>3. ASSUME NEW x \in 1 .. n, NEW y \in 1 .. n, x # y
        PROVE  <<x, y>> \in before \/ <<y, x>> \in before
    BY <1>2, <1>4, <2>3
  <2>4. QED
    BY <2>1, <2>2, <2>3 DEF OrderOn
<1>6. Rearranges(sorted, items, order, n, TeamRows, before)
  BY <1>5, ArrangedAll
<1>7. /\ sorted \in Seq(TeamRows) /\ Len(sorted) = n
      /\ \A i \in 1 .. n : order[i] \in 1 .. n /\ sorted[i] = items[order[i]]
      /\ \A i, j \in 1 .. n : i < j => <<order[i], order[j]>> \in before
      /\ \A x \in 1 .. n : \E i \in 1 .. n : order[i] = x
  BY <1>6 DEF Rearranges
<1> HIDE DEF order, sorted
<1>8. DOMAIN sorted = 1 .. n
  BY <1>7, LenProperties
<1>9. Ranked(items) = [r \in 1 .. n |->
            [advisor |-> sorted[r].advisor, points |-> sorted[r].points, rank |-> r,
             sent |-> sorted[r].sent, resolved |-> sorted[r].resolved,
             rate |-> ResolveRate(sorted[r].resolved, sorted[r].sent)]]
  BY <1>3, <1>8, Zenon DEF Ranked
<1>10. ASSUME NEW r \in 1 .. n, NEW s \in 1 .. n, r < s
       PROVE  items[order[r]].points >= items[order[s]].points
  <2> DEFINE x == order[r]
             y == order[s]
  <2>1. x \in 1 .. n /\ y \in 1 .. n /\ <<x, y>> \in before
    BY <1>7, <1>10
  <2> HIDE DEF x, y
  <2>2. items[x].points >= items[y].points
    BY <1>2, <1>4, <2>1
  <2>3. QED
    BY <2>2 DEF x, y
<1> DEFINE ranked == Ranked(items)
<1>11. DOMAIN ranked = 1 .. n /\ \A r \in 1 .. n :
          ranked[r] = [advisor |-> sorted[r].advisor, points |-> sorted[r].points, rank |-> r,
                       sent |-> sorted[r].sent, resolved |-> sorted[r].resolved,
                       rate |-> ResolveRate(sorted[r].resolved, sorted[r].sent)]
  BY <1>9
<1> HIDE DEF ranked
<1>12. \A r \in 1 .. n :
          /\ order[r] \in 1 .. n
          /\ ranked[r].advisor = items[order[r]].advisor
          /\ ranked[r].points = items[order[r]].points
          /\ ranked[r].sent = items[order[r]].sent
          /\ ranked[r].resolved = items[order[r]].resolved
          /\ ranked[r].rate = ResolveRate(items[order[r]].resolved, items[order[r]].sent)
  <2> TAKE r \in 1 .. n
  <2> DEFINE shown == ranked[r]
             item == sorted[r]
  <2>1. order[r] \in 1 .. n /\ item = items[order[r]]
    BY <1>7
  <2>2. shown = [advisor |-> item.advisor, points |-> item.points, rank |-> r,
                 sent |-> item.sent, resolved |-> item.resolved,
                 rate |-> ResolveRate(item.resolved, item.sent)]
    BY <1>11
  <2> HIDE DEF shown, item
  <2>3. /\ shown.advisor = item.advisor /\ shown.points = item.points
        /\ shown.sent = item.sent /\ shown.resolved = item.resolved
        /\ shown.rate = ResolveRate(item.resolved, item.sent)
    BY <2>2
  <2>4. QED
    BY <2>1, <2>3, Zenon DEF shown
<1>13. QED
  BY <1>7, <1>10, <1>11, <1>12, Zenon DEF order, before, ranked

\* The leaderboard agrees with itself, for any list of advisors.
LEMMA TeamOfList ==
    ASSUME NEW items \in Seq(TeamRows), NEW demo
    PROVE  TeamAgrees(items, demo)
<1> DEFINE n == Len(items)
           view == Leaderboard(items, demo, n)
           ranked == Ranked(items)
           order == Ordered(1 .. n, PointsOrder(items))
           listed == SubSeq(ranked, 1, 3) \o SubSeq(ranked, 4, Len(ranked))
           Sender == {i \in DOMAIN listed : listed[i].sent > 0}
           senders == Arranged(listed, Sender, Ascending(Sender))
           sents == [i \in DOMAIN items |-> items[i].sent]
           fixed == [i \in DOMAIN items |-> items[i].resolved]
<1> SUFFICES ASSUME n >= 3
             PROVE  TeamAgrees(items, demo)
  <2>1. n \in Nat
    BY LenProperties
  <2>2. view.isDemo = (n < 3)
    BY Zenon DEF Leaderboard
  <2>3. ~(n >= 3) => n < 3
    BY <2>1
  <2> HIDE DEF view
  <2>4. ~(n >= 3) => view.isDemo
    BY <2>2, <2>3, Zenon
  <2>5. QED
    BY <2>4, Zenon DEF TeamAgrees, view, n
<1>1. /\ n \in Nat /\ DOMAIN items = 1 .. n
      /\ \A i \in 1 .. n : items[i].points \in Int /\ items[i].sent \in Nat /\ items[i].resolved \in Nat
  <2>1. n \in Nat /\ DOMAIN items = 1 .. n /\ \A i \in 1 .. n : items[i] \in TeamRows
    BY LenProperties, ElementOfSeq
  <2>2. QED
    BY <2>1 DEF TeamRows
<1>2. view.podium \o view.rest = listed /\ view.teamRate = ResolveRate(SumOf(fixed), SumOf(sents))
  BY DEF Leaderboard, TotalOf, Sent, Resolved
<1>3. /\ DOMAIN ranked = 1 .. n
      /\ \A r \in 1 .. n :
            /\ order[r] \in 1 .. n
            /\ ranked[r].advisor = items[order[r]].advisor
            /\ ranked[r].points = items[order[r]].points
            /\ ranked[r].sent = items[order[r]].sent
            /\ ranked[r].resolved = items[order[r]].resolved
            /\ ranked[r].rate = ResolveRate(items[order[r]].resolved, items[order[r]].sent)
      /\ \A x \in 1 .. n : \E r \in 1 .. n : order[r] = x
      /\ \A r, s \in 1 .. n : r < s => items[order[r]].points >= items[order[s]].points
  BY RankedFacts
<1>4. ranked \in Seq(ToSet(ranked)) /\ Len(ranked) = n
  <2>1. ranked \in [1 .. n -> ToSet(ranked)]
    <3>1. ranked = [r \in 1 .. n |-> ranked[r]]
      BY <1>3 DEF Ranked
    <3> HIDE DEF ranked
    <3>2. QED
      BY <1>3, <3>1 DEF ToSet
  <2> HIDE DEF ranked, n
  <2>2. QED
    BY <1>1, <2>1, FunctionAsSeq
<1> HIDE DEF ranked, order
<1>5. listed \in Seq(ToSet(ranked)) /\ Len(listed) = n /\ \A i \in 1 .. n : listed[i] = ranked[i]
  <2>1. 3 \in 0 .. n /\ 3 + 1 = 4
    BY <1>1
  <2>2. LET whole == SubSeq(ranked, 1, 3) \o SubSeq(ranked, 3 + 1, n)
        IN  whole \in Seq(ToSet(ranked)) /\ Len(whole) = n /\ \A i \in 1 .. n : whole[i] = ranked[i]
    BY <1>4, <2>1, CutAndJoined
  <2>3. QED
    BY <1>4, <2>1, <2>2
<1>6. Filtered(view.podium \o view.rest, LAMBDA a : a.sent > 0) = senders
  BY <1>2, Zenon DEF Filtered
<1> HIDE DEF view, n, listed
<1>7. DOMAIN listed = 1 .. n
  BY <1>5, LenProperties
<1>8. {a.advisor : a \in ToSet(listed)} = {a.advisor : a \in ToSet(items)}
  <2>1. ToSet(listed) = {listed[i] : i \in 1 .. n} /\ ToSet(items) = {items[i] : i \in 1 .. n}
    BY <1>1, <1>7 DEF ToSet
  <2>2. \A r \in 1 .. n : listed[r].advisor = items[order[r]].advisor /\ order[r] \in 1 .. n
    BY <1>3, <1>5
  <2>3. ASSUME NEW x \in 1 .. n
        PROVE  \E r \in 1 .. n : listed[r].advisor = items[x].advisor
    <3>1. PICK r \in 1 .. n : order[r] = x
      BY <1>3
    <3>2. QED
      BY <2>2, <3>1
  <2>4. {a.advisor : a \in ToSet(listed)} = {listed[i].advisor : i \in 1 .. n}
    BY <2>1, Zenon
  <2>5. {a.advisor : a \in ToSet(items)} = {items[i].advisor : i \in 1 .. n}
    BY <2>1, Zenon
  <2> DEFINE A == {listed[i].advisor : i \in 1 .. n}
             B == {items[i].advisor : i \in 1 .. n}
  <2>6. A \subseteq B
    BY <2>2
  <2>7. B \subseteq A
    BY <2>3
  <2> HIDE DEF A, B
  <2>8. A = B
    BY <2>6, <2>7
  <2>9. QED
    BY <2>4, <2>5, <2>8, Zenon DEF A, B
<1>9. \A i, j \in DOMAIN listed : i < j => listed[i].points >= listed[j].points
  <2> SUFFICES ASSUME NEW i \in 1 .. n, NEW j \in 1 .. n, i < j
               PROVE  listed[i].points >= listed[j].points
    BY <1>7
  <2>1. listed[i].points = items[order[i]].points /\ listed[j].points = items[order[j]].points
    BY <1>3, <1>5
  <2>2. items[order[i]].points >= items[order[j]].points
    BY <1>3
  <2>3. QED
    BY <2>1, <2>2, Zenon
<1>10. ASSUME \A a \in ToSet(listed) : a.sent = 0 => a.resolved = 0, senders # <<>>
       PROVE  /\ \E a \in ToSet(senders) : a.rate <= view.teamRate
              /\ \E a \in ToSet(senders) : a.rate >= view.teamRate
  <2>1. ASSUME NEW x \in 1 .. n
        PROVE  \E r \in 1 .. n :
                  /\ listed[r].sent = items[x].sent /\ listed[r].resolved = items[x].resolved
                  /\ listed[r].rate = ResolveRate(items[x].resolved, items[x].sent)
                  /\ listed[r] \in ToSet(listed)
    <3>1. PICK r \in 1 .. n : order[r] = x
      BY <1>3
    <3>2. listed[r] = ranked[r] /\ listed[r] \in ToSet(listed)
      BY <1>5, <1>7 DEF ToSet
    <3>3. /\ ranked[r].sent = items[x].sent /\ ranked[r].resolved = items[x].resolved
          /\ ranked[r].rate = ResolveRate(items[x].resolved, items[x].sent)
      BY <1>3, <3>1
    <3>4. QED
      BY <3>2, <3>3, Zenon
  <2>2. sents \in Seq(Nat) /\ Len(sents) = n /\ \A i \in 1 .. n : sents[i] = items[i].sent
    <3>1. sents \in [1 .. n -> Nat] /\ \A i \in 1 .. n : sents[i] = items[i].sent
      BY <1>1
    <3> HIDE DEF sents
    <3>2. QED
      BY <1>1, <3>1, FunctionAsSeq
  <2>3. fixed \in Seq(Nat) /\ Len(fixed) = n /\ \A i \in 1 .. n : fixed[i] = items[i].resolved
    <3>1. fixed \in [1 .. n -> Nat] /\ \A i \in 1 .. n : fixed[i] = items[i].resolved
      BY <1>1
    <3> HIDE DEF fixed
    <3>2. QED
      BY <1>1, <3>1, FunctionAsSeq
  <2> HIDE DEF sents, fixed
  <2>4. \A i \in 1 .. n : sents[i] = 0 => fixed[i] = 0
    BY <1>10, <2>1, <2>2, <2>3
  <2>5. \E i \in 1 .. n : sents[i] > 0
    <3>1. Sender # {}
      <4> SUFFICES ASSUME Sender = {}
                   PROVE  senders = <<>>
        BY <1>10
      <4>1. Arranged(listed, {}, Ascending({})) = <<>>
        <5>1. Cardinality({}) = 0
          BY FS_EmptySet
        <5>2. DOMAIN Ordered({}, Ascending({})) = {}
          BY <5>1 DEF Ordered
        <5>3. QED
          BY <5>2 DEF Arranged
      <4>2. QED
        BY <4>1
    <3>2. PICK r \in 1 .. n : listed[r].sent > 0
      BY <1>7, <3>1
    <3>3. order[r] \in 1 .. n /\ sents[order[r]] = listed[r].sent
      <4>1. order[r] \in 1 .. n /\ listed[r] = ranked[r] /\ ranked[r].sent = items[order[r]].sent
        BY <1>3, <1>5
      <4>2. QED
        BY <2>2, <4>1
    <3>4. QED
      BY <3>2, <3>3
  <2>6. PICK some \in 1 .. n : sents[some] > 0
    BY <2>5
  <2> DEFINE rate == ResolveRate(SumOf(fixed), SumOf(sents))
  <2>7. /\ \E i \in 1 .. n : sents[i] > 0 /\ ResolveRate(fixed[i], sents[i]) <= rate
        /\ \E i \in 1 .. n : sents[i] > 0 /\ ResolveRate(fixed[i], sents[i]) >= rate
    BY <2>2, <2>3, <2>4, <2>6, RateBetween
  <2>8. view.teamRate = rate
    BY <1>2
  <2>9. ASSUME NEW i \in 1 .. n, sents[i] > 0
        PROVE  \E a \in ToSet(senders) : a.rate = ResolveRate(fixed[i], sents[i])
    <3>1. PICK r \in 1 .. n : /\ listed[r].sent = items[i].sent
                              /\ listed[r].rate = ResolveRate(items[i].resolved, items[i].sent)
      BY <2>1
    <3>2. listed[r].sent = sents[i] /\ listed[r].rate = ResolveRate(fixed[i], sents[i])
      BY <2>2, <2>3, <3>1
    <3>3. r \in Sender /\ Sender \in SUBSET (1 .. Len(listed))
      BY <1>5, <1>7, <2>9, <3>2
    <3> HIDE DEF Sender
    <3>4. listed[r] \in ToSet(senders)
      BY <1>5, <3>3, FilteredHas
    <3>5. QED
      BY <3>2, <3>4
  <2> HIDE DEF senders, rate
  <2>10. QED
    BY <2>7, <2>8, <2>9
<1> HIDE DEF senders, Sender
<1>11. QED
  BY <1>2, <1>5, <1>6, <1>8, <1>9, <1>10, Zenon DEF TeamAgrees, view, n

\* The advisors of a sample are such a list.
LEMMA TeamNamed ==
    ASSUME NEW items, items \in SeqOf(TeamItems, 4)
    PROVE  Named(items) \in Seq(TeamRows)
<1>1. PICK n \in 0 .. 4 : items \in [1 .. n -> TeamItems]
  BY DEF SeqOf
<1>2. Named(items) = [i \in 1 .. n |-> [advisor |-> i, points |-> items[i].points,
                                        sent |-> items[i].sent, resolved |-> items[i].resolved]]
  BY <1>1 DEF Named
<1>3. \A i \in 1 .. n : items[i] \in [points : Int, sent : Nat, resolved : Nat]
  BY <1>1, ItemsAssumption
<1>4. Named(items) \in [1 .. n -> TeamRows]
  BY <1>2, <1>3 DEF TeamRows
<1> HIDE DEF Named
<1>5. QED
  BY <1>4, FunctionAsSeq

-----------------------------------------------------------------------------
(* Students grouped from rows *)

TestTypes == {"middle_semester", "final_semester", "other"}
TestRecs == [score : Int, type : TestTypes]
StudentRecs(V) == [id : V, name : V, email : V, year : Int, notified : Int, tests : Seq(TestRecs)]

\* What the grouping reads of each row; and the rows whose mark is a number.
RowData(table, col) ==
    [sid |-> [i \in DOMAIN table |-> Cell(table[i], col.sid)],
     test |-> [i \in DOMAIN table |-> TestOf(table[i], col)],
     year |-> [i \in DOMAIN table |-> NumberOr0(Cell(table[i], col.year))],
     notified |-> [i \in DOMAIN table |-> ParseLastNotified(Cell(table[i], col.notified))],
     marked |-> {i \in DOMAIN table : ToNumber(Cell(table[i], col.score)) # NoNumber}]

DataOK(d, len) ==
    /\ len \in Nat
    /\ \A i \in 1 .. len : d.year[i] \in Int /\ d.notified[i] \in Int
    /\ \A i \in 1 .. len : i \in d.marked => d.test[i] \in TestRecs

\* The rows of a student among the first, those with a mark, and all that are counted.
PlacesOf(d, n, id) == {i \in 1 .. n : d.sid[i] = id}
MarkedOf(d, n, id) == {i \in 1 .. n : d.sid[i] = id /\ i \in d.marked}
CountedTo(d, n) == {i \in 1 .. n : d.sid[i] # NoText /\ i \in d.marked}

Newest(x, v, P) == (\E i \in P : v[i] = x) /\ \A i \in P : v[i] <= x

Summary(s, d, n) ==
    /\ Collects(s.tests, d.test, MarkedOf(d, n, s.id))
    /\ Newest(s.year, d.year, PlacesOf(d, n, s.id))
    /\ Newest(s.notified, d.notified, PlacesOf(d, n, s.id))

LEMMA EntryOther ==
    ASSUME NEW d, NEW n \in Nat, NEW s, s.id # d.sid[n + 1], Summary(s, d, n)
    PROVE  Summary(s, d, n + 1)
<1>1. \A i \in 1 .. n + 1 : i \in 1 .. n \/ i = n + 1
  OBVIOUS
<1>2. 1 .. n \subseteq 1 .. n + 1
  OBVIOUS
<1>3. PlacesOf(d, n + 1, s.id) = PlacesOf(d, n, s.id)
  BY <1>1, <1>2 DEF PlacesOf
<1>4. MarkedOf(d, n + 1, s.id) = MarkedOf(d, n, s.id)
  BY <1>1, <1>2 DEF MarkedOf
<1>5. QED
  BY <1>3, <1>4, Zenon DEF Summary

\* What one row alone says of a student.
OfRow(new, d, i) ==
    /\ new.year = d.year[i] /\ new.notified = d.notified[i]
    /\ IF i \in d.marked THEN Len(new.tests) = 1 /\ new.tests[1] = d.test[i] ELSE Len(new.tests) = 0

LEMMA PlacesGrowBy ==
    ASSUME NEW d, NEW n \in Nat, NEW id, id = d.sid[n + 1]
    PROVE  /\ OneMore(PlacesOf(d, n, id), PlacesOf(d, n + 1, id), n + 1)
           /\ n + 1 \in d.marked => OneMore(MarkedOf(d, n, id), MarkedOf(d, n + 1, id), n + 1)
<1>1. \A i \in 1 .. n + 1 : i \in 1 .. n \/ i = n + 1
  OBVIOUS
<1>2. 1 .. n \subseteq 1 .. n + 1 /\ n + 1 \in 1 .. n + 1 /\ n + 1 \notin 1 .. n
  OBVIOUS
<1>3. PlacesOf(d, n + 1, id) = PlacesOf(d, n, id) \cup {n + 1} /\ n + 1 \notin PlacesOf(d, n, id)
  BY <1>1, <1>2 DEF PlacesOf
<1>4. ASSUME n + 1 \in d.marked
      PROVE  MarkedOf(d, n + 1, id) = MarkedOf(d, n, id) \cup {n + 1} /\ n + 1 \notin MarkedOf(d, n, id)
  BY <1>1, <1>2, <1>4 DEF MarkedOf
<1>5. QED
  BY <1>3, <1>4 DEF OneMore

\* A row without a mark adds none.
LEMMA MarkedStay ==
    ASSUME NEW d, NEW n \in Nat, NEW id, n + 1 \notin d.marked
    PROVE  MarkedOf(d, n + 1, id) = MarkedOf(d, n, id)
<1>1. \A i \in 1 .. n + 1 : i \in 1 .. n \/ i = n + 1
  OBVIOUS
<1>2. 1 .. n \subseteq 1 .. n + 1
  OBVIOUS
<1>3. QED
  BY <1>1, <1>2 DEF MarkedOf

LEMMA EntryNew ==
    ASSUME NEW d, NEW len, DataOK(d, len), NEW n \in Nat, n + 1 <= len, NEW new, new.tests \in Seq(TestRecs),
           new.id = d.sid[n + 1], OfRow(new, d, n + 1), \A i \in 1 .. n : d.sid[i] # new.id
    PROVE  Summary(new, d, n + 1)
<1> DEFINE id == new.id
<1>1. PlacesOf(d, n, id) = {} /\ MarkedOf(d, n, id) = {}
  BY DEF PlacesOf, MarkedOf
<1>2. /\ OneMore({}, PlacesOf(d, n + 1, id), n + 1)
      /\ n + 1 \in d.marked => OneMore({}, MarkedOf(d, n + 1, id), n + 1)
  <2>1. /\ OneMore(PlacesOf(d, n, id), PlacesOf(d, n + 1, id), n + 1)
        /\ n + 1 \in d.marked => OneMore(MarkedOf(d, n, id), MarkedOf(d, n + 1, id), n + 1)
    BY PlacesGrowBy
  <2>2. QED
    BY <1>1, <2>1, Zenon
<1>3. Newest(new.year, d.year, PlacesOf(d, n + 1, id)) /\ Newest(new.notified, d.notified, PlacesOf(d, n + 1, id))
  <2>1. n + 1 \in 1 .. len
    BY DEF DataOK
  <2>2. d.year[n + 1] \in Int /\ d.notified[n + 1] \in Int
    BY <2>1 DEF DataOK
  <2>3. QED
    BY <1>2, <2>2 DEF Newest, OfRow, OneMore
<1>4. Collects(new.tests, d.test, MarkedOf(d, n + 1, id))
  <2>1. CASE n + 1 \in d.marked
    <3>1. Collects(<<>>, d.test, {})
      BY CollectsNone
    <3>2. Len(new.tests) = 1 /\ new.tests[1] = d.test[n + 1]
      BY <2>1 DEF OfRow
    <3>3. <<>> \in Seq(TestRecs) /\ Len(<<>>) = 0
      BY EmptySeq
    <3>4. LongerBy(<<>>, new.tests, d.test[n + 1], TestRecs)
      BY <3>2, <3>3 DEF LongerBy
    <3> DEFINE m == n + 1
               u == d.test
               b == new.tests
               e == d.test[n + 1]
               q == MarkedOf(d, n + 1, id)
               a == <<>>
               p == {}
    <3>5. LongerBy(a, b, e, TestRecs) /\ OneMore(p, q, m) /\ Collects(a, u, p) /\ e = u[m]
      BY <1>2, <2>1, <3>1, <3>4
    <3> HIDE DEF a, b, e, p, q, m, u
    <3>6. Collects(b, u, q)
      BY <3>5, CollectsOneMore
    <3>7. QED
      BY <3>6 DEF b, q, u
  <2>2. CASE n + 1 \notin d.marked
    <3>1. Len(new.tests) = 0 /\ MarkedOf(d, n + 1, id) = {}
      BY <1>1, <2>2, MarkedStay DEF OfRow
    <3>2. QED
      BY <3>1, CollectsNone
  <2>3. QED
    BY <2>1, <2>2
<1>5. QED
  BY <1>3, <1>4 DEF Summary

LEMMA NewestOfMore ==
    ASSUME NEW v, NEW P, NEW Q, NEW i, OneMore(P, Q, i), \A j \in Q : v[j] \in Int,
           NEW x \in Int, Newest(x, v, P)
    PROVE  Newest(Larger(x, v[i]), v, Q) /\ Larger(x, v[i]) \in Int
<1>6. Q = P \cup {i} /\ v[i] \in Int
  BY DEF OneMore
<1>1. Larger(x, v[i]) \in Int /\ Larger(x, v[i]) >= x /\ Larger(x, v[i]) >= v[i]
  BY <1>6 DEF Larger
<1>2. Larger(x, v[i]) = x \/ Larger(x, v[i]) = v[i]
  BY DEF Larger
<1>3. \A j \in P \cup {i} : v[j] <= Larger(x, v[i])
  BY <1>1, <1>6 DEF Newest
<1>4. \E j \in P \cup {i} : v[j] = Larger(x, v[i])
  BY <1>2, <1>6 DEF Newest
<1>5. QED
  BY <1>1, <1>3, <1>4, <1>6 DEF Newest

\* A list put together of a list and none or one element.
LEMMA JoinedWith ==
    ASSUME NEW S, NEW a \in Seq(S), NEW b \in Seq(S), Len(b) \in {0, 1}
    PROVE  /\ a \o b \in Seq(S) /\ Len(a \o b) = Len(a) + Len(b)
           /\ Len(b) = 1 => LongerBy(a, a \o b, b[1], S)
<1>1. a \o b \in Seq(S) /\ Len(a \o b) = Len(a) + Len(b)
  BY ConcatProperties
<1>2. \A k \in 1 .. Len(a) + Len(b) : (a \o b)[k] = IF k <= Len(a) THEN a[k] ELSE b[k - Len(a)]
  BY ConcatProperties
<1>3. Len(a) \in Nat /\ Len(b) \in Nat
  BY LenProperties
<1>4. \A k \in 1 .. Len(a) : k \in 1 .. Len(a) + Len(b) /\ k <= Len(a)
  BY <1>3
<1>5. Len(b) = 1 => Len(a) + 1 \in 1 .. Len(a) + Len(b) /\ ~(Len(a) + 1 <= Len(a)) /\ (Len(a) + 1) - Len(a) = 1
  BY <1>3
<1>6. QED
  BY <1>1, <1>2, <1>4, <1>5 DEF LongerBy

LEMMA EntryMore ==
    ASSUME NEW d, NEW len, DataOK(d, len), NEW n \in Nat, n + 1 <= len,
           NEW new, new.tests \in Seq(TestRecs), OfRow(new, d, n + 1),
           NEW s, s.tests \in Seq(TestRecs), s.year \in Int, s.notified \in Int,
           s.id = d.sid[n + 1], Summary(s, d, n),
           NEW t, t.id = s.id, t.year = Larger(s.year, new.year),
           t.notified = Larger(s.notified, new.notified), t.tests = s.tests \o new.tests
    PROVE  Summary(t, d, n + 1)
<1> DEFINE id == s.id
<1>1. \A i \in PlacesOf(d, n + 1, id) : d.year[i] \in Int /\ d.notified[i] \in Int
  BY DEF DataOK, PlacesOf
<1>2. OneMore(PlacesOf(d, n, id), PlacesOf(d, n + 1, id), n + 1)
  BY PlacesGrowBy
<1>3. Newest(s.year, d.year, PlacesOf(d, n, id)) /\ Newest(s.notified, d.notified, PlacesOf(d, n, id))
  BY DEF Summary
<1>4. t.year = Larger(s.year, d.year[n + 1]) /\ t.notified = Larger(s.notified, d.notified[n + 1])
  BY DEF OfRow
<1>5. Newest(t.year, d.year, PlacesOf(d, n + 1, id))
  <2>1. Newest(Larger(s.year, d.year[n + 1]), d.year, PlacesOf(d, n + 1, id))
    BY <1>1, <1>2, <1>3, NewestOfMore
  <2>2. QED
    BY <1>4, <2>1, Zenon
<1>6. Newest(t.notified, d.notified, PlacesOf(d, n + 1, id))
  <2>1. Newest(Larger(s.notified, d.notified[n + 1]), d.notified, PlacesOf(d, n + 1, id))
    BY <1>1, <1>2, <1>3, NewestOfMore
  <2>2. QED
    BY <1>4, <2>1, Zenon
<1>7. Collects(t.tests, d.test, MarkedOf(d, n + 1, id))
  <2>1. Len(new.tests) \in {0, 1}
    BY DEF OfRow
  <2>2. /\ t.tests \in Seq(TestRecs)
        /\ Len(new.tests) = 1 => LongerBy(s.tests, t.tests, new.tests[1], TestRecs)
    BY <2>1, JoinedWith
  <2>3. Collects(s.tests, d.test, MarkedOf(d, n, id))
    BY DEF Summary
  <2>4. CASE n + 1 \in d.marked
    <3>1. LongerBy(s.tests, t.tests, d.test[n + 1], TestRecs)
      BY <2>2, <2>4 DEF OfRow
    <3>2. OneMore(MarkedOf(d, n, id), MarkedOf(d, n + 1, id), n + 1)
      BY <2>4, PlacesGrowBy
    <3> DEFINE m == n + 1
               u == d.test
               b == t.tests
               a == s.tests
               e == d.test[n + 1]
               p == MarkedOf(d, n, id)
               q == MarkedOf(d, n + 1, id)
    <3>3. LongerBy(a, b, e, TestRecs) /\ OneMore(p, q, m) /\ Collects(a, u, p) /\ e = u[m]
      BY <2>3, <3>1, <3>2
    <3> HIDE DEF a, b, e, p, q, m, u
    <3>4. Collects(b, u, q)
      BY <3>3, CollectsOneMore
    <3>5. QED
      BY <3>4 DEF b, q, u
  <2>5. CASE n + 1 \notin d.marked
    <3>1. Len(new.tests) = 0 /\ new.tests = <<>>
      BY <2>5, EmptySeq DEF OfRow
    <3>2. t.tests = s.tests
      BY <3>1, ConcatEmptySeq
    <3>3. MarkedOf(d, n + 1, id) = MarkedOf(d, n, id)
      BY <2>5, MarkedStay
    <3>4. QED
      BY <2>3, <3>2, <3>3
  <2>6. QED
    BY <2>4, <2>5
<1>8. QED
  BY <1>5, <1>6, <1>7, Zenon DEF Summary

-----------------------------------------------------------------------------
(* One row *)

\* The texts of a row that a student takes over.
TextsIn(row, col, V) == Cell(row, col.sid) \in V /\ Cell(row, col.name) \in V /\ Cell(row, col.email) \in V

LEMMA CellNumbers ==
    ASSUME NEW cell
    PROVE  /\ NumberOr0(cell) \in Int /\ ParseLastNotified(cell) \in Int
           /\ ToNumber(cell) # NoNumber => ToNumber(cell) \in Int
           /\ NormalizeTestType(cell) \in TestTypes
<1>1. NumberOr0(cell) \in Int /\ ParseLastNotified(cell) \in Int
  <2>1. cell \in DOMAIN NumberOf => NumberOf[cell] \in Int
    BY NumbersAssumption
  <2>2. NumberOr0(cell) \in Int
    BY <2>1 DEF NumberOr0
  <2>3. QED
    BY <2>2 DEF ParseLastNotified
<1>2. ToNumber(cell) # NoNumber => ToNumber(cell) \in Int
  BY NumbersAssumption DEF ToNumber
<1>3. NormalizeTestType(cell) \in TestTypes
  BY DEF NormalizeTestType, TestTypes
<1>4. QED
  BY <1>1, <1>2, <1>3

LEMMA TestsOfRow ==
    ASSUME NEW row, NEW col
    PROVE  /\ ToNumber(Cell(row, col.score)) # NoNumber =>
                TestOf(row, col) \in TestRecs /\ Len(TestsIn(row, col)) = 1 /\ TestsIn(row, col)[1] = TestOf(row, col)
           /\ ToNumber(Cell(row, col.score)) = NoNumber => Len(TestsIn(row, col)) = 0
           /\ TestsIn(row, col) \in Seq(TestRecs)
<1>1. TestOf(row, col).score = ToNumber(Cell(row, col.score))
  BY DEF TestOf
<1>2. CASE ToNumber(Cell(row, col.score)) # NoNumber
  <2>1. TestOf(row, col) \in TestRecs
    BY <1>2, CellNumbers DEF TestOf, TestRecs
  <2>2. TestsIn(row, col) = <<TestOf(row, col)>>
    BY <1>1, <1>2 DEF TestsIn
  <2> HIDE DEF TestRecs
  <2>3. QED
    BY <1>2, <2>1, <2>2
<1>3. CASE ToNumber(Cell(row, col.score)) = NoNumber
  <2>1. TestsIn(row, col) = <<>>
    BY <1>1, <1>3 DEF TestsIn
  <2>2. QED
    BY <1>3, <2>1, EmptySeq
<1>4. QED
  BY <1>2, <1>3

LEMMA NewStudentIs ==
    ASSUME NEW V, NEW row, NEW col, TextsIn(row, col, V)
    PROVE  /\ NewStudent(row, col) \in StudentRecs(V)
           /\ NewStudent(row, col).id = Cell(row, col.sid)
           /\ NewStudent(row, col).year = NumberOr0(Cell(row, col.year))
           /\ NewStudent(row, col).notified = ParseLastNotified(Cell(row, col.notified))
           /\ NewStudent(row, col).tests = TestsIn(row, col)
<1>1. OrElse(Cell(row, col.name), Cell(row, col.sid)) \in V
  BY DEF TextsIn, OrElse
<1>2. TestsIn(row, col) \in Seq(TestRecs)
  BY TestsOfRow
<1>3. NumberOr0(Cell(row, col.year)) \in Int /\ ParseLastNotified(Cell(row, col.notified)) \in Int
  BY CellNumbers
<1>4. QED
  BY <1>1, <1>2, <1>3 DEF NewStudent, StudentRecs, TextsIn

\* t is the entry s with what a row adds.
Updated(s, t, new, V) ==
    /\ t \in StudentRecs(V) /\ t.id = s.id /\ t.year = Larger(s.year, new.year)
    /\ t.notified = Larger(s.notified, new.notified) /\ t.tests = s.tests \o new.tests

LEMMA WithRowIs ==
    ASSUME NEW V, NEW row, NEW col, TextsIn(row, col, V), NEW s \in StudentRecs(V)
    PROVE  Updated(s, WithRow(s, row, col), NewStudent(row, col), V)
<1> DEFINE new == NewStudent(row, col)
<1>1. new \in StudentRecs(V)
  BY NewStudentIs
<1> HIDE DEF new
<1>2. new.name \in V /\ new.email \in V /\ new.year \in Int /\ new.notified \in Int /\ new.tests \in Seq(TestRecs)
  BY <1>1 DEF StudentRecs
<1>3. s.id \in V /\ s.name \in V /\ s.email \in V /\ s.year \in Int /\ s.notified \in Int /\ s.tests \in Seq(TestRecs)
  BY DEF StudentRecs
<1>4. OrElse(s.email, new.email) \in V /\ Larger(s.year, new.year) \in Int /\ Larger(s.notified, new.notified) \in Int
  BY <1>2, <1>3 DEF OrElse, Larger
<1>5. s.tests \o new.tests \in Seq(TestRecs)
  BY <1>2, <1>3, ConcatProperties
<1>6. WithRow(s, row, col) =
        [s EXCEPT !.name = new.name, !.email = OrElse(s.email, new.email), !.year = Larger(s.year, new.year),
                  !.notified = Larger(s.notified, new.notified), !.tests = s.tests \o new.tests]
  BY DEF WithRow, new
<1>7. WithRow(s, row, col) =
        [id |-> s.id, name |-> new.name, email |-> OrElse(s.email, new.email), year |-> Larger(s.year, new.year),
         notified |-> Larger(s.notified, new.notified), tests |-> s.tests \o new.tests]
  BY <1>6 DEF StudentRecs
<1>8. QED
  <2>1. WithRow(s, row, col) \in StudentRecs(V)
    BY <1>2, <1>3, <1>4, <1>5, <1>7 DEF StudentRecs
  <2>2. QED
    <3> DEFINE t == WithRow(s, row, col)
               year == Larger(s.year, new.year)
               notified == Larger(s.notified, new.notified)
               tests == s.tests \o new.tests
               email == OrElse(s.email, new.email)
    <3>1. t = [id |-> s.id, name |-> new.name, email |-> email, year |-> year, notified |-> notified, tests |-> tests]
      BY <1>7
    <3> HIDE DEF t, year, notified, tests, email
    <3>2. t.id = s.id /\ t.year = year /\ t.notified = notified /\ t.tests = tests
      BY <3>1
    <3>3. t \in StudentRecs(V)
      BY <2>1 DEF t
    <3>4. QED
      BY <3>2, <3>3 DEF Updated, new, t, year, notified, tests

LEMMA RowRead ==
    ASSUME NEW A, NEW table \in Seq(A), NEW col, NEW len, len = Len(table), NEW V,
           \A i \in 1 .. len : TextsIn(table[i], col, V)
    PROVE  /\ DataOK(RowData(table, col), len)
           /\ \A i \in 1 .. len : /\ RowData(table, col).sid[i] = Cell(table[i], col.sid)
                                  /\ OfRow(NewStudent(table[i], col), RowData(table, col), i)
<1> DEFINE d == RowData(table, col)
<1>1. len \in Nat /\ DOMAIN table = 1 .. len
  BY LenProperties
<1>2. ASSUME NEW i \in 1 .. len
      PROVE  /\ d.sid[i] = Cell(table[i], col.sid) /\ d.test[i] = TestOf(table[i], col)
             /\ d.year[i] = NumberOr0(Cell(table[i], col.year))
             /\ d.notified[i] = ParseLastNotified(Cell(table[i], col.notified))
             /\ i \in d.marked <=> ToNumber(Cell(table[i], col.score)) # NoNumber
  BY <1>1 DEF RowData
<1> HIDE DEF d
<1>3. DataOK(d, len)
  <2>1. \A i \in 1 .. len : d.year[i] \in Int /\ d.notified[i] \in Int
    BY <1>2, CellNumbers
  <2>2. ASSUME NEW i \in 1 .. len, i \in d.marked
        PROVE  d.test[i] \in TestRecs
    BY <1>2, <2>2, TestsOfRow
  <2>3. QED
    BY <1>1, <2>1, <2>2 DEF DataOK
<1>4. ASSUME NEW i \in 1 .. len
      PROVE  OfRow(NewStudent(table[i], col), d, i)
  <2> DEFINE new == NewStudent(table[i], col)
  <2>1. /\ new.year = NumberOr0(Cell(table[i], col.year))
        /\ new.notified = ParseLastNotified(Cell(table[i], col.notified))
        /\ new.tests = TestsIn(table[i], col)
    BY NewStudentIs
  <2> HIDE DEF new
  <2>2. CASE i \in d.marked
    <3>1. Len(new.tests) = 1 /\ new.tests[1] = d.test[i]
      BY <1>2, <2>1, <2>2, TestsOfRow
    <3>2. QED
      BY <1>2, <2>1, <2>2, <3>1 DEF OfRow, new
  <2>3. CASE i \notin d.marked
    <3>1. Len(new.tests) = 0
      BY <1>2, <2>1, <2>3, TestsOfRow
    <3>2. QED
      BY <1>2, <2>1, <2>3, <3>1 DEF OfRow, new
  <2>4. QED
    BY <2>2, <2>3
<1>5. QED
  BY <1>2, <1>3, <1>4 DEF d

-----------------------------------------------------------------------------
(* All rows *)

TestCounts(students) == [k \in DOMAIN students |-> Len(students[k].tests)]
DistinctIds(students) == \A j, k \in 1 .. Len(students) : students[j].id = students[k].id => j = k
Complete(students, d, n) ==
    /\ \A k \in 1 .. Len(students) : students[k].id # NoText
    /\ \A i \in 1 .. n : d.sid[i] # NoText => \E k \in 1 .. Len(students) : students[k].id = d.sid[i]

\* The students of the first n rows: one entry each, with what their rows say, and
\* all marks counted.
PerStudent(students, d, n, V) ==
    /\ students \in Seq(StudentRecs(V))
    /\ DistinctIds(students) /\ Complete(students, d, n)
    /\ \A k \in 1 .. Len(students) : Summary(students[k], d, n)
    /\ SumOf(TestCounts(students)) = Cardinality(CountedTo(d, n))

LEMMA CountedMore ==
    ASSUME NEW d, NEW n \in Nat
    PROVE  /\ IsFiniteSet(CountedTo(d, n)) /\ Cardinality(CountedTo(d, n)) \in Nat
           /\ d.sid[n + 1] # NoText /\ n + 1 \in d.marked
                => Cardinality(CountedTo(d, n + 1)) = Cardinality(CountedTo(d, n)) + 1
           /\ ~(d.sid[n + 1] # NoText /\ n + 1 \in d.marked)
                => Cardinality(CountedTo(d, n + 1)) = Cardinality(CountedTo(d, n))
<1>1. \A i \in 1 .. n + 1 : i \in 1 .. n \/ i = n + 1
  OBVIOUS
<1>2. 1 .. n \subseteq 1 .. n + 1 /\ n + 1 \in 1 .. n + 1 /\ n + 1 \notin 1 .. n
  OBVIOUS
<1>3. CountedTo(d, n) \in SUBSET (1 .. n)
  BY DEF CountedTo
<1>4. IsFiniteSet(CountedTo(d, n)) /\ Cardinality(CountedTo(d, n)) \in Nat
  BY <1>3, FirstNumbers, FS_Subset, FS_CardinalityType
<1>5. ASSUME d.sid[n + 1] # NoText, n + 1 \in d.marked
      PROVE  Cardinality(CountedTo(d, n + 1)) = Cardinality(CountedTo(d, n)) + 1
  <2>1. CountedTo(d, n + 1) = CountedTo(d, n) \cup {n + 1}
    BY <1>1, <1>2, <1>5 DEF CountedTo
  <2>2. n + 1 \notin CountedTo(d, n)
    BY <1>2, <1>3
  <2>3. QED
    BY <1>4, <2>1, <2>2, FS_AddElement
<1>6. ASSUME ~(d.sid[n + 1] # NoText /\ n + 1 \in d.marked)
      PROVE  CountedTo(d, n + 1) = CountedTo(d, n)
  BY <1>1, <1>2, <1>6 DEF CountedTo
<1>7. QED
  BY <1>4, <1>5, <1>6

LEMMA GroupedStart ==
    ASSUME NEW d, NEW V
    PROVE  PerStudent(<<>>, d, 0, V)
<1>1. <<>> \in Seq(StudentRecs(V)) /\ Len(<<>>) = 0
  BY EmptySeq
<1>2. DistinctIds(<<>>) /\ Complete(<<>>, d, 0) /\ \A k \in 1 .. Len(<<>>) : Summary(<<>>[k], d, 0)
  BY <1>1 DEF DistinctIds, Complete
<1>3. SumOf(TestCounts(<<>>)) = 0
  <2>1. TestCounts(<<>>) = <<>>
    BY DEF TestCounts
  <2>2. <<>> \in Seq(Int) /\ Len(<<>>) = 0
    BY EmptySeq
  <2>3. SumOf(<<>>) = 0
    BY <2>2, SumsDefined
  <2>4. QED
    BY <2>1, <2>3
<1>4. Cardinality(CountedTo(d, 0)) = 0
  <2>1. CountedTo(d, 0) = {}
    BY DEF CountedTo
  <2>2. QED
    BY <2>1, FS_EmptySet
<1>5. QED
  BY <1>1, <1>2, <1>3, <1>4 DEF PerStudent

LEMMA CountsTyped ==
    ASSUME NEW V, NEW students \in Seq(StudentRecs(V))
    PROVE  /\ TestCounts(students) \in Seq(Int) /\ Len(TestCounts(students)) = Len(students)
           /\ \A k \in 1 .. Len(students) : /\ TestCounts(students)[k] = Len(students[k].tests)
                                            /\ Len(students[k].tests) \in Nat
                                            /\ students[k] \in StudentRecs(V)
                                            /\ students[k].tests \in Seq(TestRecs)
<1> DEFINE n == Len(students)
<1>1. n \in Nat /\ DOMAIN students = 1 .. n
  BY LenProperties
<1>2. \A k \in 1 .. n : students[k] \in StudentRecs(V)
  BY ElementOfSeq
<1>3. \A k \in 1 .. n : students[k].tests \in Seq(TestRecs)
  BY <1>2 DEF StudentRecs
<1>4. \A k \in 1 .. n : Len(students[k].tests) \in Nat
  BY <1>3, LenProperties
<1>5. TestCounts(students) \in [1 .. n -> Int]
  BY <1>1, <1>4 DEF TestCounts
<1>6. TestCounts(students) \in Seq(Int) /\ Len(TestCounts(students)) = n
  BY <1>1, <1>5, FunctionAsSeq
<1>7. \A k \in 1 .. n : TestCounts(students)[k] = Len(students[k].tests)
  BY <1>1 DEF TestCounts
<1>8. QED
  BY <1>2, <1>3, <1>4, <1>6, <1>7

\* A row without a student's number changes nothing.
LEMMA GroupedSkips ==
    ASSUME NEW d, NEW V, NEW n \in Nat, NEW students, PerStudent(students, d, n, V), d.sid[n + 1] = NoText
    PROVE  PerStudent(students, d, n + 1, V)
<1>1. \A i \in 1 .. n + 1 : i \in 1 .. n \/ i = n + 1
  OBVIOUS
<1>2. Complete(students, d, n + 1)
  BY <1>1 DEF Complete, PerStudent
<1>3. \A k \in 1 .. Len(students) : Summary(students[k], d, n + 1)
  <2>1. SUFFICES ASSUME NEW k \in 1 .. Len(students)
                 PROVE  Summary(students[k], d, n + 1)
    OBVIOUS
  <2>2. Summary(students[k], d, n) /\ students[k].id # d.sid[n + 1]
    BY DEF PerStudent, Complete
  <2>3. QED
    BY <2>2, EntryOther
<1>4. Cardinality(CountedTo(d, n + 1)) = Cardinality(CountedTo(d, n))
  BY CountedMore
<1>5. QED
  BY <1>2, <1>3, <1>4 DEF PerStudent

\* The first row of a student opens an entry.
LEMMA GroupedAppends ==
    ASSUME NEW d, NEW len, DataOK(d, len), NEW V, NEW n \in Nat, n + 1 <= len,
           NEW students, PerStudent(students, d, n, V), d.sid[n + 1] # NoText,
           \A k \in 1 .. Len(students) : students[k].id # d.sid[n + 1],
           NEW new \in StudentRecs(V), new.id = d.sid[n + 1], OfRow(new, d, n + 1)
    PROVE  PerStudent(Append(students, new), d, n + 1, V)
<1> DEFINE m == Len(students)
           more == Append(students, new)
<1>1. students \in Seq(StudentRecs(V)) /\ m \in Nat
  BY LenProperties DEF PerStudent
<1>2. more \in Seq(StudentRecs(V)) /\ Len(more) = m + 1
  BY <1>1
<1>3. more[m + 1] = new /\ \A k \in 1 .. m : more[k] = students[k]
  BY <1>1
<1> HIDE DEF more, m
<1>4. /\ \A k \in 1 .. m + 1 : k \in 1 .. m \/ k = m + 1
      /\ m + 1 \in 1 .. m + 1 /\ \A k \in 1 .. m : k \in 1 .. m + 1
  BY <1>1
<1>5. \A i \in 1 .. n + 1 : i \in 1 .. n \/ i = n + 1
  OBVIOUS
<1>6. /\ \A j, k \in 1 .. m : students[j].id = students[k].id => j = k
      /\ \A k \in 1 .. m : students[k].id # NoText /\ students[k].id # d.sid[n + 1] /\ Summary(students[k], d, n)
      /\ \A i \in 1 .. n : d.sid[i] # NoText => \E k \in 1 .. m : students[k].id = d.sid[i]
  BY DEF PerStudent, DistinctIds, Complete, m
<1>7. DistinctIds(more)
  BY <1>2, <1>3, <1>4, <1>6 DEF DistinctIds
<1>8. Complete(more, d, n + 1)
  <2>1. \A k \in 1 .. m + 1 : more[k].id # NoText
    BY <1>3, <1>4, <1>6
  <2>2. \A i \in 1 .. n + 1 : d.sid[i] # NoText => \E k \in 1 .. m + 1 : more[k].id = d.sid[i]
    BY <1>3, <1>4, <1>5, <1>6
  <2>3. QED
    BY <1>2, <2>1, <2>2 DEF Complete
<1>9. \A k \in 1 .. m + 1 : Summary(more[k], d, n + 1)
  <2>1. ASSUME NEW k \in 1 .. m
        PROVE  Summary(students[k], d, n + 1)
    BY <1>6, EntryOther
  <2>2. Summary(new, d, n + 1)
    <3>1. new.tests \in Seq(TestRecs)
      BY DEF StudentRecs
    <3>2. \A i \in 1 .. n : d.sid[i] # new.id
      BY <1>6
    <3>3. QED
      BY <3>1, <3>2, EntryNew
  <2>3. QED
    BY <1>3, <1>4, <2>1, <2>2
<1>10. SumOf(TestCounts(more)) = Cardinality(CountedTo(d, n + 1))
  <2>1. /\ TestCounts(students) \in Seq(Int) /\ Len(TestCounts(students)) = m
        /\ \A k \in 1 .. m : TestCounts(students)[k] = Len(students[k].tests)
    BY <1>1, CountsTyped DEF m
  <2>2. /\ TestCounts(more) \in Seq(Int) /\ Len(TestCounts(more)) = m + 1
        /\ \A k \in 1 .. m + 1 : TestCounts(more)[k] = Len(more[k].tests)
    BY <1>2, CountsTyped
  <2>3. \A k \in 1 .. m : TestCounts(students)[k] = TestCounts(more)[k]
    BY <1>3, <1>4, <2>1, <2>2
  <2> DEFINE a == TestCounts(students)
             b == TestCounts(more)
  <2>4. a \in Seq(Int) /\ b \in Seq(Int) /\ m = Len(a) /\ Len(b) = m + 1 /\ \A k \in 1 .. m : a[k] = b[k]
    BY <2>1, <2>2, <2>3
  <2>5. b[m + 1] = Len(new.tests)
    BY <1>3, <1>4, <2>2
  <2> HIDE DEF a, b
  <2>6. SumOf(b) = SumOf(a) + b[m + 1] /\ SumOf(a) \in Int
    BY <2>4, SumExtended
  <2>7. SumOf(a) = Cardinality(CountedTo(d, n))
    BY DEF PerStudent, a
  <2>8. Len(new.tests) = IF n + 1 \in d.marked THEN 1 ELSE 0
    BY DEF OfRow
  <2>9. SumOf(b) = Cardinality(CountedTo(d, n + 1))
    BY <2>5, <2>6, <2>7, <2>8, CountedMore
  <2>10. QED
    BY <2>9 DEF b
<1>11. QED
  BY <1>2, <1>7, <1>8, <1>9, <1>10 DEF PerStudent, more

\* A further row of a student changes that student's entry.
LEMMA GroupedChanges ==
    ASSUME NEW d, NEW len, DataOK(d, len), NEW V, NEW n \in Nat, n + 1 <= len,
           NEW students, PerStudent(students, d, n, V), d.sid[n + 1] # NoText,
           NEW j \in 1 .. Len(students), students[j].id = d.sid[n + 1],
           NEW new \in StudentRecs(V), OfRow(new, d, n + 1),
           NEW s, Updated(students[j], s, new, V),
           NEW more \in Seq(StudentRecs(V)), Len(more) = Len(students), more[j] = s,
           \A k \in 1 .. Len(students) : k # j => more[k] = students[k]
    PROVE  PerStudent(more, d, n + 1, V)
<1> DEFINE m == Len(students)
<1>1. students \in Seq(StudentRecs(V)) /\ m \in Nat
  BY LenProperties DEF PerStudent
<1>2. j \in 1 .. m /\ Len(more) = m /\ \A k \in 1 .. m : k # j => more[k] = students[k]
  OBVIOUS
<1> HIDE DEF m
<1>11. /\ s \in StudentRecs(V) /\ s.id = students[j].id /\ s.year = Larger(students[j].year, new.year)
       /\ s.notified = Larger(students[j].notified, new.notified) /\ s.tests = students[j].tests \o new.tests
  BY DEF Updated
<1>3. \A i \in 1 .. n + 1 : i \in 1 .. n \/ i = n + 1
  OBVIOUS
<1>4. /\ \A i, k \in 1 .. m : students[i].id = students[k].id => i = k
      /\ \A k \in 1 .. m : students[k].id # NoText /\ Summary(students[k], d, n)
      /\ \A i \in 1 .. n : d.sid[i] # NoText => \E k \in 1 .. m : students[k].id = d.sid[i]
  BY DEF PerStudent, DistinctIds, Complete, m
<1>5. \A k \in 1 .. m : more[k].id = students[k].id
  BY <1>2, <1>11
<1>6. DistinctIds(more)
  BY <1>2, <1>4, <1>5 DEF DistinctIds
<1>7. Complete(more, d, n + 1)
  <2>1. \A k \in 1 .. m : more[k].id # NoText
    BY <1>4, <1>5
  <2>2. \A i \in 1 .. n + 1 : d.sid[i] # NoText => \E k \in 1 .. m : more[k].id = d.sid[i]
    <3>1. SUFFICES ASSUME NEW i \in 1 .. n + 1, d.sid[i] # NoText
                   PROVE  \E k \in 1 .. m : more[k].id = d.sid[i]
      OBVIOUS
    <3>2. CASE i = n + 1
      BY <1>2, <1>5, <3>2
    <3>3. CASE i \in 1 .. n
      BY <1>4, <1>5, <3>1, <3>3
    <3>4. QED
      BY <1>3, <3>2, <3>3
  <2>3. QED
    BY <1>2, <2>1, <2>2 DEF Complete
<1>8. \A k \in 1 .. m : Summary(more[k], d, n + 1)
  <2>1. ASSUME NEW k \in 1 .. m, k # j
        PROVE  Summary(students[k], d, n + 1)
    <3>1. students[k].id # d.sid[n + 1] /\ Summary(students[k], d, n)
      BY <1>2, <1>4, <2>1
    <3>2. QED
      BY <3>1, EntryOther
  <2>2. Summary(s, d, n + 1)
    <3>1. new.tests \in Seq(TestRecs)
      BY DEF StudentRecs
    <3> DEFINE old == students[j]
    <3>2. old \in StudentRecs(V)
      BY <1>1, <1>2, ElementOfSeq DEF m
    <3>3. old.tests \in Seq(TestRecs) /\ old.year \in Int /\ old.notified \in Int
      BY <3>2 DEF StudentRecs
    <3>4. /\ old.id = d.sid[n + 1] /\ Summary(old, d, n) /\ s.id = old.id /\ s.year = Larger(old.year, new.year)
          /\ s.notified = Larger(old.notified, new.notified) /\ s.tests = old.tests \o new.tests
      BY <1>2, <1>4, <1>11
    <3> HIDE DEF old
    <3>5. QED
      BY <3>1, <3>3, <3>4, EntryMore
  <2>3. QED
    BY <1>2, <2>1, <2>2
<1>9. SumOf(TestCounts(more)) = Cardinality(CountedTo(d, n + 1))
  <2> DEFINE a == TestCounts(students)
             b == TestCounts(more)
  <2>1. a \in Seq(Int) /\ Len(a) = m /\ \A k \in 1 .. m : a[k] = Len(students[k].tests)
    BY <1>1, CountsTyped DEF m
  <2>2. b \in Seq(Int) /\ Len(b) = m /\ \A k \in 1 .. m : b[k] = Len(more[k].tests)
    BY <1>2, CountsTyped
  <2> HIDE DEF a, b
  <2>3. \A k \in 1 .. m : k # j => a[k] = b[k]
    BY <1>2, <2>1, <2>2
  <2>4. SumOf(b) = SumOf(a) + (b[j] - a[j]) /\ SumOf(a) \in Int /\ a[j] \in Int /\ b[j] \in Int
    <3>1. a \in Seq(Int) /\ b \in Seq(Int) /\ m = Len(a) /\ Len(b) = m /\ j \in 1 .. m
      BY <1>2, <2>1, <2>2
    <3>2. \A k \in 1 .. m : k # j => a[k] = b[k]
      BY <2>3
    <3>3. ChangedAt(a, b, m, j)
      BY <3>1, <3>2 DEF ChangedAt
    <3>4. QED
      BY <3>3, SumChanged
  <2>5. b[j] = a[j] + Len(new.tests)
    <3>1. students[j].tests \in Seq(TestRecs) /\ new.tests \in Seq(TestRecs)
      BY <1>1, CountsTyped DEF StudentRecs
    <3>2. Len(students[j].tests \o new.tests) = Len(students[j].tests) + Len(new.tests)
      BY <3>1, ConcatProperties
    <3>3. QED
      BY <1>2, <1>11, <2>1, <2>2, <3>2
  <2>6. Len(new.tests) = IF n + 1 \in d.marked THEN 1 ELSE 0
    BY DEF OfRow
  <2>7. SumOf(b) = SumOf(a) + Len(new.tests)
    BY <2>4, <2>5, <2>6
  <2>8. SumOf(a) = Cardinality(CountedTo(d, n))
    BY DEF PerStudent, a
  <2>9. SumOf(b) = Cardinality(CountedTo(d, n + 1))
    BY <2>6, <2>7, <2>8, CountedMore
  <2>10. QED
    BY <2>9 DEF b
<1>10. QED
  BY <1>2, <1>6, <1>7, <1>8, <1>9 DEF PerStudent

\* Reading one row more.
LEMMA RowAdded ==
    ASSUME NEW A, NEW table \in Seq(A), NEW col, NEW len, len = Len(table), NEW V,
           \A i \in 1 .. len : TextsIn(table[i], col, V),
           NEW n \in Nat, n + 1 <= len, NEW students, PerStudent(students, RowData(table, col), n, V)
    PROVE  PerStudent(AddRow(students, table[n + 1], col), RowData(table, col), n + 1, V)
<1> DEFINE d == RowData(table, col)
           row == table[n + 1]
           new == NewStudent(row, col)
<1>1. n + 1 \in 1 .. len
  BY LenProperties
<1>2. TextsIn(row, col, V)
  BY <1>1
<1>3. new \in StudentRecs(V) /\ new.id = Cell(row, col.sid)
  BY <1>2, NewStudentIs
<1>4. DataOK(d, len) /\ d.sid[n + 1] = Cell(row, col.sid) /\ OfRow(new, d, n + 1)
  BY <1>1, RowRead
<1>5. PerStudent(students, d, n, V) /\ students \in Seq(StudentRecs(V))
  BY DEF PerStudent
<1> DEFINE m == Len(students)
<1>6. m \in Nat /\ DOMAIN students = 1 .. m
  BY <1>5, LenProperties
<1> HIDE DEF d, row, new
<1>7. CASE Cell(row, col.sid) = NoText
  <2>1. AddRow(students, row, col) = students
    BY <1>7 DEF AddRow
  <2>2. PerStudent(students, d, n + 1, V)
    BY <1>4, <1>5, <1>7, GroupedSkips
  <2>3. QED
    BY <2>1, <2>2 DEF d, row
<1>8. CASE Cell(row, col.sid) # NoText /\ \A k \in 1 .. m : students[k].id # Cell(row, col.sid)
  <2>1. AddRow(students, row, col) = Append(students, new)
    BY <1>6, <1>8 DEF AddRow, new
  <2>2. PerStudent(Append(students, new), d, n + 1, V)
    BY <1>3, <1>4, <1>5, <1>8, GroupedAppends
  <2>3. QED
    BY <2>1, <2>2 DEF d, row
<1>9. CASE Cell(row, col.sid) # NoText /\ \E k \in 1 .. m : students[k].id = Cell(row, col.sid)
  <2>1. PICK j \in 1 .. m : students[j].id = Cell(row, col.sid)
    BY <1>9
  <2> DEFINE s == WithRow(students[j], row, col)
             more == [k \in 1 .. m |-> IF students[k].id = Cell(row, col.sid) THEN WithRow(students[k], row, col)
                                       ELSE students[k]]
  <2>2. AddRow(students, row, col) = more
    BY <1>6, <1>9 DEF AddRow
  <2>3. \A k \in 1 .. m : students[k] \in StudentRecs(V)
    BY <1>5, ElementOfSeq
  <2>4. more \in [1 .. m -> StudentRecs(V)]
    <3>1. SUFFICES ASSUME NEW k \in 1 .. m
                   PROVE  WithRow(students[k], row, col) \in StudentRecs(V)
      BY <2>3
    <3>2. QED
      BY <1>2, <2>3, WithRowIs DEF Updated
  <2>5. \A k \in 1 .. m : k # j => students[k].id # Cell(row, col.sid)
    BY <1>5, <2>1 DEF PerStudent, DistinctIds
  <2>6. more[j] = s /\ \A k \in 1 .. m : k # j => more[k] = students[k]
    BY <2>1, <2>5
  <2> HIDE DEF more
  <2>7. more \in Seq(StudentRecs(V)) /\ Len(more) = m
    BY <1>6, <2>4, FunctionAsSeq
  <2>8. Updated(students[j], s, new, V)
    BY <1>2, <2>3, WithRowIs DEF new
  <2> HIDE DEF s
  <2>9. PerStudent(more, d, n + 1, V)
    BY <1>3, <1>4, <1>5, <1>9, <2>1, <2>6, <2>7, <2>8, GroupedChanges
  <2>10. QED
    BY <2>2, <2>9 DEF d, row
<1>10. QED
  BY <1>7, <1>8, <1>9

\* The students after the first rows are what they are defined to be.
LEMMA StudentsDefined ==
    ASSUME NEW A, NEW table \in Seq(A), NEW col, NEW len, len = Len(table)
    PROVE  /\ StudentsAfter(table, col)[0] = <<>>
           /\ \A n \in 0 .. len : n < len =>
                 StudentsAfter(table, col)[n + 1] = AddRow(StudentsAfter(table, col)[n], table[n + 1], col)
<1> DEFINE Is(s, m) == s = [n \in 0 .. m |-> IF n = 0 THEN <<>> ELSE AddRow(s[n - 1], table[n], col)]
           T == {m \in Nat : m <= len => \E s : Is(s, m)}
<1>1. len \in Nat
  BY LenProperties
<1>2. 0 \in T
  <2> DEFINE s == [n \in 0 .. 0 |-> <<>>]
  <2>1. Is(s, 0)
    OBVIOUS
  <2>2. QED
    BY <2>1
<1>3. ASSUME NEW m \in Nat, m \in T
      PROVE  m + 1 \in T
  <2> SUFFICES ASSUME m + 1 <= len
               PROVE  \E s : Is(s, m + 1)
    <3> HIDE DEF Is
    <3>1. QED
      OBVIOUS
  <2>1. PICK s : Is(s, m)
    <3> HIDE DEF Is
    <3>1. QED
      BY <1>1, <1>3
  <2> DEFINE t == [n \in 0 .. m + 1 |-> IF n = m + 1 THEN AddRow(s[m], table[m + 1], col) ELSE s[n]]
  <2>2. \A n \in 0 .. m + 1 : t[n] = IF n = 0 THEN <<>> ELSE AddRow(t[n - 1], table[n], col)
    <3> TAKE n \in 0 .. m + 1
    <3>1. CASE n = m + 1
      BY <3>1
    <3>2. CASE n # m + 1
      <4>1. n \in 0 .. m /\ s[n] = IF n = 0 THEN <<>> ELSE AddRow(s[n - 1], table[n], col)
        BY <2>1, <3>2
      <4>2. n # 0 => t[n - 1] = s[n - 1] /\ n - 1 \in 0 .. m
        BY <4>1
      <4>3. QED
        BY <3>2, <4>1, <4>2
    <3>3. QED
      BY <3>1, <3>2
  <2>3. t = [n \in 0 .. m + 1 |-> t[n]]
    OBVIOUS
  <2> HIDE DEF t
  <2>4. Is(t, m + 1)
    BY <2>2, <2>3
  <2>5. QED
    BY <2>4
<1>4. len \in T
  <2> HIDE DEF T
  <2>1. QED
    BY <1>1, <1>2, <1>3, NumbersByInduction
<1>5. \E s : Is(s, len)
  <2> HIDE DEF Is
  <2>1. QED
    BY <1>1, <1>4
<1>6. StudentsAfter(table, col) = CHOOSE s : Is(s, len)
  BY DEF StudentsAfter
<1>7. Is(StudentsAfter(table, col), len)
  <2> HIDE DEF Is
  <2>1. QED
    BY <1>5, <1>6
<1> DEFINE s == StudentsAfter(table, col)
<1> HIDE DEF s
<1>8. \A n \in 0 .. len : s[n] = IF n = 0 THEN <<>> ELSE AddRow(s[n - 1], table[n], col)
  BY <1>7, Zenon DEF s
<1>9. s[0] = <<>>
  BY <1>1, <1>8
<1>10. ASSUME NEW n \in 0 .. len, n < len
       PROVE  s[n + 1] = AddRow(s[n], table[n + 1], col)
  <2>1. n + 1 \in 0 .. len /\ n + 1 # 0 /\ (n + 1) - 1 = n
    BY <1>1, <1>10
  <2>2. QED
    BY <1>8, <2>1
<1>11. QED
  BY <1>9, <1>10 DEF s

LEMMA StudentsPerRows ==
    ASSUME NEW A, NEW table \in Seq(A), NEW col, NEW len, len = Len(table), NEW V,
           \A i \in 1 .. len : TextsIn(table[i], col, V)
    PROVE  PerStudent(StudentsAfter(table, col)[len], RowData(table, col), len, V)
<1> DEFINE d == RowData(table, col)
           s == StudentsAfter(table, col)
           T == {n \in 0 .. len : PerStudent(s[n], d, n, V)}
<1>1. len \in Nat /\ 0 \in 0 .. len /\ len \in 0 .. len
  BY LenProperties
<1>2. s[0] = <<>> /\ \A n \in 0 .. len : n < len => s[n + 1] = AddRow(s[n], table[n + 1], col)
  BY StudentsDefined
<1>3. 0 \in T
  BY <1>1, <1>2, GroupedStart
<1>4. ASSUME NEW n \in 0 .. len, n \in T, n < len
      PROVE  n + 1 \in T
  <2>1. n \in Nat /\ n + 1 <= len /\ n + 1 \in 0 .. len
    BY <1>1, <1>4
  <2>2. PerStudent(s[n], d, n, V)
    BY <1>4
  <2> DEFINE p == s[n]
  <2> HIDE DEF p, s
  <2>3. PerStudent(AddRow(p, table[n + 1], col), d, n + 1, V)
    BY <2>1, <2>2, RowAdded DEF p
  <2>4. s[n + 1] = AddRow(p, table[n + 1], col)
    BY <1>2, <1>4 DEF p
  <2>5. QED
    BY <2>1, <2>3, <2>4
<1> HIDE DEF T
<1>5. 0 .. len \subseteq T
  BY <1>1, <1>3, <1>4, UpTo
<1>6. QED
  BY <1>1, <1>5 DEF T

-----------------------------------------------------------------------------
(* The same rows in another order *)

Reordered(d, e, len, p) ==
    /\ p \in Bijection(1 .. len, 1 .. len)
    /\ \A i \in 1 .. len : /\ e.sid[i] = d.sid[p[i]] /\ e.test[i] = d.test[p[i]]
                           /\ e.year[i] = d.year[p[i]] /\ e.notified[i] = d.notified[p[i]]
                           /\ i \in e.marked <=> p[i] \in d.marked

\* p moves Q to P.
Carries(p, Q, P) == [i \in Q |-> p[i]] \in Bijection(Q, P)

LEMMA PlacesReordered ==
    ASSUME NEW d, NEW e, NEW len, NEW p, Reordered(d, e, len, p), NEW id
    PROVE  /\ \A i \in PlacesOf(e, len, id) : p[i] \in PlacesOf(d, len, id)
           /\ \A j \in PlacesOf(d, len, id) : \E i \in PlacesOf(e, len, id) : p[i] = j
           /\ Carries(p, MarkedOf(e, len, id), MarkedOf(d, len, id))
           /\ Carries(p, CountedTo(e, len), CountedTo(d, len))
<1>1. /\ \A i \in 1 .. len : p[i] \in 1 .. len
      /\ \A i, j \in 1 .. len : p[i] = p[j] => i = j
      /\ \A j \in 1 .. len : \E i \in 1 .. len : p[i] = j
  BY DEF Reordered, Bijection, Injection, Surjection, IsInjective
<1>2. \A i \in 1 .. len : e.sid[i] = d.sid[p[i]] /\ (i \in e.marked <=> p[i] \in d.marked)
  BY DEF Reordered
<1>3. /\ \A i \in PlacesOf(e, len, id) : p[i] \in PlacesOf(d, len, id)
      /\ \A j \in PlacesOf(d, len, id) : \E i \in PlacesOf(e, len, id) : p[i] = j
  BY <1>1, <1>2 DEF PlacesOf
<1>4. Carries(p, MarkedOf(e, len, id), MarkedOf(d, len, id))
  <2> DEFINE Q == MarkedOf(e, len, id)
             P == MarkedOf(d, len, id)
             q == [i \in Q |-> p[i]]
  <2>1. /\ \A i \in Q : i \in 1 .. len /\ p[i] \in P
        /\ \A j \in P : \E i \in Q : p[i] = j
    BY <1>1, <1>2 DEF MarkedOf
  <2> HIDE DEF Q, P
  <2>2. q \in [Q -> P] /\ \A i \in Q : q[i] = p[i]
    BY <2>1
  <2> HIDE DEF q
  <2>3. \A i, j \in Q : q[i] = q[j] => i = j
    BY <1>1, <2>1, <2>2
  <2>4. \A j \in P : \E i \in Q : q[i] = j
    BY <2>1, <2>2
  <2>5. q \in Bijection(Q, P)
    BY <2>2, <2>3, <2>4 DEF Bijection, Injection, Surjection, IsInjective
  <2>6. QED
    BY <2>5 DEF q, Q, P, Carries
<1>5. Carries(p, CountedTo(e, len), CountedTo(d, len))
  <2> DEFINE Q == CountedTo(e, len)
             P == CountedTo(d, len)
             q == [i \in Q |-> p[i]]
  <2>1. /\ \A i \in Q : i \in 1 .. len /\ p[i] \in P
        /\ \A j \in P : \E i \in Q : p[i] = j
    BY <1>1, <1>2 DEF CountedTo
  <2> HIDE DEF Q, P
  <2>2. q \in [Q -> P] /\ \A i \in Q : q[i] = p[i]
    BY <2>1
  <2> HIDE DEF q
  <2>3. \A i, j \in Q : q[i] = q[j] => i = j
    BY <1>1, <2>1, <2>2
  <2>4. \A j \in P : \E i \in Q : q[i] = j
    BY <2>1, <2>2
  <2>5. q \in Bijection(Q, P)
    BY <2>2, <2>3, <2>4 DEF Bijection, Injection, Surjection, IsInjective
  <2>6. QED
    BY <2>5 DEF q, Q, P, Carries
<1>6. QED
  BY <1>3, <1>4, <1>5

LEMMA NewestSame ==
    ASSUME NEW P, NEW Q, NEW v, NEW w, NEW p, \A i \in P : v[i] \in Int,
           \A i \in Q : p[i] \in P /\ w[i] = v[p[i]], \A j \in P : \E i \in Q : p[i] = j,
           NEW x, Newest(x, v, P), NEW y, Newest(y, w, Q)
    PROVE  x = y
<1>1. PICK i \in P : v[i] = x
  BY DEF Newest
<1>2. PICK j \in Q : w[j] = y
  BY DEF Newest
<1>3. PICK k \in Q : p[k] = i
  BY <1>1
<1>4. w[k] = x /\ w[k] <= y /\ v[p[j]] = y /\ y <= x
  BY <1>1, <1>2, <1>3 DEF Newest
<1>5. x \in Int /\ y \in Int
  BY <1>1, <1>4
<1>6. QED
  BY <1>4, <1>5

\* Two entries of one student, with equal facts and the same tests.
Twin(s, t) ==
    /\ s.id = t.id /\ s.year = t.year /\ s.notified = t.notified
    /\ s.tests \in Seq(TestRecs) /\ t.tests \in Seq(TestRecs) /\ SameElements(s.tests, t.tests)

LEMMA EntriesOfOne ==
    ASSUME NEW d, NEW e, NEW len, DataOK(d, len), NEW p, Reordered(d, e, len, p),
           NEW V, NEW s \in StudentRecs(V), NEW t \in StudentRecs(V), s.id = t.id,
           Summary(s, d, len), Summary(t, e, len)
    PROVE  Twin(s, t)
<1> DEFINE P == PlacesOf(d, len, s.id)
           Q == PlacesOf(e, len, s.id)
           MP == MarkedOf(d, len, s.id)
           MQ == MarkedOf(e, len, s.id)
           q == [i \in MQ |-> p[i]]
<1>1. /\ \A i \in Q : p[i] \in P
      /\ \A j \in P : \E i \in Q : p[i] = j
      /\ Carries(p, MQ, MP)
  BY PlacesReordered
<1>2. Q \subseteq 1 .. len /\ P \subseteq 1 .. len /\ MQ \subseteq 1 .. len
  BY DEF PlacesOf, MarkedOf
<1>3. /\ Newest(s.year, d.year, P) /\ Newest(s.notified, d.notified, P)
      /\ Newest(t.year, e.year, Q) /\ Newest(t.notified, e.notified, Q)
      /\ Collects(s.tests, d.test, MP) /\ Collects(t.tests, e.test, MQ)
  BY Zenon DEF Summary
<1>4. \A i \in MQ : q[i] = p[i]
  OBVIOUS
<1> HIDE DEF P, Q, MP, MQ, q
<1>5. /\ \A i \in Q : p[i] \in P /\ e.year[i] = d.year[p[i]]
      /\ \A i \in Q : p[i] \in P /\ e.notified[i] = d.notified[p[i]]
      /\ \A j \in P : \E i \in Q : p[i] = j
  BY <1>1, <1>2 DEF Reordered
<1>6. (\A i \in P : d.year[i] \in Int) /\ \A i \in P : d.notified[i] \in Int
  BY <1>2 DEF DataOK
<1>7. s.year = t.year
  <2> DEFINE v == d.year
             w == e.year
             x == s.year
             y == t.year
  <2>1. /\ \A i \in Q : p[i] \in P /\ w[i] = v[p[i]]
        /\ \A j \in P : \E i \in Q : p[i] = j
        /\ \A i \in P : v[i] \in Int
        /\ Newest(x, v, P) /\ Newest(y, w, Q)
    BY <1>3, <1>5, <1>6
  <2> HIDE DEF v, w, x, y
  <2>2. x = y
    BY <2>1, NewestSame
  <2>3. QED
    BY <2>2 DEF x, y
<1>8. s.notified = t.notified
  <2> DEFINE v == d.notified
             w == e.notified
             x == s.notified
             y == t.notified
  <2>1. /\ \A i \in Q : p[i] \in P /\ w[i] = v[p[i]]
        /\ \A j \in P : \E i \in Q : p[i] = j
        /\ \A i \in P : v[i] \in Int
        /\ Newest(x, v, P) /\ Newest(y, w, Q)
    BY <1>3, <1>5, <1>6
  <2> HIDE DEF v, w, x, y
  <2>2. x = y
    BY <2>1, NewestSame
  <2>3. QED
    BY <2>2 DEF x, y
<1>9. s.tests \in Seq(TestRecs) /\ t.tests \in Seq(TestRecs)
  BY DEF StudentRecs
<1>10. SameElements(s.tests, t.tests)
  <2> DEFINE a == s.tests
             b == t.tests
             u == d.test
             w == e.test
  <2>1. \A i \in MQ : w[i] = u[q[i]]
    BY <1>2, <1>4 DEF Reordered
  <2>2. a \in Seq(TestRecs) /\ b \in Seq(TestRecs) /\ Collects(a, u, MP) /\ Collects(b, w, MQ) /\ q \in Bijection(MQ, MP)
    BY <1>1, <1>3, <1>9 DEF Carries, q
  <2> HIDE DEF a, b, u, w
  <2>3. Collects(b, u, MP)
    BY <2>1, <2>2, CollectsThrough
  <2>4. SameElements(a, b)
    BY <2>2, <2>3, CollectedAlike
  <2>5. QED
    BY <2>4 DEF a, b
<1>11. QED
  BY <1>7, <1>8, <1>9, <1>10 DEF Twin

Paired(a, b, m) ==
    m \in Bijection(1 .. Len(a), 1 .. Len(b)) /\ \A k \in 1 .. Len(a) : Twin(a[k], b[m[k]])

LEMMA StudentsPaired ==
    ASSUME NEW d, NEW e, NEW len, DataOK(d, len), NEW p, Reordered(d, e, len, p),
           NEW V, NEW a, PerStudent(a, d, len, V), NEW b, PerStudent(b, e, len, V)
    PROVE  \E m : Paired(a, b, m)
<1> DEFINE n == Len(a)
           o == Len(b)
<1>1. /\ \A k \in 1 .. n : a[k] \in StudentRecs(V) /\ Summary(a[k], d, len) /\ a[k].id # NoText
      /\ \A k \in 1 .. o : b[k] \in StudentRecs(V) /\ Summary(b[k], e, len) /\ b[k].id # NoText
  <2>1. a \in Seq(StudentRecs(V)) /\ b \in Seq(StudentRecs(V))
    BY DEF PerStudent
  <2>2. \A k \in 1 .. n : a[k] \in StudentRecs(V)
    BY <2>1, ElementOfSeq
  <2>3. \A k \in 1 .. o : b[k] \in StudentRecs(V)
    BY <2>1, ElementOfSeq
  <2>4. QED
    BY <2>2, <2>3 DEF PerStudent, Complete
<1>2. /\ \A j, k \in 1 .. n : a[j].id = a[k].id => j = k
      /\ \A j, k \in 1 .. o : b[j].id = b[k].id => j = k
      /\ \A i \in 1 .. len : d.sid[i] # NoText => \E k \in 1 .. n : a[k].id = d.sid[i]
      /\ \A i \in 1 .. len : e.sid[i] # NoText => \E k \in 1 .. o : b[k].id = e.sid[i]
  BY DEF PerStudent, DistinctIds, Complete
<1>3. \A i \in 1 .. len : p[i] \in 1 .. len /\ e.sid[i] = d.sid[p[i]]
  BY DEF Reordered, Bijection, Injection
<1>4. \A j \in 1 .. len : \E i \in 1 .. len : p[i] = j
  BY DEF Reordered, Bijection, Surjection
<1>5. \A k \in 1 .. n : \E i \in 1 .. len : d.sid[i] = a[k].id
  BY <1>1 DEF Summary, Newest, PlacesOf
<1>6. \A k \in 1 .. o : \E i \in 1 .. len : e.sid[i] = b[k].id
  BY <1>1 DEF Summary, Newest, PlacesOf
<1> HIDE DEF n, o
<1>7. ASSUME NEW k \in 1 .. n
      PROVE  \E j \in 1 .. o : b[j].id = a[k].id
  <2>1. PICK i \in 1 .. len : d.sid[i] = a[k].id
    BY <1>5
  <2>2. PICK j \in 1 .. len : p[j] = i
    BY <1>4
  <2>3. e.sid[j] = a[k].id /\ e.sid[j] # NoText
    BY <1>1, <1>3, <2>1, <2>2
  <2>4. QED
    BY <1>2, <2>3
<1>8. ASSUME NEW j \in 1 .. o
      PROVE  \E k \in 1 .. n : b[j].id = a[k].id
  <2>1. PICK i \in 1 .. len : e.sid[i] = b[j].id
    BY <1>6
  <2>2. d.sid[p[i]] = b[j].id /\ p[i] \in 1 .. len /\ d.sid[p[i]] # NoText
    BY <1>1, <1>3, <2>1
  <2>3. QED
    BY <1>2, <2>2
<1> DEFINE m == [k \in 1 .. n |-> CHOOSE j \in 1 .. o : b[j].id = a[k].id]
<1>9. \A k \in 1 .. n : m[k] \in 1 .. o /\ b[m[k]].id = a[k].id
  BY <1>7
<1>10. m \in [1 .. n -> 1 .. o]
  BY <1>9
<1> HIDE DEF m
<1>11. \A j, k \in 1 .. n : m[j] = m[k] => j = k
  BY <1>2, <1>9
<1>12. \A j \in 1 .. o : \E k \in 1 .. n : m[k] = j
  BY <1>2, <1>8, <1>9
<1>13. m \in Bijection(1 .. n, 1 .. o)
  BY <1>10, <1>11, <1>12 DEF Bijection, Injection, Surjection, IsInjective
<1>14. \A k \in 1 .. n : Twin(a[k], b[m[k]])
  <2>1. SUFFICES ASSUME NEW k \in 1 .. n
                 PROVE  Twin(a[k], b[m[k]])
    OBVIOUS
  <2> DEFINE s == a[k]
             t == b[m[k]]
  <2>2. s \in StudentRecs(V) /\ Summary(s, d, len) /\ t \in StudentRecs(V) /\ Summary(t, e, len) /\ s.id = t.id
    BY <1>1, <1>9
  <2> HIDE DEF s, t
  <2>3. Twin(s, t)
    BY <2>2, EntriesOfOne
  <2>4. QED
    BY <2>3 DEF s, t
<1>15. Paired(a, b, m)
  BY <1>13, <1>14 DEF Paired, n, o
<1>16. QED
  BY <1>15

-----------------------------------------------------------------------------
(* Statistics *)

LEMMA SameLength ==
    ASSUME NEW n \in Nat, NEW o \in Nat, NEW m \in Bijection(1 .. n, 1 .. o)
    PROVE  n = o
<1>1. ExistsBijection(1 .. n, 1 .. o)
  BY DEF ExistsBijection
<1>2. IsFiniteSet(1 .. n) /\ Cardinality(1 .. n) = n /\ Cardinality(1 .. o) = o
  BY FirstNumbers
<1>3. QED
  BY <1>1, <1>2, FS_Bijection

\* As many places of the one list as of the other.
LEMMA SameCount ==
    ASSUME NEW n \in Nat, NEW o, NEW m \in Bijection(1 .. n, 1 .. o),
           NEW I \in SUBSET (1 .. n), NEW J \in SUBSET (1 .. o), \A k \in 1 .. n : k \in I <=> m[k] \in J
    PROVE  Cardinality(I) = Cardinality(J)
<1> DEFINE q == [k \in I |-> m[k]]
<1>1. /\ \A k \in 1 .. n : m[k] \in 1 .. o
      /\ \A j, k \in 1 .. n : m[j] = m[k] => j = k
      /\ \A j \in 1 .. o : \E k \in 1 .. n : m[k] = j
  BY DEF Bijection, Injection, Surjection, IsInjective
<1>2. q \in [I -> J] /\ \A k \in I : q[k] = m[k]
  OBVIOUS
<1> HIDE DEF q
<1>3. \A j, k \in I : q[j] = q[k] => j = k
  BY <1>1, <1>2
<1>4. \A j \in J : \E k \in I : q[k] = j
  BY <1>1, <1>2
<1>5. q \in Bijection(I, J)
  BY <1>2, <1>3, <1>4 DEF Bijection, Injection, Surjection, IsInjective
<1>6. ExistsBijection(I, J)
  BY <1>5 DEF ExistsBijection
<1>7. IsFiniteSet(I)
  BY FirstNumbers, FS_Subset
<1>8. QED
  BY <1>6, <1>7, FS_Bijection

SameRisk(s, t) ==
    /\ Problems(s.tests) = Problems(t.tests)
    /\ \A mark : Severity(s.tests, mark) = Severity(t.tests, mark)

LEMMA TwinsSameRisk ==
    ASSUME NEW s, NEW t, Twin(s, t)
    PROVE  SameRisk(s, t)
<1> DEFINE a == s.tests
           b == t.tests
           n == Len(a)
<1>1. a \in Seq(TestRecs) /\ b \in Seq(TestRecs) /\ SameElements(a, b)
  BY DEF Twin
<1> HIDE DEF a, b
<1>2. n \in Nat /\ DOMAIN a = 1 .. n /\ Len(b) = n /\ DOMAIN b = 1 .. n
  BY <1>1, LenProperties DEF SameElements
<1>3. PICK q \in Bijection(1 .. n, 1 .. n) : \A k \in 1 .. n : b[k] = a[q[k]]
  BY <1>1, <1>2 DEF SameElements
<1> HIDE DEF n
<1>4. (\A k \in 1 .. n : q[k] \in 1 .. n) /\ \A j \in 1 .. n : \E k \in 1 .. n : q[k] = j
  BY <1>3 DEF Bijection, Injection, Surjection
<1>5. SumOf(Scores(a)) = SumOf(Scores(b))
  <2> DEFINE f == Scores(a)
             g == Scores(b)
  <2>1. \A k \in 1 .. n : a[k].score \in Int /\ b[k].score \in Int
    <3>1. \A k \in 1 .. n : a[k] \in TestRecs /\ b[k] \in TestRecs
      BY <1>1, <1>2, ElementOfSeq DEF n
    <3>2. QED
      BY <3>1 DEF TestRecs
  <2>2. f \in [1 .. n -> Int] /\ \A k \in 1 .. n : f[k] = a[k].score
    BY <1>2, <2>1 DEF Scores
  <2>3. g \in [1 .. n -> Int] /\ \A k \in 1 .. n : g[k] = b[k].score
    BY <1>2, <2>1 DEF Scores
  <2> HIDE DEF f, g
  <2>4. \A k \in 1 .. n : g[k] = f[q[k]]
    <3>1. SUFFICES ASSUME NEW k \in 1 .. n
                   PROVE  g[k] = f[q[k]]
      OBVIOUS
    <3>2. q[k] \in 1 .. n /\ b[k] = a[q[k]]
      BY <1>3, <1>4
    <3>3. f[q[k]] = a[q[k]].score /\ g[k] = b[k].score
      BY <2>2, <2>3, <3>2
    <3>4. QED
      BY <3>2, <3>3
  <2>5. f \in Seq(Int) /\ Len(f) = n
    BY <1>2, <2>2, FunctionAsSeq
  <2>6. g \in Seq(Int) /\ Len(g) = n
    BY <1>2, <2>3, FunctionAsSeq
  <2>7. SumOf(g) = SumOf(f)
    BY <1>3, <2>4, <2>5, <2>6, SumShuffled
  <2>8. QED
    BY <2>7 DEF f, g
<1>6. Len(b) = Len(a)
  BY <1>2 DEF n
<1>7. \A mark : AverageBelow(a, mark) <=> AverageBelow(b, mark)
  BY <1>5, <1>6, Zenon DEF AverageBelow
<1>8. \A type : HasFailed(a, type) <=> HasFailed(b, type)
  <2>1. ASSUME NEW type, HasFailed(b, type)
        PROVE  HasFailed(a, type)
    <3>1. PICK k \in 1 .. n : b[k].type = type /\ b[k].score < FAIL_SCORE
      BY <1>2, <2>1 DEF HasFailed
    <3>2. q[k] \in 1 .. n /\ b[k] = a[q[k]]
      BY <1>3, <1>4
    <3>3. QED
      BY <1>2, <3>1, <3>2 DEF HasFailed
  <2>2. ASSUME NEW type, HasFailed(a, type)
        PROVE  HasFailed(b, type)
    <3>1. PICK j \in 1 .. n : a[j].type = type /\ a[j].score < FAIL_SCORE
      BY <1>2, <2>2 DEF HasFailed
    <3>2. PICK k \in 1 .. n : q[k] = j
      BY <1>4
    <3>3. b[k] = a[j]
      BY <1>3, <3>2
    <3>4. QED
      BY <1>2, <3>1, <3>3 DEF HasFailed
  <2>3. QED
    BY <2>1, <2>2
<1>9. a = <<>> <=> b = <<>>
  BY <1>1, <1>6, EmptySeq
<1>10. Problems(a) = Problems(b)
  <2> DEFINE Shows(x, p) == CASE p = "failed_final"   -> HasFailed(x, "final_semester")
                              [] p = "failed_midterm" -> HasFailed(x, "middle_semester")
                              [] p = "low_average"    -> AverageBelow(x, LOW_AVG)
             All == {"failed_final", "failed_midterm", "low_average"}
  <2>1. HasFailed(a, "final_semester") <=> HasFailed(b, "final_semester")
    BY <1>8
  <2>2. HasFailed(a, "middle_semester") <=> HasFailed(b, "middle_semester")
    BY <1>8
  <2>3. AverageBelow(a, LOW_AVG) <=> AverageBelow(b, LOW_AVG)
    BY <1>7
  <2>4. \A p \in All : Shows(a, p) <=> Shows(b, p)
    BY <2>1, <2>2, <2>3
  <2> HIDE DEF Shows
  <2>5. {p \in All : Shows(a, p)} = {p \in All : Shows(b, p)}
    BY <2>4
  <2>6. Problems(a) = IF a = <<>> THEN {} ELSE {p \in All : Shows(a, p)}
    BY DEF Problems, Shows
  <2>7. Problems(b) = IF b = <<>> THEN {} ELSE {p \in All : Shows(b, p)}
    BY DEF Problems, Shows
  <2>8. QED
    BY <1>9, <2>5, <2>6, <2>7, Zenon
<1>11. ASSUME NEW mark
       PROVE  Severity(a, mark) = Severity(b, mark)
  <2>1. AverageBelow(a, mark) <=> AverageBelow(b, mark)
    BY <1>7
  <2>2. QED
    BY <1>9, <1>10, <2>1, Zenon DEF Severity
<1>12. QED
  BY <1>10, <1>11 DEF SameRisk, a, b

LEMMA StatsPaired ==
    ASSUME NEW V, NEW a \in Seq(StudentRecs(V)), NEW b \in Seq(StudentRecs(V)), NEW m, Paired(a, b, m),
           NEW mark, NEW total
    PROVE  Stats(a, mark, total) = Stats(b, mark, total)
<1> DEFINE n == Len(a)
           o == Len(b)
<1>1. n \in Nat /\ DOMAIN a = 1 .. n /\ o \in Nat /\ DOMAIN b = 1 .. o
  BY LenProperties
<1>2. m \in Bijection(1 .. n, 1 .. o) /\ \A k \in 1 .. n : Twin(a[k], b[m[k]])
  BY DEF Paired
<1> HIDE DEF n, o
<1>3. (\A k \in 1 .. n : m[k] \in 1 .. o) /\ \A j \in 1 .. o : \E k \in 1 .. n : m[k] = j
  BY <1>2 DEF Bijection, Injection, Surjection
<1>4. \A k \in 1 .. n : /\ Problems(a[k].tests) = Problems(b[m[k]].tests)
                        /\ Severity(a[k].tests, mark) = Severity(b[m[k]].tests, mark)
                        /\ a[k].year = b[m[k]].year
  <2>1. SUFFICES ASSUME NEW k \in 1 .. n
                 PROVE  /\ Problems(a[k].tests) = Problems(b[m[k]].tests)
                        /\ Severity(a[k].tests, mark) = Severity(b[m[k]].tests, mark)
                        /\ a[k].year = b[m[k]].year
    OBVIOUS
  <2> DEFINE s == a[k]
             t == b[m[k]]
  <2>2. Twin(s, t)
    BY <1>2
  <2> HIDE DEF s, t
  <2>3. SameRisk(s, t) /\ s.year = t.year
    BY <2>2, TwinsSameRisk DEF Twin
  <2>4. QED
    BY <2>3 DEF SameRisk, s, t
<1>5. n = o
  BY <1>1, <1>2, SameLength
<1> DEFINE AtLevel(x, v) == CountIn(x, LAMBDA s : Severity(s.tests, mark) = v)
           Having(x, p) == CountIn(x, LAMBDA s : p \in Problems(s.tests))
           InYear(x, y) == CountIn(x, LAMBDA s : YearOf(s) = y /\ AtRisk(s, mark))
<1>6. ASSUME NEW v
      PROVE  AtLevel(a, v) = AtLevel(b, v)
  <2> DEFINE I == {k \in 1 .. n : Severity(a[k].tests, mark) = v}
             J == {k \in 1 .. o : Severity(b[k].tests, mark) = v}
  <2>1. I \in SUBSET (1 .. n) /\ J \in SUBSET (1 .. o) /\ \A k \in 1 .. n : k \in I <=> m[k] \in J
    BY <1>3, <1>4
  <2> HIDE DEF I, J
  <2>2. Cardinality(I) = Cardinality(J)
    BY <1>1, <1>2, <2>1, SameCount
  <2>3. QED
    BY <1>1, <2>2 DEF CountIn, I, J
<1>7. ASSUME NEW p
      PROVE  Having(a, p) = Having(b, p)
  <2> DEFINE I == {k \in 1 .. n : p \in Problems(a[k].tests)}
             J == {k \in 1 .. o : p \in Problems(b[k].tests)}
  <2>1. I \in SUBSET (1 .. n) /\ J \in SUBSET (1 .. o) /\ \A k \in 1 .. n : k \in I <=> m[k] \in J
    BY <1>3, <1>4
  <2> HIDE DEF I, J
  <2>2. Cardinality(I) = Cardinality(J)
    BY <1>1, <1>2, <2>1, SameCount
  <2>3. QED
    BY <1>1, <2>2 DEF CountIn, I, J
<1>8. \A k \in 1 .. n : YearOf(a[k]) = YearOf(b[m[k]]) /\ (AtRisk(a[k], mark) <=> AtRisk(b[m[k]], mark))
  BY <1>4, Zenon DEF YearOf, AtRisk
<1>9. ASSUME NEW y
      PROVE  InYear(a, y) = InYear(b, y)
  <2> DEFINE I == {k \in 1 .. n : YearOf(a[k]) = y /\ AtRisk(a[k], mark)}
             J == {k \in 1 .. o : YearOf(b[k]) = y /\ AtRisk(b[k], mark)}
  <2>1. I \in SUBSET (1 .. n) /\ J \in SUBSET (1 .. o) /\ \A k \in 1 .. n : k \in I <=> m[k] \in J
    BY <1>3, <1>8
  <2> HIDE DEF I, J
  <2>2. Cardinality(I) = Cardinality(J)
    BY <1>1, <1>2, <2>1, SameCount
  <2>3. QED
    BY <1>1, <2>2 DEF CountIn, I, J
<1> DEFINE YearsOf(x) == {YearOf(s) : s \in {s \in ToSet(x) : AtRisk(s, mark)}}
<1>10. YearsOf(a) = YearsOf(b)
  <2>1. ToSet(a) = {a[k] : k \in 1 .. n} /\ ToSet(b) = {b[k] : k \in 1 .. o}
    BY <1>1 DEF ToSet
  <2>2. \A k \in 1 .. n : AtRisk(a[k], mark) => YearOf(a[k]) \in YearsOf(b)
    BY <1>3, <1>8, <2>1
  <2>3. \A j \in 1 .. o : AtRisk(b[j], mark) => YearOf(b[j]) \in YearsOf(a)
    <3>1. SUFFICES ASSUME NEW j \in 1 .. o, AtRisk(b[j], mark)
                   PROVE  YearOf(b[j]) \in YearsOf(a)
      OBVIOUS
    <3>2. PICK k \in 1 .. n : m[k] = j
      BY <1>3
    <3>3. AtRisk(a[k], mark) /\ YearOf(a[k]) = YearOf(b[j])
      BY <1>8, <3>1, <3>2
    <3>4. QED
      BY <2>1, <3>3
  <2>4. YearsOf(a) \subseteq YearsOf(b)
    BY <2>1, <2>2
  <2>5. YearsOf(b) \subseteq YearsOf(a)
    BY <2>1, <2>3
  <2>6. QED
    BY <2>4, <2>5
<1> HIDE DEF AtLevel, Having, InYear, YearsOf
<1>11. [v \in {"high", "medium", "low"} |-> AtLevel(a, v)] = [v \in {"high", "medium", "low"} |-> AtLevel(b, v)]
  BY <1>6
<1>12. [p \in {"failed_final", "failed_midterm", "low_average"} |-> Having(a, p)] =
       [p \in {"failed_final", "failed_midterm", "low_average"} |-> Having(b, p)]
  BY <1>7
<1>13. [y \in YearsOf(a) |-> InYear(a, y)] = [y \in YearsOf(b) |-> InYear(b, y)]
  BY <1>9, <1>10
<1>14. \A x : Stats(x, mark, total) =
          [totalStudents |-> Len(x), totalTests |-> total,
           risk |-> [v \in {"high", "medium", "low"} |-> AtLevel(x, v)],
           problems |-> [p \in {"failed_final", "failed_midterm", "low_average"} |-> Having(x, p)],
           yearRisk |-> [y \in YearsOf(x) |-> InYear(x, y)]]
  BY DEF Stats, AtLevel, Having, InYear, YearsOf
<1>15. Len(a) = Len(b)
  BY <1>5 DEF n, o
<1>16. QED
  BY <1>11, <1>12, <1>13, <1>14, <1>15, Zenon

\* The students of a table that has the columns, and of one that has not.
LEMMA StudentsOfTable ==
    ASSUME NEW table
    PROVE  LET col == ColumnsOf(RiskHeaders)
               students == StudentsOf(Table(table))
           IN  IF col.sid = NoColumn \/ col.score = NoColumn THEN students = <<>>
               ELSE students = StudentsAfter(table, col)[Len(table)]
<1>1. Table(table).headers = RiskHeaders /\ Table(table).rows = table
  BY DEF Table
<1>2. QED
  BY <1>1, Zenon DEF StudentsOf

\* What the two analyses show of the same rows: statistics with all marks counted.
LEMMA AnalysisIs ==
    ASSUME NEW A, NEW table \in Seq(A), NEW len, len = Len(table), NEW V, NEW mark, NEW col, col = ColumnsOf(RiskHeaders),
           NEW students, students = StudentsOf(Table(table)),
           PerStudent(students, RowData(table, col), len, V)
    PROVE  /\ AnalyzeCsv(Table(table), mark) =
                 Stats(students, mark, Cardinality(CountedTo(RowData(table, col), len)))
           /\ Reclassify(students, mark) =
                 Stats(students, mark, Cardinality(CountedTo(RowData(table, col), len)))
<1> DEFINE d == RowData(table, col)
           all == Cardinality(CountedTo(d, len))
<1>1. len \in Nat /\ DOMAIN table = 1 .. len
  BY LenProperties
<1>2. SumOf(TestCounts(students)) = all
  BY DEF PerStudent
<1>3. TestsOf(Table(table)) = all
  <2>1. Table(table).headers = RiskHeaders /\ Table(table).rows = table
    BY DEF Table
  <2>2. TestsOf(Table(table)) = Cardinality({i \in DOMAIN table : Scored(table[i], col)})
    BY <2>1 DEF TestsOf, CountIn
  <2>3. {i \in DOMAIN table : Scored(table[i], col)} = CountedTo(d, len)
    BY <1>1 DEF CountedTo, Scored, RowData
  <2>4. QED
    BY <2>2, <2>3
<1>4. students = <<>> => all = 0
  <2>1. TestCounts(<<>>) = <<>>
    BY DEF TestCounts
  <2>2. <<>> \in Seq(Int) /\ Len(<<>>) = 0
    BY EmptySeq
  <2>3. SumOf(<<>>) = 0
    BY <2>2, SumsDefined
  <2>4. QED
    BY <1>2, <2>1, <2>3
<1> HIDE DEF all
<1>5. (IF students = <<>> THEN 0 ELSE TestsOf(Table(table))) = all
  BY <1>3, <1>4
<1>6. AnalyzeCsv(Table(table), mark) = Stats(students, mark, all)
  BY <1>5, Zenon DEF AnalyzeCsv
<1>7. Reclassify(students, mark) = Stats(students, mark, SumOf(TestCounts(students)))
  BY DEF Reclassify, TestCounts
<1>8. QED
  BY <1>2, <1>6, <1>7 DEF all

\* Without the columns nothing is shown of any rows.
LEMMA AnalysisOfNone ==
    ASSUME NEW table, NEW mark, StudentsOf(Table(table)) = <<>>
    PROVE  /\ AnalyzeCsv(Table(table), mark) = Stats(<<>>, mark, 0)
           /\ Reclassify(StudentsOf(Table(table)), mark) = Stats(<<>>, mark, 0)
<1>1. [i \in DOMAIN <<>> |-> Len(<<>>[i].tests)] = <<>>
  OBVIOUS
<1>2. <<>> \in Seq(Int) /\ Len(<<>>) = 0
  BY EmptySeq
<1>3. SumOf(<<>>) = 0
  BY <1>2, SumsDefined
<1>4. Reclassify(<<>>, mark) = Stats(<<>>, mark, 0)
  BY <1>1, <1>3 DEF Reclassify
<1>5. AnalyzeCsv(Table(table), mark) = Stats(<<>>, mark, 0)
  BY Zenon DEF AnalyzeCsv
<1>6. QED
  BY <1>4, <1>5

LEMMA StatsOfShuffled ==
    ASSUME NEW A, NEW table \in Seq(A), NEW len, len = Len(table), NEW p \in Bijection(1 .. len, 1 .. len),
           NEW other, other = [i \in 1 .. len |-> table[p[i]]], NEW mark
    PROVE  /\ Facts(other) = Facts(table)
           /\ AnalyzeCsv(Table(other), mark) = AnalyzeCsv(Table(table), mark)
           /\ Reclassify(StudentsOf(Table(other)), mark) = AnalyzeCsv(Table(table), mark)
<1> DEFINE col == ColumnsOf(RiskHeaders)
           a == StudentsOf(Table(table))
           b == StudentsOf(Table(other))
<1>1. len \in Nat /\ DOMAIN table = 1 .. len /\ \A i \in 1 .. len : table[i] \in A
  BY LenProperties, ElementOfSeq
<1>2. \A i \in 1 .. len : p[i] \in 1 .. len
  BY DEF Bijection, Injection
<1>3. other \in Seq(A) /\ Len(other) = len /\ \A i \in 1 .. len : other[i] = table[p[i]]
  <2>1. other \in [1 .. len -> A]
    BY <1>1, <1>2
  <2>2. QED
    BY <1>1, <2>1, FunctionAsSeq
<1> HIDE DEF col, a, b
<1>4. CASE col.sid = NoColumn \/ col.score = NoColumn
  <2>1. a = <<>> /\ b = <<>>
    BY <1>4, StudentsOfTable DEF a, b, col
  <2>2. Facts(other) = Facts(table)
    BY <2>1 DEF Facts, a, b
  <2>3. QED
    BY <2>1, <2>2, AnalysisOfNone DEF a, b
<1>5. CASE ~(col.sid = NoColumn \/ col.score = NoColumn)
  <2> DEFINE V == {Cell(table[i], col.sid) : i \in 1 .. len} \cup {Cell(table[i], col.name) : i \in 1 .. len}
                    \cup {Cell(table[i], col.email) : i \in 1 .. len}
             d == RowData(table, col)
             e == RowData(other, col)
  <2>1. \A i \in 1 .. len : TextsIn(table[i], col, V)
    BY DEF TextsIn
  <2>2. \A i \in 1 .. len : TextsIn(other[i], col, V)
    BY <1>2, <1>3, <2>1
  <2> HIDE DEF V
  <2>3. a = StudentsAfter(table, col)[len] /\ b = StudentsAfter(other, col)[len]
    BY <1>3, <1>5, StudentsOfTable DEF a, b, col
  <2>4. PerStudent(StudentsAfter(table, col)[len], d, len, V)
    BY <2>1, StudentsPerRows
  <2>5. PerStudent(StudentsAfter(other, col)[len], e, len, V)
    BY <1>3, <2>2, StudentsPerRows
  <2>6. DataOK(d, len)
    BY <2>1, RowRead
  <2>7. Reordered(d, e, len, p)
    <3>1. DOMAIN other = 1 .. len
      BY <1>3, LenProperties
    <3>2. ASSUME NEW i \in 1 .. len
          PROVE  /\ e.sid[i] = d.sid[p[i]] /\ e.test[i] = d.test[p[i]]
                 /\ e.year[i] = d.year[p[i]] /\ e.notified[i] = d.notified[p[i]]
                 /\ i \in e.marked <=> p[i] \in d.marked
      <4>1. p[i] \in 1 .. len /\ other[i] = table[p[i]]
        BY <1>2, <1>3
      <4>2. /\ e.sid[i] = d.sid[p[i]] /\ e.test[i] = d.test[p[i]]
            /\ e.year[i] = d.year[p[i]] /\ e.notified[i] = d.notified[p[i]]
        BY <1>1, <3>1, <4>1 DEF RowData
      <4>3. i \in e.marked <=> p[i] \in d.marked
        BY <1>1, <3>1, <4>1 DEF RowData
      <4>4. QED
        BY <4>2, <4>3
    <3> HIDE DEF d, e
    <3>3. QED
      BY <3>2 DEF Reordered
  <2> HIDE DEF d, e
  <2>8. PerStudent(a, d, len, V) /\ PerStudent(b, e, len, V)
    BY <2>3, <2>4, <2>5
  <2>9. PICK m : Paired(a, b, m)
    BY <2>6, <2>7, <2>8, StudentsPaired
  <2>10. a \in Seq(StudentRecs(V)) /\ b \in Seq(StudentRecs(V))
    BY <2>8 DEF PerStudent
  <2> DEFINE total == Cardinality(CountedTo(d, len))
  <2>11. Cardinality(CountedTo(e, len)) = total
    <3> DEFINE P == CountedTo(d, len)
               Q == CountedTo(e, len)
    <3>1. Carries(p, Q, P)
      BY <2>7, PlacesReordered
    <3>2. ExistsBijection(Q, P)
      BY <3>1 DEF Carries, ExistsBijection
    <3>3. IsFiniteSet(Q)
      BY <1>1, CountedMore
    <3> HIDE DEF P, Q
    <3>4. Cardinality(P) = Cardinality(Q)
      BY <3>2, <3>3, FS_Bijection
    <3>5. QED
      BY <3>4 DEF P, Q
  <2>12. AnalyzeCsv(Table(table), mark) = Stats(a, mark, total)
    BY <2>8, AnalysisIs DEF a, d, col
  <2>13. /\ AnalyzeCsv(Table(other), mark) = Stats(b, mark, Cardinality(CountedTo(e, len)))
         /\ Reclassify(b, mark) = Stats(b, mark, Cardinality(CountedTo(e, len)))
    <3> DEFINE w == other
    <3>1. w \in Seq(A) /\ len = Len(w) /\ b = StudentsOf(Table(w)) /\ PerStudent(b, RowData(w, col), len, V)
      BY <1>3, <2>8 DEF b, e
    <3>2. col = ColumnsOf(RiskHeaders)
      BY DEF col
    <3> HIDE DEF w
    <3>3. AnalyzeCsv(Table(w), mark) = Stats(b, mark, Cardinality(CountedTo(RowData(w, col), len)))
      BY <3>1, <3>2, AnalysisIs
    <3>4. Reclassify(b, mark) = Stats(b, mark, Cardinality(CountedTo(RowData(w, col), len)))
      BY <3>1, <3>2, AnalysisIs
    <3>5. QED
      BY <3>3, <3>4 DEF e, w
  <2>14. Stats(a, mark, total) = Stats(b, mark, total)
    BY <2>9, <2>10, StatsPaired
  <2>15. Facts(other) = Facts(table)
    <3> DEFINE n == Len(a)
               o == Len(b)
               Fact(s) == [id |-> s.id, year |-> s.year, notified |-> s.notified]
    <3>1. ToSet(a) = {a[k] : k \in 1 .. n} /\ ToSet(b) = {b[k] : k \in 1 .. o}
      BY <2>10, LenProperties DEF ToSet
    <3>2. \A k \in 1 .. n : m[k] \in 1 .. o /\ Fact(a[k]) = Fact(b[m[k]])
      BY <2>9 DEF Paired, Twin, Bijection, Injection
    <3>3. \A j \in 1 .. o : \E k \in 1 .. n : m[k] = j
      BY <2>9 DEF Paired, Bijection, Surjection
    <3> HIDE DEF Fact, n, o
    <3>4. {Fact(s) : s \in ToSet(a)} \subseteq {Fact(s) : s \in ToSet(b)}
      BY <3>1, <3>2
    <3>5. {Fact(s) : s \in ToSet(b)} \subseteq {Fact(s) : s \in ToSet(a)}
      BY <3>1, <3>2, <3>3
    <3>6. Facts(table) = {Fact(s) : s \in ToSet(a)} /\ Facts(other) = {Fact(s) : s \in ToSet(b)}
      BY DEF Facts, Fact, a, b
    <3>7. QED
      BY <3>4, <3>5, <3>6
  <2>16. QED
    BY <2>11, <2>12, <2>13, <2>14, <2>15, Zenon DEF b
<1>6. QED
  BY <1>4, <1>5

-----------------------------------------------------------------------------
(* All screens *)

\* The sample is one of the initial ones, or none.
SampleOK == SheetInit \/ sample = NoSample

LEMMA SamplesStay == Spec => []SampleOK
<1>1. Init => SampleOK
  BY DEF Init, SampleOK
<1>2. SampleOK /\ [Next]_<<part, clientVars>> => SampleOK'
  BY DEF SampleOK, SheetInit, Next, clientVars
<1>3. QED
  BY <1>1, <1>2, PTL DEF Spec

LEMMA SamplesAgree == SampleOK => ScreensAgree
<1> SUFFICES ASSUME SampleOK
             PROVE  ScreensAgree
  OBVIOUS
<1>1. ASSUME sample.kind = "cases"
      PROVE  CasesAgree(sample.rows, NoLocals(sample.rows))
  <2>1. PICK cases \in SeqOf(CaseRows, 2) : sample = [kind |-> "cases", rows |-> cases]
    BY <1>1 DEF SampleOK, SheetInit, NoSample
  <2>2. cases \in Seq(CaseRows)
    <3>1. PICK n \in 0 .. 2 : cases \in [1 .. n -> CaseRows]
      BY DEF SeqOf
    <3>2. QED
      BY <3>1, FunctionAsSeq
  <2>3. sample.rows = cases
    BY <2>1
  <2>4. QED
    BY <2>2, <2>3, CasesOfList
<1>2. ASSUME sample.kind = "team"
      PROVE  TeamAgrees(sample.items, Named(DemoItems))
  <2>1. PICK items \in SeqOf(TeamItems, 4) : sample = [kind |-> "team", items |-> Named(items)]
    BY <1>2 DEF SampleOK, SheetInit, NoSample
  <2>2. sample.items = Named(items) /\ Named(items) \in Seq(TeamRows)
    BY <2>1, TeamNamed
  <2>3. QED
    BY <2>2, TeamOfList
<1>3. ASSUME sample.kind = "goals", NEW today \in 1 .. 3, NEW zone \in Offsets
      PROVE  GoalsAgree(sample.goals, today, zone)
  <2>1. PICK goals \in SeqOf(GoalItems, 3) : sample = [kind |-> "goals", goals |-> Numbered(goals)]
    BY <1>3 DEF SampleOK, SheetInit, NoSample
  <2>2. sample.goals = Numbered(goals) /\ Numbered(goals) \in Seq(GoalRows) /\ DistinctGoals(Numbered(goals))
    BY <2>1, GoalsNumbered
  <2>3. today \in Int
    OBVIOUS
  <2>4. zone \in Int /\ 0 - 1440 < zone /\ zone < 1440
    BY ItemsAssumption
  <2>5. QED
    BY <2>2, <2>3, <2>4, GoalsOfList
<1>4. QED
  BY <1>1, <1>2, <1>3, LinksOfRoles DEF ScreensAgree

\* The screens that compute their figures from the same lists agree: the overview,
\* the Kanban, the table and the success stories on the cases, the leaderboard's
\* parts on the advisors, a card and its dialog on the goals; for any goals, days and
\* zones, the card warns of what the dialog calls overdue, and west of UTC of what is
\* due today.
THEOREM Screens == Spec => []ScreensAgree
BY SamplesStay, SamplesAgree, PTL

LEMMA SamplesCount == SampleOK => StatsOfRows
<1> SUFFICES ASSUME SampleOK, sample.kind = "rows", NEW other \in Shuffled(sample.rows), NEW mark
             PROVE  /\ Facts(other) = Facts(sample.rows)
                    /\ AnalyzeCsv(Table(other), mark) = AnalyzeCsv(Table(sample.rows), mark)
                    /\ Reclassify(StudentsOf(Table(other)), mark) = AnalyzeCsv(Table(sample.rows), mark)
  BY DEF StatsOfRows
<1>1. PICK table \in SeqOf(RiskRows, 3) : sample = [kind |-> "rows", rows |-> table]
  BY DEF SampleOK, SheetInit, NoSample
<1>2. table \in Seq(RiskRows) /\ DOMAIN table = 1 .. Len(table)
  <2>1. PICK n \in 0 .. 3 : table \in [1 .. n -> RiskRows]
    BY DEF SeqOf
  <2>2. QED
    BY <2>1, FunctionAsSeq
<1>3. sample.rows = table
  BY <1>1
<1>4. PICK p \in Bijection(1 .. Len(table), 1 .. Len(table)) : other = [i \in 1 .. Len(table) |-> table[p[i]]]
  BY <1>2, <1>3 DEF Shuffled
<1>5. QED
  BY <1>2, <1>3, <1>4, StatsOfShuffled

\* Risk, problems and last contact of the students do not depend on the order of
\* the rows, and counting again at another threshold gives what an analysis at that
\* threshold gives: for every content of the rows and every threshold.
THEOREM Statistics == Spec => []StatsOfRows
BY SamplesStay, SamplesCount, PTL

-----------------------------------------------------------------------------
(* Columns of a merged file *)

LEMMA LeastIs ==
    ASSUME NEW T \in SUBSET Nat, NEW n \in T, \A m \in T : n <= m
    PROVE  Min(T) = n
<1>1. \A x \in T : (\A y \in T : x <= y) => x = n
  OBVIOUS
<1>2. QED
  BY <1>1 DEF Min

\* A header is taken for a candidate.
Like(h, c) == h = c \/ <<h, c>> \in Includes

\* f is the column of the first candidate that is a header, or is like one.
Exact(headers, names, f, k) ==
    /\ k \in 1 .. Len(names) /\ names[k] \in ToSet(headers) /\ f = names[k]
    /\ \A j \in 1 .. Len(names) : j < k => names[j] \notin ToSet(headers)
Alike(headers, names, f, k, i) ==
    /\ \A j \in 1 .. Len(names) : names[j] \notin ToSet(headers)
    /\ k \in 1 .. Len(names) /\ i \in 1 .. Len(headers) /\ f = headers[i] /\ Like(f, names[k])
    /\ \A j \in 1 .. Len(names) : j < k => \A h \in ToSet(headers) : ~Like(h, names[j])
    /\ \A j \in 1 .. Len(headers) : j < i => ~Like(headers[j], names[k])

LEMMA ExactIsFound ==
    ASSUME NEW headers, NEW N, NEW names \in Seq(N), NEW f, NEW k, Exact(headers, names, f, k)
    PROVE  FindCol(headers, names) = f
<1> DEFINE T == {j \in DOMAIN names : names[j] \in ToSet(headers)}
<1>1. DOMAIN names = 1 .. Len(names) /\ Len(names) \in Nat
  BY LenProperties
<1>2. k \in T /\ T \in SUBSET Nat /\ \A m \in T : k <= m
  BY <1>1 DEF Exact
<1>3. Min(T) = k
  BY <1>2, LeastIs
<1>4. T # {}
  BY <1>2
<1> HIDE DEF T
<1>5. f = names[k]
  BY DEF Exact
<1>6. QED
  BY <1>3, <1>4, <1>5 DEF FindCol, T

LEMMA AlikeIsFound ==
    ASSUME NEW H, NEW headers \in Seq(H), NEW N, NEW names \in Seq(N), NEW f, NEW k, NEW i, Alike(headers, names, f, k, i)
    PROVE  FindCol(headers, names) = f
<1> DEFINE E == {j \in DOMAIN names : names[j] \in ToSet(headers)}
           P(j) == {h \in DOMAIN headers : headers[h] = names[j] \/ <<headers[h], names[j]>> \in Includes}
           T == {j \in DOMAIN names : P(j) # {}}
<1>1. /\ DOMAIN names = 1 .. Len(names) /\ Len(names) \in Nat
      /\ DOMAIN headers = 1 .. Len(headers) /\ Len(headers) \in Nat
      /\ \A h \in 1 .. Len(headers) : headers[h] \in ToSet(headers)
  BY LenProperties DEF ToSet, Range
<1>2. E = {}
  BY <1>1 DEF Alike
<1>3. \A j \in DOMAIN names : \A h \in DOMAIN headers : h \in P(j) <=> Like(headers[h], names[j])
  BY DEF Like
<1>4. \A j \in DOMAIN names : P(j) \in SUBSET (DOMAIN headers)
  OBVIOUS
<1> HIDE DEF P
<1>5. i \in P(k) /\ \A m \in P(k) : i <= m
  BY <1>1, <1>3, <1>4 DEF Alike
<1>6. k \in T /\ \A m \in T : k <= m
  BY <1>1, <1>3, <1>4, <1>5 DEF Alike
<1>7. P(k) \in SUBSET Nat /\ T \in SUBSET Nat
  BY <1>1, <1>4, <1>6
<1>8. Min(P(k)) = i
  BY <1>5, <1>7, LeastIs
<1>9. Min(T) = k
  BY <1>6, <1>7, LeastIs
<1>10. T # {}
  BY <1>6
<1> HIDE DEF E, T
<1>11. f = headers[i]
  BY DEF Alike
<1>12. headers[Min(P(Min(T)))] = f
  BY <1>8, <1>9, <1>11
<1>13. QED
  BY <1>2, <1>10, <1>12 DEF FindCol, E, T, P

\* No header that is like a name stands for no column.
AreNames(names) == \A k \in 1 .. Len(names) : names[k] # NoColumn

LEMMA ColumnFound ==
    ASSUME NEW H, NEW headers \in Seq(H), NEW N, NEW names \in Seq(N), AreNames(names)
    PROVE  LET f == FindCol(headers, names)
           IN  \/ f = NoColumn /\ \A j \in 1 .. Len(names) : \A h \in ToSet(headers) : ~Like(h, names[j])
               \/ f # NoColumn /\ f \in ToSet(headers) /\
                    \/ \E k \in 1 .. Len(names) : Exact(headers, names, f, k)
                    \/ \E k \in 1 .. Len(names) : \E i \in 1 .. Len(headers) : Alike(headers, names, f, k, i)
<1>1. /\ DOMAIN names = 1 .. Len(names) /\ Len(names) \in Nat
      /\ DOMAIN headers = 1 .. Len(headers) /\ Len(headers) \in Nat
      /\ ToSet(headers) = {headers[h] : h \in 1 .. Len(headers)}
  BY LenProperties DEF ToSet, Range
<1> DEFINE E == {j \in 1 .. Len(names) : names[j] \in ToSet(headers)}
           P(j) == {h \in 1 .. Len(headers) : Like(headers[h], names[j])}
           T == {j \in 1 .. Len(names) : P(j) # {}}
<1>2. CASE E # {}
  <2>1. PICK k \in E : \A m \in E : k <= m
    <3>1. E \in SUBSET Nat
      BY <1>1
    <3>2. QED
      BY <1>2, <3>1, LeastNumber
  <2>2. Exact(headers, names, names[k], k)
    BY <2>1 DEF Exact
  <2>3. FindCol(headers, names) = names[k]
    BY <2>2, ExactIsFound
  <2>4. QED
    BY <2>1, <2>2, <2>3 DEF AreNames
<1>3. CASE E = {} /\ T # {}
  <2>1. PICK k \in T : \A m \in T : k <= m
    <3>1. T \in SUBSET Nat
      BY <1>1
    <3>2. QED
      BY <1>3, <3>1, LeastNumber
  <2>2. PICK i \in P(k) : \A m \in P(k) : i <= m
    <3>1. P(k) \in SUBSET Nat /\ P(k) # {}
      BY <1>1, <2>1
    <3>2. QED
      BY <3>1, LeastNumber
  <2>3. Alike(headers, names, headers[i], k, i)
    <3>1. \A j \in 1 .. Len(names) : names[j] \notin ToSet(headers)
      BY <1>3
    <3>2. \A j \in 1 .. Len(names) : j < k => \A h \in ToSet(headers) : ~Like(h, names[j])
      BY <1>1, <2>1
    <3>3. \A j \in 1 .. Len(headers) : j < i => ~Like(headers[j], names[k])
      BY <1>1, <2>2
    <3>4. QED
      BY <2>1, <2>2, <3>1, <3>2, <3>3 DEF Alike
  <2>4. FindCol(headers, names) = headers[i]
    BY <2>3, AlikeIsFound
  <2>5. headers[i] # NoColumn
    <3>1. Like(headers[i], names[k]) /\ names[k] # NoColumn
      BY <2>1, <2>2 DEF AreNames
    <3>2. QED
      BY <3>1 DEF Like, Includes, NoColumn
  <2>6. headers[i] \in ToSet(headers)
    BY <1>1, <2>2
  <2>7. QED
    BY <2>1, <2>2, <2>3, <2>4, <2>5, <2>6
<1>4. CASE E = {} /\ T = {}
  <2>1. \A j \in 1 .. Len(names) : \A h \in ToSet(headers) : ~Like(h, names[j])
    BY <1>1, <1>4
  <2>2. {j \in DOMAIN names : names[j] \in ToSet(headers)} = {}
    BY <1>1, <1>4
  <2>3. \A j \in DOMAIN names :
           {i \in DOMAIN headers : headers[i] = names[j] \/ <<headers[i], names[j]>> \in Includes} = {}
    BY <1>1, <2>1 DEF Like
  <2>4. {k \in DOMAIN names :
            {i \in DOMAIN headers : headers[i] = names[k] \/ <<headers[i], names[k]>> \in Includes} # {}} = {}
    BY <2>3
  <2>5. FindCol(headers, names) = NoColumn
    BY <2>2, <2>4, Zenon DEF FindCol
  <2>6. QED
    BY <2>1, <2>5
<1>5. QED
  BY <1>2, <1>3, <1>4

\* The columns of two files together: those of the first, then what the second adds.
LEMMA UnionHas ==
    ASSUME NEW S, NEW a \in Seq(S), NEW b \in Seq(S)
    PROVE  /\ UnionOf(a, b) \in Seq(S) /\ ToSet(UnionOf(a, b)) = ToSet(a) \cup ToSet(b)
           /\ Len(UnionOf(a, b)) >= Len(a)
           /\ \A i \in 1 .. Len(a) : UnionOf(a, b)[i] = a[i]
<1> DEFINE places == {i \in DOMAIN b : b[i] \notin ToSet(a)}
           more == Arranged(b, places, Ascending(places))
<1>1. DOMAIN b = 1 .. Len(b) /\ Len(a) \in Nat
  BY LenProperties
<1>2. places \in SUBSET (1 .. Len(b))
  BY <1>1
<1>3. more \in Seq(S) /\ ToSet(more) = {b[i] : i \in places}
  BY <1>2, FilteredIs
<1>4. UnionOf(a, b) = a \o more
  BY DEF UnionOf, Filtered
<1>5. ToSet(b) = {b[i] : i \in DOMAIN b}
  BY DEF ToSet, Range
<1>6. ToSet(a) \cup ToSet(more) = ToSet(a) \cup ToSet(b)
  BY <1>3, <1>5
<1> HIDE DEF more
<1>7. /\ a \o more \in Seq(S) /\ ToSet(a \o more) = ToSet(a) \cup ToSet(more)
  BY <1>3, ConcatContains
<1>8. Len(more) \in Nat /\ Len(a \o more) = Len(a) + Len(more) /\ \A i \in 1 .. Len(a) : (a \o more)[i] = a[i]
  BY <1>1, <1>3, ConcatProperties, LenProperties
<1>9. QED
  BY <1>1, <1>4, <1>6, <1>7, <1>8

\* A column that the second file has too, or has nothing like, stays the column.
LEMMA ColumnStays ==
    ASSUME NEW H, NEW a \in Seq(H), NEW b \in Seq(H), NEW N, NEW names \in Seq(N), AreNames(names),
           FindCol(a, names) # NoColumn,
           FindCol(b, names) = NoColumn \/ FindCol(b, names) = FindCol(a, names)
    PROVE  FindCol(UnionOf(a, b), names) = FindCol(a, names)
<1> DEFINE f == FindCol(a, names)
           u == UnionOf(a, b)
<1>1. /\ u \in Seq(H) /\ ToSet(u) = ToSet(a) \cup ToSet(b) /\ Len(u) >= Len(a)
      /\ \A i \in 1 .. Len(a) : u[i] = a[i]
  BY UnionHas
<1>2. Len(a) \in Nat /\ Len(u) \in Nat /\ Len(names) \in Nat
  BY <1>1, LenProperties
<1> HIDE DEF u
<1>3. \/ \A j \in 1 .. Len(names) : \A h \in ToSet(b) : ~Like(h, names[j])
      \/ f \in ToSet(b) /\
           \/ \E k \in 1 .. Len(names) : Exact(b, names, f, k)
           \/ \E k \in 1 .. Len(names) : \E i \in 1 .. Len(b) : Alike(b, names, f, k, i)
  BY ColumnFound
<1>4. \/ \E k \in 1 .. Len(names) : Exact(a, names, f, k)
      \/ \E k \in 1 .. Len(names) : \E i \in 1 .. Len(a) : Alike(a, names, f, k, i)
  BY ColumnFound
<1> HIDE DEF f
<1>5. ASSUME NEW k \in 1 .. Len(names), Exact(a, names, f, k)
      PROVE  FindCol(u, names) = f
  <2>1. \A j \in 1 .. Len(names) : j < k => names[j] \notin ToSet(b)
    <3>1. CASE \A j \in 1 .. Len(names) : \A h \in ToSet(b) : ~Like(h, names[j])
      BY <3>1 DEF Like
    <3>2. ASSUME NEW l \in 1 .. Len(names), Exact(b, names, f, l)
          PROVE  \A j \in 1 .. Len(names) : j < k => names[j] \notin ToSet(b)
      <4>1. ~(l < k)
        BY <1>5, <3>2 DEF Exact
      <4>2. QED
        BY <1>2, <3>2, <4>1 DEF Exact
    <3>3. ASSUME NEW l \in 1 .. Len(names), NEW i \in 1 .. Len(b), Alike(b, names, f, l, i)
          PROVE  \A j \in 1 .. Len(names) : j < k => names[j] \notin ToSet(b)
      BY <3>3 DEF Alike
    <3>4. QED
      BY <1>3, <3>1, <3>2, <3>3
  <2>2. Exact(u, names, f, k)
    BY <1>1, <1>5, <2>1 DEF Exact
  <2>3. QED
    BY <2>2, ExactIsFound
<1>6. ASSUME NEW k \in 1 .. Len(names), NEW i \in 1 .. Len(a), Alike(a, names, f, k, i)
      PROVE  FindCol(u, names) = f
  <2>1. f \in ToSet(a)
    BY <1>6, LenProperties DEF Alike, ToSet, Range
  <2>2. /\ \A j \in 1 .. Len(names) : names[j] \notin ToSet(b)
        /\ \A j \in 1 .. Len(names) : j < k => \A h \in ToSet(b) : ~Like(h, names[j])
    <3>1. CASE \A j \in 1 .. Len(names) : \A h \in ToSet(b) : ~Like(h, names[j])
      BY <3>1 DEF Like
    <3>2. ASSUME NEW l \in 1 .. Len(names), Exact(b, names, f, l)
          PROVE  FALSE
      BY <1>6, <2>1, <3>2 DEF Exact, Alike
    <3>3. ASSUME NEW l \in 1 .. Len(names), NEW m \in 1 .. Len(b), Alike(b, names, f, l, m)
          PROVE  /\ \A j \in 1 .. Len(names) : names[j] \notin ToSet(b)
                 /\ \A j \in 1 .. Len(names) : j < k => \A h \in ToSet(b) : ~Like(h, names[j])
      <4>1. Like(f, names[l]) /\ Like(f, names[k])
        BY <1>6, <3>3 DEF Alike
      <4>2. ~(l < k)
        BY <1>6, <2>1, <4>1 DEF Alike
      <4>3. QED
        BY <1>2, <3>3, <4>2 DEF Alike
    <3>4. QED
      BY <1>3, <3>1, <3>2, <3>3
  <2>3. i \in 1 .. Len(u) /\ u[i] = a[i] /\ \A j \in 1 .. Len(u) : j < i => j \in 1 .. Len(a) /\ u[j] = a[j]
    BY <1>1, <1>2
  <2>4. Alike(u, names, f, k, i)
    BY <1>1, <1>6, <2>2, <2>3 DEF Alike
  <2>5. QED
    BY <1>1, <2>4, AlikeIsFound
<1>7. QED
  BY <1>4, <1>5, <1>6 DEF f, u

-----------------------------------------------------------------------------
(* The rows of two merged files *)

\* A table as it is parsed.
IsTable(t) ==
    /\ t.headers \in Seq(ToSet(t.headers)) /\ t.rows \in Seq(ToSet(t.rows))
    /\ \A row \in ToSet(t.rows) : DOMAIN row = ToSet(t.headers)

LEMMA Spans ==
    ASSUME NEW x \in Nat, NEW y \in Nat
    PROVE  /\ x + y \in Nat
           /\ \A i \in 1 .. x : i \in 1 .. x + y /\ i <= x
           /\ \A i \in 1 .. y : x + i \in 1 .. x + y /\ ~(x + i <= x) /\ (x + i) - x = i
           /\ \A i \in 1 .. x + y : i \in 1 .. x \/ \E j \in 1 .. y : i = x + j
<1>1. ASSUME NEW i \in 1 .. x + y, ~(i <= x)
      PROVE  i - x \in 1 .. y /\ i = x + (i - x)
  BY <1>1
<1>2. QED
  BY <1>1

\* The table m has the rows of a and those of b, in the columns of both.
HasRowsOf(m, a, b) ==
    /\ Len(a.rows) \in Nat /\ Len(b.rows) \in Nat
    /\ m.headers = UnionOf(a.headers, b.headers)
    /\ m.rows \in Seq(ToSet(m.rows)) /\ Len(m.rows) = Len(a.rows) + Len(b.rows)
    /\ \A i \in 1 .. Len(a.rows) : m.rows[i] = InColumns(a.rows[i], m.headers, NoText)
    /\ \A i \in 1 .. Len(b.rows) : m.rows[Len(a.rows) + i] = InColumns(b.rows[i], m.headers, NoText)

LEMMA MergedRows ==
    ASSUME NEW a, IsTable(a), NEW b, IsTable(b)
    PROVE  HasRowsOf(MergeTables(a, b, NoText), a, b)
<1> DEFINE m == MergeTables(a, b, NoText)
           na == Len(a.rows)
           nb == Len(b.rows)
           all == a.rows \o b.rows
           cols == UnionOf(a.headers, b.headers)
           S == ToSet(a.rows) \cup ToSet(b.rows)
           n == na + nb
           q == [i \in 1 .. Len(all) |-> InColumns(all[i], cols, NoText)]
<1>1. a.rows \in Seq(S) /\ b.rows \in Seq(S)
  BY DEF IsTable
<1> HIDE DEF S
<1>2. /\ na \in Nat /\ nb \in Nat /\ Len(all) = n
      /\ \A i \in 1 .. n : all[i] = IF i <= na THEN a.rows[i] ELSE b.rows[i - na]
  BY <1>1, ConcatProperties, LenProperties
<1>3. m.headers = cols /\ m.rows = q
  BY DEF MergeTables
<1> HIDE DEF all, cols, na, nb, m
<1>4. n \in Nat
  BY <1>2
<1>5. ASSUME NEW i \in 1 .. na
      PROVE  i \in 1 .. n /\ i <= na
  BY <1>2
<1>6. ASSUME NEW i \in 1 .. nb
      PROVE  na + i \in 1 .. n /\ ~(na + i <= na) /\ (na + i) - na = i
  BY <1>2
<1> HIDE DEF n
<1>7. q \in [1 .. n -> {q[i] : i \in 1 .. n}]
  BY <1>2
<1>8. q \in Seq({q[i] : i \in 1 .. n}) /\ Len(q) = n
  BY <1>4, <1>7, FunctionAsSeq
<1>9. ToSet(q) = {q[i] : i \in 1 .. n}
  BY <1>2 DEF ToSet, Range
<1>10. \A i \in 1 .. na : q[i] = InColumns(a.rows[i], cols, NoText)
  BY <1>2, <1>5
<1>11. \A i \in 1 .. nb : q[na + i] = InColumns(b.rows[i], cols, NoText)
  BY <1>2, <1>6
<1> HIDE DEF q
<1>12. QED
  BY <1>2, <1>3, <1>8, <1>9, <1>10, <1>11 DEF HasRowsOf, n, cols, na, nb, m

\* A cell of a merged row is the cell of the row, and blank where the row has none.
LEMMA CellMerged ==
    ASSUME NEW t, IsTable(t), NEW i \in 1 .. Len(t.rows), NEW cols, NEW c, c \in ToSet(cols), c # NoColumn
    PROVE  Cell(InColumns(t.rows[i], cols, NoText), c) =
                IF c \in ToSet(t.headers) THEN Cell(t.rows[i], c) ELSE NoText
<1>1. t.rows[i] \in ToSet(t.rows)
  BY LenProperties DEF IsTable, ToSet, Range
<1>2. DOMAIN t.rows[i] = ToSet(t.headers)
  BY <1>1 DEF IsTable
<1>3. QED
  BY <1>2 DEF Cell, InColumns

\* Both files name the student's column alike, and only the first has marks.
Fit(a, b) ==
    /\ IsTable(a) /\ IsTable(b)
    /\ FindCol(a.headers, SidNames) # NoColumn /\ FindCol(a.headers, ScoreNames) # NoColumn
    /\ FindCol(b.headers, SidNames) = FindCol(a.headers, SidNames)
    /\ FindCol(b.headers, ScoreNames) = NoColumn

\* What the analysis of the merged table reads: of the first file's rows the
\* numbers and marks, of the second's the numbers alone.
Read(d, a, b) ==
    LET colA == ColumnsOf(a.headers)
        colB == ColumnsOf(b.headers)
        na == Len(a.rows)
    IN  /\ \A i \in 1 .. na : /\ d.sid[i] = Cell(a.rows[i], colA.sid)
                              /\ i \in d.marked <=> ToNumber(Cell(a.rows[i], colA.score)) # NoNumber
        /\ \A i \in 1 .. Len(b.rows) : d.sid[na + i] = Cell(b.rows[i], colB.sid) /\ na + i \notin d.marked

LEMMA MergedRead ==
    ASSUME NEW a, NEW b, Fit(a, b), NEW m, m = MergeTables(a, b, NoText), NEW col, col = ColumnsOf(m.headers)
    PROVE  /\ col.sid # NoColumn /\ col.score # NoColumn
           /\ Read(RowData(m.rows, col), a, b)
<1> DEFINE na == Len(a.rows)
           nb == Len(b.rows)
           sid == FindCol(a.headers, SidNames)
           score == FindCol(a.headers, ScoreNames)
           d == RowData(m.rows, col)
<1>1. /\ na \in Nat /\ nb \in Nat /\ m.headers = UnionOf(a.headers, b.headers)
      /\ m.rows \in Seq(ToSet(m.rows)) /\ Len(m.rows) = na + nb
      /\ \A i \in 1 .. na : m.rows[i] = InColumns(a.rows[i], m.headers, NoText)
      /\ \A i \in 1 .. nb : m.rows[na + i] = InColumns(b.rows[i], m.headers, NoText)
  <2>1. IsTable(a) /\ IsTable(b)
    BY DEF Fit
  <2>2. QED
    BY <2>1, MergedRows DEF HasRowsOf
<1> DEFINE H == ToSet(a.headers) \cup ToSet(b.headers)
<1>2. a.headers \in Seq(H) /\ b.headers \in Seq(H)
  BY DEF Fit, IsTable
<1> HIDE DEF H
<1>3. SidNames \in Seq(ToSet(SidNames)) /\ AreNames(SidNames)
  <2>1. SidNames[1] = "sid" /\ SidNames[2] = "studentid" /\ SidNames[3] = "mssv" /\ Len(SidNames) = 3
    BY DEF SidNames
  <2>2. 1 .. 3 = {1, 2, 3}
    OBVIOUS
  <2>3. SidNames \in Seq(ToSet(SidNames))
    <3>1. SidNames \in Seq({"sid", "studentid", "mssv"})
      BY DEF SidNames
    <3>2. ToSet(SidNames) = {"sid", "studentid", "mssv"}
      BY <2>1, <2>2, <3>1, LenProperties DEF ToSet, Range
    <3>3. QED
      BY <3>1, <3>2
  <2>4. QED
    BY <2>1, <2>2, <2>3 DEF AreNames, NoColumn
<1>4. ScoreNames \in Seq(ToSet(ScoreNames)) /\ AreNames(ScoreNames)
  <2>1. ScoreNames[1] = "score" /\ ScoreNames[2] = "diem" /\ Len(ScoreNames) = 2
    BY DEF ScoreNames
  <2>2. 1 .. 2 = {1, 2}
    OBVIOUS
  <2>3. ScoreNames \in Seq(ToSet(ScoreNames))
    <3>1. ScoreNames \in Seq({"score", "diem"})
      BY DEF ScoreNames
    <3>2. ToSet(ScoreNames) = {"score", "diem"}
      BY <2>1, <2>2, <3>1, LenProperties DEF ToSet, Range
    <3>3. QED
      BY <3>1, <3>2
  <2>4. QED
    BY <2>1, <2>2, <2>3 DEF AreNames, NoColumn
<1>5. FindCol(m.headers, SidNames) = sid /\ FindCol(m.headers, ScoreNames) = score
  <2>1. FindCol(UnionOf(a.headers, b.headers), SidNames) = sid
    BY <1>2, <1>3, ColumnStays DEF Fit
  <2>2. FindCol(UnionOf(a.headers, b.headers), ScoreNames) = score
    BY <1>2, <1>4, ColumnStays DEF Fit
  <2>3. QED
    BY <1>1, <2>1, <2>2
<1>6. sid # NoColumn /\ sid \in ToSet(a.headers) /\ sid \in ToSet(b.headers)
  <2>1. sid # NoColumn /\ sid \in ToSet(a.headers)
    BY <1>2, <1>3, ColumnFound DEF Fit
  <2>2. FindCol(b.headers, SidNames) \in ToSet(b.headers)
    BY <1>2, <1>3, ColumnFound DEF Fit
  <2>3. QED
    BY <2>1, <2>2 DEF Fit
<1>7. score # NoColumn /\ score \in ToSet(a.headers) /\ score \notin ToSet(b.headers)
  <2>1. score # NoColumn /\ score \in ToSet(a.headers)
    BY <1>2, <1>4, ColumnFound DEF Fit
  <2>2. \E j \in 1 .. Len(ScoreNames) : Like(score, ScoreNames[j])
    <3>1. \/ \E k \in 1 .. Len(ScoreNames) : Exact(a.headers, ScoreNames, score, k)
          \/ \E k \in 1 .. Len(ScoreNames) : \E i \in 1 .. Len(a.headers) : Alike(a.headers, ScoreNames, score, k, i)
      BY <1>2, <1>4, ColumnFound DEF Fit
    <3>2. QED
      BY <3>1 DEF Exact, Alike, Like
  <2>3. \A j \in 1 .. Len(ScoreNames) : \A h \in ToSet(b.headers) : ~Like(h, ScoreNames[j])
    BY <1>2, <1>4, ColumnFound DEF Fit
  <2>4. QED
    BY <2>1, <2>2, <2>3
<1>8. /\ col.sid = sid /\ col.score = score
      /\ ColumnsOf(a.headers).sid = sid /\ ColumnsOf(a.headers).score = score
      /\ ColumnsOf(b.headers).sid = sid
  <2>1. \A headers : /\ ColumnsOf(headers).sid = FindCol(headers, SidNames)
                     /\ ColumnsOf(headers).score = FindCol(headers, ScoreNames)
    BY DEF ColumnsOf
  <2>2. QED
    BY <1>5, <2>1 DEF Fit
<1>9. ToSet(m.headers) = ToSet(a.headers) \cup ToSet(b.headers)
  BY <1>1, <1>2, UnionHas
<1>10. DOMAIN m.rows = 1 .. na + nb
  BY <1>1, LenProperties
<1>11. /\ \A i \in 1 .. na + nb : d.sid[i] = Cell(m.rows[i], sid)
       /\ \A i \in 1 .. na + nb : i \in d.marked <=> ToNumber(Cell(m.rows[i], score)) # NoNumber
  BY <1>8, <1>10 DEF RowData
<1> HIDE DEF d, sid, score
<1>12. ASSUME NEW i \in 1 .. na
       PROVE  /\ d.sid[i] = Cell(a.rows[i], sid)
              /\ i \in d.marked <=> ToNumber(Cell(a.rows[i], score)) # NoNumber
  <2>1. /\ Cell(m.rows[i], sid) = Cell(a.rows[i], sid)
        /\ Cell(m.rows[i], score) = Cell(a.rows[i], score)
    BY <1>1, <1>6, <1>7, <1>9, CellMerged DEF Fit
  <2>2. i \in 1 .. na + nb
    BY <1>1, Spans
  <2>3. QED
    BY <1>11, <2>1, <2>2
<1>13. ASSUME NEW i \in 1 .. nb
       PROVE  d.sid[na + i] = Cell(b.rows[i], sid) /\ na + i \notin d.marked
  <2>1. /\ Cell(m.rows[na + i], sid) = Cell(b.rows[i], sid)
        /\ Cell(m.rows[na + i], score) = NoText
    BY <1>1, <1>6, <1>7, <1>9, CellMerged DEF Fit
  <2>2. na + i \in 1 .. na + nb
    BY <1>1, Spans
  <2>3. ToNumber(NoText) = NoNumber
    BY NumbersAssumption DEF ToNumber
  <2>4. QED
    BY <1>11, <2>1, <2>2, <2>3
<1>14. QED
  BY <1>6, <1>7, <1>8, <1>12, <1>13 DEF Read, d

-----------------------------------------------------------------------------
(* What is counted of them *)

\* The places of the rows of marks.
MarksOf(t) == {i \in 1 .. Len(t.rows) : Scored(t.rows[i], ColumnsOf(t.headers))}

LEMMA DistinctCounted ==
    ASSUME NEW d, NEW n, NEW V, NEW students, PerStudent(students, d, n, V)
    PROVE  Cardinality({s.id : s \in ToSet(students)}) = Len(students)
<1> DEFINE len == Len(students)
           ids == {s.id : s \in ToSet(students)}
           f == [k \in 1 .. len |-> students[k].id]
<1>1. len \in Nat /\ DOMAIN students = 1 .. len
  BY LenProperties DEF PerStudent
<1>2. \A j, k \in 1 .. len : students[j].id = students[k].id => j = k
  BY DEF PerStudent, DistinctIds
<1>3. \A k \in 1 .. len : students[k].id \in ids
  BY <1>1 DEF ToSet, Range
<1>4. \A id \in ids : \E k \in 1 .. len : students[k].id = id
  BY <1>1 DEF ToSet, Range
<1> HIDE DEF ids, len
<1>5. f \in [1 .. len -> ids] /\ \A k \in 1 .. len : f[k] = students[k].id
  BY <1>3
<1> HIDE DEF f
<1>6. f \in Bijection(1 .. len, ids)
  BY <1>2, <1>4, <1>5 DEF Bijection, Injection, Surjection, IsInjective
<1>7. ExistsBijection(1 .. len, ids)
  BY <1>6 DEF ExistsBijection
<1>8. QED
  BY <1>1, <1>7, FirstNumbers, FS_Bijection DEF ids, len

\* The numbers in the rows of a table.
LEMMA StudentsInRows ==
    ASSUME NEW t, IsTable(t)
    PROVE  /\ \A i \in 1 .. Len(t.rows) : Cell(t.rows[i], ColumnsOf(t.headers).sid) # NoText =>
                    Cell(t.rows[i], ColumnsOf(t.headers).sid) \in StudentsIn(t)
           /\ \A id \in StudentsIn(t) : \E i \in 1 .. Len(t.rows) :
                    id = Cell(t.rows[i], ColumnsOf(t.headers).sid) /\ id # NoText
<1> DEFINE number(row) == Cell(row, ColumnsOf(t.headers).sid)
<1>1. DOMAIN t.rows = 1 .. Len(t.rows)
  BY LenProperties DEF IsTable
<1>2. StudentsIn(t) = {number(row) : row \in ToSet(t.rows)} \ {NoText}
  BY DEF StudentsIn
<1> HIDE DEF number
<1>3. /\ \A i \in 1 .. Len(t.rows) : number(t.rows[i]) # NoText => number(t.rows[i]) \in StudentsIn(t)
      /\ \A id \in StudentsIn(t) : \E i \in 1 .. Len(t.rows) : id = number(t.rows[i]) /\ id # NoText
  BY <1>1, <1>2 DEF ToSet, Range
<1>4. QED
  BY <1>3 DEF number

LEMMA MergedCounts ==
    ASSUME NEW a, NEW b, Fit(a, b), NEW m, m = MergeTables(a, b, NoText), NEW mark,
           NEW K, K = MarksOf(a)
    PROVE  /\ AnalyzeCsv(m, mark).totalTests = Cardinality(K)
           /\ CountedIn(m) = StudentsIn(a) \cup StudentsIn(b)
           /\ AnalyzeCsv(m, mark).totalStudents = Cardinality(StudentsIn(a) \cup StudentsIn(b))
<1> DEFINE col == ColumnsOf(m.headers)
           d == RowData(m.rows, col)
           na == Len(a.rows)
           nb == Len(b.rows)
           n == na + nb
           students == StudentsOf(m)
           V == {Cell(m.rows[i], col.sid) : i \in 1 .. n} \cup {Cell(m.rows[i], col.name) : i \in 1 .. n}
                    \cup {Cell(m.rows[i], col.email) : i \in 1 .. n}
<1>1. col.sid # NoColumn /\ col.score # NoColumn /\ Read(d, a, b)
  BY MergedRead
<1>2. na \in Nat /\ nb \in Nat /\ m.rows \in Seq(ToSet(m.rows)) /\ Len(m.rows) = n
  <2>1. IsTable(a) /\ IsTable(b)
    BY DEF Fit
  <2>2. QED
    BY <2>1, MergedRows DEF HasRowsOf
<1> HIDE DEF n
<1>0. /\ n \in Nat
      /\ \A i \in 1 .. na : i \in 1 .. n /\ i <= na
      /\ \A i \in 1 .. nb : na + i \in 1 .. n
      /\ \A i \in 1 .. n : i \in 1 .. na \/ \E j \in 1 .. nb : i = na + j
  BY <1>2, Spans DEF n
<1>3. \A i \in 1 .. n : TextsIn(m.rows[i], col, V)
  BY DEF TextsIn
<1> HIDE DEF V
<1>4. PerStudent(StudentsAfter(m.rows, col)[n], d, n, V)
  BY <1>2, <1>3, StudentsPerRows
<1> HIDE DEF d
<1>5. students = StudentsAfter(m.rows, col)[n]
  BY <1>1, <1>2 DEF StudentsOf
<1> HIDE DEF students
<1>6. PerStudent(students, d, n, V)
  BY <1>4, <1>5
<1>7. CountedTo(d, n) = K
  <2>1. \A i \in 1 .. na : i \in K <=> d.sid[i] # NoText /\ i \in d.marked
    BY <1>1 DEF Read, Scored, MarksOf
  <2>2. \A i \in 1 .. n : d.sid[i] # NoText /\ i \in d.marked => i \in K
    <3>1. \A j \in 1 .. nb : na + j \notin d.marked
      BY <1>1 DEF Read
    <3>2. QED
      BY <1>0, <2>1, <3>1
  <2>3. \A i \in K : i \in 1 .. n /\ d.sid[i] # NoText /\ i \in d.marked
    BY <1>0, <2>1 DEF MarksOf
  <2>4. QED
    BY <2>2, <2>3 DEF CountedTo
<1>8. TestsOf(m) = Cardinality(K)
  <2>1. DOMAIN m.rows = 1 .. n
    BY <1>2, LenProperties
  <2>2. TestsOf(m) = Cardinality({i \in DOMAIN m.rows : Scored(m.rows[i], col)})
    BY DEF TestsOf, CountIn
  <2>3. {i \in DOMAIN m.rows : Scored(m.rows[i], col)} = CountedTo(d, n)
    BY <2>1 DEF CountedTo, Scored, RowData, d
  <2>4. QED
    BY <1>7, <2>2, <2>3
<1>9. students = <<>> => Cardinality(K) = 0
  <2>1. SumOf(TestCounts(students)) = Cardinality(K)
    BY <1>6, <1>7 DEF PerStudent
  <2>2. TestCounts(<<>>) = <<>>
    BY DEF TestCounts
  <2>3. <<>> \in Seq(Int) /\ Len(<<>>) = 0
    BY EmptySeq
  <2>4. SumOf(<<>>) = 0
    BY <2>3, SumsDefined
  <2>5. QED
    BY <2>1, <2>2, <2>4
<1>10. AnalyzeCsv(m, mark).totalTests = Cardinality(K)
  <2>1. AnalyzeCsv(m, mark).totalTests = IF students = <<>> THEN 0 ELSE TestsOf(m)
    BY DEF AnalyzeCsv, Stats, students
  <2>2. QED
    BY <1>8, <1>9, <2>1
<1>11. ASSUME NEW i \in 1 .. n, d.sid[i] # NoText
       PROVE  d.sid[i] \in {s.id : s \in ToSet(students)}
  <2>1. PICK k \in 1 .. Len(students) : students[k].id = d.sid[i]
    BY <1>6, <1>11 DEF PerStudent, Complete
  <2>2. students[k] \in ToSet(students)
    BY <1>6, LenProperties DEF PerStudent, ToSet, Range
  <2>3. QED
    BY <2>1, <2>2
<1> DEFINE ids == {s.id : s \in ToSet(students)}
<1>12. ids \subseteq {d.sid[i] : i \in 1 .. n} \ {NoText}
  <2> SUFFICES ASSUME NEW s \in ToSet(students)
               PROVE  s.id # NoText /\ \E i \in 1 .. n : d.sid[i] = s.id
    OBVIOUS
  <2>1. PICK k \in 1 .. Len(students) : s = students[k]
    BY <1>6, LenProperties DEF PerStudent, ToSet, Range
  <2>2. s.id # NoText /\ Summary(s, d, n)
    BY <1>6, <2>1 DEF PerStudent, Complete
  <2>3. \E i \in PlacesOf(d, n, s.id) : TRUE
    BY <2>2 DEF Summary, Newest
  <2>4. QED
    BY <2>2, <2>3 DEF PlacesOf
<1>13. {d.sid[i] : i \in 1 .. n} \ {NoText} \subseteq ids
  BY <1>11
<1>14. {d.sid[i] : i \in 1 .. n} \ {NoText} = StudentsIn(a) \cup StudentsIn(b)
  <2>1. IsTable(a) /\ IsTable(b)
    BY DEF Fit
  <2>2. /\ \A i \in 1 .. na : d.sid[i] = Cell(a.rows[i], ColumnsOf(a.headers).sid)
        /\ \A i \in 1 .. nb : d.sid[na + i] = Cell(b.rows[i], ColumnsOf(b.headers).sid)
    BY <1>1 DEF Read
  <2>3. /\ \A i \in 1 .. na : d.sid[i] # NoText => d.sid[i] \in StudentsIn(a)
        /\ \A id \in StudentsIn(a) : \E i \in 1 .. na : id = d.sid[i] /\ id # NoText
    BY <2>1, <2>2, StudentsInRows
  <2>4. /\ \A i \in 1 .. nb : d.sid[na + i] # NoText => d.sid[na + i] \in StudentsIn(b)
        /\ \A id \in StudentsIn(b) : \E i \in 1 .. nb : id = d.sid[na + i] /\ id # NoText
    BY <2>1, <2>2, StudentsInRows
  <2> HIDE DEF na, nb
  <2>5. ASSUME NEW i \in 1 .. n, d.sid[i] # NoText
        PROVE  d.sid[i] \in StudentsIn(a) \cup StudentsIn(b)
    BY <1>0, <2>3, <2>4, <2>5
  <2>6. ASSUME NEW id \in StudentsIn(a) \cup StudentsIn(b)
        PROVE  id # NoText /\ \E i \in 1 .. n : d.sid[i] = id
    BY <1>0, <2>3, <2>4
  <2>7. QED
    BY <2>5, <2>6
<1>15. ids = StudentsIn(a) \cup StudentsIn(b) /\ Cardinality(ids) = Len(students)
  BY <1>6, <1>12, <1>13, <1>14, DistinctCounted
<1>16. AnalyzeCsv(m, mark).totalStudents = Len(students)
  BY DEF AnalyzeCsv, Stats, students
<1>17. QED
  BY <1>10, <1>15, <1>16 DEF students, CountedIn

-----------------------------------------------------------------------------
(* What is sent of two files *)

NothingMissing(t) == FindCol(t.headers, SidNames) # NoColumn /\ FindCol(t.headers, ScoreNames) # NoColumn

LEMMA ValidHasColumns ==
    ASSUME NEW t, ValidateLMSCsv(t).missingColumns = {}
    PROVE  NothingMissing(t)
<1> DEFINE needed == [sid |-> SidNames, score |-> ScoreNames]
<1>1. Missing(t.headers, needed) = {}
  BY DEF ValidateLMSCsv
<1>2. "sid" \in DOMAIN needed /\ needed["sid"] = SidNames /\ "score" \in DOMAIN needed /\ needed["score"] = ScoreNames
  OBVIOUS
<1> HIDE DEF needed
<1>3. QED
  BY <1>1, <1>2 DEF Missing, NothingMissing

\* The rows of marks are the records that are sent, and those that are not skipped.
LEMMA RecordsOfMarks ==
    ASSUME NEW t, IsTable(t), ValidateLMSCsv(t).missingColumns = {},
           NEW K, K = MarksOf(t)
    PROVE  /\ Len(CsvToLMSRecords(t)) = Cardinality(K)
           /\ ValidateLMSCsv(t).totalRows - ValidateLMSCsv(t).skippedRows = Cardinality(K)
<1> DEFINE col == ColumnsOf(t.headers)
           n == Len(t.rows)
           kept == Arranged(t.rows, K, Ascending(K))
           records == CsvToLMSRecords(t)
           out == {i \in 1 .. n : ~Scored(t.rows[i], col)}
<1>1. NothingMissing(t)
  BY ValidHasColumns
<1>2. col.sid # NoColumn /\ col.score # NoColumn
  BY <1>1 DEF NothingMissing, ColumnsOf
<1>3. t.rows \in Seq(ToSet(t.rows)) /\ n \in Nat /\ DOMAIN t.rows = 1 .. n
  BY LenProperties DEF IsTable
<1>4. K \in SUBSET (1 .. n) /\ K = {i \in DOMAIN t.rows : Scored(t.rows[i], col)}
  BY <1>3 DEF MarksOf
<1>5. /\ kept \in Seq(ToSet(t.rows)) /\ Len(kept) = Cardinality(K) /\ Cardinality(K) \in Nat
      /\ \A k \in 1 .. Len(kept) : \E i \in K : kept[k] = t.rows[i]
  <2> DEFINE J == K
  <2>1. J \in SUBSET (1 .. n) /\ t.rows \in Seq(ToSet(t.rows)) /\ n \in Nat /\ n = Len(t.rows)
    BY <1>3, <1>4
  <2> HIDE DEF J
  <2>2. LET k == Arranged(t.rows, J, Ascending(J))
        IN  /\ k \in Seq(ToSet(t.rows)) /\ Len(k) = Cardinality(J) /\ Cardinality(J) \in Nat
            /\ \A l \in 1 .. Len(k) : \E i \in J : k[l] = t.rows[i]
    BY <2>1, FilteredIs
  <2>3. QED
    BY <2>2 DEF J
<1>6. LmsRows(t, col) = kept
  BY <1>4 DEF LmsRows, Filtered
<1> HIDE DEF kept, col
<1>7. DOMAIN kept = 1 .. Cardinality(K)
  BY <1>5, LenProperties
<1>8. /\ DOMAIN records = 1 .. Cardinality(K) /\ records = [k \in 1 .. Cardinality(K) |-> records[k]]
      /\ \A k \in 1 .. Cardinality(K) : records[k].sid = Cell(kept[k], col.sid)
  BY <1>2, <1>6, <1>7 DEF CsvToLMSRecords, col
<1> HIDE DEF records
<1>9. Len(records) = Cardinality(K)
  <2>1. records \in [1 .. Cardinality(K) -> {records[k] : k \in 1 .. Cardinality(K)}]
    BY <1>8
  <2>2. QED
    BY <1>5, <2>1, FunctionAsSeq
<1>11. ValidateLMSCsv(t).totalRows = n /\ ValidateLMSCsv(t).skippedRows = Cardinality(out)
  <2>1. CountIn(t.rows, LAMBDA r : ~Scored(r, col)) = Cardinality(out)
    BY <1>3 DEF CountIn
  <2>2. Missing(t.headers, [sid |-> SidNames, score |-> ScoreNames]) = {}
    BY DEF ValidateLMSCsv
  <2>3. QED
    BY <2>1, <2>2 DEF ValidateLMSCsv, col
<1>12. n - Cardinality(out) = Cardinality(K)
  <2>1. IsFiniteSet(1 .. n) /\ Cardinality(1 .. n) = n
    BY <1>3, FirstNumbers
  <2>2. IsFiniteSet(K) /\ IsFiniteSet(out)
    BY <1>4, <2>1, FS_Subset
  <2>3. K \cap out = {} /\ K \cup out = 1 .. n
    BY <1>3, <1>4
  <2> HIDE DEF out, n
  <2>4. Cardinality(1 .. n) = Cardinality(K) + Cardinality(out) /\ Cardinality(K) \in Nat /\ Cardinality(out) \in Nat
    BY <2>2, <2>3, TwoParts
  <2>5. QED
    BY <2>1, <2>4
<1>13. QED
  BY <1>9, <1>11, <1>12 DEF records, col

-----------------------------------------------------------------------------
(* What is confirmed *)

Valid(pair) ==
    /\ pair \in Pairs /\ pair.LMS \in LmsFiles /\ pair.SIS \in SisFiles
    /\ ValidateLMSCsv(TableOf[pair.LMS]).missingColumns = {}

LEMMA TablesParsed ==
    ASSUME NEW file \in LmsFiles \cup SisFiles
    PROVE  IsTable(TableOf[file])
BY TablesAssumption DEF IsTable, ChosenFiles

LEMMA PairCounted ==
    ASSUME MergesRead, NEW pair, Valid(pair), pair \in FittingPairs
    PROVE  pair \in CountedPairs
<1> DEFINE a == TableOf[pair.LMS]
           b == TableOf[pair.SIS]
           m == MergeTables(a, b, NoText)
           K == MarksOf(a)
<1>1. /\ pair \in Pairs /\ pair.LMS \in LmsFiles /\ pair.SIS \in SisFiles
      /\ ValidateLMSCsv(a).missingColumns = {}
  BY DEF Valid
<1>2. IsTable(a) /\ IsTable(b)
  BY <1>1, TablesParsed
<1>3. /\ Mergeable(TextIn[pair.LMS], TextIn[pair.SIS])
      /\ FindCol(a.headers, SidNames) = FindCol(b.headers, SidNames) /\ FindCol(b.headers, ScoreNames) = NoColumn
  BY DEF FittingPairs
<1>4. Merged[pair] = m
  BY <1>1, <1>3 DEF MergesRead
<1>5. Analysis[pair] = AnalyzeCsv(m, HighAvg)
  BY <1>1, <1>4 DEF Analysis
<1>6. Fit(a, b)
  <2>1. NothingMissing(a)
    BY <1>1, ValidHasColumns
  <2>2. QED
    BY <1>2, <1>3, <2>1 DEF Fit, NothingMissing
<1>7. /\ LmsRecords[pair.LMS] = CsvToLMSRecords(a) /\ Skipped[pair.LMS] = ValidateLMSCsv(a).skippedRows
      /\ StudentsNamed[pair] = StudentsIn(a) \cup StudentsIn(b)
  BY <1>1 DEF LmsRecords, Skipped, StudentsNamed
<1>8. ValidateLMSCsv(a).totalRows = Len(a.rows)
  BY DEF ValidateLMSCsv
<1>9. K = MarksOf(a) /\ m = MergeTables(a, b, NoText)
  OBVIOUS
<1> HIDE DEF a, b, m, K
<1>10. Len(CsvToLMSRecords(a)) = Cardinality(K) /\ Len(a.rows) - ValidateLMSCsv(a).skippedRows = Cardinality(K)
  BY <1>1, <1>2, <1>8, <1>9, RecordsOfMarks
<1>11. /\ AnalyzeCsv(m, HighAvg).totalTests = Cardinality(K)
       /\ CountedIn(m) = StudentsIn(a) \cup StudentsIn(b)
       /\ AnalyzeCsv(m, HighAvg).totalStudents = Cardinality(StudentsIn(a) \cup StudentsIn(b))
  BY <1>6, <1>9, MergedCounts
<1>12. /\ CountedIn(Merged[pair]) = StudentsNamed[pair]
       /\ Analysis[pair].totalStudents = Cardinality(StudentsNamed[pair])
       /\ Analysis[pair].totalTests = Len(LmsRecords[pair.LMS])
       /\ Len(LmsRecords[pair.LMS]) = Len(a.rows) - Skipped[pair.LMS]
  BY <1>4, <1>5, <1>7, <1>10, <1>11
<1>13. QED
  BY <1>1, <1>12 DEF CountedPairs, a

\* Every upload of the registry is a pair that was valid when it was confirmed.
RegistryInv == \A id \in DOMAIN registry : "pair" \in DOMAIN registry[id] /\ Valid(registry[id].pair)

LEMMA PairKept ==
    ASSUME ImportInv, RegistryInv, NEW id, NEW patch, registry' = UpdateUpload(id, patch), "pair" \notin DOMAIN patch
    PROVE  RegistryInv'
<1>1. DOMAIN registry' = DOMAIN registry
  BY DEF UpdateUpload
<1>2. ASSUME NEW i \in DOMAIN registry
      PROVE  "pair" \in DOMAIN registry'[i] /\ registry'[i].pair = registry[i].pair
  <2>1. "pair" \in DOMAIN registry[i]
    BY DEF RegistryInv
  <2>2. CASE i = id
    <3>1. registry'[i] = [f \in DOMAIN registry[i] |-> IF f \in DOMAIN patch THEN patch[f] ELSE registry[i][f]]
      BY <2>2 DEF UpdateUpload
    <3>2. QED
      BY <2>1, <3>1
  <2>3. CASE i # id
    <3>1. registry'[i] = registry[i]
      BY <2>3 DEF UpdateUpload
    <3>2. QED
      BY <2>1, <3>1
  <2>4. QED
    BY <2>2, <2>3
<1>3. Pairs' = Pairs
  BY DEF Pairs
<1>4. QED
  BY <1>1, <1>2, <1>3 DEF RegistryInv, Valid

LEMMA StagedValid ==
    ASSUME StagingInv, CanConfirm
    PROVE  Valid(staged)
<1>1. /\ staged = [s \in Sources |-> staged[s]]
      /\ staged["LMS"] \in LmsFiles /\ staged["SIS"] \in SisFiles
  BY DEF StagingInv, ImportTypeOK, CanConfirm, Sources, FilesOf
<1>2. staged \in Pairs
  BY <1>1 DEF Pairs, Sources
<1>3. Validation("LMS").missingColumns = {}
  BY <1>1 DEF CanConfirm, HasValidationError, Sources
<1>4. ValidateLMSCsv(TableOf[staged["LMS"]]).missingColumns = {}
  BY <1>3 DEF Validation
<1>5. QED
  BY <1>1, <1>2, <1>4 DEF Valid

LEMMA RegistryKept ==
    ASSUME ImportInv, StagingInv, RegistryInv, [ImportNext]_importVars
    PROVE  RegistryInv'
<1>1. ASSUME UNCHANGED registry
      PROVE  RegistryInv'
  BY <1>1 DEF RegistryInv, Valid, Pairs
<1>2. CASE Confirm
  <2> DEFINE entry == [status |-> "processing", pair |-> staged, job |-> FALSE]
  <2>1. PICK e \in {entry, [entry EXCEPT !.status = "error"]} : registry' = Append(registry, e)
    BY <1>2 DEF Confirm
  <2>2. "pair" \in DOMAIN e /\ e.pair = staged
    OBVIOUS
  <2>3. Valid(staged)
    BY <1>2, StagedValid DEF Confirm
  <2>4. PICK S : registry \in Seq(S)
    BY DEF ImportInv
  <2>5. registry \in Seq(S \cup {e})
    BY <2>4
  <2>6. /\ DOMAIN registry' = 1 .. Len(registry) + 1 /\ DOMAIN registry = 1 .. Len(registry)
        /\ Len(registry) \in Nat
        /\ registry'[Len(registry) + 1] = e /\ \A i \in 1 .. Len(registry) : registry'[i] = registry[i]
    BY <2>1, <2>5, AppendProperties, LenProperties
  <2>7. \A i \in 1 .. Len(registry) + 1 : i \in 1 .. Len(registry) \/ i = Len(registry) + 1
    BY <2>6
  <2> HIDE DEF entry
  <2>8. \A i \in DOMAIN registry' : "pair" \in DOMAIN registry'[i] /\ Valid(registry'[i].pair)
    BY <2>2, <2>3, <2>6, <2>7 DEF RegistryInv
  <2>9. QED
    BY <2>8 DEF RegistryInv, Valid, Pairs
<1>3. CASE IngestAnswered \/ CallFails
  <2>1. "pair" \notin DOMAIN [job |-> TRUE] /\ "pair" \notin DOMAIN Failed
    BY DEF Failed
  <2>2. QED
    BY <1>3, <2>1, PairKept DEF IngestAnswered, CallFails
<1>4. QED
  BY <1>1, <1>2, <1>3
     DEF ImportNext, StageFile, RemoveStaged, ReadEnds, Reset, ReloadPage, LoadStored, HideCard,
         SettingsSaved, IngestServed, importVars

LEMMA CountedAlways ==
    ASSUME MergesRead
    PROVE  ImportSpec => []ShownIsSent
<1>1. ImportInit => StagingInv /\ RegistryInv
  <2> SUFFICES ASSUME ImportInit
               PROVE  StagingInv /\ RegistryInv
    OBVIOUS
  <2>1. StagingInv
    BY DEF ImportInit, StagingInv, ImportTypeOK, NothingStaged, NoSubmission, Idle
  <2>2. QED
    BY <2>1 DEF ImportInit, RegistryInv
<1>2. ImportInv /\ StagingInv /\ RegistryInv /\ [ImportNext]_importVars => StagingInv' /\ RegistryInv'
  BY StagingStep, RegistryKept
<1>3. RegistryInv => ShownIsSent
  BY PairCounted DEF RegistryInv, ShownIsSent
<1>4. QED
  BY <1>1, <1>2, <1>3, ImportInvariant, PTL DEF ImportSpec

\* The success card's totals are those of the two files' rows and of the records
\* that were sent: for any files whose merged text reads as the rows of both, that
\* name the student's column alike and of which only the first has marks.
THEOREM TotalsAreSent ==
    ASSUME MergesRead
    PROVE  Spec => []ShownIsSent
BY PartsRun, CountedAlways, PTL DEF ImportSpec
===============================================================================
