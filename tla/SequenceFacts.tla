------------------------------ MODULE SequenceFacts ------------------------------
(***************************************************************************)
(* Facts about numbers, sets and sequences that the other proofs cite:     *)
(* induction in a form without an operator parameter, and what the         *)
(* operators of SequencesExt return.                                       *)
(***************************************************************************)
EXTENDS SequencesExt, Lists, TLAPS, WellFoundedInduction, SequenceTheorems, FiniteSetTheorems

-----------------------------------------------------------------------------
(* Induction *)

Less == {pair \in Nat \X Nat : pair[1] < pair[2]}

LEMMA LessIsWellFounded == IsWellFoundedOn(Less, Nat)
BY NatLessThanWellFounded DEF Less, OpToRel

\* A set of natural numbers that is not empty has a least element.
LEMMA LeastNumber ==
    ASSUME NEW T \in SUBSET Nat, T # {}
    PROVE  \E n \in T : \A m \in T : n <= m
<1>1. PICK n \in T : \A m \in T : <<m, n>> \notin Less
  BY LessIsWellFounded, WFMin
<1>2. SUFFICES ASSUME NEW m \in T, m < n
               PROVE  FALSE
  BY <1>1
<1>3. <<m, n>> \in Less
  BY <1>2 DEF Less
<1>4. QED
  BY <1>1, <1>3

\* A set with 0 and, with every number, its successor has all numbers.
LEMMA NumbersByInduction ==
    ASSUME NEW T, 0 \in T, \A n \in Nat : n \in T => n + 1 \in T
    PROVE  Nat \subseteq T
<1> SUFFICES ASSUME Nat \ T # {}
             PROVE  FALSE
  OBVIOUS
<1>1. PICK n \in Nat \ T : \A m \in Nat \ T : n <= m
  BY LeastNumber
<1>2. n - 1 \in Nat /\ n - 1 \notin Nat \ T
  BY <1>1
<1>3. QED
  BY <1>2

-----------------------------------------------------------------------------
(* Sequences *)

LEMMA FunctionAsSeq ==
    ASSUME NEW S, NEW n \in Nat, NEW f \in [1 .. n -> S]
    PROVE  f \in Seq(S) /\ Len(f) = n
<1>1. f \in Seq(S)
  BY SeqDef
<1>2. QED
  BY <1>1, LenProperties

\* Removing the i-th element.
LEMMA RemovedSeq ==
    ASSUME NEW S, NEW q \in Seq(S), NEW i \in 1 .. Len(q)
    PROVE  /\ RemoveAt(q, i) \in Seq(S) /\ Len(RemoveAt(q, i)) = Len(q) - 1
           /\ \A j \in 1 .. Len(q) - 1 : RemoveAt(q, i)[j] = IF j < i THEN q[j] ELSE q[j + 1]
<1> DEFINE a == SubSeq(q, 1, i - 1)
           b == SubSeq(q, i + 1, Len(q))
<1>1. Len(q) \in Nat /\ i \in Nat /\ i >= 1 /\ i <= Len(q) /\ \A j \in 1 .. Len(q) : q[j] \in S
  BY LenProperties, ElementOfSeq
<1>2. a \in Seq(S) /\ Len(a) = i - 1 /\ \A j \in 1 .. i - 1 : a[j] = q[j]
  <2>1. 1 \in Int /\ i - 1 \in Int /\ \A j \in 1 .. i - 1 : q[j] \in S
    BY <1>1
  <2>2. /\ a \in Seq(S) /\ Len(a) = IF 1 <= i - 1 THEN i - 1 - 1 + 1 ELSE 0
        /\ \A j \in 1 .. i - 1 - 1 + 1 : a[j] = q[1 + j - 1]
    BY <2>1, SubSeqProperties
  <2>3. QED
    BY <1>1, <2>2
<1>3. b \in Seq(S) /\ Len(b) = Len(q) - i /\ \A j \in 1 .. Len(q) - i : b[j] = q[i + j]
  <2>1. i + 1 \in Int /\ Len(q) \in Int /\ \A j \in i + 1 .. Len(q) : q[j] \in S
    BY <1>1
  <2>2. /\ b \in Seq(S) /\ Len(b) = IF i + 1 <= Len(q) THEN Len(q) - (i + 1) + 1 ELSE 0
        /\ \A j \in 1 .. Len(q) - (i + 1) + 1 : b[j] = q[i + 1 + j - 1]
    BY <2>1, SubSeqProperties
  <2>3. QED
    BY <1>1, <2>2
<1>4. /\ a \o b \in Seq(S) /\ Len(a \o b) = Len(a) + Len(b)
      /\ \A j \in 1 .. Len(a) + Len(b) : (a \o b)[j] = IF j <= Len(a) THEN a[j] ELSE b[j - Len(a)]
  BY <1>2, <1>3, ConcatProperties
<1>5. RemoveAt(q, i) = a \o b
  BY DEF RemoveAt
<1> HIDE DEF a, b
<1>6. Len(a \o b) = Len(q) - 1
  BY <1>1, <1>2, <1>3, <1>4
<1>7. ASSUME NEW j \in 1 .. Len(q) - 1
      PROVE  (a \o b)[j] = IF j < i THEN q[j] ELSE q[j + 1]
  <2>1. CASE j < i
    BY <1>1, <1>2, <1>3, <1>4, <2>1
  <2>2. CASE ~(j < i)
    <3>1. (a \o b)[j] = b[j - (i - 1)] /\ j - (i - 1) \in 1 .. Len(q) - i
      BY <1>1, <1>2, <1>3, <1>4, <2>2
    <3>2. b[j - (i - 1)] = q[i + (j - (i - 1))] /\ i + (j - (i - 1)) = j + 1
      BY <1>1, <1>3, <3>1
    <3>3. QED
      BY <2>2, <3>1, <3>2
  <2>3. QED
    BY <2>1, <2>2
<1>8. QED
  BY <1>4, <1>5, <1>6, <1>7

\* What a sequence contains, put together and taken apart.
LEMMA ConcatContains ==
    ASSUME NEW S, NEW p \in Seq(S), NEW q \in Seq(S)
    PROVE  p \o q \in Seq(S) /\ ToSet(p \o q) = ToSet(p) \cup ToSet(q)
<1>1. /\ Len(p) \in Nat /\ Len(q) \in Nat /\ DOMAIN p = 1 .. Len(p) /\ DOMAIN q = 1 .. Len(q)
      /\ p \o q \in Seq(S) /\ DOMAIN (p \o q) = 1 .. Len(p) + Len(q)
      /\ \A i \in 1 .. Len(p) + Len(q) : (p \o q)[i] = IF i <= Len(p) THEN p[i] ELSE q[i - Len(p)]
  BY ConcatProperties, LenProperties
<1> DEFINE r == p \o q
<1> HIDE DEF r
<1>2. /\ DOMAIN r = 1 .. Len(p) + Len(q)
      /\ \A i \in 1 .. Len(p) : i \in DOMAIN r /\ r[i] = p[i]
      /\ \A i \in 1 .. Len(q) : i + Len(p) \in DOMAIN r /\ r[i + Len(p)] = q[i]
      /\ \A i \in DOMAIN r : \/ i \in 1 .. Len(p) /\ r[i] = p[i]
                             \/ i - Len(p) \in 1 .. Len(q) /\ r[i] = q[i - Len(p)]
  <2>1. DOMAIN r = 1 .. Len(p) + Len(q)
    BY <1>1 DEF r
  <2>2. \A i \in 1 .. Len(p) : i \in 1 .. Len(p) + Len(q) /\ r[i] = p[i]
    BY <1>1 DEF r
  <2>3. ASSUME NEW i \in 1 .. Len(q)
        PROVE  i + Len(p) \in 1 .. Len(p) + Len(q) /\ r[i + Len(p)] = q[i]
    <3>1. i + Len(p) \in 1 .. Len(p) + Len(q) /\ ~(i + Len(p) <= Len(p)) /\ (i + Len(p)) - Len(p) = i
      BY <1>1
    <3>2. r[i + Len(p)] = q[(i + Len(p)) - Len(p)]
      BY <1>1, <3>1 DEF r
    <3>3. QED
      BY <3>1, <3>2
  <2>4. ASSUME NEW i \in 1 .. Len(p) + Len(q)
        PROVE  \/ i \in 1 .. Len(p) /\ r[i] = p[i]
               \/ i - Len(p) \in 1 .. Len(q) /\ r[i] = q[i - Len(p)]
    <3>1. i \in 1 .. Len(p) \/ (~(i <= Len(p)) /\ i - Len(p) \in 1 .. Len(q))
      BY <1>1
    <3>2. r[i] = IF i <= Len(p) THEN p[i] ELSE q[i - Len(p)]
      BY <1>1 DEF r
    <3>3. QED
      BY <1>1, <3>1, <3>2
  <2>5. QED
    BY <2>1, <2>2, <2>3, <2>4
<1>3. ToSet(r) = ToSet(p) \cup ToSet(q)
  <2>1. \A x \in ToSet(r) : x \in ToSet(p) \cup ToSet(q)
    BY <1>1, <1>2 DEF ToSet
  <2>2. ASSUME NEW i \in DOMAIN p
        PROVE  p[i] \in ToSet(r)
    <3>1. i \in DOMAIN r /\ r[i] = p[i]
      BY <1>1, <1>2
    <3>2. QED
      BY <3>1 DEF ToSet
  <2>3. ASSUME NEW i \in DOMAIN q
        PROVE  q[i] \in ToSet(r)
    <3>1. i + Len(p) \in DOMAIN r /\ r[i + Len(p)] = q[i]
      BY <1>1, <1>2
    <3>2. QED
      BY <3>1 DEF ToSet
  <2>4. QED
    BY <2>1, <2>2, <2>3 DEF ToSet
<1>4. QED
  BY <1>1, <1>3 DEF r

LEMMA TailContains ==
    ASSUME NEW S, NEW q \in Seq(S), q # <<>>
    PROVE  /\ Head(q) \in S /\ Tail(q) \in Seq(S)
           /\ ToSet(q) = {Head(q)} \cup ToSet(Tail(q))
<1>1. /\ Head(q) \in S /\ Tail(q) \in Seq(S) /\ Len(Tail(q)) = Len(q) - 1
      /\ \A i \in 1 .. Len(Tail(q)) : Tail(q)[i] = q[i + 1]
      /\ Len(q) \in Nat \ {0} /\ DOMAIN q = 1 .. Len(q) /\ DOMAIN Tail(q) = 1 .. Len(Tail(q))
  BY HeadTailProperties, EmptySeq, LenProperties
<1>2. Head(q) = q[1]
  OBVIOUS
<1> DEFINE t == Tail(q)
<1> HIDE DEF t
<1>3. DOMAIN t = 1 .. Len(q) - 1 /\ \A i \in 1 .. Len(q) - 1 : t[i] = q[i + 1]
  BY <1>1 DEF t
<1>4. ToSet(q) = {q[1]} \cup ToSet(t)
  <2>1. \A i \in 1 .. Len(q) : i = 1 \/ (i - 1 \in 1 .. Len(q) - 1 /\ q[i] = t[i - 1])
    <3> TAKE i \in 1 .. Len(q)
    <3>1. i # 1 => i - 1 \in 1 .. Len(q) - 1 /\ (i - 1) + 1 = i
      BY <1>1
    <3>2. QED
      BY <1>3, <3>1
  <2>2. ASSUME NEW i \in 1 .. Len(q) - 1
        PROVE  t[i] \in ToSet(q)
    <3>1. i + 1 \in DOMAIN q /\ t[i] = q[i + 1]
      BY <1>1, <1>3
    <3>2. QED
      BY <3>1 DEF ToSet
  <2>3. q[1] \in ToSet(q)
    BY <1>1 DEF ToSet
  <2>4. ASSUME NEW i \in 1 .. Len(q), i # 1
        PROVE  q[i] \in ToSet(t)
    <3>1. i - 1 \in DOMAIN t /\ q[i] = t[i - 1]
      BY <1>3, <2>1, <2>4
    <3>2. QED
      BY <3>1 DEF ToSet
  <2>5. ToSet(q) \subseteq {q[1]} \cup ToSet(t)
    BY <1>1, <2>4 DEF ToSet
  <2>6. ToSet(t) \subseteq ToSet(q)
    BY <1>3, <2>2 DEF ToSet
  <2>7. QED
    BY <2>3, <2>5, <2>6
<1>5. QED
  BY <1>1, <1>2, <1>4 DEF t

\* A finite set is what its sequence contains.
LEMMA SetAsSeq ==
    ASSUME NEW S, IsFiniteSet(S)
    PROVE  SetToSeq(S) \in Seq(S) /\ ToSet(SetToSeq(S)) = S /\ Len(SetToSeq(S)) = Cardinality(S)
<1> DEFINE n == Cardinality(S)
           q == SetToSeq(S)
<1>1. n \in Nat /\ ExistsBijection(1 .. n, S)
  BY FS_CardinalityType
<1>2. PICK f \in [1 .. n -> S] : \A a, b \in 1 .. n : f[a] = f[b] => a = b
  BY <1>1 DEF ExistsBijection, Bijection, Injection, IsInjective
<1>3. q \in [1 .. n -> S] /\ IsInjective(q)
  <2>1. IsInjective(f)
    BY <1>2 DEF IsInjective
  <2>2. QED
    BY <2>1 DEF SetToSeq
<1> HIDE DEF n, q
<1>4. q \in Injection(1 .. n, S)
  BY <1>3 DEF Injection, IsInjective
<1>5. Cardinality(1 .. n) = n /\ IsFiniteSet(1 .. n)
  <2>1. 1 \in Int /\ n \in Int /\ n >= 0
    BY <1>1
  <2>2. IsFiniteSet(1 .. n) /\ Cardinality(1 .. n) = IF 1 > n THEN 0 ELSE n - 1 + 1
    BY <2>1, FS_Interval
  <2>3. QED
    BY <2>1, <2>2
<1>6. q \in Surjection(1 .. n, S)
  BY <1>4, <1>5, FS_Injection DEF n
<1>7. \A x \in S : \E i \in 1 .. n : q[i] = x
  BY <1>6 DEF Surjection
<1>8. q \in Seq(S) /\ DOMAIN q = 1 .. n /\ Len(q) = n
  <2>1. q \in Seq(S)
    BY <1>1, <1>3, SeqDef
  <2>2. DOMAIN q = 1 .. n
    BY <1>3
  <2>3. QED
    BY <1>1, <2>1, <2>2, LenProperties
<1>9. ToSet(q) = S
  BY <1>3, <1>7, <1>8 DEF ToSet
<1>10. QED
  BY <1>8, <1>9 DEF n, q

\* The predecessors of an element of a finite set, in a strict order.
Place(S, before, x) == Cardinality({y \in S : <<y, x>> \in before})

\* In a finite set with a total strict order every place is taken.
LEMMA PlacesTaken ==
    ASSUME NEW S, IsFiniteSet(S), NEW before,
           \A x, y, z \in S : <<x, y>> \in before /\ <<y, z>> \in before => <<x, z>> \in before,
           \A x \in S : <<x, x>> \notin before,
           \A x, y \in S : x = y \/ <<x, y>> \in before \/ <<y, x>> \in before
    PROVE  \A i \in 1 .. Cardinality(S) : \E x \in S : Place(S, before, x) = i - 1
<1> DEFINE n == Cardinality(S)
           T == 0 .. n - 1
           place == [x \in S |-> Place(S, before, x)]
           Before(x) == {y \in S : <<y, x>> \in before}
<1>1. n \in Nat
  BY FS_CardinalityType
<1>2. \A x \in S : Before(x) \in SUBSET S /\ IsFiniteSet(Before(x)) /\ Cardinality(Before(x)) \in Nat
  BY FS_Subset, FS_CardinalityType
<1>3. \A x \in S : Cardinality(Before(x)) < n
  <2> TAKE x \in S
  <2>1. Before(x) # S
    OBVIOUS
  <2>2. Cardinality(Before(x)) <= Cardinality(S) /\ (Cardinality(S) = Cardinality(Before(x)) => S = Before(x))
    BY <1>2, FS_Subset
  <2>3. QED
    BY <1>1, <1>2, <2>1, <2>2
<1>4. \A x, y \in S : <<x, y>> \in before => Cardinality(Before(x)) < Cardinality(Before(y))
  <2> SUFFICES ASSUME NEW x \in S, NEW y \in S, <<x, y>> \in before
               PROVE  Cardinality(Before(x)) < Cardinality(Before(y))
    OBVIOUS
  <2>1. Before(x) \in SUBSET Before(y)
    OBVIOUS
  <2>2. x \in Before(y) /\ x \notin Before(x)
    OBVIOUS
  <2>3. /\ Cardinality(Before(x)) <= Cardinality(Before(y))
        /\ Cardinality(Before(y)) = Cardinality(Before(x)) => Before(y) = Before(x)
    <3> HIDE DEF Before
    <3>1. QED
      BY <1>2, <2>1, FS_Subset
  <2>4. QED
    BY <1>2, <2>2, <2>3
<1>5. place \in [S -> T]
  <2>1. \A x \in S : Place(S, before, x) \in T
    <3> TAKE x \in S
    <3>1. Cardinality(Before(x)) \in Nat /\ Cardinality(Before(x)) < n
      BY <1>2, <1>3
    <3>2. QED
      BY <1>1, <3>1 DEF Place
  <2>2. QED
    BY <2>1
<1>6. \A x, y \in S : place[x] = place[y] => x = y
  <2> SUFFICES ASSUME NEW x \in S, NEW y \in S, place[x] = place[y], x # y
               PROVE  FALSE
    OBVIOUS
  <2>1. Cardinality(Before(x)) = Cardinality(Before(y))
    BY DEF Place
  <2>2. Cardinality(Before(x)) < Cardinality(Before(y)) \/ Cardinality(Before(y)) < Cardinality(Before(x))
    BY <1>4
  <2>3. QED
    BY <1>2, <2>1, <2>2
<1>7. IsFiniteSet(T) /\ Cardinality(T) = n
  <2>1. 0 \in Int /\ n - 1 \in Int
    BY <1>1
  <2>2. IsFiniteSet(T) /\ Cardinality(T) = IF 0 > n - 1 THEN 0 ELSE n - 1 - 0 + 1
    BY <2>1, FS_Interval
  <2>3. QED
    BY <1>1, <2>2
<1> HIDE DEF T, place
<1>8. place \in Surjection(S, T)
  <2>1. place \in Injection(S, T)
    BY <1>5, <1>6 DEF Injection, IsInjective
  <2>2. QED
    BY <1>7, <2>1, FS_Injection
<1>9. ASSUME NEW i \in 1 .. n
      PROVE  \E x \in S : Place(S, before, x) = i - 1
  <2>1. i - 1 \in T
    BY <1>1 DEF T
  <2>2. PICK x \in S : place[x] = i - 1
    BY <1>8, <2>1 DEF Surjection
  <2>3. QED
    BY <2>2 DEF place
<1>10. QED
  BY <1>9

\* What comes before has the smaller place.
LEMMA PlacesGrow ==
    ASSUME NEW S, IsFiniteSet(S), NEW before,
           \A x, y, z \in S : <<x, y>> \in before /\ <<y, z>> \in before => <<x, z>> \in before,
           \A x \in S : <<x, x>> \notin before,
           NEW x \in S, NEW y \in S, <<x, y>> \in before
    PROVE  /\ Place(S, before, x) \in Nat /\ Place(S, before, y) \in Nat
           /\ Place(S, before, x) < Place(S, before, y)
<1> DEFINE X == {z \in S : <<z, x>> \in before}
           Y == {z \in S : <<z, y>> \in before}
<1>1. X \in SUBSET Y /\ Y \in SUBSET S /\ x \in Y /\ x \notin X
  OBVIOUS
<1>2. Place(S, before, x) = Cardinality(X) /\ Place(S, before, y) = Cardinality(Y)
  BY DEF Place
<1> HIDE DEF X, Y
<1>3. IsFiniteSet(X) /\ IsFiniteSet(Y) /\ Cardinality(X) \in Nat /\ Cardinality(Y) \in Nat
  BY <1>1, FS_Subset, FS_CardinalityType
<1>4. Cardinality(X) <= Cardinality(Y) /\ (Cardinality(Y) = Cardinality(X) => Y = X)
  BY <1>1, <1>3, FS_Subset
<1>5. QED
  BY <1>1, <1>2, <1>3, <1>4

\* How many numbers there are up to n.
LEMMA FirstNumbers ==
    ASSUME NEW n \in Nat
    PROVE  IsFiniteSet(1 .. n) /\ Cardinality(1 .. n) = n
<1>1. 1 \in Int /\ n \in Int
  OBVIOUS
<1>2. IsFiniteSet(1 .. n) /\ Cardinality(1 .. n) = IF 1 > n THEN 0 ELSE n - 1 + 1
  BY <1>1, FS_Interval
<1>3. QED
  BY <1>2


\* before is a total strict order on S.
OrderOn(S, before) ==
    /\ \A x, y, z \in S : <<x, y>> \in before /\ <<y, z>> \in before => <<x, z>> \in before
    /\ \A x \in S : <<x, x>> \notin before
    /\ \A x, y \in S : x = y \/ <<x, y>> \in before \/ <<y, x>> \in before

\* q has each element of S once, in that order.
Enumerates(q, S, before) ==
    /\ q \in [1 .. Cardinality(S) -> S]
    /\ \A i, j \in 1 .. Cardinality(S) : i < j => <<q[i], q[j]>> \in before
    /\ \A i, j \in 1 .. Cardinality(S) : q[i] = q[j] => i = j
    /\ \A x \in S : \E i \in 1 .. Cardinality(S) : q[i] = x

\* In a finite set with a total strict order, each element has one place.
LEMMA OrderedFacts ==
    ASSUME NEW S, IsFiniteSet(S), NEW before, OrderOn(S, before)
    PROVE  Enumerates(Ordered(S, before), S, before)
<1> DEFINE n == Cardinality(S)
           q == Ordered(S, before)
<1>1. n \in Nat
  BY FS_CardinalityType
<1> /\ \A x, y, z \in S : <<x, y>> \in before /\ <<y, z>> \in before => <<x, z>> \in before
    /\ \A x \in S : <<x, x>> \notin before
    /\ \A x, y \in S : x = y \/ <<x, y>> \in before \/ <<y, x>> \in before
  BY DEF OrderOn
<1>2. \A i \in 1 .. n : \E x \in S : Place(S, before, x) = i - 1
  BY PlacesTaken
<1>3. \A i \in 1 .. n : q[i] = CHOOSE x \in S : Place(S, before, x) = i - 1
  BY DEF Ordered, Place
<1>4. \A i \in 1 .. n : q[i] \in S /\ Place(S, before, q[i]) = i - 1
  <2> TAKE i \in 1 .. n
  <2>1. \E x \in S : Place(S, before, x) = i - 1
    BY <1>2
  <2> HIDE DEF q
  <2>2. QED
    BY <1>3, <2>1
<1>5. q \in [1 .. n -> S]
  <2>1. q = [i \in 1 .. n |-> CHOOSE x \in S : Place(S, before, x) = i - 1]
    BY Zenon DEF Ordered, Place
  <2>2. \A i \in 1 .. n : (CHOOSE x \in S : Place(S, before, x) = i - 1) \in S
    BY <1>2
  <2> HIDE DEF q, n
  <2>3. QED
    BY <2>1, <2>2
<1> HIDE DEF q, n
<1>6. \A i, j \in 1 .. n : q[i] = q[j] => i = j
  BY <1>1, <1>4
<1>7. ASSUME NEW i \in 1 .. n, NEW j \in 1 .. n, i < j
      PROVE  <<q[i], q[j]>> \in before
  <2>1. q[i] \in S /\ q[j] \in S /\ q[i] # q[j]
    BY <1>1, <1>4, <1>6, <1>7
  <2>2. <<q[j], q[i]>> \notin before
    <3> SUFFICES ASSUME <<q[j], q[i]>> \in before
                 PROVE  FALSE
      OBVIOUS
    <3>1. Place(S, before, q[j]) < Place(S, before, q[i])
      BY <2>1, PlacesGrow
    <3>2. QED
      BY <1>1, <1>4, <1>7, <3>1
  <2>3. QED
    BY <2>1, <2>2
<1>8. q \in Surjection(1 .. n, S)
  <2>1. q \in Injection(1 .. n, S)
    BY <1>5, <1>6 DEF Injection, IsInjective
  <2>2. IsFiniteSet(1 .. n) /\ Cardinality(1 .. n) = n
    BY <1>1, FirstNumbers
  <2>3. QED
    BY <2>1, <2>2, FS_Injection DEF n
<1>9. \A x \in S : \E i \in 1 .. n : q[i] = x
  BY <1>8 DEF Surjection
<1>10. QED
  BY <1>5, <1>6, <1>7, <1>9 DEF n, q, Enumerates

\* Its elements in that order, as a list.
LEMMA OrderedInSeq ==
    ASSUME NEW S, IsFiniteSet(S), NEW before, OrderOn(S, before)
    PROVE  Ordered(S, before) \in Seq(S) /\ Len(Ordered(S, before)) = Cardinality(S)
<1> DEFINE q == Ordered(S, before)
           n == Cardinality(S)
<1>1. n \in Nat
  BY FS_CardinalityType
<1>2. Enumerates(q, S, before)
  BY OrderedFacts
<1>3. q \in [1 .. n -> S]
  BY <1>2 DEF Enumerates
<1> HIDE DEF q, n
<1>4. q \in Seq(S) /\ Len(q) = n
  BY <1>1, <1>3, FunctionAsSeq
<1>5. QED
  BY <1>4 DEF q, n

\* Places of a list, in the order of the list.
LEMMA AscendingOrder ==
    ASSUME NEW n \in Nat, NEW places \in SUBSET (1 .. n)
    PROVE  /\ IsFiniteSet(places) /\ Cardinality(places) \in Nat /\ OrderOn(places, Ascending(places))
           /\ Enumerates(Ordered(places, Ascending(places)), places, Ascending(places))
<1>1. IsFiniteSet(places) /\ Cardinality(places) \in Nat
  BY FirstNumbers, FS_Subset, FS_CardinalityType
<1>2. \A x, y \in places : <<x, y>> \in Ascending(places) <=> x < y
  BY DEF Ascending
<1>3. \A x \in places : x \in Int
  OBVIOUS
<1>4. OrderOn(places, Ascending(places))
  BY <1>2, <1>3 DEF OrderOn
<1>5. QED
  BY <1>1, <1>4, OrderedFacts

\* What a filter or a sort returns: its elements, and the places they come from.
LEMMA ArrangedFacts ==
    ASSUME NEW A, NEW list \in Seq(A), NEW places \in SUBSET (1 .. Len(list)), NEW before,
           OrderOn(places, before)
    PROVE  /\ Arranged(list, places, before) \in Seq(A)
           /\ Len(Arranged(list, places, before)) = Cardinality(places)
           /\ Cardinality(places) \in Nat
           /\ Enumerates(Ordered(places, before), places, before)
           /\ \A i \in 1 .. Cardinality(places) :
                 Arranged(list, places, before)[i] = list[Ordered(places, before)[i]]
<1> DEFINE n == Cardinality(places)
           order == Ordered(places, before)
           q == [i \in 1 .. n |-> list[order[i]]]
<1>1. Len(list) \in Nat /\ \A i \in 1 .. Len(list) : list[i] \in A
  BY LenProperties, ElementOfSeq
<1>2. IsFiniteSet(places) /\ n \in Nat
  BY <1>1, FirstNumbers, FS_Subset, FS_CardinalityType
<1>3. Enumerates(order, places, before)
  BY <1>2, OrderedFacts
<1>4. order \in [1 .. n -> places]
  BY <1>3 DEF Enumerates
<1> HIDE DEF order, n
<1>5. q \in [1 .. n -> A]
  BY <1>1, <1>4
<1>6. Arranged(list, places, before) = q
  BY <1>4 DEF Arranged, order
<1>7. q \in Seq(A) /\ Len(q) = n
  BY <1>2, <1>5, FunctionAsSeq
<1>8. QED
  BY <1>2, <1>3, <1>6, <1>7 DEF order, n

-----------------------------------------------------------------------------
(* Counting and adding *)

\* As many places of q as elements of S belong to any set.
CountsAlike(q, S) == \A X \in SUBSET S : Cardinality({i \in 1 .. Cardinality(S) : q[i] \in X}) = Cardinality(X)

\* Counting through an enumeration.
LEMMA CountArranged ==
    ASSUME NEW S, IsFiniteSet(S), NEW before, NEW q, Enumerates(q, S, before)
    PROVE  CountsAlike(q, S)
<1> SUFFICES ASSUME NEW X \in SUBSET S
             PROVE  Cardinality({i \in 1 .. Cardinality(S) : q[i] \in X}) = Cardinality(X)
  BY DEF CountsAlike
<1> DEFINE I == {i \in 1 .. Cardinality(S) : q[i] \in X}
           f == [i \in I |-> q[i]]
<1>1. f \in [I -> X] /\ \A i, j \in I : f[i] = f[j] => i = j
  BY DEF Enumerates
<1>2. \A x \in X : \E i \in I : f[i] = x
  BY DEF Enumerates
<1> HIDE DEF I, f
<1>3. f \in Bijection(I, X)
  BY <1>1, <1>2 DEF Bijection, Injection, Surjection, IsInjective
<1>4. ExistsBijection(I, X)
  BY <1>3 DEF ExistsBijection
<1>5. I \in SUBSET (1 .. Cardinality(S)) /\ Cardinality(S) \in Nat
  BY FS_CardinalityType DEF I
<1>6. IsFiniteSet(I)
  BY <1>5, FirstNumbers, FS_Subset
<1>7. QED
  BY <1>4, <1>6, FS_Bijection DEF I

\* The elements of two sets that share none.
LEMMA TwoParts ==
    ASSUME NEW A, IsFiniteSet(A), NEW B, IsFiniteSet(B), A \cap B = {}
    PROVE  /\ IsFiniteSet(A \cup B) /\ Cardinality(A \cup B) = Cardinality(A) + Cardinality(B)
           /\ Cardinality(A) \in Nat /\ Cardinality(B) \in Nat
<1>1. Cardinality(A \cap B) = 0
  BY FS_EmptySet
<1>2. IsFiniteSet(A \cup B) /\ Cardinality(A \cup B) = Cardinality(A) + Cardinality(B) - Cardinality(A \cap B)
  BY FS_Union
<1>3. Cardinality(A) \in Nat /\ Cardinality(B) \in Nat
  BY FS_CardinalityType
<1>4. QED
  BY <1>1, <1>2, <1>3

\* T falls into A, B and C.
Parted(T, A, B, C) == A \cup B \cup C = T /\ A \cap B = {} /\ A \cap C = {} /\ B \cap C = {}

\* The parts of a set have as many elements as the set.
LEMMA PartsAddUp ==
    ASSUME NEW T, IsFiniteSet(T), NEW A, NEW B, NEW C, Parted(T, A, B, C)
    PROVE  /\ Cardinality(A) + Cardinality(B) + Cardinality(C) = Cardinality(T)
           /\ Cardinality(A) \in Nat /\ Cardinality(B) \in Nat /\ Cardinality(C) \in Nat
           /\ IsFiniteSet(A) /\ IsFiniteSet(B) /\ IsFiniteSet(C)
<1> A \cup B \cup C = T /\ A \cap B = {} /\ A \cap C = {} /\ B \cap C = {}
  BY DEF Parted
<1>1. A \in SUBSET T /\ B \in SUBSET T /\ C \in SUBSET T
  OBVIOUS
<1>2. IsFiniteSet(A) /\ IsFiniteSet(B) /\ IsFiniteSet(C)
  BY <1>1, FS_Subset
<1>3. IsFiniteSet(A \cup B) /\ Cardinality(A \cup B) = Cardinality(A) + Cardinality(B)
  BY <1>2, TwoParts
<1>4. (A \cup B) \cap C = {}
  OBVIOUS
<1>5. Cardinality((A \cup B) \cup C) = Cardinality(A \cup B) + Cardinality(C)
  BY <1>2, <1>3, <1>4, TwoParts
<1>6. Cardinality(A) \in Nat /\ Cardinality(B) \in Nat /\ Cardinality(C) \in Nat
  BY <1>2, FS_CardinalityType
<1>7. QED
  BY <1>2, <1>3, <1>5, <1>6

\* Sorting changes no length, whatever the order.
LEMMA ArrangedLen ==
    ASSUME NEW A, NEW list \in Seq(A), NEW before
    PROVE  Len(Arranged(list, DOMAIN list, before)) = Len(list)
<1> DEFINE n == Len(list)
           order == Ordered(DOMAIN list, before)
           q == [i \in 1 .. n |-> list[order[i]]]
<1>1. n \in Nat /\ DOMAIN list = 1 .. n
  BY LenProperties
<1>2. DOMAIN order = 1 .. n
  BY <1>1, FirstNumbers DEF Ordered
<1> HIDE DEF n, order
<1>3. q \in [1 .. n -> {list[order[i]] : i \in 1 .. n}]
  OBVIOUS
<1>4. Arranged(list, DOMAIN list, before) = q
  BY <1>2 DEF Arranged, order
<1> HIDE DEF q
<1>5. QED
  BY <1>1, <1>3, <1>4, FunctionAsSeq DEF n

\* Counting through places of a list in their order.
LEMMA CountsAreCards ==
    ASSUME NEW n \in Nat, NEW K \in SUBSET (1 .. n), NEW X \in SUBSET K
    PROVE  /\ IsFiniteSet(K) /\ Cardinality(K) \in Nat
           /\ Enumerates(Ordered(K, Ascending(K)), K, Ascending(K))
           /\ Cardinality({i \in 1 .. Cardinality(K) : Ordered(K, Ascending(K))[i] \in X}) = Cardinality(X)
<1>1. IsFiniteSet(K) /\ Cardinality(K) \in Nat /\ Enumerates(Ordered(K, Ascending(K)), K, Ascending(K))
  BY AscendingOrder
<1>2. CountsAlike(Ordered(K, Ascending(K)), K)
  BY <1>1, CountArranged
<1>3. QED
  BY <1>1, <1>2 DEF CountsAlike

\* q is the list in another order, in which counting gives the same.
Rearranges(q, list, order, n, A, before) ==
    /\ q \in Seq(A) /\ Len(q) = n
    /\ \A i \in 1 .. n : order[i] \in 1 .. n /\ q[i] = list[order[i]]
    /\ \A i, j \in 1 .. n : i < j => <<order[i], order[j]>> \in before
    /\ \A x \in 1 .. n : \E i \in 1 .. n : order[i] = x
    /\ \A X \in SUBSET (1 .. n) : Cardinality({i \in 1 .. n : order[i] \in X}) = Cardinality(X)

\* Sorting gives the list in another order.
LEMMA ArrangedAll ==
    ASSUME NEW A, NEW list \in Seq(A), NEW n, n = Len(list), NEW before, OrderOn(1 .. n, before)
    PROVE  Rearranges(Arranged(list, 1 .. n, before), list, Ordered(1 .. n, before), n, A, before)
<1>1. n \in Nat
  BY LenProperties
<1> DEFINE all == 1 .. n
           q == Arranged(list, all, before)
           order == Ordered(all, before)
<1>2. IsFiniteSet(all) /\ Cardinality(all) = n /\ all \in SUBSET (1 .. Len(list))
  BY <1>1, FirstNumbers
<1> HIDE DEF all
<1>3. OrderOn(all, before)
  BY DEF all
<1>4. /\ q \in Seq(A) /\ Len(q) = n
      /\ Enumerates(order, all, before)
      /\ \A i \in 1 .. n : q[i] = list[order[i]]
  BY <1>2, <1>3, ArrangedFacts
<1> HIDE DEF q, order
<1>5. /\ \A i \in 1 .. n : order[i] \in all
      /\ \A i, j \in 1 .. n : i < j => <<order[i], order[j]>> \in before
      /\ \A x \in all : \E i \in 1 .. n : order[i] = x
  BY <1>2, <1>4 DEF Enumerates
<1>6. ASSUME NEW X \in SUBSET all
      PROVE  Cardinality({i \in 1 .. n : order[i] \in X}) = Cardinality(X)
  <2>1. CountsAlike(order, all)
    BY <1>2, <1>4, CountArranged
  <2>2. QED
    BY <1>2, <2>1 DEF CountsAlike
<1>7. Rearranges(q, list, order, n, A, before)
  BY <1>4, <1>5, <1>6 DEF Rearranges, all
<1>8. QED
  BY <1>7 DEF q, order, all

\* Facts of arithmetic that provers find one at a time.
LEMMA Distribute ==
    ASSUME NEW a \in Int, NEW b \in Int, NEW k \in Int
    PROVE  (a + b) * k = a * k + b * k
OBVIOUS

LEMMA AtMost ==
    ASSUME NEW a \in Nat, NEW b \in Nat \ {0}, NEW q \in Int
    PROVE  a \div b <= q <=> a < b * (q + 1)
OBVIOUS

LEMMA ZeroTimes == ASSUME NEW a, a = 0, NEW k \in Int PROVE a * k = 0
OBVIOUS

LEMMA NoneAdded == ASSUME NEW a, a = 0, NEW b \in Nat PROVE a + b = b /\ b + a = b
OBVIOUS

LEMMA NotNone == ASSUME NEW x \in Nat, x # 0 PROVE x > 0
OBVIOUS

LEMMA TermsAddUp ==
    ASSUME NEW a \in Nat, NEW b \in Nat, NEW x \in Int, NEW y \in Int
    PROVE  /\ 200 * a >= x /\ 200 * b >= y => 200 * (a + b) >= x + y
           /\ 200 * a < x /\ 200 * b < y => 200 * (a + b) < x + y
OBVIOUS

\* The sums of the first numbers of a list are what they are defined to be.
LEMMA SumsDefined ==
    ASSUME NEW list \in Seq(Int)
    PROVE  /\ Sums(list) \in [0 .. Len(list) -> Int]
           /\ Sums(list)[0] = 0
           /\ \A n \in 1 .. Len(list) : Sums(list)[n] = Sums(list)[n - 1] + list[n]
           /\ SumOf(list) = Sums(list)[Len(list)] /\ SumOf(list) \in Int
<1> DEFINE len == Len(list)
           Is(s, m) == s = [n \in 0 .. m |-> IF n = 0 THEN 0 ELSE s[n - 1] + list[n]]
           T == {m \in Nat : m <= len => \E s : Is(s, m) /\ s \in [0 .. m -> Int]}
<1>1. len \in Nat /\ \A n \in 1 .. len : list[n] \in Int
  BY LenProperties, ElementOfSeq
<1> HIDE DEF len
<1>2. 0 \in T
  <2> DEFINE s == [n \in 0 .. 0 |-> 0]
  <2>1. s \in [0 .. 0 -> Int] /\ Is(s, 0)
    OBVIOUS
  <2>2. QED
    BY <2>1
<1>3. ASSUME NEW m \in Nat, m \in T
      PROVE  m + 1 \in T
  <2> SUFFICES ASSUME m + 1 <= len
               PROVE  \E s : Is(s, m + 1) /\ s \in [0 .. m + 1 -> Int]
    <3> HIDE DEF Is
    <3>1. QED
      OBVIOUS
  <2>1. PICK s : Is(s, m) /\ s \in [0 .. m -> Int]
    <3> HIDE DEF Is
    <3>1. QED
      BY <1>1, <1>3
  <2> DEFINE t == [n \in 0 .. m + 1 |-> IF n = m + 1 THEN s[m] + list[m + 1] ELSE s[n]]
  <2>2. t \in [0 .. m + 1 -> Int]
    <3>1. s[m] + list[m + 1] \in Int
      BY <1>1, <2>1
    <3>2. \A n \in 0 .. m + 1 : n # m + 1 => n \in 0 .. m /\ s[n] \in Int
      BY <2>1
    <3>3. QED
      BY <3>1, <3>2
  <2>3. \A n \in 0 .. m + 1 : t[n] = IF n = 0 THEN 0 ELSE t[n - 1] + list[n]
    <3> TAKE n \in 0 .. m + 1
    <3>1. CASE n = m + 1
      BY <3>1
    <3>2. CASE n # m + 1
      <4>1. n \in 0 .. m /\ s[n] = IF n = 0 THEN 0 ELSE s[n - 1] + list[n]
        BY <2>1, <3>2
      <4>2. n # 0 => t[n - 1] = s[n - 1] /\ n - 1 \in 0 .. m
        BY <4>1
      <4>3. QED
        BY <3>2, <4>1, <4>2
    <3>3. QED
      BY <3>1, <3>2
  <2> HIDE DEF t
  <2>4. Is(t, m + 1)
    BY <2>2, <2>3
  <2>5. QED
    BY <2>2, <2>4
<1>4. len \in T
  <2> HIDE DEF T
  <2>1. QED
    BY <1>1, <1>2, <1>3, NumbersByInduction
<1>5. \E s : Is(s, len) /\ s \in [0 .. len -> Int]
  <2> HIDE DEF Is
  <2>1. QED
    BY <1>1, <1>4
<1>6. Sums(list) = CHOOSE s : Is(s, len)
  BY DEF Sums, len
<1>7. Is(Sums(list), len)
  <2> HIDE DEF Is
  <2>1. QED
    BY <1>5, <1>6
<1> DEFINE s == Sums(list)
<1> HIDE DEF s
<1>8. \A n \in 0 .. len : s[n] = IF n = 0 THEN 0 ELSE s[n - 1] + list[n]
  BY <1>7, Zenon DEF s
<1>9. s[0] = 0 /\ \A n \in 1 .. len : s[n] = s[n - 1] + list[n]
  BY <1>1, <1>8
<1>10. s = [n \in 0 .. len |-> s[n]]
  BY <1>7 DEF s
<1>11. \A n \in 0 .. len : s[n] \in Int
  <2> DEFINE U == {n \in Nat : n <= len => s[n] \in Int}
  <2>1. 0 \in U
    BY <1>9
  <2>2. \A n \in Nat : n \in U => n + 1 \in U
    <3> SUFFICES ASSUME NEW n \in Nat, n \in U, n + 1 <= len
                 PROVE  s[n + 1] \in Int
      OBVIOUS
    <3>1. n + 1 \in 1 .. len /\ (n + 1) - 1 = n
      BY <1>1
    <3>2. s[n + 1] = s[n] + list[n + 1] /\ list[n + 1] \in Int /\ s[n] \in Int
      BY <1>1, <1>9, <3>1
    <3>3. QED
      BY <3>2
  <2> HIDE DEF U
  <2>3. Nat \subseteq U
    BY <2>1, <2>2, NumbersByInduction
  <2>4. QED
    BY <1>1, <2>3 DEF U
<1>12. s \in [0 .. len -> Int] /\ s[len] \in Int
  BY <1>1, <1>10, <1>11
<1>13. QED
  BY <1>9, <1>12 DEF s, len, SumOf

\* A sum of natural numbers is at least each of them, and none when all are.
LEMMA SumsOfNumbers ==
    ASSUME NEW list \in Seq(Nat)
    PROVE  /\ list \in Seq(Int)
           /\ \A n \in 0 .. Len(list) : Sums(list)[n] \in Nat
           /\ SumOf(list) \in Nat
           /\ \A i \in 1 .. Len(list) : SumOf(list) >= list[i]
<1> DEFINE len == Len(list)
           s == Sums(list)
           T == {n \in Nat : n <= len => s[n] \in Nat /\ \A i \in 1 .. n : s[n] >= list[i]}
<1>1. len \in Nat /\ (\A i \in 1 .. len : list[i] \in Nat) /\ list \in [1 .. len -> Nat]
  BY LenProperties, ElementOfSeq
<1>2. list \in Seq(Int)
  <2>1. list \in [1 .. len -> Int]
    BY <1>1
  <2> HIDE DEF len
  <2>2. QED
    BY <1>1, <2>1, FunctionAsSeq
<1>3. s[0] = 0 /\ (\A n \in 1 .. len : s[n] = s[n - 1] + list[n]) /\ SumOf(list) = s[len]
  BY <1>2, SumsDefined
<1> HIDE DEF len, s
<1>4. 0 \in T
  BY <1>3
<1>5. ASSUME NEW n \in Nat, n \in T
      PROVE  n + 1 \in T
  <2> SUFFICES ASSUME n + 1 <= len
               PROVE  s[n + 1] \in Nat /\ \A i \in 1 .. n + 1 : s[n + 1] >= list[i]
    OBVIOUS
  <2>1. s[n] \in Nat /\ \A i \in 1 .. n : s[n] >= list[i]
    BY <1>1, <1>5
  <2>2. n + 1 \in 1 .. len /\ (n + 1) - 1 = n
    BY <1>1
  <2>3. s[n + 1] = s[n] + list[n + 1] /\ list[n + 1] \in Nat
    BY <1>1, <1>3, <2>2
  <2>4. \A i \in 1 .. n + 1 : i = n + 1 \/ i \in 1 .. n
    OBVIOUS
  <2>5. ASSUME NEW i \in 1 .. n + 1
        PROVE  s[n + 1] >= list[i]
    <3>1. i \in 1 .. len /\ list[i] \in Nat
      BY <1>1, <2>2
    <3>2. QED
      BY <2>1, <2>3, <2>4, <3>1
  <2>6. QED
    BY <2>1, <2>3, <2>5
<1>6. Nat \subseteq T
  <2> HIDE DEF T
  <2>1. QED
    BY <1>4, <1>5, NumbersByInduction
<1>7. \A n \in 0 .. len : s[n] \in Nat
  BY <1>1, <1>6
<1>8. \A i \in 1 .. len : s[len] >= list[i]
  BY <1>1, <1>6
<1>9. QED
  BY <1>1, <1>2, <1>3, <1>7, <1>8 DEF len, s

\* What holds of all pairs of numbers of two lists holds of their sums.
LEMMA SumsCompare ==
    ASSUME NEW as \in Seq(Nat), NEW bs \in Seq(Nat), NEW len, len = Len(as), len = Len(bs), NEW k \in Int
    PROVE  /\ (\A i \in 1 .. len : 200 * as[i] >= bs[i] * k) => 200 * SumOf(as) >= SumOf(bs) * k
           /\ (\A i \in 1 .. len : (as[i] = 0 /\ bs[i] = 0) \/ 200 * as[i] < bs[i] * k)
                 => SumOf(bs) = 0 \/ 200 * SumOf(as) < SumOf(bs) * k
<1> DEFINE a == Sums(as)
           b == Sums(bs)
           T == {n \in Nat : n <= len => 200 * a[n] >= b[n] * k}
           U == {n \in Nat : n <= len => (a[n] = 0 /\ b[n] = 0) \/ 200 * a[n] < b[n] * k}
<1>1. /\ len \in Nat /\ (\A i \in 1 .. len : as[i] \in Nat /\ bs[i] \in Nat)
  BY LenProperties, ElementOfSeq
<1>2. /\ a[0] = 0 /\ (\A n \in 1 .. len : a[n] = a[n - 1] + as[n]) /\ SumOf(as) = a[len]
      /\ b[0] = 0 /\ (\A n \in 1 .. len : b[n] = b[n - 1] + bs[n]) /\ SumOf(bs) = b[len]
  BY SumsOfNumbers, SumsDefined
<1>3. \A n \in 0 .. len : a[n] \in Nat /\ b[n] \in Nat
  BY SumsOfNumbers
<1> HIDE DEF a, b
<1>4. ASSUME NEW n \in Nat, n + 1 <= len
      PROVE  /\ a[n + 1] = a[n] + as[n + 1] /\ b[n + 1] = b[n] + bs[n + 1]
             /\ a[n] \in Nat /\ b[n] \in Nat /\ as[n + 1] \in Nat /\ bs[n + 1] \in Nat
             /\ (b[n] + bs[n + 1]) * k = b[n] * k + bs[n + 1] * k
             /\ b[n] * k \in Int /\ bs[n + 1] * k \in Int
             /\ n <= len /\ n + 1 \in 1 .. len
  <2>1. n + 1 \in 1 .. len /\ (n + 1) - 1 = n /\ n \in 0 .. len /\ n <= len
    BY <1>1, <1>4
  <2>2. a[n + 1] = a[n] + as[n + 1] /\ b[n + 1] = b[n] + bs[n + 1]
    BY <1>2, <2>1
  <2>3. a[n] \in Nat /\ b[n] \in Nat /\ as[n + 1] \in Nat /\ bs[n + 1] \in Nat
    BY <1>1, <1>3, <2>1
  <2>4. (b[n] + bs[n + 1]) * k = b[n] * k + bs[n + 1] * k
    BY <2>3, Distribute
  <2>5. b[n] * k \in Int /\ bs[n + 1] * k \in Int
    BY <2>3
  <2>6. QED
    BY <2>1, <2>2, <2>3, <2>4, <2>5
<1>5. ASSUME \A i \in 1 .. len : 200 * as[i] >= bs[i] * k
      PROVE  200 * a[len] >= b[len] * k
  <2>1. 0 \in T
    BY <1>2
  <2>2. ASSUME NEW n \in Nat, n \in T
        PROVE  n + 1 \in T
    <3> SUFFICES ASSUME n + 1 <= len
                 PROVE  200 * a[n + 1] >= b[n + 1] * k
      OBVIOUS
    <3> DEFINE x == b[n] * k
               y == bs[n + 1] * k
    <3>1. x \in Int /\ y \in Int /\ b[n + 1] * k = x + y
      BY <1>4
    <3>2. 200 * a[n] >= x
      BY <1>4, <2>2
    <3>3. 200 * as[n + 1] >= y
      BY <1>4, <1>5
    <3>4. a[n + 1] = a[n] + as[n + 1] /\ a[n] \in Nat /\ as[n + 1] \in Nat
      BY <1>4
    <3> HIDE DEF x, y
    <3>5. 200 * (a[n] + as[n + 1]) >= x + y
      BY <3>1, <3>2, <3>3, <3>4, TermsAddUp
    <3>6. QED
      BY <3>1, <3>4, <3>5, Zenon
  <2>3. Nat \subseteq T
    <3> HIDE DEF T
    <3>1. QED
      BY <2>1, <2>2, NumbersByInduction
  <2>4. QED
    BY <1>1, <2>3
<1>6. ASSUME \A i \in 1 .. len : (as[i] = 0 /\ bs[i] = 0) \/ 200 * as[i] < bs[i] * k
      PROVE  b[len] = 0 \/ 200 * a[len] < b[len] * k
  <2>1. 0 \in U
    BY <1>2
  <2>2. ASSUME NEW n \in Nat, n \in U
        PROVE  n + 1 \in U
    <3> SUFFICES ASSUME n + 1 <= len
                 PROVE  (a[n + 1] = 0 /\ b[n + 1] = 0) \/ 200 * a[n + 1] < b[n + 1] * k
      OBVIOUS
    <3> DEFINE x == b[n] * k
               y == bs[n + 1] * k
    <3>1. x \in Int /\ y \in Int /\ b[n + 1] * k = x + y
      BY <1>4
    <3>2. (b[n] = 0 => x = 0) /\ (bs[n + 1] = 0 => y = 0)
      BY ZeroTimes
    <3>3. (a[n] = 0 /\ b[n] = 0) \/ 200 * a[n] < x
      BY <1>4, <2>2
    <3>4. (as[n + 1] = 0 /\ bs[n + 1] = 0) \/ 200 * as[n + 1] < y
      BY <1>4, <1>6
    <3>5. /\ a[n + 1] = a[n] + as[n + 1] /\ a[n] \in Nat /\ as[n + 1] \in Nat
          /\ b[n + 1] = b[n] + bs[n + 1] /\ b[n] \in Nat /\ bs[n + 1] \in Nat
      BY <1>4
    <3> HIDE DEF x, y
    <3>6. 200 * a[n] < x /\ 200 * as[n + 1] < y => 200 * (a[n] + as[n + 1]) < x + y
      BY <3>1, <3>5, TermsAddUp
    <3>7. CASE a[n] = 0 /\ b[n] = 0
      <4>1. a[n + 1] = as[n + 1] /\ b[n + 1] = bs[n + 1] /\ x = 0
        BY <3>5, <3>7, <3>2, NoneAdded
      <4>2. b[n + 1] * k = y
        BY <3>1, <4>1
      <4>3. QED
        BY <3>4, <4>1, <4>2, Zenon
    <3>8. CASE as[n + 1] = 0 /\ bs[n + 1] = 0
      <4>1. a[n + 1] = a[n] /\ b[n + 1] = b[n] /\ y = 0
        BY <3>5, <3>8, <3>2, NoneAdded
      <4>2. b[n + 1] * k = x
        BY <3>1, <4>1
      <4>3. QED
        BY <3>3, <4>1, <4>2, Zenon
    <3>9. QED
      BY <3>1, <3>3, <3>4, <3>5, <3>6, <3>7, <3>8, Zenon
  <2>3. Nat \subseteq U
    <3> HIDE DEF U
    <3>1. QED
      BY <2>1, <2>2, NumbersByInduction
  <2>4. QED
    BY <1>1, <2>3
<1>7. QED
  BY <1>2, <1>5, <1>6

-----------------------------------------------------------------------------
(* Parts of lists *)

\* A list cut in two and put together again is the list.
LEMMA CutAndJoined ==
    ASSUME NEW S, NEW list \in Seq(S), NEW n, n = Len(list), NEW m \in 0 .. n
    PROVE  LET joined == SubSeq(list, 1, m) \o SubSeq(list, m + 1, n)
           IN  joined \in Seq(S) /\ Len(joined) = n /\ \A i \in 1 .. n : joined[i] = list[i]
<1> DEFINE front == SubSeq(list, 1, m)
           back == SubSeq(list, m + 1, n)
           joined == front \o back
<1>1. n \in Nat /\ m \in Nat /\ m <= n /\ m + 1 \in Int /\ 1 \in Int /\ \A i \in 1 .. n : list[i] \in S
  <2>1. n \in Nat /\ \A i \in 1 .. n : list[i] \in S
    BY LenProperties, ElementOfSeq
  <2>2. QED
    BY <2>1
<1>2. front \in Seq(S) /\ Len(front) = m /\ \A i \in 1 .. m : front[i] = list[i]
  <2>1. \A i \in 1 .. m : list[i] \in S
    BY <1>1
  <2>2. /\ front \in Seq(S) /\ Len(front) = IF 1 <= m THEN m - 1 + 1 ELSE 0
        /\ \A i \in 1 .. m - 1 + 1 : front[i] = list[1 + i - 1]
    BY <1>1, <2>1, SubSeqProperties
  <2>3. m - 1 + 1 = m /\ (IF 1 <= m THEN m - 1 + 1 ELSE 0) = m /\ \A i \in 1 .. m : 1 + i - 1 = i
    BY <1>1
  <2> HIDE DEF front
  <2>4. QED
    BY <2>2, <2>3
<1>3. back \in Seq(S) /\ Len(back) = n - m /\ \A i \in 1 .. n - m : back[i] = list[m + i]
  <2>1. \A i \in m + 1 .. n : list[i] \in S
    BY <1>1
  <2>2. /\ back \in Seq(S) /\ Len(back) = IF m + 1 <= n THEN n - (m + 1) + 1 ELSE 0
        /\ \A i \in 1 .. n - (m + 1) + 1 : back[i] = list[m + 1 + i - 1]
    BY <1>1, <2>1, SubSeqProperties
  <2>3. n - (m + 1) + 1 = n - m /\ (IF m + 1 <= n THEN n - (m + 1) + 1 ELSE 0) = n - m
        /\ \A i \in 1 .. n - m : m + 1 + i - 1 = m + i
    BY <1>1
  <2> HIDE DEF back
  <2>4. QED
    BY <2>2, <2>3
<1> HIDE DEF front, back
<1>4. /\ joined \in Seq(S) /\ Len(joined) = m + (n - m)
      /\ \A i \in 1 .. m + (n - m) : joined[i] = IF i <= m THEN front[i] ELSE back[i - m]
  BY <1>2, <1>3, ConcatProperties
<1>5. m + (n - m) = n
  BY <1>1
<1> HIDE DEF joined
<1>6. ASSUME NEW i \in 1 .. n
      PROVE  joined[i] = list[i]
  <2>1. joined[i] = IF i <= m THEN front[i] ELSE back[i - m]
    BY <1>4, <1>5
  <2>2. CASE i <= m
    BY <1>1, <1>2, <2>1, <2>2
  <2>3. CASE ~(i <= m)
    <3>1. i - m \in 1 .. n - m /\ m + (i - m) = i
      BY <1>1, <2>3
    <3>2. QED
      BY <1>3, <2>1, <2>3, <3>1
  <2>4. QED
    BY <2>2, <2>3
<1>7. QED
  BY <1>4, <1>5, <1>6 DEF joined, front, back

\* What a filter keeps is in its result.
LEMMA FilteredHas ==
    ASSUME NEW A, NEW list \in Seq(A), NEW places \in SUBSET (1 .. Len(list)), NEW i \in places
    PROVE  LET kept == Arranged(list, places, Ascending(places))
           IN  list[i] \in ToSet(kept) /\ kept # <<>>
<1> DEFINE kept == Arranged(list, places, Ascending(places))
           order == Ordered(places, Ascending(places))
           n == Cardinality(places)
<1>1. Len(list) \in Nat
  BY LenProperties
<1>2. OrderOn(places, Ascending(places))
  BY <1>1, AscendingOrder
<1>3. Enumerates(order, places, Ascending(places)) /\ n \in Nat
  BY <1>1, AscendingOrder
<1>4. kept \in Seq(A) /\ Len(kept) = n
  BY <1>2, ArrangedFacts
<1>5. \A k \in 1 .. n : kept[k] = list[order[k]]
  BY <1>2, ArrangedFacts
<1> HIDE DEF kept, order, n
<1>6. PICK k \in 1 .. n : order[k] = i
  BY <1>3 DEF Enumerates, n
<1>7. DOMAIN kept = 1 .. n
  BY <1>4, LenProperties
<1>8. list[i] = kept[k] /\ k \in DOMAIN kept
  BY <1>6, <1>7, <1>5
<1>9. QED
  BY <1>8 DEF ToSet, kept

\* A property of the numbers up to n that the next number inherits holds of all of them.
LEMMA UpTo ==
    ASSUME NEW n \in Nat, NEW T, 0 \in T, \A m \in 0 .. n : m \in T /\ m < n => m + 1 \in T
    PROVE  0 .. n \subseteq T
<1> DEFINE U == {m \in Nat : m <= n => m \in T}
<1>1. 0 \in U
  OBVIOUS
<1>2. \A m \in Nat : m \in U => m + 1 \in U
  <2> SUFFICES ASSUME NEW m \in Nat, m \in U, m + 1 <= n
               PROVE  m + 1 \in T
    OBVIOUS
  <2>1. m \in 0 .. n /\ m < n
    OBVIOUS
  <2>2. QED
    BY <2>1
<1>3. Nat \subseteq U
  <2> HIDE DEF U
  <2>1. QED
    BY <1>1, <1>2, NumbersByInduction
<1>4. QED
  BY <1>3

\* The next sum, with the number added.
LEMMA SumsStep ==
    ASSUME NEW list \in Seq(Int), NEW m \in 0 .. Len(list), m < Len(list)
    PROVE  /\ Sums(list)[m] \in Int /\ list[m + 1] \in Int /\ m + 1 \in 1 .. Len(list)
           /\ Sums(list)[m + 1] = Sums(list)[m] + list[m + 1]
<1>1. Len(list) \in Nat /\ \A i \in 1 .. Len(list) : list[i] \in Int
  BY LenProperties, ElementOfSeq
<1>2. m + 1 \in 1 .. Len(list) /\ (m + 1) - 1 = m
  BY <1>1
<1>3. /\ Sums(list) \in [0 .. Len(list) -> Int]
      /\ \A n \in 1 .. Len(list) : Sums(list)[n] = Sums(list)[n - 1] + list[n]
  BY SumsDefined
<1>4. QED
  BY <1>1, <1>2, <1>3

\* Lists that begin alike have the same sums there.
LEMMA SumsAgree ==
    ASSUME NEW a \in Seq(Int), NEW b \in Seq(Int), NEW n \in Nat, n <= Len(a), n <= Len(b),
           \A i \in 1 .. n : a[i] = b[i]
    PROVE  \A m \in 0 .. n : Sums(a)[m] = Sums(b)[m]
<1> DEFINE T == {m \in 0 .. n : Sums(a)[m] = Sums(b)[m]}
<1>1. Len(a) \in Nat /\ Len(b) \in Nat
  BY LenProperties
<1>2. 0 \in T
  BY SumsDefined
<1>3. ASSUME NEW m \in 0 .. n, m \in T, m < n
      PROVE  m + 1 \in T
  <2>1. m \in 0 .. Len(a) /\ m < Len(a) /\ m \in 0 .. Len(b) /\ m < Len(b) /\ m + 1 \in 1 .. n /\ m + 1 \in 0 .. n
    BY <1>1, <1>3
  <2>2. Sums(a)[m + 1] = Sums(a)[m] + a[m + 1]
    BY <2>1, SumsStep
  <2>3. Sums(b)[m + 1] = Sums(b)[m] + b[m + 1]
    BY <2>1, SumsStep
  <2>4. Sums(a)[m] = Sums(b)[m] /\ a[m + 1] = b[m + 1]
    BY <1>3, <2>1
  <2>5. Sums(a)[m + 1] = Sums(b)[m + 1]
    BY <2>2, <2>3, <2>4, Zenon
  <2>6. QED
    BY <2>1, <2>5
<1> HIDE DEF T
<1>4. 0 .. n \subseteq T
  BY <1>2, <1>3, UpTo
<1>5. QED
  BY <1>4 DEF T

\* Nothing adds up to nothing.
LEMMA SumsOfNone ==
    ASSUME NEW a \in Seq(Int), NEW n \in Nat, n <= Len(a), \A i \in 1 .. n : a[i] = 0
    PROVE  Sums(a)[n] = 0
<1> DEFINE T == {m \in 0 .. n : Sums(a)[m] = 0}
<1>1. Len(a) \in Nat
  BY LenProperties
<1>2. 0 \in T
  BY SumsDefined
<1>3. ASSUME NEW m \in 0 .. n, m \in T, m < n
      PROVE  m + 1 \in T
  <2>1. m \in 0 .. Len(a) /\ m < Len(a) /\ m + 1 \in 1 .. n /\ m + 1 \in 0 .. n
    BY <1>1, <1>3
  <2>2. Sums(a)[m + 1] = Sums(a)[m] + a[m + 1]
    BY <2>1, SumsStep
  <2>3. Sums(a)[m] = 0 /\ a[m + 1] = 0
    BY <1>3, <2>1
  <2>4. Sums(a)[m + 1] = 0
    BY <2>2, <2>3
  <2>5. QED
    BY <2>1, <2>4
<1> HIDE DEF T
<1>4. 0 .. n \subseteq T
  BY <1>2, <1>3, UpTo
<1>5. QED
  BY <1>4 DEF T

\* A list with one number more.
LEMMA SumExtended ==
    ASSUME NEW a \in Seq(Int), NEW b \in Seq(Int), NEW n, n = Len(a), Len(b) = n + 1,
           \A i \in 1 .. n : a[i] = b[i]
    PROVE  SumOf(b) = SumOf(a) + b[n + 1] /\ SumOf(a) \in Int /\ b[n + 1] \in Int
<1>1. n \in Nat /\ Len(b) \in Nat
  BY LenProperties
<1>2. n <= Len(a) /\ n <= Len(b) /\ n \in 0 .. Len(b) /\ n < Len(b) /\ n \in 0 .. n
  BY <1>1
<1>3. Sums(a)[n] = Sums(b)[n]
  BY <1>1, <1>2, SumsAgree
<1>4. Sums(b)[n + 1] = Sums(b)[n] + b[n + 1] /\ Sums(b)[n] \in Int /\ b[n + 1] \in Int
  BY <1>2, SumsStep
<1>5. SumOf(a) = Sums(a)[n] /\ SumOf(b) = Sums(b)[n + 1]
  BY SumsDefined
<1>6. QED
  BY <1>3, <1>4, <1>5

\* A list in which one number is another.
ChangedAt(a, b, n, j) ==
    /\ a \in Seq(Int) /\ b \in Seq(Int) /\ n = Len(a) /\ n = Len(b) /\ j \in 1 .. n
    /\ \A i \in 1 .. n : i # j => a[i] = b[i]

LEMMA SumChanged ==
    ASSUME NEW a, NEW b, NEW n, NEW j, ChangedAt(a, b, n, j)
    PROVE  /\ SumOf(b) = SumOf(a) + (b[j] - a[j])
           /\ SumOf(a) \in Int /\ SumOf(b) \in Int /\ a[j] \in Int /\ b[j] \in Int
<1> DEFINE d == b[j] - a[j]
           T == {m \in 0 .. n : Sums(b)[m] = IF m < j THEN Sums(a)[m] ELSE Sums(a)[m] + d}
<1>12. /\ a \in Seq(Int) /\ b \in Seq(Int) /\ n = Len(a) /\ n = Len(b) /\ j \in 1 .. n
      /\ \A i \in 1 .. n : i # j => a[i] = b[i]
  BY DEF ChangedAt
<1>1. n \in Nat /\ j \in Nat /\ a[j] \in Int /\ b[j] \in Int /\ j >= 1
  <2>1. n \in Nat
    BY <1>12, LenProperties
  <2>2. j \in Nat /\ j >= 1
    BY <1>12, <2>1
  <2>3. j \in 1 .. Len(a) /\ j \in 1 .. Len(b)
    BY <1>12
  <2>4. a[j] \in Int
    BY <1>12, <2>3, ElementOfSeq
  <2>5. b[j] \in Int
    BY <1>12, <2>3, ElementOfSeq
  <2>6. QED
    BY <2>1, <2>2, <2>4, <2>5
<1>2. d \in Int
  BY <1>1
<1>3. b[j] = a[j] + d
  BY <1>1
<1> HIDE DEF d
<1>4. 0 \in T
  <2>1. Sums(a)[0] = 0 /\ Sums(b)[0] = 0 /\ 0 < j /\ 0 \in 0 .. n
    BY <1>1, <1>12, SumsDefined
  <2>2. QED
    BY <2>1
<1>5. ASSUME NEW m \in 0 .. n, m \in T, m < n
      PROVE  m + 1 \in T
  <2>1. m + 1 \in 0 .. n /\ m + 1 \in 1 .. n /\ m \in Nat
    BY <1>1, <1>5
  <2>2. Sums(a)[m + 1] = Sums(a)[m] + a[m + 1] /\ Sums(a)[m] \in Int /\ a[m + 1] \in Int
    BY <1>5, <1>12, SumsStep
  <2>3. Sums(b)[m + 1] = Sums(b)[m] + b[m + 1] /\ Sums(b)[m] \in Int /\ b[m + 1] \in Int
    BY <1>5, <1>12, SumsStep
  <2>4. Sums(b)[m] = IF m < j THEN Sums(a)[m] ELSE Sums(a)[m] + d
    BY <1>5
  <2> DEFINE x == Sums(a)[m]
             y == Sums(b)[m]
             u == a[m + 1]
             v == b[m + 1]
             x1 == Sums(a)[m + 1]
             y1 == Sums(b)[m + 1]
  <2>5. x1 = x + u /\ y1 = y + v /\ x \in Int /\ y \in Int /\ u \in Int /\ v \in Int
    BY <2>2, <2>3
  <2>6. (m < j => y = x) /\ (~(m < j) => y = x + d)
    BY <2>4
  <2>7. (m + 1 # j => u = v) /\ (m + 1 = j => v = u + d)
    BY <1>3, <1>12, <2>1
  <2> HIDE DEF x, y, u, v, x1, y1
  <2>8. CASE m + 1 < j
    <3>1. y1 = x1
      BY <1>1, <1>12, <2>1, <2>5, <2>6, <2>7, <2>8
    <3>2. QED
      BY <2>1, <2>8, <3>1 DEF x1, y1
  <2>9. CASE ~(m + 1 < j)
    <3>1. y1 = x1 + d
      BY <1>1, <1>2, <2>1, <2>5, <2>6, <2>7, <2>9
    <3>2. QED
      BY <2>1, <2>9, <3>1 DEF x1, y1
  <2>10. QED
    BY <2>8, <2>9
<1> HIDE DEF T
<1>6. 0 .. n \subseteq T
  BY <1>1, <1>4, <1>5, UpTo
<1>7. n \in T /\ ~(n < j)
  BY <1>1, <1>6, <1>12
<1>8. Sums(b)[n] = Sums(a)[n] + d
  BY <1>7 DEF T
<1>9. SumOf(a) = Sums(a)[n] /\ SumOf(a) \in Int
  BY <1>12, SumsDefined
<1>10. SumOf(b) = Sums(b)[n] /\ SumOf(b) \in Int
  BY <1>12, SumsDefined
<1>11. QED
  BY <1>1, <1>8, <1>9, <1>10 DEF d

\* Numbers in another order have the same sum.
LEMMA SumShuffled ==
    ASSUME NEW f \in Seq(Int), NEW g \in Seq(Int), NEW n, n = Len(f), n = Len(g),
           NEW p \in Bijection(1 .. n, 1 .. n), \A i \in 1 .. n : g[i] = f[p[i]]
    PROVE  SumOf(g) = SumOf(f)
<1> DEFINE Taken(m) == [k \in 1 .. n |-> IF \E i \in 1 .. m : p[i] = k THEN f[k] ELSE 0]
           T == {m \in 0 .. n : SumOf(Taken(m)) = Sums(g)[m]}
<1>1. n \in Nat /\ (\A i \in 1 .. n : f[i] \in Int) /\ (\A i \in 1 .. n : g[i] \in Int)
  BY LenProperties, ElementOfSeq
<1>2. /\ \A i \in 1 .. n : p[i] \in 1 .. n
      /\ \A i, j \in 1 .. n : p[i] = p[j] => i = j
      /\ \A k \in 1 .. n : \E i \in 1 .. n : p[i] = k
  BY DEF Bijection, Injection, Surjection, IsInjective
<1>3. ASSUME NEW m \in 0 .. n
      PROVE  Taken(m) \in Seq(Int) /\ Len(Taken(m)) = n
  <2>1. Taken(m) \in [1 .. n -> Int]
    BY <1>1
  <2> HIDE DEF Taken
  <2>2. QED
    BY <1>1, <2>1, FunctionAsSeq
<1>4. ASSUME NEW m \in 0 .. n, NEW k \in 1 .. n
      PROVE  Taken(m)[k] = IF \E i \in 1 .. m : p[i] = k THEN f[k] ELSE 0
  OBVIOUS
<1> HIDE DEF Taken
<1>5. 0 \in T
  <2>1. 0 \in 0 .. n /\ \A k \in 1 .. n : Taken(0)[k] = 0
    BY <1>1, <1>4
  <2>2. Taken(0) \in Seq(Int) /\ Len(Taken(0)) = n /\ n <= n
    BY <1>1, <1>3, <2>1
  <2>3. Sums(Taken(0))[n] = 0
    BY <1>1, <2>1, <2>2, SumsOfNone
  <2>4. SumOf(Taken(0)) = 0
    BY <2>2, <2>3, SumsDefined
  <2>5. Sums(g)[0] = 0
    BY SumsDefined
  <2>6. QED
    BY <2>1, <2>4, <2>5
<1>6. ASSUME NEW m \in 0 .. n, m \in T, m < n
      PROVE  m + 1 \in T
  <2>1. m + 1 \in 0 .. n /\ m + 1 \in 1 .. n
    BY <1>1, <1>6
  <2> DEFINE j == p[m + 1]
             a == Taken(m)
             b == Taken(m + 1)
  <2>2. j \in 1 .. n
    BY <1>2, <2>1
  <2>3. a[j] = 0
    <3>1. ~\E i \in 1 .. m : p[i] = j
      <4>1. SUFFICES ASSUME NEW i \in 1 .. m, p[i] = j
                     PROVE  FALSE
        OBVIOUS
      <4>2. i \in 1 .. n /\ i # m + 1
        BY <1>1
      <4>3. QED
        BY <1>2, <2>1, <4>1, <4>2
    <3>2. QED
      BY <1>4, <2>2, <3>1
  <2>4. b[j] = f[j]
    <3>1. \E i \in 1 .. m + 1 : p[i] = j
      BY <2>1
    <3>2. QED
      BY <1>4, <2>1, <2>2, <3>1
  <2>5. \A k \in 1 .. n : k # j => a[k] = b[k]
    <3>1. SUFFICES ASSUME NEW k \in 1 .. n, k # j
                   PROVE  a[k] = b[k]
      OBVIOUS
    <3>2. (\E i \in 1 .. m : p[i] = k) <=> \E i \in 1 .. m + 1 : p[i] = k
      BY <1>1, <3>1
    <3>3. a[k] = IF \E i \in 1 .. m : p[i] = k THEN f[k] ELSE 0
      BY <1>4
    <3>4. b[k] = IF \E i \in 1 .. m + 1 : p[i] = k THEN f[k] ELSE 0
      BY <1>4, <2>1
    <3>5. QED
      BY <3>2, <3>3, <3>4
  <2>6. a \in Seq(Int) /\ Len(a) = n
    BY <1>3
  <2>7. b \in Seq(Int) /\ Len(b) = n
    BY <1>3, <2>1
  <2> HIDE DEF a, b, j
  <2>8. SumOf(b) = SumOf(a) + (b[j] - a[j]) /\ SumOf(a) \in Int /\ a[j] \in Int /\ b[j] \in Int
    <3>1. ChangedAt(a, b, n, j)
      BY <2>2, <2>5, <2>6, <2>7 DEF ChangedAt
    <3>2. QED
      BY <3>1, SumChanged
  <2>9. b[j] = g[m + 1]
    BY <2>1, <2>4 DEF j
  <2>10. SumOf(b) = SumOf(a) + b[j]
    BY <2>3, <2>8
  <2>11. Sums(g)[m + 1] = Sums(g)[m] + g[m + 1]
    BY <1>6, SumsStep
  <2>12. SumOf(a) = Sums(g)[m]
    BY <1>6 DEF a
  <2>13. SumOf(b) = Sums(g)[m + 1]
    BY <2>9, <2>10, <2>11, <2>12
  <2>14. QED
    BY <2>1, <2>13 DEF b
<1> HIDE DEF T
<1>7. 0 .. n \subseteq T
  BY <1>1, <1>5, <1>6, UpTo
<1>8. SumOf(Taken(n)) = Sums(g)[n]
  <2>1. n \in 0 .. n
    BY <1>1
  <2>2. QED
    BY <1>7, <2>1 DEF T
<1>9. SumOf(Taken(n)) = SumOf(f)
  <2>1. n \in 0 .. n /\ n <= n
    BY <1>1
  <2>2. Taken(n) \in Seq(Int) /\ Len(Taken(n)) = n
    BY <1>3, <2>1
  <2>3. \A k \in 1 .. n : Taken(n)[k] = f[k]
    BY <1>2, <1>4, <2>1
  <2>4. Sums(Taken(n))[n] = Sums(f)[n]
    BY <1>1, <2>1, <2>2, <2>3, SumsAgree
  <2>5. QED
    BY <2>2, <2>4, SumsDefined
<1>10. QED
  BY <1>8, <1>9, SumsDefined

-----------------------------------------------------------------------------
(* Lists of what is found at places *)

\* list gives what t has at the places P, each of them once.
Collects(list, t, P) ==
    \E q \in Bijection(1 .. Len(list), P) : \A k \in 1 .. Len(list) : list[k] = t[q[k]]

\* The two lists have the same elements, each as often.
SameElements(a, b) ==
    /\ Len(a) = Len(b)
    /\ \E q \in Bijection(1 .. Len(b), 1 .. Len(a)) : \A k \in 1 .. Len(b) : b[k] = a[q[k]]

LEMMA CollectsNone ==
    ASSUME NEW t, NEW list, Len(list) = 0
    PROVE  Collects(list, t, {})
<1> DEFINE f == [k \in 1 .. 0 |-> k]
<1>1. f \in Bijection(1 .. Len(list), {})
  <2>1. 1 .. Len(list) = {} /\ 1 .. 0 = {}
    OBVIOUS
  <2>2. f \in [{} -> {}]
    BY <2>1
  <2>3. f \in Bijection({}, {})
    BY <2>2 DEF Bijection, Injection, Surjection, IsInjective
  <2>4. QED
    BY <2>1, <2>3
<1>2. \A k \in 1 .. Len(list) : list[k] = t[f[k]]
  OBVIOUS
<1>3. QED
  BY <1>1, <1>2 DEF Collects

\* Q has one place more, x; and b goes on with the one element e.
OneMore(P, Q, x) == x \notin P /\ Q = P \cup {x}
LongerBy(a, b, e, S) ==
    /\ a \in Seq(S) /\ b \in Seq(S) /\ Len(b) = Len(a) + 1
    /\ b[Len(a) + 1] = e /\ \A k \in 1 .. Len(a) : b[k] = a[k]

LEMMA CollectsOneMore ==
    ASSUME NEW S, NEW list, NEW longer, NEW t, NEW P, NEW Q, NEW x, OneMore(P, Q, x),
           NEW e, e = t[x], LongerBy(list, longer, e, S), Collects(list, t, P)
    PROVE  Collects(longer, t, Q)
<1> DEFINE n == Len(list)
<1>101. /\ list \in Seq(S) /\ longer \in Seq(S) /\ Len(longer) = n + 1 /\ longer[n + 1] = t[x]
      /\ \A k \in 1 .. n : longer[k] = list[k]
  BY DEF LongerBy
<1>100. x \notin P /\ Q = P \cup {x}
  BY DEF OneMore
<1>1. PICK q \in Bijection(1 .. n, P) : \A k \in 1 .. n : list[k] = t[q[k]]
  BY DEF Collects
<1>2. /\ q \in [1 .. n -> P]
      /\ \A k, l \in 1 .. n : q[k] = q[l] => k = l
      /\ \A y \in P : \E k \in 1 .. n : q[k] = y
  <2>1. q \in Bijection(1 .. n, P)
    BY <1>1
  <2>2. QED
    BY <2>1 DEF Bijection, Injection, Surjection, IsInjective
<1>3. n \in Nat
  BY <1>101, LenProperties
<1> HIDE DEF n
<1> DEFINE r == [k \in 1 .. n + 1 |-> IF k = n + 1 THEN x ELSE q[k]]
<1>4. /\ \A k \in 1 .. n : k \in 1 .. n + 1 /\ k # n + 1 /\ r[k] = q[k] /\ q[k] \in P
      /\ n + 1 \in 1 .. n + 1 /\ r[n + 1] = x
      /\ \A k \in 1 .. n + 1 : k = n + 1 \/ k \in 1 .. n
  <2>1. \A k \in 1 .. n : k \in 1 .. n + 1 /\ k # n + 1
    BY <1>3
  <2>2. n + 1 \in 1 .. n + 1 /\ \A k \in 1 .. n + 1 : k = n + 1 \/ k \in 1 .. n
    BY <1>3
  <2>3. r[n + 1] = x /\ \A k \in 1 .. n : r[k] = q[k]
    BY <2>1, <2>2
  <2>4. QED
    BY <1>2, <2>1, <2>2, <2>3
<1>5. r \in [1 .. n + 1 -> Q]
  BY <1>2, <1>3, <1>100
<1> HIDE DEF r
<1>6. \A k, l \in 1 .. n + 1 : r[k] = r[l] => k = l
  BY <1>2, <1>4, <1>100
<1>7. \A y \in Q : \E k \in 1 .. n + 1 : r[k] = y
  BY <1>2, <1>4, <1>100
<1>8. r \in Bijection(1 .. n + 1, Q)
  BY <1>5, <1>6, <1>7 DEF Bijection, Injection, Surjection, IsInjective
<1>9. \A k \in 1 .. n + 1 : longer[k] = t[r[k]]
  BY <1>1, <1>4, <1>101
<1>10. QED
  BY <1>8, <1>9, <1>101 DEF Collects

\* A list of what u has at Q is one of what t has at the places of P they stand for.
LEMMA CollectsThrough ==
    ASSUME NEW S, NEW list \in Seq(S), NEW t, NEW u, NEW P, NEW Q, NEW p \in Bijection(Q, P),
           \A i \in Q : u[i] = t[p[i]], Collects(list, u, Q)
    PROVE  Collects(list, t, P)
<1> DEFINE n == Len(list)
<1>1. PICK q \in Bijection(1 .. n, Q) : \A k \in 1 .. n : list[k] = u[q[k]]
  BY DEF Collects
<1>2. /\ q \in [1 .. n -> Q]
      /\ \A k, l \in 1 .. n : q[k] = q[l] => k = l
      /\ \A y \in Q : \E k \in 1 .. n : q[k] = y
  <2>1. q \in Bijection(1 .. n, Q)
    BY <1>1
  <2>2. QED
    BY <2>1 DEF Bijection, Injection, Surjection, IsInjective
<1>3. /\ p \in [Q -> P]
      /\ \A k, l \in Q : p[k] = p[l] => k = l
      /\ \A y \in P : \E k \in Q : p[k] = y
  BY DEF Bijection, Injection, Surjection, IsInjective
<1> DEFINE r == [k \in 1 .. n |-> p[q[k]]]
<1> HIDE DEF n
<1>4. r \in [1 .. n -> P]
  BY <1>2, <1>3
<1>5. \A k, l \in 1 .. n : r[k] = r[l] => k = l
  <2>1. SUFFICES ASSUME NEW k \in 1 .. n, NEW l \in 1 .. n, r[k] = r[l]
                 PROVE  k = l
    OBVIOUS
  <2>2. p[q[k]] = p[q[l]] /\ q[k] \in Q /\ q[l] \in Q
    BY <1>2, <2>1
  <2>3. q[k] = q[l]
    BY <1>3, <2>2
  <2>4. QED
    BY <1>2, <2>3
<1>6. \A y \in P : \E k \in 1 .. n : r[k] = y
  BY <1>2, <1>3
<1>7. \A k \in 1 .. n : list[k] = t[r[k]]
  BY <1>1, <1>2
<1> HIDE DEF r
<1>8. r \in Bijection(1 .. n, P)
  BY <1>4, <1>5, <1>6 DEF Bijection, Injection, Surjection, IsInjective
<1>9. QED
  BY <1>7, <1>8 DEF Collects, n

\* Two lists of the same places have the same elements.
LEMMA CollectedAlike ==
    ASSUME NEW S, NEW a \in Seq(S), NEW b \in Seq(S), NEW t, NEW P, Collects(a, t, P), Collects(b, t, P)
    PROVE  SameElements(a, b)
<1> DEFINE n == Len(a)
           m == Len(b)
<1>1. n \in Nat /\ m \in Nat
  BY LenProperties
<1> HIDE DEF n, m
<1>2. PICK q \in Bijection(1 .. n, P) : \A k \in 1 .. n : a[k] = t[q[k]]
  BY DEF Collects, n
<1>3. PICK r \in Bijection(1 .. m, P) : \A k \in 1 .. m : b[k] = t[r[k]]
  BY DEF Collects, m
<1>4. /\ q \in [1 .. n -> P]
      /\ \A k, l \in 1 .. n : q[k] = q[l] => k = l
      /\ \A y \in P : \E k \in 1 .. n : q[k] = y
  <2>1. q \in Bijection(1 .. n, P)
    BY <1>2
  <2>2. QED
    BY <2>1 DEF Bijection, Injection, Surjection, IsInjective
<1>5. /\ r \in [1 .. m -> P]
      /\ \A k, l \in 1 .. m : r[k] = r[l] => k = l
      /\ \A y \in P : \E k \in 1 .. m : r[k] = y
  <2>1. r \in Bijection(1 .. m, P)
    BY <1>3
  <2>2. QED
    BY <2>1 DEF Bijection, Injection, Surjection, IsInjective
<1> DEFINE f == [k \in 1 .. m |-> CHOOSE l \in 1 .. n : q[l] = r[k]]
<1>6. \A k \in 1 .. m : f[k] \in 1 .. n /\ q[f[k]] = r[k]
  BY <1>4, <1>5
<1>7. f \in [1 .. m -> 1 .. n]
  BY <1>6
<1> HIDE DEF f
<1>8. \A k, l \in 1 .. m : f[k] = f[l] => k = l
  BY <1>5, <1>6
<1>9. \A l \in 1 .. n : \E k \in 1 .. m : f[k] = l
  BY <1>4, <1>5, <1>6
<1>10. f \in Bijection(1 .. m, 1 .. n)
  BY <1>7, <1>8, <1>9 DEF Bijection, Injection, Surjection, IsInjective
<1>11. n = m
  <2>1. ExistsBijection(1 .. m, 1 .. n)
    BY <1>10 DEF ExistsBijection
  <2>2. IsFiniteSet(1 .. m) /\ Cardinality(1 .. m) = m /\ Cardinality(1 .. n) = n
    BY <1>1, FirstNumbers
  <2>3. QED
    BY <2>1, <2>2, FS_Bijection
<1>12. \A k \in 1 .. m : b[k] = a[f[k]]
  BY <1>2, <1>3, <1>6
<1>13. QED
  BY <1>10, <1>11, <1>12 DEF SameElements, n, m

\* Filtering leaves the elements at the places kept.
LEMMA FilteredIs ==
    ASSUME NEW A, NEW list \in Seq(A), NEW places \in SUBSET (1 .. Len(list))
    PROVE  LET kept == Arranged(list, places, Ascending(places))
           IN  /\ kept \in Seq(A) /\ Len(kept) = Cardinality(places) /\ Cardinality(places) \in Nat
               /\ ToSet(kept) = {list[i] : i \in places}
               /\ \A k \in 1 .. Len(kept) : \E i \in places : kept[k] = list[i]
<1> DEFINE kept == Arranged(list, places, Ascending(places))
           order == Ordered(places, Ascending(places))
           n == Cardinality(places)
<1>1. Len(list) \in Nat
  BY LenProperties
<1>2. OrderOn(places, Ascending(places)) /\ Enumerates(order, places, Ascending(places))
  BY <1>1, AscendingOrder
<1>3. /\ kept \in Seq(A) /\ Len(kept) = n /\ n \in Nat
      /\ \A k \in 1 .. n : kept[k] = list[order[k]]
  <2>1. kept \in Seq(A) /\ Len(kept) = n /\ n \in Nat
    BY <1>2, ArrangedFacts
  <2>2. \A k \in 1 .. n : kept[k] = list[order[k]]
    BY <1>2, ArrangedFacts
  <2>3. QED
    BY <2>1, <2>2
<1> HIDE DEF kept, order, n
<1>4. DOMAIN kept = 1 .. n
  BY <1>3, LenProperties
<1>5. ASSUME NEW k \in 1 .. n
      PROVE  order[k] \in places /\ kept[k] = list[order[k]]
  BY <1>2, <1>3 DEF Enumerates, n
<1>6. ASSUME NEW i \in places
      PROVE  list[i] \in ToSet(kept)
  BY FilteredHas DEF kept
<1>7. ToSet(kept) = {list[i] : i \in places}
  <2>1. ToSet(kept) = {kept[k] : k \in 1 .. n}
    BY <1>4 DEF ToSet, Range
  <2>2. \A k \in 1 .. n : \E i \in places : kept[k] = list[i]
    BY <1>5
  <2>3. \A i \in places : list[i] \in ToSet(kept)
    BY <1>6
  <2>4. ASSUME NEW x \in ToSet(kept)
        PROVE  x \in {list[i] : i \in places}
    <3>1. PICK k \in 1 .. n : x = kept[k]
      BY <2>1, <2>4
    <3>2. QED
      BY <2>2, <3>1
  <2>5. ASSUME NEW x \in {list[i] : i \in places}
        PROVE  x \in ToSet(kept)
    <3>1. PICK i \in places : x = list[i]
      BY <2>5
    <3>2. QED
      BY <2>3, <3>1
  <2>6. QED
    BY <2>4, <2>5
<1>8. QED
  BY <1>3, <1>5, <1>7 DEF kept, n
===============================================================================
