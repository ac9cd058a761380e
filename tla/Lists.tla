---------------------------------- MODULE Lists ----------------------------------
(***************************************************************************)
(* What JavaScript's arrays do with a list, in terms of the places of its  *)
(* elements: filter keeps some of them, sort arranges them and leaves      *)
(* equals in their order.                                                  *)
(***************************************************************************)
EXTENDS Integers, Sequences, FiniteSets

\* The elements of a set, each at the place that those before it leave: before is
\* the set of pairs of which the first comes first.
Ordered(S, before) ==
    [i \in 1 .. Cardinality(S) |-> CHOOSE x \in S : Cardinality({y \in S : <<y, x>> \in before}) = i - 1]

InOrder(S, Before(_, _)) == Ordered(S, {pair \in S \X S : Before(pair[1], pair[2])})

\* The elements at some places of a list, in an order of the places.
Arranged(seq, places, before) ==
    LET order == Ordered(places, before) IN [i \in DOMAIN order |-> seq[order[i]]]

Ascending(places) == {pair \in places \X places : pair[1] < pair[2]}

\* Array.filter.
Filtered(seq, Test(_)) ==
    LET places == {i \in DOMAIN seq : Test(seq[i])} IN Arranged(seq, places, Ascending(places))

\* Array.sort, which is stable.
Sorted(seq, Before(_, _)) ==
    LET places == DOMAIN seq
        before == {pair \in places \X places :
                      \/ Before(seq[pair[1]], seq[pair[2]])
                      \/ ~Before(seq[pair[2]], seq[pair[1]]) /\ pair[1] < pair[2]}
    IN  Arranged(seq, places, before)

CountIn(seq, Test(_)) == Cardinality({i \in DOMAIN seq : Test(seq[i])})

\* The sum of the first numbers of a list, for each number of them.
Sums(seq) == LET sum[n \in 0 .. Len(seq)] == IF n = 0 THEN 0 ELSE sum[n - 1] + seq[n] IN sum
SumOf(seq) == Sums(seq)[Len(seq)]
===============================================================================
