------------------------------ MODULE Builtins ------------------------------
(***************************************************************************)
(* Python's None; sorted() on a set of integers: what stands at a place    *)
(* has as many smaller elements as there are places before it; sorted() of *)
(* a list by a key, which leaves equal keys as they were; a list           *)
(* comprehension with a condition; a loop that carries a value; sum().     *)
(***************************************************************************)
EXTENDS Integers, FiniteSets, Sequences

CONSTANT None     \* an optional value that is absent
ASSUME NoneAssumption == None \notin Int

InOrder(S) ==
  [i \in 1 .. Cardinality(S) |->
     CHOOSE x \in S : Cardinality({y \in S : y < x}) = i - 1]

\* keys[i] is the key of list[i].
Precedes(keys, i, j) == keys[i] < keys[j] \/ (keys[i] = keys[j] /\ i < j)

Sorted(list, keys) ==
  LET rank(i) == Cardinality({j \in DOMAIN list : Precedes(keys, j, i)})
  IN  [p \in DOMAIN list |-> list[CHOOSE i \in DOMAIN list : rank(i) = p - 1]]

\* The elements of a list at some of its places.
Kept(list, places) == [p \in DOMAIN InOrder(places) |-> list[InOrder(places)[p]]]

\* What a loop over a list makes of a start value; step[a][e] is one turn of it.
Folded(step, start, list) ==
  LET after[i \in 0 .. Len(list)] ==
        IF i = 0 THEN start ELSE step[after[i - 1]][list[i]]
  IN  after[Len(list)]

Total(list) == Folded([a \in Int |-> [e \in Int |-> a + e]], 0, list)
=============================================================================
