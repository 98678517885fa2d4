------------------------------ MODULE Sublists ------------------------------
(***************************************************************************)
(* Parts of a sequence, in its order. SelectSeq says the same; these are   *)
(* defined by positions and not by recursion, so that what they return can *)
(* be proved for sequences of any length.                                  *)
(***************************************************************************)
EXTENDS Integers, Sequences, FiniteSets

\* How many members of a set of numbers come up to n.
Rank(numbers, n) == Cardinality({m \in numbers : m <= n})

\* A finite set of numbers, from the lowest to the highest.
Ascending(numbers) ==
    [k \in 1..Cardinality(numbers) |-> CHOOSE n \in numbers : Rank(numbers, n) = k]

\* What a sequence holds, and what it holds of a set, as Array.filter returns it.
Items(sequence) == {sequence[n] : n \in 1..Len(sequence)}
Places(sequence, items) == {n \in 1..Len(sequence) : sequence[n] \in items}
Kept(sequence, items) ==
    LET places == Places(sequence, items) IN
    [k \in 1..Cardinality(places) |-> sequence[Ascending(places)[k]]]

=============================================================================
