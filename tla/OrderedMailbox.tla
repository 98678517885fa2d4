--------------------------- MODULE OrderedMailbox ---------------------------
(***************************************************************************)
(* What a lane promises to those who leave it messages and writes: every   *)
(* item is queued until it is placed in the conversation or withdrawn, one *)
(* of the two and once; items placed together keep their order of arrival; *)
(* and no item overtakes an earlier one of its kind.  LaneInbox implements *)
(* this.                                                                   *)
(***************************************************************************)
EXTENDS Integers, Sequences

CONSTANT Kinds

VARIABLES
    kinds,      \* the kind of each item, by order of arrival
    queued,     \* items waiting
    placed,     \* items in the conversation, in its order
    withdrawn   \* items returned to their sender

vars == <<kinds, queued, placed, withdrawn>>

Init ==
    /\ kinds = <<>>
    /\ queued = {}
    /\ placed = <<>>
    /\ withdrawn = {}

\* items enter the conversation behind what is there, by order of arrival, the others stay.
Enter(items, waiting, known) ==
    LET new == (Len(placed) + 1)..Len(placed') IN
    /\ items \subseteq waiting
    /\ \A i \in items, j \in waiting \ items : known[i] = known[j] => i < j
    /\ \A n \in 1..Len(placed) : n <= Len(placed') /\ placed'[n] = placed[n]
    /\ {placed'[n] : n \in new} = items
    /\ \A m, n \in new : m < n => placed'[m] < placed'[n]
    /\ queued' = waiting \ items

Offer(kind) ==
    /\ kinds' = Append(kinds, kind)
    /\ queued' = queued \cup {Len(kinds) + 1}
    /\ UNCHANGED <<placed, withdrawn>>

Place == \E items \in SUBSET queued : Enter(items, queued, kinds) /\ UNCHANGED <<kinds, withdrawn>>

\* An item offered to an idle lane takes those before it along.
Deliver(kind) ==
    /\ kinds' = Append(kinds, kind)
    /\ LET waiting == queued \cup {Len(kinds) + 1} IN
       \E items \in SUBSET waiting : Len(kinds) + 1 \in items /\ Enter(items, waiting, kinds')
    /\ UNCHANGED withdrawn

Withdraw ==
    /\ \E items \in SUBSET queued :
           queued' = queued \ items /\ withdrawn' = withdrawn \cup items
    /\ UNCHANGED <<kinds, placed>>

Next == Place \/ Withdraw \/ \E kind \in Kinds : Offer(kind) \/ Deliver(kind)

Spec == Init /\ [][Next]_vars

=============================================================================
