--------------------------- MODULE OrderedResults ---------------------------
(***************************************************************************)
(* What a tool batch promises to the conversation: each call of one        *)
(* assistant message is settled once, in any order, and the results enter  *)
(* the branch in source order, each exactly once; the batch closes with    *)
(* the last of them.  ToolBatch implements this across crashes and         *)
(* cancellation.                                                           *)
(***************************************************************************)
EXTENDS Integers, Sequences

CONSTANT NumCalls

VARIABLES
    settled,    \* calls whose result is decided
    branch,     \* the results in the conversation, by source index
    open

vars == <<settled, branch, open>>

Init ==
    /\ settled = {}
    /\ branch = <<>>
    /\ open = TRUE

Settle(i) ==
    /\ open
    /\ i \notin settled
    /\ settled' = settled \cup {i}
    /\ UNCHANGED <<branch, open>>

\* A run of settled calls, next in source order, enters the branch.
Place(upto) ==
    LET placed == Len(branch) IN
    /\ open
    /\ placed < upto
    /\ placed + 1 .. upto \subseteq settled
    /\ branch' = branch \o [j \in 1..(upto - placed) |-> placed + j]
    /\ open' = (upto # NumCalls)
    /\ UNCHANGED settled

Next == \E i \in 1..NumCalls : Settle(i) \/ Place(i)

Spec == Init /\ [][Next]_vars

=============================================================================
