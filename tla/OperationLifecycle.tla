------------------------- MODULE OperationLifecycle -------------------------
(***************************************************************************)
(* What one lane of the agent harness promises about operations, and       *)
(* nothing of how it keeps the promise: an operation is accepted only on   *)
(* an idle lane, may be asked to cancel while it is open, and ends exactly *)
(* once with an immutable result.  A cancelled operation can only end as   *)
(* "aborted", and only a cancelled one can.  LaneDrive implements this.    *)
(***************************************************************************)

CONSTANT Ops            \* operation ids

VARIABLE phase          \* phase[o]: where operation o stands

vars == phase

\* TerminalStatus of an OperationResultRecord.
Terminal == {"completed", "declined", "aborted", "failed"}

Open == {o \in Ops : phase[o] \in {"open", "cancelling"}}

TypeOK == phase \in [Ops -> {"new", "open", "cancelling"} \cup Terminal]

Init == phase = [o \in Ops |-> "new"]

\* Acceptance commits metadata and the first leaf on an idle lane.
Accept(o) ==
    /\ phase[o] = "new"
    /\ Open = {}
    /\ phase' = [phase EXCEPT ![o] = "open"]

\* The durable cancellation marker; a second request changes nothing.
Cancel(o) ==
    /\ phase[o] = "open"
    /\ phase' = [phase EXCEPT ![o] = "cancelling"]

\* The one terminal commit: the result record is written, the lane is idle.
Finish(o) ==
    \/ /\ phase[o] = "open"
       /\ \E status \in Terminal \ {"aborted"} : phase' = [phase EXCEPT ![o] = status]
    \/ /\ phase[o] = "cancelling"
       /\ phase' = [phase EXCEPT ![o] = "aborted"]

Next == \E o \in Ops : Accept(o) \/ Cancel(o) \/ Finish(o)

Spec == Init /\ [][Next]_vars

=============================================================================
