-------------------------- MODULE LaneDriveLeaves --------------------------
(***************************************************************************)
(* What holds of the leaf of LaneDrive's operation for every value of its  *)
(* constants: it agrees with the accepted intent, an announced request is  *)
(* made at most once, a deferred response is polled once for a permit, a   *)
(* trigger is compacted at most once by each reason, and a cancelled       *)
(* operation makes no forward progress.                                    *)
(***************************************************************************)
EXTENDS LaneDriveSafety

USE DEF waits

-----------------------------------------------------------------------------
(* The inductive invariant. *)

\* The leaves a stage of a procedure can find; the other stages find any.
LeavesOf(stage) ==
  CASE stage \in {"before_run", "start_run"} -> {"starting"}
    [] stage = "boundary" -> {"checkpoint"}
    [] stage \in {"before_run_end", "finish"} -> {"checkpoint", "summary.deciding"}
    [] stage \in {"before_request", "publish_intent"} -> {"assistant.ready"}
    [] stage \in {"transform_context", "provider", "recover_response"} ->
           {"assistant.effect_pending"}
    [] stage \in {"after_response", "publish_response", "recover_cancelled"} -> ResponseLeaves
    [] stage = "poll" -> {"deferred.effect_pending"}
    [] stage \in {"before_poll", "poll_intent", "cancel_deferred"} ->
           {"deferred.suspended", "deferred.effect_pending"}
    [] stage \in {"timer", "retry_ready"} -> {"assistant.retry_wait", "summary.retry_wait"}
    [] stage \in {"tools", "tools_done"} -> {"tools"}
    [] stage \in {"before_decision", "decide"} -> {"summary.deciding"}
    [] stage \in {"attempt_intent", "model_missing"} -> {"summary.ready"}
    [] stage \in {"before_summary_request", "nested_intent", "summary_provider",
                  "nested_outcome", "attempt_result", "recover_attempt"} ->
           {"summary.effect_pending"}
    [] OTHER -> Leaves

InProcedure == drive.id # None /\ drive.pc \in {"admit", "effect", "await", "queued"}

\* A stage is at a leaf its procedure is for.  The hook at the end of a run is
\* also asked where a threshold compaction was declined.
StageFits ==
  InProcedure =>
    /\ op.at \in LeavesOf(drive.stage)
    /\ drive.stage \in {"before_run_end", "finish"} /\ op.at # "checkpoint" =>
         op.task = "threshold"

\* restoreLaneState's agreement, of any operation.
Matches(p) ==
  \/ p.intent = "compaction" /\ p.at \in SummaryLeaves /\ p.task = "manual"
  \/ /\ p.intent = "navigation"
     /\ \/ p.at = "navigation.ready_to_commit"
        \/ p.at \in SummaryLeaves /\ p.task = "navigation"
  \/ /\ p.intent = "run"
     /\ p.at # "navigation.ready_to_commit"
     /\ p.at \in SummaryLeaves => p.task \in Reasons

Generating == {"assistant.ready", "assistant.effect_pending", "assistant.retry_wait"}

\* Where a compacted trigger can still be: in the compaction, behind the guard
\* of the checkpoint it resumed, or in the generation it made room for.
Guards(p, counts) ==
  /\ counts["threshold"] = 0
     \/ /\ counts["threshold"] = 1
        /\ \/ p.at \in SummaryLeaves \cup Generating
           \/ p.at = "checkpoint" /\ p.guarded
  /\ counts["overflow"] = 0
     \/ /\ counts["overflow"] = 1
        /\ p.ovf
        /\ \/ p.at \in Generating
           \/ p.at \in SummaryLeaves /\ p.task = "overflow" /\ p.cont = "need_assistant"

LeafOK(p, counts) == Matches(p) /\ Guards(p, counts)

\* A request and the hook that rewrites its context: the stages of an announced
\* request that was not made.
Asking == Requests \cup {"transform_context"}

\* The reserved response id of an intent was not used before its admission.
RequestIsNew ==
  /\ asked <= 1
  /\ drive.pc = "admit" /\ drive.stage \in Requests => asked = 0
  /\ drive.pc \in {"admit", "effect"} /\ drive.stage = "transform_context" => asked = 0

\* An abort that found no pass is before every job of a later pass, whose gate
\* it does not shut.
AbortsFor(l, o) == {i \in 1..Len(l) : l[i].kind = "abort" /\ l[i].id = o}

AbortsSeen ==
  drive.id # None /\ drive.gate = "open" =>
    /\ \A i \in 1..Len(line), j \in AbortsFor(line, drive.id) : IsStep(line, i) => j < i
    /\ drive.pc \in {"admit", "effect"} /\ drive.stage \in Asking =>
         ~op.cancelled /\ AbortsFor(line, drive.id) = {}

LeafInv ==
  /\ op.id = None => op = NoOp
  /\ LeafOK(op, compactions)
  /\ StageFits
  /\ RequestIsNew
  /\ AbortsSeen

-----------------------------------------------------------------------------
(* A step of a planner, by what it does to the leaf. *)

\* What a planner owes the invariant, but for the order of the line.
Advanced ==
  /\ LeafOK(op', compactions')
  /\ op'.id = None => op' = NoOp
  /\ StageFits' /\ RequestIsNew'
  /\ drive'.pc = "admit" /\ drive'.stage \in Asking => ~op.cancelled

Leads == TypeOK /\ LeafInv /\ op.id # None

LEMMA LoopAdvanced ==
  ASSUME Leads, Loop, asked' = 0 \/ asked' = asked, op'.id = op.id, LeafOK(op', compactions')
  PROVE  Advanced
  <1>1. drive'.pc = "loop"
    BY SMT DEF Leads, TypeOK, Drives, Loop
  <1> QED
    BY <1>1 DEF Leads, LeafInv, Advanced, StageFits, InProcedure, RequestIsNew

LEMMA MoveAdvanced ==
  ASSUME Leads, NEW next, Move(next), next.id = op.id, LeafOK(next, compactions)
  PROVE  Advanced
  BY LoopAdvanced DEF Move, Commit

\* A new trigger was not compacted yet.
LEMMA TriggeredAdvanced ==
  ASSUME Leads, NEW next, Triggered(next), next.id = op.id, Matches(next)
  PROVE  Advanced
  <1>1. NoCompactions["threshold"] = 0 /\ NoCompactions["overflow"] = 0
    BY DEF NoCompactions, Reasons
  <1>2. LeafOK(next, NoCompactions)
    BY <1>1 DEF LeafOK, Guards
  <1> QED
    BY <1>2, LoopAdvanced DEF Triggered, Commit

LEMMA IdleLeafOK == LeafOK(NoOp, NoCompactions) /\ NoOp.id = None
  BY DEF LeafOK, Matches, Guards, NoOp, Accepted, NoCompactions, Reasons,
     SummaryLeaves

LEMMA FinishAdvanced ==
  ASSUME Leads, NEW status, Finish(status)
  PROVE  Advanced
  <1>1. drive'.pc = "ended"
    BY AtFields DEF Leads, TypeOK, Finish
  <1> QED
    BY <1>1, IdleLeafOK DEF Finish, Advanced, StageFits, InProcedure, RequestIsNew

LEMMA FaultAdvanced ==
  ASSUME Leads, NEW cause, Fault(cause)
  PROVE  Advanced
  BY NoDriveFields
  DEF Fault, Leads, LeafInv, Advanced, StageFits, InProcedure, RequestIsNew, durable, history

\* The leaf's own type decides which of a run's leaves it is.
LEMMA LeafFields ==
  ASSUME TypeOK, NEW at
  PROVE  /\ Leaf(at).id = op.id /\ Leaf(at).intent = op.intent /\ Leaf(at).at = at
         /\ Leaf(at).task = "none" /\ Leaf(at).ovf = FALSE /\ Leaf(at).guarded = FALSE
  BY SMT DEF TypeOK, OpRecords, Leaf

LEMMA ReadyFields ==
  ASSUME TypeOK, NEW ovf
  PROVE  /\ Ready(ovf).id = op.id /\ Ready(ovf).intent = op.intent
         /\ Ready(ovf).at = "assistant.ready" /\ Ready(ovf).ovf = ovf
  BY SMT DEF TypeOK, OpRecords, Leaf, Ready

LEMMA RenewedAdvanced ==
  ASSUME Leads, op.intent = "run", Renewed
  PROVE  Advanced
  <1> DEFINE next == [Ready(FALSE) EXCEPT !.turns = @ + 1]
  <1>1. next.id = op.id /\ next.intent = "run" /\ next.at = "assistant.ready"
    BY SMT DEF Leads, TypeOK, OpRecords, Leaf, Ready
  <1>2. Triggered(next)
    BY DEF Renewed
  <1> HIDE DEF next
  <1>3. Matches(next)
    BY <1>1 DEF Matches, SummaryLeaves
  <1> QED
    BY <1>1, <1>2, <1>3, TriggeredAdvanced

LEMMA PlacedAdvanced ==
  ASSUME Leads, op.intent = "run", NEW cont, Placed(cont)
  PROVE  Advanced
  <1> DEFINE next == [Leaf("checkpoint") EXCEPT !.cont = cont]
  <1>1. next.id = op.id /\ next.intent = "run" /\ next.at = "checkpoint"
    BY SMT DEF Leads, TypeOK, OpRecords, Leaf
  <1>2. Triggered(next)
    BY DEF Placed
  <1> HIDE DEF next
  <1>3. Matches(next)
    BY <1>1 DEF Matches, SummaryLeaves
  <1> QED
    BY <1>1, <1>2, <1>3, TriggeredAdvanced

\* The first compaction of the trigger for this reason.
LEMMA DecidingAdvanced ==
  ASSUME Leads, op.intent = "run", NEW reason \in Reasons, NEW cont, NEW ovf \in BOOLEAN,
         Deciding(reason, cont, ovf), compactions["overflow"] = 0,
         \/ reason = "threshold" /\ compactions["threshold"] = 0
         \/ reason = "overflow" /\ cont = "need_assistant" /\ ovf
  PROVE  Advanced
  <1>1. /\ op'.id = op.id /\ op'.intent = "run" /\ op'.at = "summary.deciding"
        /\ op'.task = reason /\ op'.cont = cont /\ op'.ovf = ovf
    BY SMT DEF Leads, TypeOK, OpRecords, Leaf, Deciding, Commit
  <1>2. "summary.deciding" \in SummaryLeaves
    BY DEF SummaryLeaves
  <1>3. Matches(op')
    BY <1>1 DEF Matches
  <1>4. compactions \in [Reasons -> Nat] /\ compactions' = [compactions EXCEPT ![reason] = @ + 1]
    BY DEF Leads, TypeOK, Deciding
  <1>5. compactions["threshold"] \in {0, 1}
    BY DEF Leads, LeafInv, LeafOK, Guards
  <1>6. /\ compactions'["threshold"] \in {0, 1} /\ compactions'["overflow"] \in {0, 1}
        /\ compactions'["overflow"] = 1 => reason = "overflow"
    BY <1>4, <1>5, SMT DEF Reasons
  <1>7. Guards(op', compactions')
    BY <1>1, <1>2, <1>6 DEF Guards
  <1> QED
    BY <1>1, <1>3, <1>7, LoopAdvanced DEF Deciding, Commit, LeafOK

\* An announced attempt waits for its retry: the leaf keeps all but its place.
LEMMA RetryWaitAdvanced ==
  ASSUME Leads, NEW leaf, RetryWait(leaf),
         \/ op.at = "assistant.effect_pending" /\ leaf = "assistant.retry_wait"
         \/ op.at = "summary.effect_pending" /\ leaf = "summary.retry_wait"
  PROVE  Advanced
  <1> DEFINE next == [op EXCEPT !.at = leaf, !.attempt = @ + 1, !.requests = 0]
  <1>1. /\ next.id = op.id /\ next.intent = op.intent /\ next.at = leaf
        /\ next.task = op.task /\ next.cont = op.cont /\ next.ovf = op.ovf
    BY SMT DEF Leads, TypeOK, OpRecords
  <1>2. Move(next)
    BY DEF RetryWait
  <1> HIDE DEF next
  <1>3. LeafOK(next, compactions)
    BY <1>1 DEF Leads, LeafInv, LeafOK, Matches, Guards, Generating, SummaryLeaves, Reasons
  <1> QED
    BY <1>1, <1>2, <1>3, MoveAdvanced

LEMMA AskRunEndAdvanced ==
  ASSUME Leads, drive.id # None, AskRunEnd, op.at = "checkpoint" \/ (op.at = "summary.deciding" /\ op.task = "threshold")
  PROVE  Advanced
  <1>1. drive'.stage = "before_run_end"
    BY AtFields DEF Leads, TypeOK, AskRunEnd, Then
  <1>2. op' = op /\ asked' = asked /\ compactions' = compactions
    BY DEF AskRunEnd, durable, history
  <1> QED
    BY <1>1, <1>2 DEF Leads, LeafInv, Advanced, StageFits, LeavesOf, RequestIsNew, Requests, Asking

\* After a compaction of the run.
LEMMA ResumeAdvanced ==
  ASSUME Leads, drive.id # None, op.intent = "run", op.at \in SummaryLeaves, NEW summarised \in BOOLEAN,
         ResumeAfter(summarised), summarised \/ (op.at = "summary.deciding" /\ op.task = "threshold")
  PROVE  Advanced
  <1>1. CASE Renewed
    BY <1>1, RenewedAdvanced
  <1>2. CASE op.cont = "need_assistant" /\ Move(Ready(op.ovf))
    <2>1. LeafOK(Ready(op.ovf), compactions)
      BY ReadyFields DEF Leads, LeafInv, LeafOK, Matches, Guards, Generating, SummaryLeaves
    <2> QED
      BY <1>2, <2>1, ReadyFields, MoveAdvanced DEF Leads
  <1>3. CASE /\ op.cont = "may_finish"
             /\ Move([Leaf("checkpoint") EXCEPT !.cont = "may_finish", !.guarded = TRUE])
    <2> DEFINE next == [Leaf("checkpoint") EXCEPT !.cont = "may_finish", !.guarded = TRUE]
    <2>1. next.id = op.id /\ next.intent = "run" /\ next.at = "checkpoint" /\ next.guarded = TRUE
      BY SMT DEF Leads, TypeOK, OpRecords, Leaf
    <2>2. Move(next)
      BY <1>3
    <2> HIDE DEF next
    <2>3. LeafOK(next, compactions)
      BY <1>3, <2>1 DEF Leads, LeafInv, LeafOK, Matches, Guards, Generating, SummaryLeaves
    <2> QED
      BY <2>1, <2>2, <2>3, MoveAdvanced
  <1>4. CASE ~summarised /\ AskRunEnd
    BY <1>4, AskRunEndAdvanced
  <1> QED
    BY <1>1, <1>2, <1>3, <1>4 DEF ResumeAfter

LEMMA SummarisedAdvanced ==
  ASSUME Leads, drive.id # None, op.at \in SummaryLeaves, Summarised
  PROVE  Advanced
  <1>1. CASE EndsOperation /\ Finish("completed")
    BY <1>1, FinishAdvanced
  <1>2. CASE ~EndsOperation /\ ResumeAfter(TRUE)
    <2>1. op.intent = "run"
      BY <1>2 DEF Leads, LeafInv, LeafOK, Matches, EndsOperation, SummaryLeaves
    <2> QED
      BY <1>2, <2>1, ResumeAdvanced
  <1> QED
    BY <1>1, <1>2 DEF Summarised

LEMMA DeclinedAdvanced ==
  ASSUME Leads, drive.id # None, op.at = "summary.deciding", Declined
  PROVE  Advanced
  <1>1. ASSUME NEW status, Finish(status) PROVE Advanced
    BY <1>1, FinishAdvanced
  <1>2. CASE op.task = "threshold" /\ ResumeAfter(FALSE)
    <2>1. op.intent = "run" /\ op.at \in SummaryLeaves
      BY <1>2 DEF Leads, LeafInv, LeafOK, Matches, SummaryLeaves
    <2> QED
      BY <1>2, <2>1, ResumeAdvanced
  <1> QED
    BY <1>1, <1>2 DEF Declined

LEMMA ResponseAdvanced ==
  ASSUME Leads, op.at \in ResponseLeaves, op.intent = "run", PublishResponse
  PROVE  Advanced
  <1>1. CASE Placed("may_finish")
    BY <1>1, PlacedAdvanced
  <1>2. CASE Fault("aborted_running")
    BY <1>2, FaultAdvanced
  <1>3. CASE Overflowed
    <2>1. compactions["overflow"] = 0 /\ "overflow" \in Reasons
      BY <1>3 DEF Overflowed, Leads, LeafInv, LeafOK, Guards, Reasons
    <2> QED
      BY <1>3, <2>1, DecidingAdvanced DEF Overflowed
  <1>4. CASE Triggered(Leaf("deferred.suspended"))
    <2>1. Matches(Leaf("deferred.suspended"))
      BY LeafFields DEF Leads, Matches, SummaryLeaves
    <2> QED
      BY <1>4, <2>1, LeafFields, TriggeredAdvanced DEF Leads
  <1>5. CASE Retryable
    BY <1>5, RetryWaitAdvanced DEF Retryable
  <1>6. CASE ToolCalls
    <2> DEFINE next == [Leaf("tools") EXCEPT !.turns = @ + 1]
    <2>1. next.id = op.id /\ next.intent = "run" /\ next.at = "tools"
      BY SMT DEF Leads, TypeOK, OpRecords, Leaf
    <2>2. Triggered(next)
      BY <1>6 DEF ToolCalls
    <2> HIDE DEF next
    <2>3. Matches(next)
      BY <2>1 DEF Matches, SummaryLeaves
    <2> QED
      BY <2>1, <2>2, <2>3, TriggeredAdvanced
  <1>7. CASE Finish("failed")
    BY <1>7, FinishAdvanced
  <1> QED
    BY <1>1, <1>2, <1>3, <1>4, <1>5, <1>6, <1>7 DEF PublishResponse

\* An intent is stored, and its effect goes to the gate.
LEMMA AnnounceAdvanced ==
  ASSUME Leads, ~op.cancelled, drive.id # None, NEW next, NEW effect \in Effects,
         Announce(next, effect), next.id = op.id, LeafOK(next, compactions),
         next.at \in LeavesOf(effect), effect \notin {"before_run_end", "finish"}
  PROVE  Advanced
  <1>1. drive'.stage = effect
    BY AtFields DEF Leads, TypeOK, Announce, Then
  <1>2. op' = next /\ asked' = 0 /\ compactions' = compactions
    BY DEF Announce, Commit
  <1> QED
    BY <1>1, <1>2 DEF Leads, Advanced, StageFits, RequestIsNew

LEMMA PlannerAdvanced == TypeOK /\ Owned /\ LeafInv /\ PlannerStep => Advanced
  <1> SUFFICES ASSUME TypeOK, Owned, LeafInv, PlannerStep PROVE Advanced
    OBVIOUS
  <1>a. drive.id # None /\ drive.pc = "queued" /\ op.id = drive.id
    BY PlannerHead, NoStepBehind DEF Owned, DriveOwnsOperation
  <1>b. Leads /\ op.at \in LeavesOf(drive.stage) /\ op \in OpRecords /\ drive \in Drives
        /\ (drive.stage \in {"before_run_end", "finish"} /\ op.at # "checkpoint" =>
              op.task = "threshold")
    BY <1>a DEF Leads, LeafInv, StageFits, InProcedure, TypeOK
  <1>c. \A stage : Settles(stage) => drive.stage = stage
    BY DEF Settles, Planning
  <1>d. \A stage : Continues(stage) => drive.stage = stage /\ ~op.cancelled
    BY <1>c DEF Continues
  <1>1. CASE SkipCancelled
    BY <1>1, <1>b, LoopAdvanced DEF SkipCancelled, durable, history, Leads, LeafInv
  <1>2. CASE StartRun
    <2> DEFINE next == [op EXCEPT !.at = "checkpoint", !.cont = "need_assistant"]
    <2>1. op.at = "starting"
      BY <1>2, <1>b, <1>d DEF StartRun, LeavesOf
    <2>2. next.id = op.id /\ next.intent = op.intent /\ next.at = "checkpoint"
      BY <1>b, SMT DEF OpRecords
    <2>3. Move(next)
      BY <1>2 DEF StartRun
    <2> HIDE DEF next
    <2>4. LeafOK(next, compactions)
      BY <2>1, <2>2 DEF LeafInv, LeafOK, Matches, Guards, Generating, SummaryLeaves
    <2> QED
      BY <1>b, <2>2, <2>3, <2>4, MoveAdvanced
  <1>3. CASE Checkpoint
    <2>1. op.at = "checkpoint"
      BY <1>3, <1>b, <1>d DEF Checkpoint, LeavesOf
    <2>2. op.intent = "run" /\ compactions["overflow"] = 0
          /\ (op.guarded \/ compactions["threshold"] = 0)
      BY <2>1 DEF LeafInv, LeafOK, Matches, Guards, Generating, SummaryLeaves
    <2>3. CASE Renewed
      BY <1>b, <2>2, <2>3, RenewedAdvanced
    <2>4. CASE ~op.guarded /\ Deciding("threshold", op.cont, op.ovf)
      <3>1. "threshold" \in Reasons /\ op.ovf \in BOOLEAN
        BY <1>b, SMT DEF Reasons, OpRecords
      <3> QED
        BY <1>b, <2>2, <2>4, <3>1, DecidingAdvanced
    <2>5. CASE Move(Ready(op.ovf))
      <3>1. LeafOK(Ready(op.ovf), compactions)
        BY <2>2, ReadyFields DEF LeafInv, LeafOK, Matches, Guards, Generating, SummaryLeaves
      <3> QED
        BY <1>b, <2>5, <3>1, ReadyFields, MoveAdvanced
    <2>6. CASE AskRunEnd
      BY <1>a, <1>b, <2>1, <2>6, AskRunEndAdvanced
    <2> QED
      BY <1>3, <2>3, <2>4, <2>5, <2>6 DEF Checkpoint
  <1>4. CASE FinishRun
    <2>1. op.intent = "run"
      <3>1. drive.stage = "finish"
        BY <1>4, <1>d DEF FinishRun
      <3>2. op.at = "checkpoint" \/ (op.at \in SummaryLeaves /\ op.task = "threshold")
        BY <3>1, <1>b DEF LeavesOf, SummaryLeaves
      <3> QED
        BY <3>2 DEF LeafInv, LeafOK, Matches, SummaryLeaves
    <2> QED
      BY <1>4, <1>b, <2>1, RenewedAdvanced, FinishAdvanced DEF FinishRun
  <1>5. CASE PublishIntent
    <2> DEFINE next == [op EXCEPT !.at = "assistant.effect_pending"]
    <2>1. op.at = "assistant.ready" /\ ~op.cancelled
      BY <1>5, <1>b, <1>d DEF PublishIntent, LeavesOf
    <2>2. /\ next.id = op.id /\ next.intent = op.intent /\ next.at = "assistant.effect_pending"
          /\ next.ovf = op.ovf
      BY <1>b, SMT DEF OpRecords
    <2>3. Announce(next, "transform_context")
      BY <1>5 DEF PublishIntent
    <2> HIDE DEF next
    <2>4. LeafOK(next, compactions)
      BY <2>1, <2>2 DEF LeafInv, LeafOK, Matches, Guards, Generating, SummaryLeaves
    <2>5. "transform_context" \in Effects /\ next.at \in LeavesOf("transform_context")
      BY <2>2 DEF Effects, Hooks, LeavesOf
    <2> QED
      BY <1>a, <1>b, <2>1, <2>2, <2>3, <2>4, <2>5, AnnounceAdvanced
  <1>6. CASE PublishPollIntent
    <2>1. op.at \in {"deferred.suspended", "deferred.effect_pending"} /\ ~op.cancelled
      BY <1>6, <1>b, <1>d DEF PublishPollIntent, LeavesOf
    <2>2. op'.id = op.id /\ op'.intent = op.intent /\ op'.at = "deferred.effect_pending"
      BY <1>6, <1>b, SMT DEF OpRecords, PublishPollIntent, Commit
    <2>3. drive'.stage = "poll" /\ asked' = 0 /\ compactions' = compactions
      BY <1>6, <1>b, SMT DEF Drives, At, PublishPollIntent
    <2>4. LeafOK(op', compactions')
      BY <2>1, <2>2, <2>3 DEF LeafInv, LeafOK, Matches, Guards, Generating, SummaryLeaves
    <2> QED
      BY <1>b, <2>1, <2>2, <2>3, <2>4 DEF Leads, Advanced, StageFits, RequestIsNew, LeavesOf
  <1>7. CASE ConfigurationFailure
    BY <1>7, <1>b, FinishAdvanced DEF ConfigurationFailure
  <1>8. CASE PublishResponse
    <2>1. op.at \in ResponseLeaves
      BY <1>8, <1>b, <1>c DEF PublishResponse, LeavesOf
    <2>2. op.intent = "run"
      BY <2>1 DEF LeafInv, LeafOK, Matches, ResponseLeaves, SummaryLeaves
    <2> QED
      BY <1>8, <1>b, <2>1, <2>2, ResponseAdvanced
  <1>9. CASE RecoverResponse
    <2>1. op.at = "assistant.effect_pending"
      BY <1>9, <1>b, <1>c DEF RecoverResponse, LeavesOf
    <2>2. op.intent = "run"
      BY <2>1 DEF LeafInv, LeafOK, Matches, SummaryLeaves
    <2> QED
      BY <1>9, <1>b, <2>1, <2>2, PlacedAdvanced, RetryWaitAdvanced, FinishAdvanced
      DEF RecoverResponse, Retryable
  <1>10. CASE RetryReady
    <2> DEFINE next == [op EXCEPT !.at = IF @ = "assistant.retry_wait" THEN "assistant.ready"
                                         ELSE "summary.ready"]
    <2>1. op.at \in {"assistant.retry_wait", "summary.retry_wait"}
      BY <1>10, <1>b, <1>d DEF RetryReady, LeavesOf
    <2>2. /\ next.id = op.id /\ next.intent = op.intent
          /\ next.at = (IF op.at = "assistant.retry_wait" THEN "assistant.ready" ELSE "summary.ready")
          /\ next.task = op.task /\ next.cont = op.cont /\ next.ovf = op.ovf
      BY <1>b, SMT DEF OpRecords
    <2>3. Move(next)
      BY <1>10 DEF RetryReady
    <2> HIDE DEF next
    <2>4. LeafOK(next, compactions)
      BY <2>1, <2>2 DEF LeafInv, LeafOK, Matches, Guards, Generating, SummaryLeaves
    <2> QED
      BY <1>b, <2>2, <2>3, <2>4, MoveAdvanced
  <1>11. CASE ToolsDone
    <2>1. op.intent = "run"
      BY <1>11, <1>b, <1>c DEF ToolsDone, LeavesOf, LeafInv, LeafOK, Matches, SummaryLeaves
    <2> QED
      BY <1>11, <1>b, <2>1, PlacedAdvanced DEF ToolsDone
  <1>12. CASE Decide
    <2> DEFINE next == [op EXCEPT !.at = "summary.ready", !.attempt = 1]
    <2>1. op.at = "summary.deciding" /\ op.at \in SummaryLeaves
      BY <1>12, <1>b, <1>d DEF Decide, LeavesOf, SummaryLeaves
    <2>2. /\ next.id = op.id /\ next.intent = op.intent /\ next.at = "summary.ready"
          /\ next.task = op.task /\ next.cont = op.cont /\ next.ovf = op.ovf
      BY <1>b, SMT DEF OpRecords
    <2>3. CASE Move(next)
      <3> HIDE DEF next
      <3>1. LeafOK(next, compactions)
        BY <2>1, <2>2 DEF LeafInv, LeafOK, Matches, Guards, Generating, SummaryLeaves
      <3> QED
        BY <1>b, <2>2, <2>3, <3>1, MoveAdvanced
    <2> QED
      BY <1>12, <1>a, <1>b, <2>1, <2>3, SummarisedAdvanced, DeclinedAdvanced DEF Decide
  <1>13. CASE PublishAttemptIntent
    <2> DEFINE next == [op EXCEPT !.at = "summary.effect_pending", !.requests = 0]
    <2>1. op.at = "summary.ready" /\ ~op.cancelled
      BY <1>13, <1>b, <1>d DEF PublishAttemptIntent, LeavesOf
    <2>2. /\ next.id = op.id /\ next.intent = op.intent /\ next.at = "summary.effect_pending"
          /\ next.task = op.task /\ next.cont = op.cont /\ next.ovf = op.ovf
      BY <1>b, SMT DEF OpRecords
    <2>3. Announce(next, "before_summary_request")
      BY <1>13 DEF PublishAttemptIntent
    <2> HIDE DEF next
    <2>4. LeafOK(next, compactions)
      BY <2>1, <2>2 DEF LeafInv, LeafOK, Matches, Guards, Generating, SummaryLeaves
    <2>5. /\ "before_summary_request" \in Effects
          /\ next.at \in LeavesOf("before_summary_request")
      BY <2>2 DEF Effects, Hooks, LeavesOf
    <2> QED
      BY <1>a, <1>b, <2>1, <2>2, <2>3, <2>4, <2>5, AnnounceAdvanced
  <1>14. CASE PublishNestedIntent
    <2>1. op.at = "summary.effect_pending" /\ ~op.cancelled
      BY <1>14, <1>b, <1>d DEF PublishNestedIntent, LeavesOf
    <2>2. "summary_provider" \in Effects /\ op.at \in LeavesOf("summary_provider")
      BY <2>1 DEF Effects, Requests, LeavesOf
    <2> QED
      BY <1>14, <1>a, <1>b, <2>1, <2>2, AnnounceAdvanced DEF PublishNestedIntent, LeafInv
  <1>15. CASE PublishNestedOutcome
    <2>1. op.at = "summary.effect_pending"
      BY <1>15, <1>b, <1>c DEF PublishNestedOutcome, LeavesOf
    <2>2. /\ op'.id = op.id /\ op'.intent = op.intent /\ op'.at = op.at /\ op'.task = op.task
          /\ op'.cont = op.cont /\ op'.ovf = op.ovf /\ op'.guarded = op.guarded
      BY <1>15, <1>b, SMT DEF OpRecords, PublishNestedOutcome, Commit
    <2>3. asked' = asked /\ compactions' = compactions
      BY <1>15 DEF PublishNestedOutcome, history
    <2>4. drive'.stage \in {"before_summary_request", "attempt_result"}
      BY <1>15, <1>b, AtFields DEF PublishNestedOutcome, Then
    <2>5. LeafOK(op', compactions')
      BY <2>2, <2>3 DEF LeafInv, LeafOK, Matches, Guards
    <2> QED
      BY <1>b, <2>1, <2>2, <2>3, <2>4, <2>5
      DEF Leads, LeafInv, Advanced, StageFits, RequestIsNew, LeavesOf, Requests, Asking
  <1>16. CASE PublishAttemptResult
    <2>1. op.at = "summary.effect_pending" /\ op.at \in SummaryLeaves
      BY <1>16, <1>b, <1>d DEF PublishAttemptResult, LeavesOf, SummaryLeaves
    <2> QED
      BY <1>16, <1>a, <1>b, <2>1, SummarisedAdvanced, RetryWaitAdvanced, FinishAdvanced, FaultAdvanced
      DEF PublishAttemptResult
  <1>17. CASE RecoverAttempt
    <2>1. op.at = "summary.effect_pending"
      BY <1>17, <1>b, <1>d DEF RecoverAttempt, LeavesOf
    <2> QED
      BY <1>17, <1>b, <2>1, RetryWaitAdvanced, FinishAdvanced DEF RecoverAttempt
  <1>18. CASE CommitNavigation
    BY <1>18, <1>b, FinishAdvanced DEF CommitNavigation
  <1>19. CASE PublishAborted
    BY <1>19, <1>b, FinishAdvanced DEF PublishAborted
  <1> QED
    BY <1>1, <1>2, <1>3, <1>4, <1>5, <1>6, <1>7, <1>8, <1>9, <1>10, <1>11, <1>12, <1>13,
       <1>14, <1>15, <1>16, <1>17, <1>18, <1>19 DEF PlannerStep

-----------------------------------------------------------------------------
(* The order of aborts and planners on the line. *)

LEMMA AbortsAppended ==
  ASSUME NEW l \in Seq(Jobs), NEW x, NEW o, x.kind = "abort" => x.id # o
  PROVE  AbortsFor(Append(l, x), o) \subseteq AbortsFor(l, o)
  BY AppendElements, SMT DEF AbortsFor

LEMMA AbortsInTail ==
  ASSUME NEW l \in Seq(Jobs), l # <<>>, NEW o, NEW j \in AbortsFor(Tail(l), o)
  PROVE  j \in Nat /\ j + 1 \in AbortsFor(l, o)
  BY TailElements, SMT DEF AbortsFor

\* Nothing happens to the pass; the line loses its head or not, and gains a job
\* or not that is no planner's and no abort of the pass's operation.
LEMMA SeenKept ==
  ASSUME TypeOK, AbortsSeen, drive'.id = drive.id, drive'.pc = drive.pc, drive'.stage = drive.stage,
         drive'.gate = "open" => drive.gate = "open",
         drive.pc \in {"admit", "effect"} /\ drive.stage \in Asking => op'.cancelled = op.cancelled,
         NEW job, job.kind # "step", job.kind = "abort" => job.id # drive.id,
         \/ line' = line \/ line' = Append(line, job)
         \/ line # <<>> /\ (line' = Tail(line) \/ line' = Append(Tail(line), job))
  PROVE  AbortsSeen'
  <1> SUFFICES ASSUME drive.id # None, drive.gate = "open", drive'.gate = "open"
               PROVE  AbortsSeen'
    BY DEF AbortsSeen
  <1> DEFINE Ordered(l) == \A i \in 1..Len(l), j \in AbortsFor(l, drive.id) : IsStep(l, i) => j < i
             Silent(l) == AbortsFor(l, drive.id) = {}
  <1>0. line \in Seq(Jobs)
    BY DEF TypeOK
  <1>1. ASSUME NEW l \in Seq(Jobs), Ordered(l) PROVE Ordered(Append(l, job))
    <2> SUFFICES ASSUME NEW i \in 1..Len(Append(l, job)), NEW j \in AbortsFor(Append(l, job), drive.id),
                        IsStep(Append(l, job), i)
                 PROVE  j < i
      OBVIOUS
    <2>1. j \in AbortsFor(l, drive.id)
      BY AbortsAppended
    <2>2. IsStep(l, i)
      BY StepAppended
    <2> QED
      BY <1>1, <2>1, <2>2 DEF IsStep
  <1>2. ASSUME NEW l \in Seq(Jobs), l # <<>>, Ordered(l) PROVE Ordered(Tail(l))
    <2> SUFFICES ASSUME NEW i \in 1..Len(Tail(l)), NEW j \in AbortsFor(Tail(l), drive.id), IsStep(Tail(l), i)
                 PROVE  j < i
      OBVIOUS
    <2>1. j \in Nat /\ j + 1 \in AbortsFor(l, drive.id)
      BY <1>2, AbortsInTail
    <2>2. i \in Nat /\ IsStep(l, i + 1)
      BY <1>2, StepInTail
    <2>3. j + 1 < i + 1
      BY <1>2, <2>1, <2>2 DEF IsStep
    <2> QED
      BY <2>1, <2>2, <2>3
  <1>3. ASSUME NEW l \in Seq(Jobs), Silent(l) PROVE Silent(Append(l, job))
    BY <1>3, AbortsAppended
  <1>4. ASSUME NEW l \in Seq(Jobs), l # <<>>, Silent(l) PROVE Silent(Tail(l))
    BY <1>4, AbortsInTail
  <1>5. line # <<>> => Tail(line) \in Seq(Jobs)
    BY <1>0, TailElements
  <1>6. Ordered(line) /\ (drive.pc \in {"admit", "effect"} /\ drive.stage \in Asking =>
                            ~op.cancelled /\ Silent(line))
    BY DEF AbortsSeen
  <1> HIDE DEF Ordered, Silent
  <1>7. Ordered(line') /\ (Silent(line) => Silent(line'))
    BY <1>0, <1>1, <1>2, <1>3, <1>4, <1>5, <1>6
  <1> QED
    BY <1>6, <1>7 DEF AbortsSeen, Ordered, Silent

\* A planner queued behind what is on the line.
LEMMA SeenQueued ==
  ASSUME TypeOK, \A i : ~IsStep(line, i), drive'.id = drive.id, drive'.pc = "queued",
         line' = Append(line, Step)
  PROVE  AbortsSeen'
  <1>1. line \in Seq(Jobs) /\ Len(line) \in Nat /\ Step.kind # "abort"
    BY DEF TypeOK, Step
  <1>2. ASSUME NEW i, IsStep(line', i) PROVE i = Len(line) + 1
    BY <1>1, <1>2, StepAppended
  <1>3. AbortsFor(line', drive.id) \subseteq 1..Len(line)
    BY <1>1, AbortsAppended DEF AbortsFor
  <1>4. ASSUME NEW i \in 1..Len(line'), NEW j \in AbortsFor(line', drive.id), IsStep(line', i)
        PROVE  j < i
    BY <1>1, <1>2, <1>3, <1>4
  <1> QED
    BY <1>4 DEF AbortsSeen

LEMMA SeenPlanner == TypeOK /\ Owned /\ LeafInv /\ PlannerStep => AbortsSeen'
  <1> SUFFICES ASSUME TypeOK, Owned, LeafInv, PlannerStep, drive'.id # None, drive'.gate = "open"
               PROVE  AbortsSeen'
    BY DEF AbortsSeen
  <1>1. /\ HeadIs("step") /\ line \in Seq(Jobs) /\ line # <<>> /\ Tail(line) \in Seq(Jobs)
        /\ drive \in Drives
    BY PlannerHead, TailElements DEF HeadIs, TypeOK
  <1>2. \A i : ~IsStep(Tail(line), i)
    BY <1>1, NoStepBehind DEF Owned
  <1>3. IsStep(line, 1) /\ 1 \in 1..Len(line)
    BY <1>1, SMT DEF HeadIs, IsStep
  <1>4. ASSUME drive.id # None, drive.gate = "open" PROVE AbortsFor(Tail(line), drive.id) = {}
    <2>1. \A j \in AbortsFor(line, drive.id) : j < 1
      BY <1>3, <1>4 DEF LeafInv, AbortsSeen
    <2>2. \A j \in AbortsFor(line, drive.id) : j \in 1..Len(line)
      BY DEF AbortsFor
    <2>3. AbortsFor(line, drive.id) = {}
      BY <2>1, <2>2
    <2> QED
      BY <1>1, <2>3, AbortsInTail
  <1>5. CASE GoesOn
    <2>1. drive'.id = drive.id /\ drive.gate = "open" /\ op'.cancelled = op.cancelled
      BY <1>5 DEF GoesOn
    <2>2. AbortsFor(line', drive.id) = {}
      <3>1. Step.kind # "abort"
        BY DEF Step
      <3> QED
        BY <1>1, <1>4, <1>5, <2>1, <3>1, AbortsAppended DEF GoesOn
    <2>3. drive'.pc \in {"admit", "effect"} /\ drive'.stage \in Asking => ~op.cancelled
      BY <1>5, PlannerAdvanced DEF GoesOn, Advanced
    <2> QED
      BY <2>1, <2>2, <2>3 DEF AbortsSeen
  <1>6. CASE Finishes
    <2>1. drive'.id = drive.id /\ drive'.gate = drive.gate /\ drive'.pc = "ended" /\ line' = Tail(line)
      BY <1>1, <1>6, AtFields DEF Finishes, Finish
    <2> QED
      BY <1>4, <2>1 DEF AbortsSeen
  <1>7. CASE FaultsAborted
    BY <1>7, NoDriveFields DEF FaultsAborted, Fault
  <1> QED
    BY <1>5, <1>6, <1>7, PlannerShape

-----------------------------------------------------------------------------
(* The drive loop. *)

LEMMA FirstStagesFit ==
  ASSUME TypeOK, NEW stage \in FirstStages
  PROVE  /\ op.at \in LeavesOf(stage)
         /\ stage \notin Asking /\ stage \notin {"before_run_end", "finish"}
  <1>1. op.at \in Leaves
    BY DEF TypeOK, OpRecords
  <1>2. CASE op.at \in SummaryLeaves
    BY <1>1, <1>2 DEF FirstStages, Orphan, SummaryLeaves, LeavesOf, Requests, Asking
  <1>3. CASE op.at \in ResponseLeaves
    BY <1>3 DEF FirstStages, Orphan, ResponseLeaves, LeavesOf, Requests, Asking, Leaves
  <1>4. CASE op.at \notin SummaryLeaves \cup ResponseLeaves
    BY <1>1, <1>4 DEF FirstStages, Orphan, LeavesOf, Requests, Asking, Leaves
  <1> QED
    BY <1>2, <1>3, <1>4

LEMMA ReconcileFits ==
  ASSUME TypeOK
  PROVE  /\ op.at \in LeavesOf(ReconcileStage)
         /\ ReconcileStage \notin Asking \cup {"before_run_end", "finish"}
  <1>1. op.at \in Leaves
    BY DEF TypeOK, OpRecords
  <1> QED
    BY <1>1 DEF ReconcileStage, LeavesOf, Requests, Asking, ResponseLeaves

LEMMA NextStageFits ==
  ASSUME TypeOK, PointsOK, StageFits, drive.id # None, drive.pc = "effect",
         drive.stage # "before_drive"
  PROVE  /\ op.at \in LeavesOf(NextStage)
         /\ NextStage \in Asking => NextStage = "provider" /\ drive.stage = "transform_context"
         /\ NextStage = "finish" => drive.stage = "before_run_end"
         /\ NextStage # "before_run_end"
  <1>1. drive.stage \in Effects /\ op.at \in LeavesOf(drive.stage) /\ op.at \in Leaves
    BY DEF PointsOK, StageFits, InProcedure, TypeOK, OpRecords
  <1>2. CASE drive.stage \in Hooks
    BY <1>1, <1>2 DEF Hooks, LeavesOf, NextStage, Requests, Asking
  <1>3. CASE drive.stage \in Requests
    BY <1>1, <1>3 DEF Requests, Asking, LeavesOf, NextStage, ResponseLeaves
  <1>4. CASE drive.stage \in {"timer", "tools"}
    BY <1>1, <1>4 DEF Requests, Asking, LeavesOf, NextStage
  <1>5. CASE drive.stage = "cancel_deferred"
    BY <1>1, <1>5 DEF Requests, Asking, LeavesOf, NextStage, ResponseLeaves
  <1> QED
    BY <1>1, <1>2, <1>3, <1>4, <1>5 DEF Effects

LEMMA LeafDrive == TypeOK /\ PointsOK /\ Owned /\ LeafInv /\ DriveStep => LeafInv'
  <1> SUFFICES ASSUME TypeOK, PointsOK, Owned, LeafInv, DriveStep PROVE LeafInv'
    OBVIOUS
  <1>a. drive \in Drives /\ op \in OpRecords
    BY DEF TypeOK
  <1>b. op' = op /\ compactions' = compactions
    BY DEF DriveStep, Dispatch, Reconcile, Admit, CancellationSettled, EffectDone, PassEnds, Fault,
       durable, history
  <1>c. drive.id # None /\ drive.pc # "queued" /\ \A i : ~IsStep(line, i)
    <2>1. drive.id # None /\ drive.pc # "queued"
      BY DEF DriveStep, Dispatch, Reconcile, Admit, CancellationSettled, EffectDone, PassEnds, Pass
    <2> QED
      BY <2>1, NoStep DEF Owned
  <1>d. ASSUME StageFits', RequestIsNew', AbortsSeen' PROVE LeafInv'
    BY <1>b, <1>d DEF LeafInv
  <1>e. ASSUME line' = line, drive'.pc \notin {"admit", "effect"} PROVE AbortsSeen'
    <2>1. \A i : ~IsStep(line', i)
      BY <1>c, <1>e
    <2> QED
      BY <1>e, <2>1 DEF AbortsSeen
  <1>1. CASE Dispatch
    <2>1. PICK stage \in FirstStages : Enter(stage)
      BY <1>1 DEF Dispatch
    <2>2. /\ drive'.id = drive.id /\ drive'.stage = stage
          /\ \/ drive'.pc = "queued" /\ line' = Append(line, Step)
             \/ drive'.pc \in {"admit", "effect", "ended"} /\ line' = line
      BY <2>1, <1>a, AtFields DEF Enter
    <2>3. asked' = asked
      BY <1>1 DEF Dispatch, history
    <2>4. StageFits' /\ RequestIsNew'
      BY <1>b, <2>2, <2>3, FirstStagesFit DEF LeafInv, StageFits, RequestIsNew, Asking
    <2>5. AbortsSeen'
      <3>1. CASE drive'.pc = "queued" /\ line' = Append(line, Step)
        BY <1>c, <2>2, <3>1, SeenQueued
      <3>2. CASE line' = line
        <4>1. \A i : ~IsStep(line', i)
          BY <1>c, <3>2
        <4> QED
          BY <2>2, <4>1, FirstStagesFit DEF AbortsSeen
      <3> QED
        BY <2>2, <3>1, <3>2
    <2> QED
      BY <1>d, <2>4, <2>5
  <1>2. CASE Reconcile
    <2>1. drive'.id = drive.id /\ drive'.stage = ReconcileStage /\ drive'.gate # "open"
      BY <1>2, <1>a, SMT DEF Reconcile, Drives
    <2>2. asked' = asked
      BY <1>2 DEF Reconcile, history
    <2>3. StageFits' /\ RequestIsNew' /\ AbortsSeen'
      BY <1>b, <2>1, <2>2, ReconcileFits
      DEF LeafInv, StageFits, RequestIsNew, Asking, AbortsSeen
    <2> QED
      BY <1>d, <2>3
  <1>3. CASE Admit
    <2>1. /\ drive'.id = drive.id /\ drive'.stage = drive.stage /\ drive'.gate = drive.gate
          /\ drive'.pc = (IF Admits THEN "effect" ELSE "await")
      BY <1>3, AdmitFields
    <2>2. drive.pc = "admit" /\ line' = line
      BY <1>3 DEF Admit, Pass
    <2>3. StageFits'
      BY <1>b, <2>1, <2>2 DEF LeafInv, StageFits, InProcedure
    <2>4. CASE Admits
      <3>1. asked' = IF drive.stage \in Requests THEN asked + 1 ELSE asked
        BY <1>3, <2>4 DEF Admit
      <3>2. RequestIsNew'
        BY <2>1, <2>2, <2>4, <3>1 DEF LeafInv, RequestIsNew, Requests
      <3>3. AbortsSeen'
        BY <1>b, <2>1, <2>2, <2>4 DEF LeafInv, AbortsSeen, IsStep
      <3> QED
        BY <1>d, <2>3, <3>2, <3>3
    <2>5. CASE ~Admits
      <3>1. asked' = asked
        BY <1>3, <2>5 DEF Admit
      <3> QED
        BY <1>d, <1>e, <2>1, <2>2, <2>3, <2>5, <3>1 DEF LeafInv, RequestIsNew
    <2> QED
      BY <2>4, <2>5
  <1>4. CASE CancellationSettled
    <2>1. asked' = asked /\ drive.pc = "await" /\ drive'.id = drive.id
      BY <1>4, SettledFields DEF CancellationSettled, Pass, history
    <2>2. CASE drive'.pc = "loop" /\ line' = line
      BY <1>d, <1>e, <2>1, <2>2 DEF LeafInv, StageFits, InProcedure, RequestIsNew
    <2>3. CASE /\ drive.stage = "after_response" /\ line' = Append(line, Step)
               /\ drive'.pc = "queued" /\ drive'.stage = "publish_response"
      <3>1. op.at \in LeavesOf("publish_response")
        BY <1>c, <2>1, <2>3 DEF LeafInv, StageFits, InProcedure, LeavesOf
      <3>2. StageFits' /\ RequestIsNew'
        BY <1>b, <2>1, <2>3, <3>1 DEF LeafInv, StageFits, RequestIsNew
      <3> QED
        BY <1>c, <1>d, <2>1, <2>3, <3>2, SeenQueued
    <2> QED
      BY <1>4, <2>2, <2>3, SettledFields
  <1>5. CASE EffectDone
    <2>1. asked' = asked /\ drive.pc = "effect"
      BY <1>5 DEF EffectDone, Pass, history
    <2>2. CASE /\ drive'.pc \in {"loop", "await"} /\ drive'.stage = drive.stage
               /\ drive'.id = drive.id /\ line' = line
      BY <1>b, <1>c, <1>d, <1>e, <2>1, <2>2 DEF LeafInv, StageFits, InProcedure, RequestIsNew
    <2>3. CASE /\ drive.stage # "before_drive" /\ drive'.stage = NextStage
               /\ drive'.id = drive.id /\ drive'.gate = drive.gate
               /\ drive'.pc = (IF NextStage \in Effects THEN "admit" ELSE "queued")
               /\ line' = IF NextStage \in Effects THEN line ELSE Append(line, Step)
      <3>1. /\ op.at \in LeavesOf(NextStage) /\ NextStage # "before_run_end"
            /\ NextStage \in Asking => NextStage = "provider" /\ drive.stage = "transform_context"
            /\ NextStage = "finish" => drive.stage = "before_run_end"
        BY <1>c, <2>1, <2>3, NextStageFits DEF LeafInv
      <3>2. StageFits'
        BY <1>b, <1>c, <2>1, <2>3, <3>1 DEF LeafInv, StageFits, InProcedure
      <3>3. RequestIsNew'
        BY <2>1, <2>3, <3>1 DEF LeafInv, RequestIsNew, Asking
      <3>4. AbortsSeen'
        <4>1. CASE NextStage \in Effects
          <5>1. \A i : ~IsStep(line', i)
            BY <1>c, <2>3, <4>1
          <5> QED
            BY <1>b, <2>1, <2>3, <3>1, <4>1, <5>1 DEF LeafInv, AbortsSeen, Asking
        <4>2. CASE NextStage \notin Effects
          BY <1>c, <2>3, <4>2, SeenQueued
        <4> QED
          BY <4>1, <4>2
      <3> QED
        BY <1>d, <3>2, <3>3, <3>4
    <2> QED
      BY <1>5, <2>2, <2>3, EffectDoneFields
  <1>6. CASE PassEnds
    <2>1. drive' = NoDrive /\ asked' = asked
      BY <1>6 DEF PassEnds, Fault, history
    <2> QED
      BY <1>d, <2>1, NoDriveFields DEF LeafInv, StageFits, InProcedure, RequestIsNew, AbortsSeen
  <1> QED
    BY <1>1, <1>2, <1>3, <1>4, <1>5, <1>6 DEF DriveStep

-----------------------------------------------------------------------------
(* Clients, their jobs, stops and restarts. *)

LEMMA LeafStays ==
  ASSUME LeafInv, UNCHANGED <<op, asked, compactions>>, AbortsSeen',
         \/ drive'.id = drive.id /\ drive'.pc = drive.pc /\ drive'.stage = drive.stage
         \/ drive'.pc \notin {"admit", "effect", "await", "queued"}
         \/ drive'.stage = "before_drive" /\ op.at \in Leaves
  PROVE  LeafInv'
  <1>1. LeavesOf("before_drive") = Leaves
    BY DEF LeavesOf
  <1> QED
    BY <1>1 DEF LeafInv, StageFits, InProcedure, RequestIsNew, Requests

LEMMA LeafOthers ==
  TypeOK /\ Owned /\ Signalled /\ LeafInv
  /\ (ClientCall \/ RunAccept \/ RunClaim \/ RunAbort \/ AbortReturns \/ Stop \/ Restart)
  => LeafInv'
  <1> SUFFICES ASSUME TypeOK, Owned, Signalled, LeafInv,
                      ClientCall \/ RunAccept \/ RunClaim \/ RunAbort \/ AbortReturns
                      \/ Stop \/ Restart
               PROVE  LeafInv'
    OBVIOUS
  <1>a. drive \in Drives /\ op \in OpRecords /\ line \in Seq(Jobs) /\ op.at \in Leaves
    BY DEF TypeOK, OpRecords
  <1>b. \A o, mode : Claim(o, mode).kind \notin {"step", "abort"}
    BY DEF Claim
  <1>1. CASE ClientCall
    <2>1. /\ drive'.id = drive.id /\ drive'.pc = drive.pc /\ drive'.stage = drive.stage /\ op' = op
          /\ drive'.gate = "open" => drive.gate = "open"
      BY <1>1, <1>a, CallShape, SMT DEF Drives
    <2>2. drive'.gate = "open" /\ drive.id # None =>
            \E job : /\ line' = Append(line, job) /\ job.kind # "step"
                     /\ job.kind = "abort" => job.id # drive.id
      <3>1. CASE \E o \in Ops, drives \in BOOLEAN : AbortCall(o, drives)
        <4>1. PICK o \in Ops, drives \in BOOLEAN : AbortCall(o, drives)
          BY <3>1
        <4> DEFINE job == [kind |-> "abort", id |-> o, drives |-> drives, holds |-> drive.id = o,
                           owns |-> drive.id = o /\ drive.gate = "open"]
        <4>2. job.id = o /\ job.kind = "abort"
          OBVIOUS
        <4>3. line' = Append(line, job)
          BY <4>1 DEF AbortCall, Enqueue
        <4> HIDE DEF job
        <4>4. drive'.gate = "open" => drive.id # o
          BY <4>1, <1>a, SMT DEF AbortCall, ShutGate, Drives
        <4> QED
          BY <4>2, <4>3, <4>4
      <3>2. CASE \E o \in Ops, intent \in Requested, drives \in BOOLEAN :
                   AcceptCall(o, intent, drives)
        BY <3>2 DEF AcceptCall, Enqueue
      <3>3. CASE \E o \in Ops, mode \in Modes \ {"prompt"} : DriveCall(o, mode)
        BY <1>b, <3>3 DEF DriveCall, Enqueue
      <3> QED
        BY <1>1, <3>1, <3>2, <3>3 DEF ClientCall
    <2>3. AbortsSeen'
      <3>1. CASE drive'.gate = "open" /\ drive.id # None
        BY <2>1, <2>2, <3>1, SeenKept DEF LeafInv
      <3>2. CASE ~(drive'.gate = "open" /\ drive.id # None)
        BY <2>1, <3>2 DEF AbortsSeen
      <3> QED
        BY <3>1, <3>2
    <2>4. asked' = asked /\ compactions' = compactions
      BY <1>1 DEF ClientCall, AcceptCall, DriveCall, AbortCall, history
    <2> QED
      BY <2>1, <2>3, <2>4, LeafStays
  <1>2. CASE RunAccept
    <2>1. /\ UNCHANGED <<drive, asked, compactions>> /\ line # <<>>
          /\ \E job : /\ line' = Tail(line) \/ line' = Append(Tail(line), job)
                      /\ job.kind \notin {"step", "abort"}
      BY <1>2, <1>b DEF RunAccept, HeadIs, history
    <2>2. CASE op' = op
      BY <2>1, <2>2, SeenKept, LeafStays DEF LeafInv
    <2>3. CASE op.id = None /\ (\E first \in FirstLeaves(line[1].intent) :
                                  op' = Accepted(line[1].id, line[1].intent, first[1], first[2]))
      <3>1. drive.pc = "ended"
        BY <2>3 DEF Owned, DriveOwnsOperation, Signalled
      <3>2. line[1] \in AcceptJobs
        BY <1>2, HeadTyped DEF RunAccept
      <3>3. line[1].id \in Ops /\ line[1].intent \in Intents
        BY <3>2, SMT DEF AcceptJobs
      <3>4. PICK first \in FirstLeaves(line[1].intent) :
              op' = Accepted(line[1].id, line[1].intent, first[1], first[2])
        BY <2>3
      <3>5. /\ op'.id \in Ops /\ op'.intent = line[1].intent /\ op'.at = first[1]
            /\ op'.task = first[2]
        BY <3>3, <3>4 DEF Accepted
      <3>6. Matches(op')
        <4>1. CASE op'.intent = "run"
          BY <3>4, <3>5, <4>1, SMT DEF FirstLeaves, Matches, SummaryLeaves
        <4>2. CASE op'.intent = "compaction"
          BY <3>4, <3>5, <4>2, SMT DEF FirstLeaves, Matches, SummaryLeaves
        <4>3. CASE op'.intent = "navigation"
          BY <3>4, <3>5, <4>3, SMT DEF FirstLeaves, Matches, SummaryLeaves
        <4> QED
          BY <3>3, <3>5, <4>1, <4>2, <4>3 DEF Intents
      <3>7. compactions["threshold"] = 0 /\ compactions["overflow"] = 0
        BY <2>3 DEF LeafInv, LeafOK, Guards, NoOp, Accepted, SummaryLeaves, Generating
      <3>8. LeafOK(op', compactions')
        BY <2>1, <3>6, <3>7 DEF LeafOK, Guards
      <3>9. AbortsSeen'
        BY <2>1, <3>1, SeenKept DEF LeafInv
      <3> QED
        BY <2>1, <3>1, <3>5, <3>8, <3>9, NoneAssumption
        DEF LeafInv, StageFits, InProcedure, RequestIsNew
    <2> QED
      BY <1>2, <2>2, <2>3 DEF RunAccept, durable
  <1>3. CASE RunClaim
    <2>1. UNCHANGED <<op, asked, compactions>> /\ line # <<>> /\ line' = Tail(line)
      BY <1>3 DEF RunClaim, HeadIs, durable, history
    <2>2. CASE drive' = drive
      BY <1>b, <2>1, <2>2, SeenKept, LeafStays DEF LeafInv
    <2>3. CASE drive' = [drive EXCEPT !.conv = @ \/ line[1].mode \in Convenience]
      <3>1. /\ drive'.id = drive.id /\ drive'.pc = drive.pc /\ drive'.gate = drive.gate
            /\ drive'.stage = drive.stage
        BY <2>3, <1>a, SMT DEF Drives
      <3> QED
        BY <1>b, <2>1, <3>1, SeenKept, LeafStays DEF LeafInv
    <2>4. CASE drive.id = None /\ drive' = Install(line[1].id, line[1].mode)
      <3>1. drive'.stage = "before_drive"
        BY <2>4 DEF Install, Installed
      <3>2. \A i : ~IsStep(Tail(line), i)
        BY <1>a, <2>1, <2>4, NoStep, StepInTail DEF Owned
      <3>3. AbortsSeen'
        BY <2>1, <3>1, <3>2 DEF AbortsSeen, Requests, Asking
      <3> QED
        BY <1>a, <2>1, <3>1, <3>3, LeafStays
    <2> QED
      BY <1>3, <2>2, <2>3, <2>4 DEF RunClaim
  <1>4. CASE RunAbort
    <2>1. /\ drive'.id = drive.id /\ drive'.pc = drive.pc /\ drive'.stage = drive.stage
          /\ drive'.gate = "open" => drive.gate = "open"
      BY <1>4, <1>a, SMT DEF RunAbort, Settled, Drives
    <2>2. line # <<>> /\ line[1].kind = "abort" /\ line[1].id \in Ops /\ 1 \in 1..Len(line)
      <3>1. line # <<>> /\ line[1].kind = "abort" /\ 1 \in 1..Len(line)
        BY <1>4, <1>a, SMT DEF RunAbort, HeadIs
      <3>2. line[1] \in Jobs
        BY <1>a, <3>1
      <3> QED
        BY <3>1, <3>2, SMT DEF Jobs, AcceptJobs, ClaimJobs, AbortJobs, StepJobs
    <2>3. /\ op'.id = op.id /\ op'.intent = op.intent /\ op'.at = op.at /\ op'.task = op.task
          /\ op'.cont = op.cont /\ op'.ovf = op.ovf /\ op'.guarded = op.guarded
          /\ op.id # line[1].id => op' = op
      BY <1>4, <1>a, SMT DEF RunAbort, OpRecords
    <2>4. asked' = asked /\ compactions' = compactions
      BY <1>4 DEF RunAbort, history
    <2>5. LeafOK(op', compactions') /\ (op'.id = None => op' = NoOp)
      BY <2>2, <2>3, <2>4, NoneAssumption DEF LeafInv, LeafOK, Matches, Guards
    <2>6. StageFits' /\ RequestIsNew'
      BY <2>1, <2>3, <2>4 DEF LeafInv, StageFits, InProcedure, RequestIsNew
    <2>7. AbortsSeen'
      <3> SUFFICES ASSUME drive.id # None, drive.gate = "open" PROVE AbortsSeen'
        BY <2>1 DEF AbortsSeen
      <3>1. drive.pc \in {"admit", "effect"} /\ drive.stage \in Asking =>
              op.cancelled = op'.cancelled
        <4>1. CASE line[1].id = drive.id
          <5>1. 1 \in AbortsFor(line, drive.id)
            BY <2>2, <4>1 DEF AbortsFor
          <5> QED
            BY <5>1 DEF LeafInv, AbortsSeen
        <4>2. CASE line[1].id # drive.id /\ drive.pc # "ended"
          BY <2>3, <4>2 DEF Owned, DriveOwnsOperation
        <4> QED
          BY <4>1, <4>2
      <3>2. line' = Tail(line)
        BY <1>4 DEF RunAbort
      <3> QED
        BY <1>b, <2>1, <2>2, <3>1, <3>2, SeenKept DEF LeafInv
    <2> QED
      BY <2>5, <2>6, <2>7 DEF LeafInv
  <1>5. CASE Stop
    <2>1. drive' = NoDrive /\ UNCHANGED <<op, asked, compactions>>
      BY <1>5 DEF Stop, durable, history
    <2> QED
      BY <2>1, NoDriveFields, LeafStays DEF AbortsSeen
  <1>6. CASE Restart
    BY <1>6 DEF Restart, durable, volatile, history, LeafInv, StageFits, InProcedure, RequestIsNew,
                AbortsSeen, IsStep
  <1>7. CASE AbortReturns
    <2>1. /\ drive'.id = drive.id /\ drive'.pc = drive.pc /\ drive'.stage = drive.stage
          /\ drive'.gate = "open" => drive.gate = "open"
      BY <1>7, <1>a, SMT DEF AbortReturns, Settled, Drives
    <2>2. UNCHANGED <<op, asked, compactions>>
          /\ (line' = line \/ line' = Append(line, Claim(returned[1].id, "drive")))
      BY <1>7 DEF AbortReturns, durable, history
    <2>3. AbortsSeen'
      BY <1>b, <2>1, <2>2, SeenKept DEF LeafInv
    <2> QED
      BY <2>1, <2>2, <2>3, LeafStays
  <1> QED
    BY <1>1, <1>2, <1>3, <1>4, <1>5, <1>6, <1>7

-----------------------------------------------------------------------------
(* The theorems. *)

LEMMA LeafStep ==
  TypeOK /\ PointsOK /\ Owned /\ Signalled /\ LeafInv /\ [Next]_vars => LeafInv'
  <1>1. TypeOK /\ Owned /\ LeafInv /\ PlannerStep => LeafInv'
    BY PlannerAdvanced, SeenPlanner DEF Advanced, LeafInv
  <1>2. LeafInv /\ UNCHANGED vars => LeafInv'
    BY DEF vars, LeafInv, StageFits, InProcedure, RequestIsNew, AbortsSeen, IsStep
  <1> QED
    BY <1>1, <1>2, NextCases, LeafDrive, LeafOthers

LEMMA AlwaysLeaf == Spec => []LeafInv
  <1>1. Init => LeafInv
    BY IdleLeafOK, NoDriveFields DEF Init, LeafInv, StageFits, InProcedure, RequestIsNew, AbortsSeen
  <1> QED
    BY <1>1, LeafStep, AlwaysSignalled, AlwaysOwned, TypedPoints, PTL DEF Spec

\* Wherever the harness stops, a restart finds a leaf that agrees with the
\* intent the operation was accepted with: restoreLaneState never refuses it.
THEOREM AlwaysRestorable == Spec => []Restorable
  <1>1. LeafInv => Restorable
    BY DEF LeafInv, LeafOK, Matches, Restorable, StateMatchesIntent, Reasons
  <1> QED
    BY <1>1, AlwaysLeaf, PTL

\* There is no compaction loop: a trigger is compacted once by the threshold and
\* once by an overflow, for any number of attempts, turns and restarts.
THEOREM CompactionsAreSingle == Spec => []OneCompactionPerTrigger
  <1>1. LeafInv => OneCompactionPerTrigger
    BY DEF LeafInv, LeafOK, Guards, Reasons, OneCompactionPerTrigger
  <1> QED
    BY <1>1, AlwaysLeaf, PTL

\* A request passes the gate only while the durable marker is absent, even when
\* the abort was called before the pass was installed and never shut its gate.
THEOREM NothingAskedAfterCancel == Spec => NoRequestAfterCancel
  <1>1. TypeOK /\ Owned /\ LeafInv /\ [Next]_vars => [asked' > asked => ~op.cancelled]_vars
    <2> SUFFICES ASSUME TypeOK, Owned, LeafInv, Next, asked' > asked PROVE ~op.cancelled
      BY DEF vars
    <2>0. asked \in Nat
      BY DEF TypeOK
    <2>1. CASE PlannerStep
      <3>1. asked' = 0 \/ asked' = asked
        BY <2>1 DEF PlannerStep, SkipCancelled, StartRun, Checkpoint, FinishRun, PublishIntent,
           PublishPollIntent, ConfigurationFailure, PublishResponse, RecoverResponse, RetryReady,
           ToolsDone, Decide, PublishAttemptIntent, PublishNestedIntent, PublishNestedOutcome,
           PublishAttemptResult, RecoverAttempt, CommitNavigation, PublishAborted, Summarised,
           Declined, ResumeAfter, Renewed, Placed, Overflowed, ToolCalls, Retryable, RetryWait,
           Triggered, Move, Deciding, Announce, AskRunEnd, Finish, Fault, history
      <3> QED
        BY <2>0, <3>1
    <2>2. CASE Admit
      BY <2>0, <2>2 DEF Admit, Pass, Admits, LeafInv, AbortsSeen, Asking
    <2>3. CASE ~PlannerStep /\ ~Admit
      <3>1. asked' = asked
        BY <2>3, NextCases DEF ClientCall, AcceptCall, DriveCall, AbortCall, RunAccept, RunClaim,
           RunAbort, AbortReturns, DriveStep, Dispatch, Reconcile, CancellationSettled, EffectDone, PassEnds,
           Fault, Stop, Restart, history
      <3> QED
        BY <2>0, <3>1
    <2> QED
      BY <2>1, <2>2, <2>3
  <1> QED
    BY <1>1, AlwaysLeaf, AlwaysOwned, TypedPoints, PTL DEF Spec, NoRequestAfterCancel

\* The planners that run in spite of a cancellation settle the leaf into a
\* checkpoint or leave it, and nobody takes the marker back.
THEOREM CancellationIsFinal == Spec => CancelFreezesLeaf
  <1>1. TypeOK /\ Owned /\ LeafInv /\ [Next]_vars =>
          [op.cancelled /\ op'.id = op.id =>
             op'.cancelled /\ op'.at \in {op.at, "checkpoint"}]_vars
    <2> SUFFICES ASSUME TypeOK, Owned, LeafInv, Next, op.cancelled, op'.id = op.id
                 PROVE  op'.cancelled /\ op'.at \in {op.at, "checkpoint"}
      BY DEF vars
    <2>a. op \in OpRecords
      BY DEF TypeOK
    <2>b. op.id # None
      BY DEF LeafInv, NoOp, Accepted
    <2>1. CASE PlannerStep
      <3>1. op'.cancelled
        <4>1. CASE GoesOn
          BY <4>1 DEF GoesOn
        <4>2. CASE Finishes
          BY <4>2, <2>b DEF Finishes, Finish, NoOp, Accepted
        <4>3. CASE FaultsAborted
          BY <4>3 DEF FaultsAborted, Fault, durable
        <4> QED
          BY <2>1, <4>1, <4>2, <4>3, PlannerShape
      <3>2. \A stage : ~Continues(stage)
        BY DEF Continues
      <3>3. ASSUME NEW cont, Placed(cont) PROVE op'.at = "checkpoint"
        BY <2>a, <3>3, SMT DEF OpRecords, Leaf, Placed, Triggered, Commit
      <3>4. CASE SkipCancelled
        BY <3>4 DEF SkipCancelled, durable
      <3>5. CASE PublishResponse \/ RecoverResponse \/ ToolsDone
        BY <3>1, <3>3, <3>5 DEF PublishResponse, RecoverResponse, ToolsDone
      <3>6. CASE PublishNestedOutcome
        BY <2>a, <3>1, <3>6, SMT DEF PublishNestedOutcome, Commit, OpRecords
      <3>7. CASE PublishAborted
        BY <2>b, <3>7 DEF PublishAborted, Finish, NoOp, Accepted
      <3> QED
        BY <2>1, <3>1, <3>2, <3>4, <3>5, <3>6, <3>7
        DEF PlannerStep, StartRun, Checkpoint, FinishRun, PublishIntent, PublishPollIntent,
            ConfigurationFailure, RetryReady, Decide, PublishAttemptIntent, PublishNestedIntent,
            PublishAttemptResult, RecoverAttempt, CommitNavigation
    <2>2. CASE RunAbort
      BY <2>2, <2>a, SMT DEF RunAbort, OpRecords
    <2>3. CASE ~PlannerStep /\ ~RunAbort
      <3>1. op' = op
        BY <2>3, <2>b, NextCases DEF ClientCall, AcceptCall, DriveCall, AbortCall, RunAccept,
           RunClaim, AbortReturns, DriveStep, Dispatch, Reconcile, Admit, CancellationSettled, EffectDone,
           PassEnds, Fault, Stop, Restart, durable
      <3> QED
        BY <3>1
    <2> QED
      BY <2>1, <2>2, <2>3
  <1> QED
    BY <1>1, AlwaysLeaf, AlwaysOwned, TypedPoints, PTL DEF Spec, CancelFreezesLeaf
-----------------------------------------------------------------------------
(* Polls and their permits. *)

\* What a pass may still poll: the permit it has, and the announced poll that is
\* at the gate.
PollsLeft ==
  (IF drive.permit THEN 1 ELSE 0)
    + (IF drive.pc = "admit" /\ drive.stage = "poll" THEN 1 ELSE 0)

PermitStages == {"before_poll", "poll_intent"}

PermitsCover ==
  /\ drive.polls >= PollsLeft
  /\ Working /\ drive.stage \in PermitStages => drive.permit

\* Permits and polls stay as they are, and no poll comes to the gate.
LEMMA PermitsKept ==
  ASSUME drive.polls \in Int, drive.permit \in BOOLEAN, PermitsCover,
         drive'.permit = drive.permit, drive'.polls = drive.polls,
         \/ drive'.pc = drive.pc /\ drive'.stage = drive.stage
         \/ /\ ~(drive'.pc = "admit" /\ drive'.stage = "poll")
            /\ Working' /\ drive'.stage \in PermitStages => drive.permit
  PROVE  PermitsCover'
  <1>1. PollsLeft' <= PollsLeft
    BY DEF PollsLeft
  <1>2. PollsLeft \in Int /\ PollsLeft' \in Int
    BY DEF PollsLeft
  <1>3. drive'.polls >= PollsLeft'
    BY <1>1, <1>2 DEF PermitsCover
  <1>4. Working' /\ drive'.stage \in PermitStages => drive'.permit
    BY DEF PermitsCover, Working
  <1> QED
    BY <1>3, <1>4 DEF PermitsCover

LEMMA AtPermits ==
  ASSUME drive \in Drives, NEW pc, NEW stage
  PROVE  At(pc, stage).permit = drive.permit /\ At(pc, stage).polls = drive.polls
  BY SMT DEF At, Drives

LEMMA InstalledPermits ==
  ASSUME NEW o, NEW mode, NEW pc, NEW stage
  PROVE  /\ Installed(o, mode, pc, stage).permit <=> mode \in Polls
         /\ Installed(o, mode, pc, stage).polls = IF mode \in Polls THEN 1 ELSE 0
         /\ Installed(o, mode, pc, stage).pc = pc
         /\ Installed(o, mode, pc, stage).stage = stage
  BY DEF Installed

LEMMA NoPermits ==
  /\ drive = NoDrive => PermitsCover
  /\ drive' = NoDrive => PermitsCover'
  <1>1. "drive" \notin Polls
    BY DEF Polls
  <1>2. ~NoDrive.permit /\ NoDrive.polls = 0 /\ NoDrive.pc = "ended"
    BY <1>1, InstalledPermits DEF NoDrive
  <1> QED
    BY <1>2 DEF PermitsCover, PollsLeft, Working

LEMMA SettledPermits ==
  ASSUME drive \in Drives, NEW job
  PROVE  /\ Settled(job).permit = drive.permit /\ Settled(job).polls = drive.polls
         /\ Settled(job).pc = drive.pc /\ Settled(job).stage = drive.stage
  BY SMT DEF Settled, Drives

\* Where a planner other than the poll's intent leaves the pass.
LEMMA PlannerMoves ==
  ASSUME PlannerStep, ~PublishPollIntent
  PROVE  \/ Loop
         \/ \E status : Finish(status)
         \/ \E cause : Fault(cause)
         \/ \E stage \in {"before_run_end", "transform_context", "before_summary_request",
                         "summary_provider", "attempt_result"} : Then(stage)
  BY DEF PlannerStep, SkipCancelled, StartRun, Checkpoint, FinishRun, PublishIntent,
     ConfigurationFailure, PublishResponse, RecoverResponse, RetryReady, ToolsDone, Decide,
     PublishAttemptIntent, PublishNestedIntent, PublishNestedOutcome, PublishAttemptResult,
     RecoverAttempt, CommitNavigation, PublishAborted, Move, Triggered, Renewed, Deciding,
     RetryWait, Placed, Overflowed, ToolCalls, Retryable, ResumeAfter, Summarised, Declined,
     Announce, AskRunEnd

LEMMA PermitsPlanner == TypeOK /\ PermitsCover /\ PlannerStep => PermitsCover'
  <1> SUFFICES ASSUME TypeOK, PermitsCover, PlannerStep PROVE PermitsCover'
    OBVIOUS
  <1>a. drive \in Drives /\ drive.polls \in Int /\ drive.permit \in BOOLEAN
    BY SMT DEF TypeOK, Drives
  <1>1. CASE PublishPollIntent
    <2>1. drive.permit /\ drive.polls >= 1
      <3>1. Working /\ drive.stage \in PermitStages
        BY <1>1 DEF PublishPollIntent, Continues, Settles, Planning, Working, PermitStages
      <3>2. drive.permit
        BY <3>1 DEF PermitsCover
      <3> QED
        BY <1>a, <3>2 DEF PermitsCover, PollsLeft
    <2>2. drive'.permit = FALSE /\ drive'.polls = drive.polls /\ drive'.stage = "poll"
      BY <1>1, <1>a, SMT DEF PublishPollIntent, At, Drives
    <2> QED
      BY <1>a, <2>1, <2>2 DEF PermitsCover, PollsLeft, PermitStages
  <1>2. CASE Loop
    <2>1. drive'.permit = drive.permit /\ drive'.polls = drive.polls /\ drive'.pc = "loop"
      BY <1>2, <1>a, SMT DEF Loop, Drives
    <2> QED
      BY <1>a, <2>1, PermitsKept DEF Working
  <1>3. ASSUME NEW status, Finish(status) PROVE PermitsCover'
    <2>1. drive'.pc = "ended" /\ drive'.permit = drive.permit /\ drive'.polls = drive.polls
      BY <1>3, <1>a, AtFields, AtPermits DEF Finish
    <2> QED
      BY <1>a, <2>1, PermitsKept DEF Working
  <1>4. ASSUME NEW cause, Fault(cause) PROVE PermitsCover'
    BY <1>4, NoPermits DEF Fault
  <1>5. ASSUME NEW stage \in {"before_run_end", "transform_context", "before_summary_request",
                             "summary_provider", "attempt_result"},
               Then(stage)
        PROVE  PermitsCover'
    <2>1. drive'.stage = stage /\ drive'.permit = drive.permit /\ drive'.polls = drive.polls
      BY <1>5, <1>a, AtFields, AtPermits DEF Then
    <2> QED
      BY <1>a, <2>1, PermitsKept DEF PermitStages
  <1> QED
    BY <1>1, <1>2, <1>3, <1>4, <1>5, PlannerMoves

LEMMA PermitsDrive == TypeOK /\ PointsOK /\ PermitsCover /\ DriveStep => PermitsCover'
  <1> SUFFICES ASSUME TypeOK, PointsOK, PermitsCover, DriveStep PROVE PermitsCover'
    OBVIOUS
  <1>a. drive \in Drives /\ drive.polls \in Int /\ drive.permit \in BOOLEAN
    BY SMT DEF TypeOK, Drives
  <1>1. CASE Dispatch
    <2>1. PICK stage \in FirstStages : Enter(stage)
      BY <1>1 DEF Dispatch
    <2>2. drive'.stage = stage /\ drive'.permit = drive.permit /\ drive'.polls = drive.polls
      BY <2>1, <1>a, AtFields, AtPermits DEF Enter
    <2>3. stage # "poll" /\ (stage \in PermitStages => drive.permit)
      <3>1. op.at \in Leaves
        BY DEF TypeOK, OpRecords
      <3> QED
        BY <3>1 DEF FirstStages, Orphan, Leaves, SummaryLeaves, ResponseLeaves, PermitStages
    <2> QED
      BY <1>a, <2>2, <2>3, PermitsKept
  <1>2. CASE Reconcile
    <2>1. /\ drive'.stage = ReconcileStage /\ drive'.permit = drive.permit
          /\ drive'.polls = drive.polls
      BY <1>2, <1>a, SMT DEF Reconcile, Drives
    <2>2. ReconcileStage # "poll" /\ ReconcileStage \notin PermitStages
      BY DEF ReconcileStage, PermitStages
    <2> QED
      BY <1>a, <2>1, <2>2, PermitsKept
  <1>3. CASE Admit
    <2>1. drive.pc = "admit" /\ drive'.stage = drive.stage /\ drive'.pc \in {"effect", "await"}
      BY <1>3, AdmitFields DEF Admit, Pass
    <2>2. /\ drive'.permit = drive.permit
          /\ drive'.polls = IF Admits /\ drive.stage = "poll" THEN drive.polls - 1 ELSE drive.polls
      <3> DEFINE polls == IF drive.stage = "poll" THEN drive.polls - 1 ELSE drive.polls
      <3>1. drive' = IF Admits THEN [drive EXCEPT !.pc = "effect", !.polls = polls]
                     ELSE [drive EXCEPT !.pc = "await"]
        BY <1>3 DEF Admit
      <3>2. /\ drive'.permit = drive.permit
            /\ drive'.polls = IF Admits THEN polls ELSE drive.polls
        <4> HIDE DEF polls
        <4> QED
          BY <1>a, <3>1, SMT DEF Drives
      <3> QED
        BY <3>2
    <2>3. CASE Admits /\ drive.stage = "poll"
      <3>1. drive.polls >= (IF drive.permit THEN 1 ELSE 0) + 1
        BY <2>1, <2>3 DEF PermitsCover, PollsLeft
      <3>2. drive'.polls >= PollsLeft'
        BY <1>a, <2>1, <2>2, <2>3, <3>1 DEF PollsLeft
      <3> QED
        BY <2>1, <2>3, <3>2 DEF PermitsCover, PermitStages
    <2>4. CASE ~(Admits /\ drive.stage = "poll")
      <3>1. Working
        BY <2>1 DEF Working
      <3> QED
        BY <1>a, <2>1, <2>2, <2>4, <3>1, PermitsKept DEF PermitsCover
    <2> QED
      BY <2>3, <2>4
  <1>4. CASE CancellationSettled
    <2>1. drive'.permit = drive.permit /\ drive'.polls = drive.polls
      BY <1>4, <1>a, AtPermits, SMT DEF CancellationSettled, Drives
    <2>2. drive'.pc = "loop" \/ drive'.stage = "publish_response"
      BY <1>4, SettledFields
    <2> QED
      BY <1>a, <2>1, <2>2, PermitsKept DEF Working, PermitStages
  <1>5. CASE EffectDone
    <2>1. drive'.permit = drive.permit /\ drive'.polls = drive.polls
      <3>1. CASE drive' \in {[drive EXCEPT !.pc = "loop"], [drive EXCEPT !.pc = "await"]}
        BY <1>a, <3>1, SMT DEF Drives
      <3> DEFINE pc == IF NextStage \in Effects THEN "admit" ELSE "queued"
      <3>2. ASSUME NEW aborted \in BOOLEAN, drive' = [At(pc, NextStage) EXCEPT !.aborted = aborted]
            PROVE  drive'.permit = drive.permit /\ drive'.polls = drive.polls
        <4> HIDE DEF pc
        <4> QED
          BY <1>a, <3>2, SMT DEF At, Drives
      <3> QED
        BY <1>5, <3>1, <3>2 DEF EffectDone
    <2>2. drive.pc = "effect" /\ drive.stage \in Effects
      BY <1>5 DEF EffectDone, Pass, PointsOK
    <2>3. CASE drive'.pc \in {"loop", "await"}
      BY <1>a, <2>1, <2>3, PermitsKept DEF Working
    <2>4. CASE drive.stage # "before_drive" /\ drive'.stage = NextStage
      <3>1. NextStage # "poll" /\ (NextStage \in PermitStages => drive.stage = "before_poll")
        <4>1. CASE drive.stage \in Hooks
          BY <2>4, <4>1 DEF Hooks, NextStage, PermitStages
        <4>2. CASE drive.stage \notin Hooks
          BY <2>2, <4>2 DEF Effects, Requests, NextStage, PermitStages
        <4> QED
          BY <4>1, <4>2
      <3>2. NextStage \in PermitStages => drive.permit
        BY <2>2, <3>1 DEF PermitsCover, Working, PermitStages
      <3> QED
        BY <1>a, <2>1, <2>4, <3>1, <3>2, PermitsKept
    <2> QED
      BY <1>5, <2>3, <2>4, EffectDoneFields
  <1>6. CASE PassEnds
    BY <1>6, NoPermits DEF PassEnds, Fault
  <1> QED
    BY <1>1, <1>2, <1>3, <1>4, <1>5, <1>6 DEF DriveStep

LEMMA PermitsOthers ==
  TypeOK /\ PermitsCover
  /\ (ClientCall \/ RunAccept \/ RunClaim \/ RunAbort \/ AbortReturns \/ Stop \/ Restart)
  => PermitsCover'
  <1> SUFFICES ASSUME TypeOK, PermitsCover,
                      ClientCall \/ RunAccept \/ RunClaim \/ RunAbort \/ AbortReturns
                      \/ Stop \/ Restart
               PROVE  PermitsCover'
    OBVIOUS
  <1>a. drive \in Drives /\ drive.polls \in Int /\ drive.permit \in BOOLEAN
    BY SMT DEF TypeOK, Drives
  <1> DEFINE Same == /\ drive'.permit = drive.permit /\ drive'.polls = drive.polls
                     /\ drive'.pc = drive.pc /\ drive'.stage = drive.stage
  <1>1. ASSUME Same PROVE PermitsCover'
    BY <1>a, <1>1, PermitsKept
  <1>2. CASE ClientCall
    <2>1. drive' = drive \/ drive' = [drive EXCEPT !.gate = "aborting"]
      BY <1>2 DEF ClientCall, AcceptCall, DriveCall, AbortCall, ShutGate
    <2> QED
      BY <1>1, <1>a, <2>1, SMT DEF Drives
  <1>3. CASE RunAccept \/ Restart
    BY <1>1, <1>3 DEF RunAccept, Restart, volatile
  <1>4. CASE RunClaim
    <2>1. CASE drive' = Install(line[1].id, line[1].mode)
      <3> DEFINE mode == line[1].mode
      <3>0. \E pc : drive' = Installed(line[1].id, mode, pc, "before_drive")
        BY <2>1 DEF Install
      <3> HIDE DEF mode
      <3>1. /\ drive'.permit <=> mode \in Polls
            /\ drive'.polls = IF mode \in Polls THEN 1 ELSE 0
            /\ drive'.stage = "before_drive"
        BY <3>0, InstalledPermits
      <3>2. PollsLeft' = drive'.polls
        BY <3>1 DEF PollsLeft
      <3>3. drive'.polls \in Int
        BY <3>1
      <3> QED
        BY <3>1, <3>2, <3>3 DEF PermitsCover, PermitStages
    <2>2. CASE drive' = drive
      BY <1>1, <2>2
    <2>3. CASE drive' = [drive EXCEPT !.conv = @ \/ line[1].mode \in Convenience]
      <3>1. Same
        BY <1>a, <2>3, SMT DEF Drives
      <3> QED
        BY <1>1, <3>1
    <2> QED
      BY <1>4, <2>1, <2>2, <2>3 DEF RunClaim
  <1>5. CASE RunAbort \/ AbortReturns
    <2>1. drive' = drive \/ \E job : drive' = Settled(job)
      BY <1>5 DEF RunAbort, AbortReturns
    <2>2. Same
      BY <1>a, <2>1, SettledPermits
    <2> QED
      BY <1>1, <2>2
  <1>6. CASE Stop
    BY <1>6, NoPermits DEF Stop
  <1> QED
    BY <1>2, <1>3, <1>4, <1>5, <1>6

\* A permit buys one poll.
LEMMA PollsArePaidFor == Spec => []PollsWithinPermits
  <1>1. Init => PermitsCover
    BY NoPermits DEF Init
  <1>2. PermitsCover /\ UNCHANGED vars => PermitsCover'
    BY DEF vars, PermitsCover, PollsLeft, Working
  <1>3. TypeOK /\ PointsOK /\ PermitsCover /\ [Next]_vars => PermitsCover'
    BY <1>2, NextCases, PermitsPlanner, PermitsDrive, PermitsOthers
  <1>4. TypeOK /\ PermitsCover => PollsWithinPermits
    <2> SUFFICES ASSUME TypeOK, PermitsCover PROVE drive.polls >= 0
      BY DEF PollsWithinPermits
    <2>1. drive.polls \in Int
      BY SMT DEF TypeOK, Drives
    <2> QED
      BY <2>1 DEF PermitsCover, PollsLeft
  <1> QED
    BY <1>1, <1>3, <1>4, TypedPoints, PTL DEF Spec

\* No announced request is made twice, through retries, stops and restarts, and no
\* pass polls a deferred response more often than its caller allowed, for any
\* number of suspensions, retries and turns.
THEOREM RequestsAreSingle == Spec => []AskedAtMostOnce
  <1>1. LeafInv /\ PollsWithinPermits => AskedAtMostOnce
    BY DEF LeafInv, RequestIsNew, AskedAtMostOnce
  <1> QED
    BY <1>1, AlwaysLeaf, PollsArePaidFor, PTL
=============================================================================
