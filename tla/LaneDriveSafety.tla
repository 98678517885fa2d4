-------------------------- MODULE LaneDriveSafety --------------------------
(***************************************************************************)
(* Safety of LaneDrive for every value of its constants: a live pass owns  *)
(* the current operation, its gate signals only durable cancellation, no   *)
(* response is "aborted" while control is running, an awaited cancellation *)
(* is always still on the line, and the lane implements                    *)
(* OperationLifecycle.                                                     *)
(***************************************************************************)
EXTENDS LaneDriveTyping

USE DEF waits

-----------------------------------------------------------------------------
(* The shape of a planner's step: the pass goes on, finishes or faults. *)

GoesOn ==
  /\ op'.id = op.id /\ op'.cancelled = op.cancelled
  /\ results' = results /\ UNCHANGED waits /\ open' = open /\ fault' = fault
  /\ drive'.id = drive.id /\ drive'.gate = drive.gate /\ drive'.sig = drive.sig
  /\ drive'.aborted => drive.aborted
  /\ \/ drive'.pc \in {"loop", "admit"} /\ line' = Tail(line)
     \/ drive'.pc = "queued" /\ line' = Append(Tail(line), Step)

Finishes ==
  \E status \in Terminal : (status = "aborted" <=> op.cancelled) /\ Finish(status)

FaultsAborted == Fault("aborted_running") /\ drive.aborted /\ ~op.cancelled

LEMMA LoopGoesOn ==
  ASSUME TypeOK, Loop, op'.id = op.id, op'.cancelled = op.cancelled, results' = results,
         open' = open, fault' = fault
  PROVE  GoesOn
  <1>1. /\ drive'.id = drive.id /\ drive'.gate = drive.gate /\ drive'.sig = drive.sig
        /\ drive'.pc = "loop" /\ drive'.aborted = FALSE
    BY SMT DEF TypeOK, Drives, Loop
  <1> QED
    BY <1>1 DEF GoesOn, Loop

LEMMA ThenGoesOn ==
  ASSUME TypeOK, NEW stage, Then(stage), op'.id = op.id, op'.cancelled = op.cancelled,
         results' = results, open' = open, fault' = fault
  PROVE  GoesOn
  <1>1. drive \in Drives
    BY DEF TypeOK
  <1> QED
    BY <1>1, AtFields DEF GoesOn, Then

LEMMA OpEdits ==
  ASSUME TypeOK
  PROVE  /\ \A at : Leaf(at).id = op.id /\ Leaf(at).cancelled = op.cancelled
         /\ \A ovf : Ready(ovf).id = op.id /\ Ready(ovf).cancelled = op.cancelled
  BY SMT DEF TypeOK, OpRecords, Leaf, Ready

LEMMA MoveGoesOn ==
  ASSUME TypeOK, NEW next, Move(next) \/ Triggered(next), next.id = op.id,
         next.cancelled = op.cancelled
  PROVE  GoesOn
  BY LoopGoesOn DEF Move, Triggered, Commit

LEMMA AskRunEndGoesOn == TypeOK /\ AskRunEnd => GoesOn
  BY ThenGoesOn DEF AskRunEnd, durable

LEMMA AnnounceGoesOn ==
  ASSUME TypeOK, NEW next, NEW effect, Announce(next, effect), next.id = op.id,
         next.cancelled = op.cancelled
  PROVE  GoesOn
  BY ThenGoesOn DEF Announce, Commit

LEMMA RenewedGoesOn == TypeOK /\ Renewed => GoesOn
  <1> SUFFICES ASSUME TypeOK, Renewed PROVE GoesOn
    OBVIOUS
  <1> DEFINE next == [Ready(FALSE) EXCEPT !.turns = @ + 1]
  <1>1. next.id = op.id /\ next.cancelled = op.cancelled
    BY SMT DEF TypeOK, OpRecords, Leaf, Ready
  <1> QED
    BY <1>1, MoveGoesOn DEF Renewed

LEMMA DecidingGoesOn ==
  ASSUME TypeOK, NEW reason, NEW cont, NEW ovf, Deciding(reason, cont, ovf)
  PROVE  GoesOn
  <1>1. op'.id = op.id /\ op'.cancelled = op.cancelled
    BY SMT DEF TypeOK, OpRecords, Leaf, Deciding, Commit
  <1> QED
    BY <1>1, LoopGoesOn DEF Deciding, Commit

LEMMA RetryWaitGoesOn ==
  ASSUME TypeOK, NEW leaf, RetryWait(leaf)
  PROVE  GoesOn
  <1> DEFINE next == [op EXCEPT !.at = leaf, !.attempt = @ + 1, !.requests = 0]
  <1>1. next.id = op.id /\ next.cancelled = op.cancelled
    BY SMT DEF TypeOK, OpRecords
  <1> QED
    BY <1>1, MoveGoesOn DEF RetryWait

LEMMA PlacedGoesOn ==
  ASSUME TypeOK, NEW cont, Placed(cont)
  PROVE  GoesOn
  <1> DEFINE next == [Leaf("checkpoint") EXCEPT !.cont = cont]
  <1>1. next.id = op.id /\ next.cancelled = op.cancelled
    BY SMT DEF TypeOK, OpRecords, Leaf
  <1> QED
    BY <1>1, MoveGoesOn DEF Placed

LEMMA ResumeGoesOn ==
  ASSUME TypeOK, NEW summarised, ResumeAfter(summarised)
  PROVE  GoesOn
  <1> DEFINE next == [Leaf("checkpoint") EXCEPT !.cont = "may_finish", !.guarded = TRUE]
  <1>1. next.id = op.id /\ next.cancelled = op.cancelled
    BY SMT DEF TypeOK, OpRecords, Leaf
  <1> QED
    BY <1>1, OpEdits, MoveGoesOn, RenewedGoesOn, AskRunEndGoesOn DEF ResumeAfter

LEMMA FinishesPlain ==
  ASSUME NEW status \in Terminal, Finish(status), status = "aborted" <=> op.cancelled
  PROVE  Finishes
  BY DEF Finishes

LEMMA SummarisedShape == TypeOK /\ ~op.cancelled /\ Summarised => GoesOn \/ Finishes
  BY ResumeGoesOn, FinishesPlain DEF Summarised, Terminal

LEMMA DeclinedShape == TypeOK /\ ~op.cancelled /\ Declined => GoesOn \/ Finishes
  BY ResumeGoesOn, FinishesPlain DEF Declined, Terminal

LEMMA ResponseShape == TypeOK /\ PublishResponse => GoesOn \/ Finishes \/ FaultsAborted
  <1> SUFFICES ASSUME TypeOK, PublishResponse PROVE GoesOn \/ Finishes \/ FaultsAborted
    OBVIOUS
  <1>1. CASE Overflowed
    BY <1>1, DecidingGoesOn DEF Overflowed
  <1>2. CASE Triggered(Leaf("deferred.suspended"))
    BY <1>2, OpEdits, MoveGoesOn
  <1>3. CASE Retryable
    BY <1>3, RetryWaitGoesOn DEF Retryable
  <1>4. CASE ToolCalls
    <2> DEFINE next == [Leaf("tools") EXCEPT !.turns = @ + 1]
    <2>1. next.id = op.id /\ next.cancelled = op.cancelled
      BY SMT DEF TypeOK, OpRecords, Leaf
    <2> QED
      BY <1>4, <2>1, MoveGoesOn DEF ToolCalls
  <1>5. CASE Placed("may_finish")
    BY <1>5, PlacedGoesOn
  <1>6. CASE ~op.cancelled /\ Finish("failed")
    BY <1>6, FinishesPlain DEF Terminal
  <1>7. CASE ~op.cancelled /\ drive.aborted /\ Fault("aborted_running")
    BY <1>7 DEF FaultsAborted
  <1> QED
    BY <1>1, <1>2, <1>3, <1>4, <1>5, <1>6, <1>7 DEF PublishResponse

LEMMA PlannerHead == PlannerStep => HeadIs("step") /\ drive.pc = "queued"
  BY DEF PlannerStep, SkipCancelled, StartRun, Checkpoint, FinishRun, PublishIntent,
     PublishPollIntent, ConfigurationFailure, PublishResponse, RecoverResponse, RetryReady,
     ToolsDone, Decide, PublishAttemptIntent, PublishNestedIntent, PublishNestedOutcome,
     PublishAttemptResult, RecoverAttempt, CommitNavigation, PublishAborted, Continues,
     Settles, Planning

LEMMA PlannerShape == TypeOK /\ PlannerStep => GoesOn \/ Finishes \/ FaultsAborted
  <1> SUFFICES ASSUME TypeOK, PlannerStep PROVE GoesOn \/ Finishes \/ FaultsAborted
    OBVIOUS
  <1>b. op \in OpRecords /\ drive \in Drives
    BY DEF TypeOK
  <1>c. \A status \in {"completed", "declined", "aborted", "failed"} : status \in Terminal
    BY DEF Terminal
  <1>1. CASE SkipCancelled
    BY <1>1, LoopGoesOn DEF SkipCancelled, durable
  <1>2. CASE StartRun
    <2> DEFINE next == [op EXCEPT !.at = "checkpoint", !.cont = "need_assistant"]
    <2>1. next.id = op.id /\ next.cancelled = op.cancelled
      BY <1>b, SMT DEF OpRecords
    <2> QED
      BY <1>2, <2>1, MoveGoesOn DEF StartRun
  <1>3. CASE Checkpoint
    BY <1>3, OpEdits, RenewedGoesOn, DecidingGoesOn, MoveGoesOn, AskRunEndGoesOn DEF Checkpoint
  <1>4. CASE FinishRun
    BY <1>4, <1>c, RenewedGoesOn, FinishesPlain DEF FinishRun, Continues
  <1>5. CASE PublishIntent
    <2> DEFINE next == [op EXCEPT !.at = "assistant.effect_pending"]
    <2>1. next.id = op.id /\ next.cancelled = op.cancelled
      BY <1>b, SMT DEF OpRecords
    <2> QED
      BY <1>5, <2>1, AnnounceGoesOn DEF PublishIntent
  <1>6. CASE PublishPollIntent
    <2>1. op'.id = op.id /\ op'.cancelled = op.cancelled
      BY <1>6, <1>b, SMT DEF OpRecords, PublishPollIntent, Commit
    <2>2. /\ drive'.id = drive.id /\ drive'.gate = drive.gate /\ drive'.sig = drive.sig
          /\ drive'.pc = "admit" /\ drive'.aborted = drive.aborted
      BY <1>6, <1>b, SMT DEF Drives, At, PublishPollIntent
    <2> QED
      BY <1>6, <2>1, <2>2 DEF GoesOn, PublishPollIntent, Commit
  <1>7. CASE ConfigurationFailure
    BY <1>7, <1>c, FinishesPlain DEF ConfigurationFailure, Continues
  <1>8. CASE PublishResponse
    BY <1>8, ResponseShape
  <1>9. CASE RecoverResponse
    BY <1>9, <1>c, PlacedGoesOn, RetryWaitGoesOn, FinishesPlain DEF RecoverResponse, Retryable
  <1>10. CASE RetryReady
    <2> DEFINE next == [op EXCEPT !.at = IF @ = "assistant.retry_wait" THEN "assistant.ready"
                                         ELSE "summary.ready"]
    <2>1. next.id = op.id /\ next.cancelled = op.cancelled
      BY <1>b, SMT DEF OpRecords
    <2> QED
      BY <1>10, <2>1, MoveGoesOn DEF RetryReady
  <1>11. CASE ToolsDone
    BY <1>11, PlacedGoesOn DEF ToolsDone
  <1>12. CASE Decide
    <2> DEFINE next == [op EXCEPT !.at = "summary.ready", !.attempt = 1]
    <2>1. next.id = op.id /\ next.cancelled = op.cancelled
      BY <1>b, SMT DEF OpRecords
    <2> QED
      BY <1>12, <2>1, MoveGoesOn, SummarisedShape, DeclinedShape DEF Decide, Continues
  <1>13. CASE PublishAttemptIntent
    <2> DEFINE next == [op EXCEPT !.at = "summary.effect_pending", !.requests = 0]
    <2>1. next.id = op.id /\ next.cancelled = op.cancelled
      BY <1>b, SMT DEF OpRecords
    <2> QED
      BY <1>13, <2>1, AnnounceGoesOn DEF PublishAttemptIntent
  <1>14. CASE PublishNestedIntent
    BY <1>14, AnnounceGoesOn DEF PublishNestedIntent
  <1>15. CASE PublishNestedOutcome
    <2>1. op'.id = op.id /\ op'.cancelled = op.cancelled
      BY <1>15, <1>b, SMT DEF OpRecords, PublishNestedOutcome, Commit
    <2> QED
      BY <1>15, <2>1, ThenGoesOn DEF PublishNestedOutcome, Commit
  <1>16. CASE PublishAttemptResult
    BY <1>16, <1>c, SummarisedShape, RetryWaitGoesOn, FinishesPlain
    DEF PublishAttemptResult, Continues, FaultsAborted
  <1>17. CASE RecoverAttempt
    BY <1>17, <1>c, RetryWaitGoesOn, FinishesPlain DEF RecoverAttempt, Continues
  <1>18. CASE CommitNavigation
    BY <1>18, <1>c, FinishesPlain DEF CommitNavigation, Continues
  <1>19. CASE PublishAborted
    BY <1>19, <1>c, FinishesPlain DEF PublishAborted
  <1> QED
    BY <1>1, <1>2, <1>3, <1>4, <1>5, <1>6, <1>7, <1>8, <1>9, <1>10, <1>11, <1>12, <1>13,
       <1>14, <1>15, <1>16, <1>17, <1>18, <1>19 DEF PlannerStep
-----------------------------------------------------------------------------
(* The job of a queued planner is on the line, once, and a live pass owns the
   current operation. *)

IsStep(l, i) == i \in 1..Len(l) /\ l[i].kind = "step"

OneStep ==
  /\ \A i : IsStep(line, i) => drive.id # None /\ drive.pc = "queued"
  /\ \A i, j : IsStep(line, i) /\ IsStep(line, j) => i = j

Owned == OneStep /\ DriveOwnsOperation

LEMMA TailElements ==
  ASSUME NEW S, NEW s \in Seq(S), s # <<>>
  PROVE  /\ Tail(s) \in Seq(S) /\ Len(Tail(s)) = Len(s) - 1 /\ Len(s) \in Nat \ {0}
         /\ \A i \in 1..Len(Tail(s)) : Tail(s)[i] = s[i + 1]
  BY SMT

LEMMA AppendElements ==
  ASSUME NEW S, NEW s \in Seq(S), NEW x
  PROVE  /\ Len(Append(s, x)) = Len(s) + 1 /\ Len(s) \in Nat
         /\ \A i \in 1..Len(s) : Append(s, x)[i] = s[i]
         /\ Append(s, x)[Len(s) + 1] = x
  BY SMT

LEMMA StepAppended ==
  ASSUME NEW l \in Seq(Jobs), NEW x, NEW i, IsStep(Append(l, x), i)
  PROVE  IsStep(l, i) \/ (i = Len(l) + 1 /\ x.kind = "step")
  BY AppendElements, SMT DEF IsStep

LEMMA StepInTail ==
  ASSUME NEW l \in Seq(Jobs), l # <<>>, NEW i, IsStep(Tail(l), i)
  PROVE  i \in Nat /\ IsStep(l, i + 1) /\ i + 1 # 1
  BY TailElements, SMT DEF IsStep

\* Without a queued planner there is no step on the line.
LEMMA NoStep ==
  ASSUME OneStep, drive.id = None \/ drive.pc # "queued"
  PROVE  \A i : ~IsStep(line, i)
  BY DEF OneStep

\* With the step at the head there is none behind it.
LEMMA NoStepBehind ==
  ASSUME TypeOK, OneStep, HeadIs("step")
  PROVE  /\ drive.id # None /\ drive.pc = "queued"
         /\ \A i : ~IsStep(Tail(line), i)
  <1>1. line \in Seq(Jobs) /\ line # <<>> /\ IsStep(line, 1)
    BY SMT DEF TypeOK, HeadIs, IsStep
  <1>2. ASSUME NEW i, IsStep(Tail(line), i) PROVE FALSE
    BY <1>1, <1>2, StepInTail DEF OneStep
  <1> QED
    BY <1>1, <1>2 DEF OneStep

\* A client job leaves the line, or leaves a claim in its place.
LEMMA OneStepShifted ==
  ASSUME TypeOK, OneStep, line # <<>>, NEW job, job.kind # "step",
         line' = Tail(line) \/ line' = Append(Tail(line), job),
         drive.id # None /\ drive.pc = "queued" => drive'.id # None /\ drive'.pc = "queued"
  PROVE  OneStep'
  <1>1. line \in Seq(Jobs) /\ Tail(line) \in Seq(Jobs)
    BY TailElements DEF TypeOK
  <1>2. ASSUME NEW i, IsStep(line', i) PROVE i \in Nat /\ IsStep(line, i + 1)
    <2>1. IsStep(Tail(line), i)
      BY <1>1, <1>2, StepAppended
    <2> QED
      BY <1>1, <2>1, StepInTail
  <1>3. ASSUME NEW i, NEW j, IsStep(line', i), IsStep(line', j) PROVE i = j
    <2>1. i \in Nat /\ j \in Nat /\ i + 1 = j + 1
      BY <1>2, <1>3 DEF OneStep
    <2> QED
      BY <2>1, SMT
  <1> QED
    BY <1>2, <1>3 DEF OneStep

\* A pass queues its planner.
LEMMA OneStepAppended ==
  ASSUME NEW l \in Seq(Jobs), \A i : ~IsStep(l, i), line' = Append(l, Step),
         drive'.id # None, drive'.pc = "queued"
  PROVE  OneStep'
  <1>1. \A i : IsStep(line', i) => i = Len(l) + 1
    BY StepAppended
  <1> QED
    BY <1>1 DEF OneStep

LEMMA OneStepVacuous ==
  ASSUME \A i : ~IsStep(line', i)
  PROVE  OneStep'
  BY DEF OneStep

LEMMA NoDriveFields ==
  /\ NoDrive.id = None /\ NoDrive.pc = "ended" /\ NoDrive.gate = "open"
  /\ NoDrive.sig = FALSE /\ NoDrive.aborted = FALSE
  BY DEF NoDrive, Installed

LEMMA ForgetKind ==
  ASSUME NEW job \in Jobs
  PROVE  /\ Forget(job).kind = job.kind
         /\ job.kind = "abort" => Forget(job).owns = FALSE /\ Forget(job).holds = FALSE
         /\ job.kind = "accept" => Forget(job) = job
  BY SMT DEF Forget, Jobs, AcceptJobs, ClaimJobs, AbortJobs, StepJobs

\* The line after a pass: what was on it, and the callers the pass kept waiting.
LEMMA ForgottenLine ==
  ASSUME TypeOK, line' = [k \in 1..Len(line) |-> Forget(line[k])] \o parked,
         NEW i \in 1..Len(line')
  PROVE  \/ i \in 1..Len(line) /\ line[i] \in Jobs /\ line'[i] = Forget(line[i])
         \/ line'[i] \in ClaimJobs
  <1> DEFINE kept == [k \in 1..Len(line) |-> Forget(line[k])]
  <1>1. \A k \in 1..Len(line) : line[k] \in Jobs
    BY DEF TypeOK
  <1>2. /\ kept \in Seq(Jobs) /\ Len(kept) = Len(line) /\ Len(line) \in Nat
        /\ \A k \in 1..Len(line) : kept[k] = Forget(line[k])
    <2>1. \A k \in 1..Len(line) : Forget(line[k]) \in Jobs
      BY <1>1, ForgetTyped
    <2>2. Len(line) \in Nat
      BY DEF TypeOK
    <2> QED
      BY <2>1, <2>2, SMT
  <1>3. parked \in Seq(ClaimJobs) /\ Len(parked) \in Nat /\ line' = kept \o parked
    BY DEF TypeOK
  <1> HIDE DEF kept
  <1>4. CASE i \in 1..Len(line)
    <2>1. line'[i] = kept[i]
      BY <1>2, <1>3, <1>4, SMT
    <2> QED
      BY <1>1, <1>2, <1>4, <2>1
  <1>5. CASE i \notin 1..Len(line)
    <2>1. i - Len(line) \in 1..Len(parked) /\ line'[i] = parked[i - Len(line)]
      BY <1>2, <1>3, <1>5, SMT
    <2> QED
      BY <1>3, <2>1
  <1> QED
    BY <1>4, <1>5

LEMMA OwnedPlanner == TypeOK /\ Owned /\ PlannerStep => Owned'
  <1> SUFFICES ASSUME TypeOK, Owned, PlannerStep PROVE Owned'
    OBVIOUS
  <1>1. /\ HeadIs("step") /\ line \in Seq(Jobs) /\ line # <<>> /\ Tail(line) \in Seq(Jobs)
        /\ drive \in Drives
    BY PlannerHead, TailElements DEF HeadIs, TypeOK
  <1>2. /\ drive.id # None /\ drive.pc = "queued" /\ drive.id = op.id
        /\ \A i : ~IsStep(Tail(line), i)
    BY <1>1, NoStepBehind DEF Owned, DriveOwnsOperation
  <1>3. CASE GoesOn
    <2>1. OneStep'
      BY <1>1, <1>2, <1>3, OneStepVacuous, OneStepAppended DEF GoesOn
    <2> QED
      BY <1>2, <1>3, <2>1 DEF Owned, DriveOwnsOperation, GoesOn
  <1>4. CASE Finishes
    <2>1. drive'.pc = "ended" /\ line' = Tail(line)
      BY <1>1, <1>4, AtFields DEF Finishes, Finish
    <2> QED
      BY <1>2, <2>1, OneStepVacuous DEF Owned, DriveOwnsOperation
  <1>5. CASE FaultsAborted
    <2>1. line' = <<>> /\ drive' = NoDrive
      BY <1>5 DEF FaultsAborted, Fault
    <2>2. \A i : ~IsStep(line', i)
      BY <2>1, SMT DEF IsStep
    <2> QED
      BY <2>1, <2>2, OneStepVacuous, NoDriveFields DEF Owned, DriveOwnsOperation
  <1> QED
    BY <1>3, <1>4, <1>5, PlannerShape

LEMMA OwnedDrive == TypeOK /\ Owned /\ DriveStep => Owned'
  <1> SUFFICES ASSUME TypeOK, Owned, DriveStep PROVE Owned'
    OBVIOUS
  <1>a. drive \in Drives /\ line \in Seq(Jobs)
    BY DEF TypeOK
  <1>b. op' = op
    BY DEF DriveStep, Dispatch, Reconcile, Admit, CancellationSettled, EffectDone, PassEnds, Fault,
       durable
  <1>c. drive.id # None /\ drive.pc # "queued" /\ \A i : ~IsStep(line, i)
    <2>1. drive.id # None /\ drive.pc # "queued"
      BY DEF DriveStep, Dispatch, Reconcile, Admit, CancellationSettled, EffectDone, PassEnds, Pass
    <2> QED
      BY <2>1, NoStep DEF Owned
  <1>1. CASE /\ drive'.id = drive.id /\ drive.pc # "ended"
             /\ line' = line \/ (line' = Append(line, Step) /\ drive'.pc = "queued")
    <2>1. OneStep'
      BY <1>1, <1>a, <1>c, OneStepVacuous, OneStepAppended
    <2> QED
      BY <1>1, <1>b, <1>c, <2>1 DEF Owned, DriveOwnsOperation
  <1>2. CASE Dispatch
    <2>1. ASSUME NEW stage, Enter(stage)
          PROVE  /\ drive'.id = drive.id
                 /\ line' = line \/ (line' = Append(line, Step) /\ drive'.pc = "queued")
      BY <2>1, <1>a, AtFields DEF Enter
    <2> QED
      BY <1>1, <1>2, <2>1 DEF Dispatch, Pass
  <1>3. CASE Reconcile
    <2>1. /\ drive'.id = drive.id
          /\ drive'.pc = (IF ReconcileStage \in Effects THEN "effect" ELSE "queued")
      BY <1>3, <1>a, SMT DEF Reconcile, Drives
    <2> QED
      BY <1>1, <1>3, <2>1 DEF Reconcile, Pass
  <1>4. CASE Admit
    BY <1>1, <1>4, AdmitFields DEF Admit, Pass
  <1>5. CASE CancellationSettled \/ EffectDone
    BY <1>1, <1>5, SettledFields, EffectDoneFields DEF CancellationSettled, EffectDone, Pass
  <1>6. CASE PassEnds
    <2>1. drive' = NoDrive
      BY <1>6 DEF PassEnds, Fault
    <2>2. ASSUME NEW i, IsStep(line', i) PROVE FALSE
      <3>1. CASE line' = <<>>
        BY <2>2, <3>1, SMT DEF IsStep
      <3>2. CASE line' = [k \in 1..Len(line) |-> Forget(line[k])] \o parked
        <4>1. i \in 1..Len(line')
          BY <2>2 DEF IsStep
        <4>2. CASE i \in 1..Len(line) /\ line[i] \in Jobs /\ line'[i] = Forget(line[i])
          BY <1>c, <2>2, <4>2, ForgetKind DEF IsStep
        <4>3. CASE line'[i] \in ClaimJobs
          BY <2>2, <4>3, SMT DEF IsStep, ClaimJobs
        <4> QED
          BY <3>2, <4>1, <4>2, <4>3, ForgottenLine
      <3> QED
        BY <1>6, <3>1, <3>2 DEF PassEnds, Fault
    <2> QED
      BY <2>1, <2>2, OneStepVacuous, NoDriveFields DEF Owned, DriveOwnsOperation
  <1> QED
    BY <1>2, <1>3, <1>4, <1>5, <1>6 DEF DriveStep

\* A call appends one job that is not a step and moves the gate at most.
LEMMA CallShape ==
  ASSUME TypeOK, ClientCall
  PROVE  /\ \E job \in Jobs : line' = Append(line, job) /\ job.kind # "step"
         /\ op' = op /\ results' = results /\ UNCHANGED waits /\ open' = open /\ fault' = fault
         /\ drive' = drive \/ (\E o \in Ops : drive.id = o /\ drive.gate = "open"
                                              /\ drive' = [drive EXCEPT !.gate = "aborting"])
  <1>1. ASSUME NEW o \in Ops, NEW intent \in Requested, NEW drives \in BOOLEAN
        PROVE  [kind |-> "accept", id |-> o, intent |-> intent, drives |-> drives] \in Jobs
    BY BoundsAssumption, SMT DEF Jobs, AcceptJobs, Intents
  <1>2. ASSUME NEW o \in Ops, NEW drives \in BOOLEAN, NEW holds \in BOOLEAN, NEW owns \in BOOLEAN
        PROVE  [kind |-> "abort", id |-> o, drives |-> drives, holds |-> holds, owns |-> owns]
               \in Jobs
    BY SMT DEF Jobs, AbortJobs
  <1>3. \A o \in Ops, mode \in Modes : Claim(o, mode) \in Jobs
    BY JobTyped
  <1>4. CASE \E o \in Ops, intent \in Requested, drives \in BOOLEAN : AcceptCall(o, intent, drives)
    BY <1>1, <1>4 DEF AcceptCall, Enqueue, durable
  <1>5. CASE \E o \in Ops, mode \in Modes \ {"prompt"} : DriveCall(o, mode)
    BY <1>3, <1>5 DEF DriveCall, Enqueue, durable, Claim
  <1>6. CASE \E o \in Ops, drives \in BOOLEAN : AbortCall(o, drives)
    <2>1. PICK o \in Ops, drives \in BOOLEAN : AbortCall(o, drives)
      BY <1>6
    <2>2. (drive.id = o) \in BOOLEAN /\ (drive.id = o /\ drive.gate = "open") \in BOOLEAN
      OBVIOUS
    <2>3. \E job \in Jobs : line' = Append(line, job) /\ job.kind # "step"
      BY <1>2, <2>1, <2>2 DEF AbortCall, Enqueue
    <2> QED
      BY <2>1, <2>3 DEF AbortCall, ShutGate, durable
  <1> QED
    BY <1>4, <1>5, <1>6 DEF ClientCall

LEMMA OwnedCall == TypeOK /\ Owned /\ ClientCall => Owned'
  <1> SUFFICES ASSUME TypeOK, Owned, ClientCall PROVE Owned'
    OBVIOUS
  <1>1. drive'.id = drive.id /\ drive'.pc = drive.pc /\ op' = op
    BY CallShape, SMT DEF TypeOK, Drives
  <1>2. PICK job \in Jobs : line' = Append(line, job) /\ job.kind # "step"
    BY CallShape
  <1>3. \A i : IsStep(line', i) => IsStep(line, i)
    BY <1>2, StepAppended DEF TypeOK
  <1> QED
    BY <1>1, <1>3 DEF Owned, OneStep, DriveOwnsOperation

LEMMA OwnedJobs ==
  TypeOK /\ Owned /\ (RunAccept \/ RunClaim \/ RunAbort \/ AbortReturns) => Owned'
  <1> SUFFICES ASSUME TypeOK, Owned, RunAccept \/ RunClaim \/ RunAbort \/ AbortReturns
               PROVE  Owned'
    OBVIOUS
  <1>a. drive \in Drives /\ op \in OpRecords
    BY DEF TypeOK
  <1>1. CASE RunAccept
    <2>1. OneStep'
      BY <1>1, OneStepShifted DEF RunAccept, HeadIs, Owned, Claim
    <2>2. op' = op \/ (op.id = None /\ drive' = drive)
      BY <1>1 DEF RunAccept, durable
    <2> QED
      BY <1>1, <2>1, <2>2 DEF Owned, DriveOwnsOperation, RunAccept
  <1>2. CASE RunClaim
    <2>1. line # <<>> /\ line' = Tail(line) /\ op' = op
      BY <1>2 DEF RunClaim, HeadIs, durable
    <2>2. \/ drive' = drive
          \/ drive.id = None /\ drive'.id = op.id
          \/ drive'.id = drive.id /\ drive'.pc = drive.pc
      <3>1. CASE drive' = Install(line[1].id, line[1].mode) /\ drive.id = None /\ op.id = line[1].id
        BY <3>1 DEF Install, Installed
      <3>2. CASE drive' = [drive EXCEPT !.conv = @ \/ line[1].mode \in Convenience]
        BY <3>2, <1>a, SMT DEF Drives
      <3> QED
        BY <1>2, <3>1, <3>2 DEF RunClaim
    <2>3. OneStep'
      <3>1. Claim(None, "drive").kind # "step"
        BY DEF Claim
      <3> QED
        BY <2>1, <2>2, <3>1, OneStepShifted DEF Owned
    <2> QED
      BY <2>1, <2>2, <2>3 DEF Owned, DriveOwnsOperation
  <1>3. CASE RunAbort
    <2>1. drive'.id = drive.id /\ drive'.pc = drive.pc
      BY <1>3, <1>a, SMT DEF RunAbort, Settled, Drives
    <2>2. op'.id = op.id
      BY <1>3, <1>a, SMT DEF RunAbort, OpRecords
    <2>3. OneStep'
      <3>1. Claim(None, "drive").kind # "step"
        BY DEF Claim
      <3> QED
        BY <1>3, <2>1, <3>1, OneStepShifted DEF RunAbort, HeadIs, Owned
    <2> QED
      BY <2>1, <2>2, <2>3 DEF Owned, DriveOwnsOperation
  <1>4. CASE AbortReturns
    <2>1. drive'.id = drive.id /\ drive'.pc = drive.pc
      BY <1>4, <1>a, SMT DEF AbortReturns, Settled, Drives
    <2>2. \A i : IsStep(line', i) => IsStep(line, i)
      BY <1>4, StepAppended DEF AbortReturns, TypeOK, Claim
    <2> QED
      BY <1>4, <2>1, <2>2 DEF AbortReturns, durable, Owned, OneStep, DriveOwnsOperation
  <1> QED
    BY <1>1, <1>2, <1>3, <1>4

LEMMA OwnedLifecycle == TypeOK /\ Owned /\ (Stop \/ Restart) => Owned'
  <1> SUFFICES ASSUME TypeOK, Owned, Stop \/ Restart PROVE Owned'
    OBVIOUS
  <1>1. CASE Stop
    <2>1. \A i : ~IsStep(<<>>, i)
      BY SMT DEF IsStep
    <2> QED
      BY <1>1, <2>1, OneStepVacuous, NoDriveFields DEF Stop, Owned, DriveOwnsOperation
  <1>2. CASE Restart
    BY <1>2 DEF Restart, durable, volatile, Owned, OneStep, DriveOwnsOperation, IsStep
  <1> QED
    BY <1>1, <1>2

LEMMA OwnedInit == Init => Owned
  <1>1. \A i : ~IsStep(<<>>, i)
    BY SMT DEF IsStep
  <1> QED
    BY <1>1, NoDriveFields DEF Init, Owned, OneStep, DriveOwnsOperation

LEMMA OwnedStep == TypeOK /\ Owned /\ [Next]_vars => Owned'
  <1>1. Owned /\ UNCHANGED vars => Owned'
    BY DEF vars, Owned, OneStep, DriveOwnsOperation, IsStep
  <1> QED
    BY <1>1, NextCases, OwnedCall, OwnedJobs, OwnedLifecycle, OwnedPlanner, OwnedDrive

LEMMA AlwaysOwned == Spec => []Owned
  BY OwnedInit, OwnedStep, TypedPoints, PTL DEF Spec

\* A live pass owns the lane's current operation, for any number of operations,
\* callers, stops and restarts: currentOperation of drive.ts never throws, and a
\* terminal commit is never made twice.
THEOREM DriveOwns == Spec => []DriveOwnsOperation
  <1>1. Owned => DriveOwnsOperation
    BY DEF Owned
  <1> QED
    BY <1>1, AlwaysOwned, PTL

-----------------------------------------------------------------------------
(* What an abort call has captured: the pass of its operation.               *)

Captured(l, i) == i \in 1..Len(l) /\ l[i].kind = "abort" /\ (l[i].owns \/ l[i].holds)

\* On the line it names the operation of the pass; once its job has answered,
\* that operation is cancelled for good, or at its end.
CapturesName ==
  /\ \A i : Captured(line, i) => line[i].id = drive.id /\ drive.id # None
  /\ \A i : Captured(returned, i) => drive.id # None /\ (drive.pc = "ended" \/ op.cancelled)

LEMMA CapturedAppended ==
  ASSUME NEW l \in Seq(Jobs), NEW job, NEW i, Captured(Append(l, job), i)
  PROVE  \/ Captured(l, i) /\ Append(l, job)[i] = l[i]
         \/ job.kind = "abort" /\ (job.owns \/ job.holds) /\ Append(l, job)[i] = job
  <1>1. i \in 1..Len(l) \/ i = Len(l) + 1
    BY AppendElements, SMT DEF Captured
  <1> QED
    BY <1>1, AppendElements DEF Captured

LEMMA CapturedInTail ==
  ASSUME NEW l \in Seq(Jobs), l # <<>>, NEW i, Captured(Tail(l), i)
  PROVE  Captured(l, i + 1) /\ Tail(l)[i] = l[i + 1]
  BY TailElements, SMT DEF Captured

LEMMA ReturnedJobs ==
  ASSUME TypeOK
  PROVE  returned \in Seq(Jobs) /\ \A i \in 1..Len(returned) : returned[i].kind = "abort"
  <1>1. returned \in Seq(AbortJobs) /\ AbortJobs \subseteq Jobs
    BY DEF TypeOK, Jobs
  <1>2. \A job \in AbortJobs : job.kind = "abort"
    BY SMT DEF AbortJobs
  <1> HIDE DEF AbortJobs, Jobs
  <1> QED
    BY <1>1, <1>2, SMT

LEMMA NothingCaptured == \A i : ~Captured(<<>>, i)
  BY SMT DEF Captured

\* The line loses its head or not, and gains a job or not.
LEMMA LineCapturesKept ==
  ASSUME TypeOK, CapturesName, drive'.id = drive.id, NEW job,
         job.kind = "abort" /\ (job.owns \/ job.holds) => job.id = drive.id /\ drive.id # None,
         \/ line' = line \/ line' = Append(line, job)
         \/ line # <<>> /\ (line' = Tail(line) \/ line' = Append(Tail(line), job)),
         NEW i, Captured(line', i)
  PROVE  line'[i].id = drive'.id /\ drive'.id # None
  <1>1. line \in Seq(Jobs) /\ (line # <<>> => Tail(line) \in Seq(Jobs))
    BY TailElements DEF TypeOK
  <1>2. CASE line' = line
    BY <1>2 DEF CapturesName
  <1>a. ASSUME NEW l \in Seq(Jobs), Captured(Append(l, job), i)
        PROVE  \/ Captured(l, i) /\ Append(l, job)[i] = l[i]
               \/ job.kind = "abort" /\ (job.owns \/ job.holds) /\ Append(l, job)[i] = job
    BY <1>a, CapturedAppended
  <1>3. CASE line' = Append(line, job)
    BY <1>1, <1>3, <1>a DEF CapturesName
  <1>4. CASE line # <<>> /\ line' = Tail(line)
    BY <1>1, <1>4, CapturedInTail DEF CapturesName
  <1>5. CASE line # <<>> /\ line' = Append(Tail(line), job)
    <2>1. \/ Captured(Tail(line), i) /\ line'[i] = Tail(line)[i]
          \/ job.kind = "abort" /\ (job.owns \/ job.holds) /\ line'[i] = job
      BY <1>1, <1>5, <1>a
    <2>2. CASE Captured(Tail(line), i) /\ line'[i] = Tail(line)[i]
      <3>1. Captured(line, i + 1) /\ line'[i] = line[i + 1]
        BY <1>1, <1>5, <2>2, CapturedInTail
      <3> QED
        BY <3>1 DEF CapturesName
    <2> QED
      BY <2>1, <2>2
  <1> QED
    BY <1>2, <1>3, <1>4, <1>5

\* The calls that go on, as long as the pass does not forget a cancellation.
LEMMA CapturesKept ==
  ASSUME TypeOK, CapturesName, drive'.id = drive.id, NEW job,
         job.kind = "abort" /\ (job.owns \/ job.holds) => job.id = drive.id /\ drive.id # None,
         \/ line' = line \/ line' = Append(line, job)
         \/ line # <<>> /\ (line' = Tail(line) \/ line' = Append(Tail(line), job)),
         drive.id # None /\ (drive.pc = "ended" \/ op.cancelled)
         => drive'.pc = "ended" \/ op'.cancelled,
         returned' = returned \/ (returned # <<>> /\ returned' = Tail(returned))
  PROVE  CapturesName'
  <1>1. ASSUME NEW i, Captured(line', i) PROVE line'[i].id = drive'.id /\ drive'.id # None
    BY <1>1, LineCapturesKept
  <1>2. ASSUME NEW i, Captured(returned', i)
        PROVE  drive'.id # None /\ (drive'.pc = "ended" \/ op'.cancelled)
    <2>1. ASSUME returned # <<>>, returned' = Tail(returned) PROVE Captured(returned, i + 1)
      BY <1>2, <2>1, CapturedInTail, ReturnedJobs
    <2> QED
      BY <1>2, <2>1 DEF CapturesName
  <1> QED
    BY <1>1, <1>2 DEF CapturesName

LEMMA CapturesGone ==
  ASSUME \A i : ~Captured(line', i), \A i : ~Captured(returned', i)
  PROVE  CapturesName'
  BY DEF CapturesName

LEMMA CapturesPlanner == TypeOK /\ Owned /\ CapturesName /\ PlannerStep => CapturesName'
  <1> SUFFICES ASSUME TypeOK, Owned, CapturesName, PlannerStep PROVE CapturesName'
    OBVIOUS
  <1>1. line # <<>> /\ drive \in Drives /\ Step.kind # "abort" /\ drive.pc = "queued"
    BY PlannerHead DEF HeadIs, TypeOK, Step
  <1>2. CASE GoesOn
    BY <1>1, <1>2, CapturesKept DEF GoesOn
  <1>3. CASE Finishes
    <2>1. drive'.pc = "ended" /\ drive'.id = drive.id /\ line' = Tail(line) /\ returned' = returned
      BY <1>1, <1>3, AtFields DEF Finishes, Finish
    <2> QED
      BY <1>1, <2>1, CapturesKept
  <1>4. CASE FaultsAborted
    BY <1>4, NothingCaptured, CapturesGone DEF FaultsAborted, Fault
  <1> QED
    BY <1>2, <1>3, <1>4, PlannerShape

LEMMA CapturesDrive == TypeOK /\ CapturesName /\ DriveStep => CapturesName'
  <1> SUFFICES ASSUME TypeOK, CapturesName, DriveStep PROVE CapturesName'
    OBVIOUS
  <1>a. drive \in Drives /\ Step.kind # "abort"
    BY DEF TypeOK, Step
  <1>1. CASE PassEnds
    <2>1. CASE line' = <<>> /\ returned' = <<>>
      BY <2>1, NothingCaptured, CapturesGone
    <2>2. CASE /\ line' = [k \in 1..Len(line) |-> Forget(line[k])] \o parked
               /\ returned' = [k \in 1..Len(returned) |-> Forget(returned[k])]
      <3>1. ASSUME NEW i, Captured(line', i) PROVE FALSE
        <4>1. i \in 1..Len(line')
          BY <3>1 DEF Captured
        <4>2. CASE line[i] \in Jobs /\ line'[i] = Forget(line[i])
          BY <3>1, <4>2, ForgetKind DEF Captured
        <4>3. CASE line'[i] \in ClaimJobs
          BY <3>1, <4>3, SMT DEF Captured, ClaimJobs
        <4> QED
          BY <2>2, <4>1, <4>2, <4>3, ForgottenLine
      <3>2. ASSUME NEW i, Captured(returned', i) PROVE FALSE
        <4>1. Len(returned) \in Nat /\ \A k \in 1..Len(returned) : returned[k] \in Jobs
          BY DEF TypeOK, Jobs
        <4>2. i \in 1..Len(returned) /\ returned'[i] = Forget(returned[i])
          BY <2>2, <3>2, <4>1, SMT DEF Captured
        <4>3. returned[i] \in Jobs /\ returned[i].kind = "abort"
          BY <4>1, <4>2, ReturnedJobs
        <4>4. ~Forget(returned[i]).owns /\ ~Forget(returned[i]).holds
          BY <4>3, ForgetKind
        <4> QED
          BY <3>2, <4>2, <4>4 DEF Captured
      <3> QED
        BY <3>1, <3>2, CapturesGone
    <2> QED
      BY <1>1, <2>1, <2>2 DEF PassEnds, Fault
  <1>2. CASE ~PassEnds
    <2>1. /\ op' = op /\ returned' = returned /\ drive.pc # "ended"
          /\ line' = line \/ line' = Append(line, Step)
      BY <1>2 DEF DriveStep, Dispatch, Enter, Reconcile, Admit, CancellationSettled, EffectDone,
                  Enqueue, Pass, durable
    <2>2. drive'.id = drive.id
      <3>1. CASE Dispatch
        BY <3>1, <1>a, AtFields DEF Dispatch, Enter
      <3>2. CASE Reconcile
        BY <3>2, <1>a, SMT DEF Reconcile, Drives
      <3> QED
        BY <1>2, <3>1, <3>2, AdmitFields, SettledFields, EffectDoneFields DEF DriveStep
    <2> QED
      BY <1>a, <2>1, <2>2, CapturesKept
  <1> QED
    BY <1>1, <1>2

LEMMA HeadCaptured ==
  ASSUME TypeOK, AbortReturns
  PROVE  returned[1].owns \/ returned[1].holds => Captured(returned, 1)
  <1>1. returned \in Seq(Jobs) /\ returned # <<>>
    BY ReturnedJobs DEF AbortReturns
  <1>2. 1 \in 1..Len(returned) /\ returned[1].kind = "abort"
    BY <1>1, ReturnedJobs, SMT
  <1> QED
    BY <1>2 DEF Captured

\* An abort call captures the pass it names, any other call nothing.
LEMMA CallCaptures ==
  ASSUME ClientCall
  PROVE  \E job : /\ line' = Append(line, job)
                  /\ job.kind = "abort" /\ (job.owns \/ job.holds)
                     => job.id = drive.id /\ drive.id # None
  <1>1. CASE \E o \in Ops, drives \in BOOLEAN : AbortCall(o, drives)
    <2>1. PICK o \in Ops, drives \in BOOLEAN : AbortCall(o, drives)
      BY <1>1
    <2> DEFINE job == [kind |-> "abort", id |-> o, drives |-> drives, holds |-> drive.id = o,
                       owns |-> drive.id = o /\ drive.gate = "open"]
    <2>2. job.id = o /\ (job.owns \/ job.holds => drive.id = o) /\ o # None
      BY NoneAssumption
    <2>3. line' = Append(line, job)
      BY <2>1 DEF AbortCall, Enqueue
    <2> HIDE DEF job
    <2> QED
      BY <2>2, <2>3
  <1>2. CASE \E o \in Ops, intent \in Requested, drives \in BOOLEAN : AcceptCall(o, intent, drives)
    BY <1>2 DEF AcceptCall, Enqueue
  <1>3. CASE \E o \in Ops, mode \in Modes \ {"prompt"} : DriveCall(o, mode)
    BY <1>3 DEF DriveCall, Enqueue, Claim
  <1> QED
    BY <1>1, <1>2, <1>3 DEF ClientCall

LEMMA CapturesAbort == TypeOK /\ Owned /\ CapturesName /\ RunAbort => CapturesName'
  <1> SUFFICES ASSUME TypeOK, Owned, CapturesName, RunAbort PROVE CapturesName'
    OBVIOUS
  <1> DEFINE job == line[1]
             matches == op.id = job.id
             new == matches /\ ~op.cancelled
             answered == [job EXCEPT !.owns = @ /\ ~new, !.holds = @ /\ matches /\ ~new,
                                     !.drives = @ /\ matches]
  <1>a. drive \in Drives /\ op \in OpRecords /\ line \in Seq(Jobs) /\ job \in AbortJobs
    BY HeadTyped DEF TypeOK, RunAbort
  <1>1. drive'.id = drive.id /\ drive'.pc = drive.pc
    BY <1>a, SMT DEF RunAbort, Settled, Drives
  <1>2. op.cancelled => op'.cancelled
    BY DEF RunAbort
  <1>3. ASSUME NEW i, Captured(line', i) PROVE line'[i].id = drive'.id /\ drive'.id # None
    <2>1. line # <<>> /\ line' = Tail(line) /\ Step.kind # "abort"
      BY DEF RunAbort, HeadIs, Step
    <2> QED
      BY <1>1, <1>3, <2>1, LineCapturesKept
  <1>4. returned' = Append(returned, answered)
    BY DEF RunAbort
  <1>5. answered.owns = (job.owns /\ ~new) /\ answered.holds = (job.holds /\ matches /\ ~new)
    BY <1>a, SMT DEF AbortJobs
  <1>6. job.owns \/ job.holds => job.id = drive.id /\ drive.id # None
    <2>1. job.owns \/ job.holds => Captured(line, 1)
      BY <1>a, SMT DEF RunAbort, HeadIs, Captured
    <2> QED
      BY <2>1 DEF CapturesName
  <1>7. answered.owns \/ answered.holds
        => drive.id # None /\ (drive.pc = "ended" \/ op.cancelled)
    BY <1>5, <1>6 DEF Owned, DriveOwnsOperation
  <1>8. ASSUME NEW i, Captured(returned', i)
        PROVE  drive'.id # None /\ (drive'.pc = "ended" \/ op'.cancelled)
    <2> HIDE DEF answered
    <2>1. Captured(returned, i) \/ answered.owns \/ answered.holds
      BY <1>4, <1>8, CapturedAppended, ReturnedJobs
    <2> QED
      BY <1>1, <1>2, <1>7, <2>1 DEF CapturesName
  <1> QED
    BY <1>3, <1>8 DEF CapturesName

LEMMA CapturesOthers ==
  TypeOK /\ Owned /\ CapturesName
  /\ (ClientCall \/ RunAccept \/ RunClaim \/ AbortReturns \/ Stop \/ Restart) => CapturesName'
  <1> SUFFICES ASSUME TypeOK, Owned, CapturesName,
                      ClientCall \/ RunAccept \/ RunClaim \/ AbortReturns \/ Stop \/ Restart
               PROVE  CapturesName'
    OBVIOUS
  <1>a. drive \in Drives /\ line \in Seq(Jobs) /\ Step.kind # "abort"
    BY DEF TypeOK, Step
  <1>b. \A o, mode : Claim(o, mode).kind # "abort"
    BY DEF Claim
  <1>1. CASE ClientCall
    <2>1. op' = op /\ drive'.id = drive.id /\ drive'.pc = drive.pc /\ returned' = returned
      BY <1>1, <1>a, CallShape, SMT DEF Drives
    <2> QED
      BY <1>1, <2>1, CallCaptures, CapturesKept
  <1>2. CASE RunAccept
    <2>1. drive' = drive /\ (op' = op \/ op.id = None) /\ returned' = returned
      BY <1>2 DEF RunAccept, durable
    <2>2. op.id = None /\ drive.id # None => drive.pc = "ended"
      BY DEF Owned, DriveOwnsOperation
    <2>3. \E job : /\ job.kind # "abort" /\ line # <<>>
                   /\ line' = Tail(line) \/ line' = Append(Tail(line), job)
      BY <1>2, <1>b DEF RunAccept, HeadIs
    <2> QED
      BY <2>1, <2>2, <2>3, CapturesKept
  <1>3. CASE RunClaim
    <2>1. op' = op /\ line # <<>> /\ line' = Tail(line) /\ returned' = returned
      BY <1>3 DEF RunClaim, HeadIs, durable
    <2>2. CASE drive' = drive
      BY <1>a, <2>1, <2>2, CapturesKept
    <2>3. CASE drive' = [drive EXCEPT !.conv = @ \/ line[1].mode \in Convenience]
      <3>1. drive'.id = drive.id /\ drive'.pc = drive.pc
        BY <2>3, <1>a, SMT DEF Drives
      <3> QED
        BY <1>a, <2>1, <3>1, CapturesKept
    <2>4. CASE drive.id = None
      <3>1. ASSUME NEW i, Captured(Tail(line), i) PROVE FALSE
        BY <1>a, <2>1, <2>4, <3>1, CapturedInTail DEF CapturesName
      <3>2. \A i : ~Captured(returned, i)
        BY <2>4 DEF CapturesName
      <3> QED
        BY <2>1, <3>1, <3>2, CapturesGone
    <2> QED
      BY <1>3, <2>2, <2>3, <2>4 DEF RunClaim
  <1>4. CASE AbortReturns
    <2>1. drive'.id = drive.id /\ drive'.pc = drive.pc
      BY <1>4, <1>a, SMT DEF AbortReturns, Settled, Drives
    <2>2. /\ op' = op /\ returned # <<>> /\ returned' = Tail(returned)
          /\ \E job : job.kind # "abort" /\ (line' = line \/ line' = Append(line, job))
      BY <1>4, <1>b DEF AbortReturns, durable
    <2> QED
      BY <2>1, <2>2, CapturesKept
  <1>5. CASE Stop
    BY <1>5, NothingCaptured, CapturesGone DEF Stop
  <1>6. CASE Restart
    BY <1>6 DEF Restart, durable, volatile, CapturesName, Captured
  <1> QED
    BY <1>1, <1>2, <1>3, <1>4, <1>5, <1>6

LEMMA CapturesStep == TypeOK /\ Owned /\ CapturesName /\ [Next]_vars => CapturesName'
  <1>1. CapturesName /\ UNCHANGED vars => CapturesName'
    BY DEF vars, CapturesName, Captured
  <1> QED
    BY <1>1, NextCases, CapturesPlanner, CapturesDrive, CapturesAbort, CapturesOthers

LEMMA AlwaysCapturesName == Spec => []CapturesName
  <1>1. Init => CapturesName
    BY NothingCaptured DEF Init, CapturesName
  <1> QED
    BY <1>1, CapturesStep, AlwaysOwned, TypedPoints, PTL DEF Spec

-----------------------------------------------------------------------------
(* The signal of a live pass, and what an effect under it may report. *)

Signalled ==
  /\ SignalMeansCancelled
  /\ drive.aborted /\ drive.pc # "ended" => drive.sig
  /\ drive.id = None => drive.pc = "ended"
  /\ NoAbortedWhileRunning

\* Only the terminal commit and a fresh acceptance take a cancellation back.
LEMMA SignalledKept ==
  ASSUME Signalled, drive'.pc # "ended" => drive.pc # "ended", drive'.sig = drive.sig,
         drive'.aborted => drive.aborted, drive'.id = drive.id,
         drive'.pc = "ended" \/ (op.cancelled => op'.cancelled),
         drive'.id = None => drive'.pc = "ended", fault' = fault
  PROVE  Signalled'
  BY DEF Signalled, SignalMeansCancelled, NoAbortedWhileRunning

LEMMA SignalledEnded ==
  ASSUME Signalled, drive'.pc = "ended", fault' # "aborted_running"
  PROVE  Signalled'
  BY DEF Signalled, SignalMeansCancelled, NoAbortedWhileRunning

LEMMA SignalledPlanner == TypeOK /\ Owned /\ Signalled /\ PlannerStep => Signalled'
  <1> SUFFICES ASSUME TypeOK, Owned, Signalled, PlannerStep PROVE Signalled'
    OBVIOUS
  <1>1. drive.pc = "queued" /\ drive.id # None /\ drive \in Drives
    BY PlannerHead, NoStepBehind DEF Owned, TypeOK
  <1>2. CASE GoesOn
    BY <1>1, <1>2, SignalledKept DEF GoesOn
  <1>3. CASE Finishes
    <2>1. drive'.pc = "ended" /\ fault' = fault
      BY <1>1, <1>3, AtFields DEF Finishes, Finish
    <2> QED
      BY <2>1, SignalledEnded DEF Signalled, NoAbortedWhileRunning
  <1>4. CASE FaultsAborted
    BY <1>1, <1>4 DEF FaultsAborted, Signalled, SignalMeansCancelled
  <1> QED
    BY <1>2, <1>3, <1>4, PlannerShape

LEMMA SignalledDrive == TypeOK /\ Owned /\ Signalled /\ DriveStep => Signalled'
  <1> SUFFICES ASSUME TypeOK, Owned, Signalled, DriveStep PROVE Signalled'
    OBVIOUS
  <1>a. drive \in Drives
    BY DEF TypeOK
  <1>b. op' = op /\ drive.id # None
    BY DEF DriveStep, Dispatch, Reconcile, Admit, CancellationSettled, EffectDone, PassEnds, Fault,
       Pass, durable
  <1>1. CASE Dispatch
    <2>1. PICK stage : Enter(stage)
      BY <1>1 DEF Dispatch
    <2>2. drive'.id = drive.id /\ drive'.sig = drive.sig /\ drive'.aborted = drive.aborted
      BY <2>1, <1>a, AtFields DEF Enter
    <2> QED
      BY <1>1, <1>b, <2>2, SignalledKept DEF Dispatch, Pass
  <1>2. CASE Reconcile
    <2>1. drive'.id = drive.id /\ drive'.sig = TRUE /\ op'.cancelled
      BY <1>2, <1>a, <1>b, SMT DEF Reconcile, Drives
    <2>2. fault' = fault
      BY <1>2 DEF Reconcile
    <2> QED
      BY <1>b, <2>1, <2>2 DEF Signalled, SignalMeansCancelled, NoAbortedWhileRunning
  <1>3. CASE Admit \/ CancellationSettled
    <2>1. drive'.id = drive.id /\ drive'.sig = drive.sig /\ drive'.aborted = drive.aborted
      BY <1>3, AdmitFields, SettledFields
    <2> QED
      BY <1>3, <1>b, <2>1, SignalledKept DEF Admit, CancellationSettled, Pass
  <1>4. CASE EffectDone
    <2>1. drive.pc = "effect" /\ fault' = fault
      BY <1>4 DEF EffectDone, Pass
    <2>2. drive'.aborted => drive.sig
      BY <1>4, <2>1, EffectDoneFields DEF MayReportAborted, Signalled
    <2> QED
      BY <1>4, <1>b, <2>1, <2>2, EffectDoneFields
      DEF Signalled, SignalMeansCancelled, NoAbortedWhileRunning
  <1>5. CASE PassEnds
    <2>1. drive'.pc = "ended" /\ fault' # "aborted_running"
      BY <1>5, NoDriveFields DEF PassEnds, Fault, Signalled, NoAbortedWhileRunning
    <2> QED
      BY <2>1, SignalledEnded
  <1> QED
    BY <1>1, <1>2, <1>3, <1>4, <1>5 DEF DriveStep

LEMMA SignalledOthers ==
  TypeOK /\ Owned /\ CapturesName /\ Signalled
  /\ (ClientCall \/ RunAccept \/ RunClaim \/ RunAbort \/ AbortReturns \/ Stop \/ Restart)
  => Signalled'
  <1> SUFFICES ASSUME TypeOK, Owned, CapturesName, Signalled,
                      ClientCall \/ RunAccept \/ RunClaim \/ RunAbort \/ AbortReturns
                      \/ Stop \/ Restart
               PROVE  Signalled'
    OBVIOUS
  <1>a. drive \in Drives /\ op \in OpRecords
    BY DEF TypeOK
  <1>1. CASE ClientCall
    <2>1. /\ drive'.id = drive.id /\ drive'.pc = drive.pc /\ drive'.sig = drive.sig
          /\ drive'.aborted = drive.aborted
      BY <1>1, <1>a, CallShape, SMT DEF Drives
    <2> QED
      BY <1>1, <2>1, CallShape, SignalledKept DEF Signalled
  <1>2. CASE RunAccept
    <2>1. drive' = drive /\ fault' = fault /\ (op' = op \/ op.id = None)
      BY <1>2 DEF RunAccept, durable
    <2>2. op.id = None => drive.pc = "ended"
      BY DEF Owned, DriveOwnsOperation, Signalled
    <2> QED
      BY <2>1, <2>2, SignalledKept DEF Signalled
  <1>3. CASE RunClaim
    <2>1. op' = op /\ fault' = fault
      BY <1>3 DEF RunClaim, durable
    <2>2. CASE drive' = drive
      BY <2>1, <2>2, SignalledKept DEF Signalled
    <2>3. CASE drive' = [drive EXCEPT !.conv = @ \/ line[1].mode \in Convenience]
      <3>1. /\ drive'.id = drive.id /\ drive'.pc = drive.pc /\ drive'.sig = drive.sig
            /\ drive'.aborted = drive.aborted
        BY <2>3, <1>a, SMT DEF Drives
      <3> QED
        BY <2>1, <3>1, SignalledKept DEF Signalled
    <2>4. CASE drive' = Install(line[1].id, line[1].mode)
      <3>1. drive'.sig = FALSE /\ drive'.aborted = FALSE /\ drive'.id = line[1].id
        BY <2>4 DEF Install, Installed
      <3>2. line[1].id # None
        BY <1>3, HeadTyped, NoneAssumption, SMT DEF RunClaim, ClaimJobs
      <3> QED
        BY <2>1, <3>1, <3>2 DEF Signalled, SignalMeansCancelled, NoAbortedWhileRunning
    <2> QED
      BY <1>3, <2>2, <2>3, <2>4 DEF RunClaim
  <1>4. CASE RunAbort
    <2>1. /\ drive'.id = drive.id /\ drive'.pc = drive.pc /\ drive'.aborted = drive.aborted
      BY <1>4, <1>a, SMT DEF RunAbort, Settled, Drives
    <2>2. drive'.sig = drive.sig \/ op'.cancelled
      BY <1>4, <1>a, SMT DEF RunAbort, OpRecords
    <2>3. op.cancelled => op'.cancelled
      BY <1>4 DEF RunAbort
    <2>4. drive'.sig = drive.sig \/ drive'.sig = TRUE
      BY <1>4, <1>a DEF RunAbort, Settled, Drives
    <2>5. fault' = fault
      BY <1>4 DEF RunAbort
    <2>6. drive'.sig \/ ~drive.sig
      BY <1>4, <1>a, SMT DEF RunAbort, Settled, Drives
    <2> QED
      BY <2>1, <2>2, <2>3, <2>4, <2>5, <2>6
      DEF Signalled, SignalMeansCancelled, NoAbortedWhileRunning
  <1>5. CASE Stop
    BY <1>5, NoDriveFields, SignalledEnded DEF Stop, Signalled, NoAbortedWhileRunning
  <1>6. CASE Restart
    BY <1>6
    DEF Restart, durable, volatile, Signalled, SignalMeansCancelled, NoAbortedWhileRunning
  <1>7. CASE AbortReturns
    <2>1. /\ drive'.id = drive.id /\ drive'.pc = drive.pc /\ drive'.aborted = drive.aborted
          /\ drive'.sig = (drive.sig \/ returned[1].holds)
      BY <1>7, <1>a, SMT DEF AbortReturns, Settled, Drives
    <2>2. returned[1].holds => drive.pc = "ended" \/ op.cancelled
      BY <1>7, HeadCaptured DEF CapturesName
    <2>3. op' = op /\ fault' = fault
      BY <1>7 DEF AbortReturns, durable
    <2> QED
      BY <2>1, <2>2, <2>3 DEF Signalled, SignalMeansCancelled, NoAbortedWhileRunning
  <1> QED
    BY <1>1, <1>2, <1>3, <1>4, <1>5, <1>6, <1>7

LEMMA SignalledStep ==
  TypeOK /\ Owned /\ CapturesName /\ Signalled /\ [Next]_vars => Signalled'
  <1>1. Signalled /\ UNCHANGED vars => Signalled'
    BY DEF vars, Signalled, SignalMeansCancelled, NoAbortedWhileRunning
  <1> QED
    BY <1>1, NextCases, SignalledPlanner, SignalledDrive, SignalledOthers

LEMMA AlwaysSignalled == Spec => []Signalled
  <1>1. Init => Signalled
    BY NoDriveFields DEF Init, Signalled, SignalMeansCancelled, NoAbortedWhileRunning
  <1> QED
    BY <1>1, SignalledStep, AlwaysCapturesName, AlwaysOwned, TypedPoints, PTL DEF Spec

\* The gate never signals an abort that is not durable: no hook, request or
\* timer is interrupted for a cancellation the session does not remember.
THEOREM SignalIsDurable == Spec => []SignalMeansCancelled
  <1>1. Signalled => SignalMeansCancelled
    BY DEF Signalled
  <1> QED
    BY <1>1, AlwaysSignalled, PTL

\* Hence publishResponse and publishAttemptResult never fault the harness with
\* an "aborted" response under running control.
THEOREM NeverAbortedWhileRunning == Spec => []NoAbortedWhileRunning
  <1>1. Signalled => NoAbortedWhileRunning
    BY DEF Signalled
  <1> QED
    BY <1>1, AlwaysSignalled, PTL

-----------------------------------------------------------------------------
(* An awaited cancellation is still to be resolved: by a job on the line, or *)
(* by a call that goes on.                                                   *)

Resolves(l, i) == i \in 1..Len(l) /\ l[i].kind = "abort" /\ l[i].owns
Owes(l, i) == i \in 1..Len(l) /\ l[i].owns

LEMMA AwaitedForm ==
  /\ AwaitedCancellationPending
     => (drive.gate = "aborting" => (\E i : Resolves(line, i)) \/ (\E i : Owes(returned, i)))
  /\ (\E i : Resolves(line', i)) \/ (\E i : Owes(returned', i)) \/ drive'.gate # "aborting"
     => AwaitedCancellationPending'
  BY DEF AwaitedCancellationPending, Resolves, Owes

LEMMA ResolvesAppended ==
  ASSUME NEW l \in Seq(Jobs), NEW x, NEW i, Resolves(l, i)
  PROVE  Resolves(Append(l, x), i)
  BY AppendElements, SMT DEF Resolves

LEMMA ResolvesTail ==
  ASSUME NEW l \in Seq(Jobs), l # <<>>, NEW i, Resolves(l, i), i # 1
  PROVE  Resolves(Tail(l), i - 1)
  BY TailElements, SMT DEF Resolves

\* What is still owed stays owed while nothing is resolved.
LEMMA OwedKept ==
  ASSUME TypeOK, NEW i, Owes(returned, i),
         \/ returned' = returned
         \/ \E job : returned' = Append(returned, job)
         \/ returned # <<>> /\ returned' = Tail(returned) /\ ~returned[1].owns
  PROVE  \E k : Owes(returned', k)
  <1>1. returned \in Seq(Jobs)
    BY ReturnedJobs
  <1>2. CASE returned' = returned
    BY <1>2 DEF Owes
  <1>3. ASSUME NEW job, returned' = Append(returned, job) PROVE Owes(returned', i)
    BY <1>1, <1>3, AppendElements, SMT DEF Owes
  <1>4. ASSUME returned # <<>>, returned' = Tail(returned), ~returned[1].owns PROVE Owes(returned', i - 1)
    BY <1>1, <1>4, TailElements, SMT DEF Owes
  <1> QED
    BY <1>2, <1>3, <1>4

\* A job other than the one that resolves the awaited cancellation is done.
LEMMA AwaitedBehind ==
  ASSUME TypeOK, AwaitedCancellationPending, line # <<>>, NEW job,
         line[1].kind = "abort" => ~line[1].owns, drive'.gate = "aborting" => drive.gate = "aborting",
         line' = Tail(line) \/ line' = Append(Tail(line), job),
         returned' = returned \/ \E answered : returned' = Append(returned, answered)
  PROVE  AwaitedCancellationPending'
  <1> SUFFICES ASSUME drive.gate = "aborting"
               PROVE  (\E i : Resolves(line', i)) \/ (\E i : Owes(returned', i))
    BY AwaitedForm
  <1>1. line \in Seq(Jobs) /\ Tail(line) \in Seq(Jobs)
    BY TailElements DEF TypeOK
  <1>2. CASE \E i : Resolves(line, i)
    <2>1. PICK i : Resolves(line, i)
      BY <1>2
    <2>2. i # 1
      BY <2>1 DEF Resolves
    <2>3. Resolves(Tail(line), i - 1)
      BY <1>1, <2>1, <2>2, ResolvesTail
    <2> QED
      BY <1>1, <2>3, ResolvesAppended
  <1>3. CASE \E i : Owes(returned, i)
    BY <1>3, OwedKept
  <1> QED
    BY <1>2, <1>3, AwaitedForm

LEMMA AwaitedQueued ==
  ASSUME TypeOK, AwaitedCancellationPending, NEW job, line' = line \/ line' = Append(line, job),
         drive'.gate = "aborting" => drive.gate = "aborting",
         \/ returned' = returned
         \/ returned # <<>> /\ returned' = Tail(returned) /\ ~returned[1].owns
  PROVE  AwaitedCancellationPending'
  <1> SUFFICES ASSUME drive.gate = "aborting"
               PROVE  (\E i : Resolves(line', i)) \/ (\E i : Owes(returned', i))
    BY AwaitedForm
  <1>1. CASE \E i : Resolves(line, i)
    BY <1>1, ResolvesAppended DEF TypeOK
  <1>2. CASE \E i : Owes(returned, i)
    BY <1>2, OwedKept
  <1> QED
    BY <1>1, <1>2, AwaitedForm

LEMMA AwaitedPlanner ==
  TypeOK /\ AwaitedCancellationPending /\ PlannerStep => AwaitedCancellationPending'
  <1> SUFFICES ASSUME TypeOK, AwaitedCancellationPending, PlannerStep
               PROVE  AwaitedCancellationPending'
    OBVIOUS
  <1>1. line # <<>> /\ line[1].kind # "abort" /\ drive \in Drives
    BY PlannerHead DEF HeadIs, TypeOK
  <1>2. CASE GoesOn
    BY <1>1, <1>2, AwaitedBehind DEF GoesOn
  <1>3. CASE Finishes
    <2>1. drive'.gate = drive.gate /\ line' = Tail(line) /\ returned' = returned
      BY <1>1, <1>3, AtFields DEF Finishes, Finish
    <2> QED
      BY <1>1, <2>1, AwaitedBehind
  <1>4. CASE FaultsAborted
    BY <1>4, NoDriveFields DEF FaultsAborted, Fault, AwaitedCancellationPending
  <1> QED
    BY <1>2, <1>3, <1>4, PlannerShape

LEMMA AwaitedDrive ==
  TypeOK /\ AwaitedCancellationPending /\ DriveStep => AwaitedCancellationPending'
  <1> SUFFICES ASSUME TypeOK, AwaitedCancellationPending, DriveStep
               PROVE  AwaitedCancellationPending'
    OBVIOUS
  <1>a. drive \in Drives
    BY DEF TypeOK
  <1>1. CASE Dispatch
    <2>1. PICK stage : Enter(stage)
      BY <1>1 DEF Dispatch
    <2>2. drive'.gate = drive.gate /\ (line' = line \/ line' = Append(line, Step))
      BY <2>1, <1>a, AtFields DEF Enter
    <2> QED
      BY <1>1, <2>2, AwaitedQueued DEF Dispatch
  <1>2. CASE Reconcile
    <2>1. drive'.gate = "aborting" => drive.gate = "aborting"
      BY <1>2, <1>a, SMT DEF Reconcile, Drives
    <2> QED
      BY <1>2, <2>1, AwaitedQueued DEF Reconcile
  <1>3. CASE Admit
    BY <1>3, AdmitFields, AwaitedQueued DEF Admit
  <1>4. CASE CancellationSettled
    BY <1>4, SettledFields, AwaitedQueued DEF CancellationSettled
  <1>5. CASE EffectDone
    <2>1. line' = line \/ line' = Append(line, Step)
      BY <1>5, EffectDoneFields
    <2> QED
      BY <1>5, <2>1, EffectDoneFields, AwaitedQueued DEF EffectDone
  <1>6. CASE PassEnds
    BY <1>6, NoDriveFields DEF PassEnds, Fault, AwaitedCancellationPending
  <1> QED
    BY <1>1, <1>2, <1>3, <1>4, <1>5, <1>6 DEF DriveStep

\* The job of an abort call: it resolves what it owns, or leaves it to the call.
LEMMA AwaitedAbort ==
  TypeOK /\ AwaitedCancellationPending /\ RunAbort => AwaitedCancellationPending'
  <1> SUFFICES ASSUME TypeOK, AwaitedCancellationPending, RunAbort
               PROVE  AwaitedCancellationPending'
    OBVIOUS
  <1> DEFINE job == line[1]
             matches == op.id = job.id
             new == matches /\ ~op.cancelled
             answered == [job EXCEPT !.owns = @ /\ ~new, !.holds = @ /\ matches /\ ~new,
                                     !.drives = @ /\ matches]
  <1>1. drive \in Drives /\ job \in AbortJobs /\ returned \in Seq(Jobs)
    BY HeadTyped, ReturnedJobs DEF TypeOK, RunAbort
  <1>2. /\ line # <<>> /\ line' = Tail(line)
        /\ returned' = Append(returned, answered)
        /\ drive' = IF new THEN Settled(job) ELSE drive
    BY DEF RunAbort, HeadIs
  <1>3. Settled(job).gate = (IF job.owns THEN "released" ELSE drive.gate)
    BY <1>1, SMT DEF Settled, Drives
  <1>4. CASE ~job.owns
    BY <1>2, <1>3, <1>4, AwaitedBehind
  <1>5. CASE job.owns /\ new
    BY <1>2, <1>3, <1>5 DEF AwaitedCancellationPending
  <1>6. CASE job.owns /\ ~new
    <2>1. answered.owns
      BY <1>1, <1>6, SMT DEF AbortJobs
    <2>2. Owes(returned', Len(returned) + 1)
      <3> HIDE DEF answered
      <3>1. Len(returned) + 1 \in 1..Len(returned')
        BY <1>1, <1>2, AppendElements, SMT
      <3>2. returned'[Len(returned) + 1] = answered
        BY <1>1, <1>2, AppendElements
      <3> QED
        BY <2>1, <3>1, <3>2 DEF Owes
    <2> QED
      BY <2>2, AwaitedForm
  <1> QED
    BY <1>4, <1>5, <1>6

LEMMA AwaitedOthers ==
  TypeOK /\ AwaitedCancellationPending
  /\ (ClientCall \/ RunAccept \/ RunClaim \/ AbortReturns \/ Stop \/ Restart)
  => AwaitedCancellationPending'
  <1> SUFFICES ASSUME TypeOK, AwaitedCancellationPending,
                      ClientCall \/ RunAccept \/ RunClaim \/ AbortReturns \/ Stop \/ Restart
               PROVE  AwaitedCancellationPending'
    OBVIOUS
  <1>a. drive \in Drives /\ line \in Seq(Jobs)
    BY DEF TypeOK
  <1>1. CASE ClientCall
    <2>1. CASE drive'.gate = "aborting" => drive.gate = "aborting"
      BY <1>1, <2>1, CallShape, AwaitedQueued
    <2>2. CASE drive'.gate = "aborting" /\ drive.gate # "aborting"
      <3>1. PICK o \in Ops, drives \in BOOLEAN : AbortCall(o, drives)
        BY <1>1, <2>2 DEF ClientCall, AcceptCall, DriveCall
      <3>2. drive.id = o /\ drive.gate = "open"
        BY <2>2, <3>1 DEF AbortCall, ShutGate
      <3> DEFINE job == [kind |-> "abort", id |-> o, drives |-> drives, holds |-> drive.id = o,
                         owns |-> drive.id = o /\ drive.gate = "open"]
      <3>3. job.kind = "abort" /\ job.owns
        BY <3>2
      <3>4. line' = Append(line, job)
        BY <3>1 DEF AbortCall, Enqueue
      <3> HIDE DEF job
      <3>5. Resolves(line', Len(line) + 1)
        <4>1. Len(line') = Len(line) + 1 /\ Len(line) \in Nat /\ line'[Len(line) + 1] = job
          BY <1>a, <3>4, AppendElements
        <4>2. Len(line) + 1 \in 1..Len(line')
          BY <4>1, SMT
        <4> QED
          BY <3>3, <4>1, <4>2 DEF Resolves
      <3> QED
        BY <3>5, AwaitedForm
    <2> QED
      BY <2>1, <2>2
  <1>2. CASE RunAccept
    <2>1. drive' = drive /\ line # <<>> /\ line[1].kind # "abort" /\ returned' = returned
      BY <1>2 DEF RunAccept, HeadIs
    <2>2. \E job : line' = Tail(line) \/ line' = Append(Tail(line), job)
      BY <1>2 DEF RunAccept
    <2> QED
      BY <2>1, <2>2, AwaitedBehind
  <1>3. CASE RunClaim
    <2>1. drive'.gate = "aborting" => drive.gate = "aborting"
      <3>1. CASE drive' = Install(line[1].id, line[1].mode)
        BY <3>1 DEF Install, Installed
      <3>2. CASE drive' = [drive EXCEPT !.conv = @ \/ line[1].mode \in Convenience]
        BY <3>2, <1>a, SMT DEF Drives
      <3> QED
        BY <1>3, <3>1, <3>2 DEF RunClaim
    <2>2. line # <<>> /\ line[1].kind # "abort" /\ line' = Tail(line) /\ returned' = returned
      BY <1>3 DEF RunClaim, HeadIs
    <2> QED
      BY <2>1, <2>2, AwaitedBehind
  <1>4. CASE AbortReturns
    <2>1. drive'.gate = (IF returned[1].owns THEN "released" ELSE drive.gate)
      BY <1>4, <1>a, SMT DEF AbortReturns, Settled, Drives
    <2>2. CASE returned[1].owns
      BY <2>1, <2>2 DEF AwaitedCancellationPending
    <2>3. CASE ~returned[1].owns
      <3>1. /\ returned # <<>> /\ returned' = Tail(returned)
            /\ \E job : line' = line \/ line' = Append(line, job)
        BY <1>4 DEF AbortReturns
      <3> QED
        BY <2>1, <2>3, <3>1, AwaitedQueued
    <2> QED
      BY <2>2, <2>3
  <1>5. CASE Stop
    BY <1>5, NoDriveFields DEF Stop, AwaitedCancellationPending
  <1>6. CASE Restart
    BY <1>6 DEF Restart, volatile, AwaitedCancellationPending
  <1> QED
    BY <1>1, <1>2, <1>3, <1>4, <1>5, <1>6

LEMMA AwaitedStep ==
  TypeOK /\ AwaitedCancellationPending /\ [Next]_vars => AwaitedCancellationPending'
  <1>1. AwaitedCancellationPending /\ UNCHANGED vars => AwaitedCancellationPending'
    BY DEF vars, AwaitedCancellationPending
  <1> QED
    BY <1>1, NextCases, AwaitedPlanner, AwaitedDrive, AwaitedAbort, AwaitedOthers

\* A pass behind a shut gate waits for an abort call that is still queued or
\* about to go on, with any number of callers aborting: driveOperation never
\* awaits a promise nobody will resolve.
THEOREM CancellationPending == Spec => []AwaitedCancellationPending
  <1>1. Init => AwaitedCancellationPending
    BY NoDriveFields DEF Init, AwaitedCancellationPending
  <1> QED
    BY <1>1, AwaitedStep, TypedPoints, PTL DEF Spec

-----------------------------------------------------------------------------
(* A resolved cancellation is durable: the call that resolves it names the   *)
(* operation of the pass it captured.                                        *)

LEMMA ReleasedKept ==
  ASSUME ReleasedMeansCancelled, drive'.pc # "ended" => drive.pc # "ended",
         drive'.gate = "released" => drive.gate = "released",
         drive'.pc = "ended" \/ (op.cancelled => op'.cancelled)
  PROVE  ReleasedMeansCancelled'
  BY DEF ReleasedMeansCancelled

LEMMA ReleasedPlanner ==
  TypeOK /\ ReleasedMeansCancelled /\ PlannerStep => ReleasedMeansCancelled'
  <1> SUFFICES ASSUME TypeOK, ReleasedMeansCancelled, PlannerStep PROVE ReleasedMeansCancelled'
    OBVIOUS
  <1>1. drive.pc = "queued" /\ drive \in Drives
    BY PlannerHead DEF TypeOK
  <1>2. CASE GoesOn
    BY <1>1, <1>2, ReleasedKept DEF GoesOn
  <1>3. CASE Finishes
    <2>1. drive'.pc = "ended"
      BY <1>1, <1>3, AtFields DEF Finishes, Finish
    <2> QED
      BY <2>1 DEF ReleasedMeansCancelled
  <1>4. CASE FaultsAborted
    BY <1>4, NoDriveFields DEF FaultsAborted, Fault, ReleasedMeansCancelled
  <1> QED
    BY <1>2, <1>3, <1>4, PlannerShape

LEMMA ReleasedDrive ==
  TypeOK /\ ReleasedMeansCancelled /\ DriveStep => ReleasedMeansCancelled'
  <1> SUFFICES ASSUME TypeOK, ReleasedMeansCancelled, DriveStep PROVE ReleasedMeansCancelled'
    OBVIOUS
  <1>a. drive \in Drives
    BY DEF TypeOK
  <1>1. CASE PassEnds
    BY <1>1, NoDriveFields DEF PassEnds, Fault, ReleasedMeansCancelled
  <1>2. CASE ~PassEnds
    <2>1. op' = op /\ drive.pc # "ended"
      BY <1>2 DEF DriveStep, Dispatch, Reconcile, Admit, CancellationSettled, EffectDone, Pass,
                  durable
    <2>2. drive'.gate = drive.gate \/ op.cancelled
      <3>1. CASE Dispatch
        BY <3>1, <1>a, AtFields DEF Dispatch, Enter
      <3>2. CASE Reconcile
        BY <3>2 DEF Reconcile
      <3> QED
        BY <1>2, <3>1, <3>2, AdmitFields, SettledFields, EffectDoneFields DEF DriveStep
    <2> QED
      BY <2>1, <2>2 DEF ReleasedMeansCancelled
  <1> QED
    BY <1>1, <1>2

LEMMA ReleasedAborts ==
  TypeOK /\ Owned /\ CapturesName /\ ReleasedMeansCancelled /\ (RunAbort \/ AbortReturns)
  => ReleasedMeansCancelled'
  <1> SUFFICES ASSUME TypeOK, Owned, CapturesName, ReleasedMeansCancelled,
                      RunAbort \/ AbortReturns
               PROVE  ReleasedMeansCancelled'
    OBVIOUS
  <1>a. drive \in Drives
    BY DEF TypeOK
  <1>1. CASE RunAbort
    <2>1. drive'.pc = drive.pc /\ (op.cancelled => op'.cancelled)
      BY <1>1, <1>a, SMT DEF RunAbort, Settled, Drives
    <2>2. drive'.gate = drive.gate \/ op'.cancelled
      <3>1. op \in OpRecords
        BY DEF TypeOK
      <3> QED
        BY <1>1, <3>1, SMT DEF RunAbort, OpRecords
    <2> QED
      BY <2>1, <2>2 DEF ReleasedMeansCancelled
  <1>2. CASE AbortReturns
    <2>1. /\ drive'.pc = drive.pc
          /\ drive'.gate = (IF returned[1].owns THEN "released" ELSE drive.gate)
      BY <1>2, <1>a, SMT DEF AbortReturns, Settled, Drives
    <2>2. op' = op
      BY <1>2 DEF AbortReturns, durable
    <2>3. returned[1].owns => drive.pc = "ended" \/ op.cancelled
      BY <1>2, HeadCaptured DEF CapturesName
    <2> QED
      BY <2>1, <2>2, <2>3 DEF ReleasedMeansCancelled
  <1> QED
    BY <1>1, <1>2

LEMMA ReleasedOthers ==
  TypeOK /\ Owned /\ Signalled /\ ReleasedMeansCancelled
  /\ (ClientCall \/ RunAccept \/ RunClaim \/ Stop \/ Restart) => ReleasedMeansCancelled'
  <1> SUFFICES ASSUME TypeOK, Owned, Signalled, ReleasedMeansCancelled,
                      ClientCall \/ RunAccept \/ RunClaim \/ Stop \/ Restart
               PROVE  ReleasedMeansCancelled'
    OBVIOUS
  <1>a. drive \in Drives
    BY DEF TypeOK
  <1>1. CASE ClientCall
    <2>1. /\ op' = op /\ drive'.pc = drive.pc
          /\ drive'.gate = "released" => drive.gate = "released"
      BY <1>1, <1>a, CallShape, SMT DEF Drives
    <2> QED
      BY <2>1, ReleasedKept
  <1>2. CASE RunAccept
    <2>1. drive' = drive /\ (op' = op \/ op.id = None)
      BY <1>2 DEF RunAccept, durable
    <2>2. op.id = None => drive.pc = "ended"
      BY DEF Owned, DriveOwnsOperation, Signalled
    <2> QED
      BY <2>1, <2>2 DEF ReleasedMeansCancelled
  <1>3. CASE RunClaim
    <2>1. op' = op
      BY <1>3 DEF RunClaim, durable
    <2>2. CASE drive' = drive
      BY <2>1, <2>2, ReleasedKept
    <2>3. CASE drive' = [drive EXCEPT !.conv = @ \/ line[1].mode \in Convenience]
      <3>1. drive'.pc = drive.pc /\ drive'.gate = drive.gate
        BY <2>3, <1>a, SMT DEF Drives
      <3> QED
        BY <2>1, <3>1, ReleasedKept
    <2>4. CASE drive' = Install(line[1].id, line[1].mode)
      <3>1. drive'.gate = "open"
        BY <2>4 DEF Install, Installed
      <3> QED
        BY <3>1 DEF ReleasedMeansCancelled
    <2> QED
      BY <1>3, <2>2, <2>3, <2>4 DEF RunClaim
  <1>4. CASE Stop
    BY <1>4, NoDriveFields DEF Stop, ReleasedMeansCancelled
  <1>5. CASE Restart
    BY <1>5 DEF Restart, durable, volatile, ReleasedMeansCancelled
  <1> QED
    BY <1>1, <1>2, <1>3, <1>4, <1>5

LEMMA ReleasedStep ==
  TypeOK /\ Owned /\ CapturesName /\ Signalled /\ ReleasedMeansCancelled /\ [Next]_vars
  => ReleasedMeansCancelled'
  <1>1. ReleasedMeansCancelled /\ UNCHANGED vars => ReleasedMeansCancelled'
    BY DEF vars, ReleasedMeansCancelled
  <1> QED
    BY <1>1, NextCases, ReleasedPlanner, ReleasedDrive, ReleasedAborts, ReleasedOthers

\* A pass that resumes after an awaited cancellation finds the durable marker:
\* an abort that resolves a pass's promise never misses the pass's operation.
THEOREM ReleaseIsDurable == Spec => []ReleasedMeansCancelled
  <1>1. Init => ReleasedMeansCancelled
    BY NoDriveFields DEF Init, ReleasedMeansCancelled
  <1> QED
    BY <1>1, ReleasedStep, AlwaysSignalled, AlwaysCapturesName, AlwaysOwned, TypedPoints,
       PTL DEF Spec
=============================================================================
