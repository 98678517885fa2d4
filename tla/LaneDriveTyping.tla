-------------------------- MODULE LaneDriveTyping --------------------------
(* Type correctness of LaneDrive, for every value of its constants. *)
EXTENDS LaneDrive, TLAPS

USE DEF waits

LEMMA DriveField ==
  ASSUME NEW d \in Drives
  PROVE  /\ \A x \in BOOLEAN : [d EXCEPT !.conv = x] \in Drives
         /\ \A x \in BOOLEAN : [d EXCEPT !.sig = x] \in Drives
         /\ \A x \in BOOLEAN : [d EXCEPT !.aborted = x] \in Drives
         /\ \A x \in BOOLEAN : [d EXCEPT !.permit = x] \in Drives
         /\ \A x \in Gates : [d EXCEPT !.gate = x] \in Drives
         /\ \A x \in Points : [d EXCEPT !.pc = x] \in Drives
         /\ \A x \in Stages : [d EXCEPT !.stage = x] \in Drives
         /\ \A x \in Int : [d EXCEPT !.polls = x] \in Drives
  <1>1. ASSUME NEW x \in BOOLEAN PROVE [d EXCEPT !.conv = x] \in Drives
    BY SMT DEF Drives
  <1>2. ASSUME NEW x \in BOOLEAN PROVE [d EXCEPT !.sig = x] \in Drives
    BY SMT DEF Drives
  <1>3. ASSUME NEW x \in BOOLEAN PROVE [d EXCEPT !.aborted = x] \in Drives
    BY SMT DEF Drives
  <1>4. ASSUME NEW x \in BOOLEAN PROVE [d EXCEPT !.permit = x] \in Drives
    BY SMT DEF Drives
  <1>5. ASSUME NEW x \in Gates PROVE [d EXCEPT !.gate = x] \in Drives
    BY SMT DEF Drives
  <1>6. ASSUME NEW x \in Points PROVE [d EXCEPT !.pc = x] \in Drives
    BY SMT DEF Drives
  <1>7. ASSUME NEW x \in Stages PROVE [d EXCEPT !.stage = x] \in Drives
    BY SMT DEF Drives
  <1>8. ASSUME NEW x \in Int PROVE [d EXCEPT !.polls = x] \in Drives
    BY SMT DEF Drives
  <1> QED
    BY <1>1, <1>2, <1>3, <1>4, <1>5, <1>6, <1>7, <1>8

LEMMA DriveFields ==
  ASSUME NEW d \in Drives, NEW b \in BOOLEAN, NEW pc \in Points, NEW stage \in Stages,
         NEW gate \in Gates
  PROVE  /\ [d EXCEPT !.pc = pc, !.stage = stage] \in Drives
         /\ [d EXCEPT !.pc = pc, !.aborted = b] \in Drives
         /\ [d EXCEPT !.pc = pc, !.stage = stage, !.permit = b] \in Drives
         /\ [d EXCEPT !.pc = pc, !.stage = stage, !.aborted = b] \in Drives
         /\ [d EXCEPT !.gate = gate, !.sig = b, !.stage = stage, !.pc = pc] \in Drives
  <1>1. [d EXCEPT !.pc = pc, !.stage = stage] \in Drives
    BY DriveField
  <1>2. [d EXCEPT !.pc = pc, !.aborted = b] \in Drives
    BY DriveField
  <1>3. [d EXCEPT !.pc = pc, !.stage = stage, !.permit = b] \in Drives
    BY DriveField
  <1>4. [d EXCEPT !.pc = pc, !.stage = stage, !.aborted = b] \in Drives
    BY DriveField
  <1>5. [d EXCEPT !.gate = gate, !.sig = b, !.stage = stage, !.pc = pc] \in Drives
    BY DriveField
  <1> QED
    BY <1>1, <1>2, <1>3, <1>4, <1>5

LEMMA OpField ==
  ASSUME NEW p \in OpRecords
  PROVE  /\ \A x \in Leaves : [p EXCEPT !.at = x] \in OpRecords
         /\ \A x \in BOOLEAN : [p EXCEPT !.cancelled = x] \in OpRecords
         /\ \A x \in Tasks : [p EXCEPT !.task = x] \in OpRecords
         /\ \A x \in Continuations : [p EXCEPT !.cont = x] \in OpRecords
         /\ \A x \in BOOLEAN : [p EXCEPT !.ovf = x] \in OpRecords
         /\ \A x \in BOOLEAN : [p EXCEPT !.guarded = x] \in OpRecords
         /\ \A x \in 1..MaxAttempts : [p EXCEPT !.attempt = x] \in OpRecords
         /\ \A x \in 0..MaxRequests : [p EXCEPT !.requests = x] \in OpRecords
         /\ \A x \in 0..MaxTurns : [p EXCEPT !.turns = x] \in OpRecords
  <1>1. ASSUME NEW x \in Leaves PROVE [p EXCEPT !.at = x] \in OpRecords
    BY SMT DEF OpRecords, Continuations
  <1>2. ASSUME NEW x \in BOOLEAN PROVE [p EXCEPT !.cancelled = x] \in OpRecords
    BY SMT DEF OpRecords, Continuations
  <1>3. ASSUME NEW x \in Tasks PROVE [p EXCEPT !.task = x] \in OpRecords
    BY SMT DEF OpRecords, Continuations
  <1>4. ASSUME NEW x \in Continuations PROVE [p EXCEPT !.cont = x] \in OpRecords
    BY SMT DEF OpRecords, Continuations
  <1>5. ASSUME NEW x \in BOOLEAN PROVE [p EXCEPT !.ovf = x] \in OpRecords
    BY SMT DEF OpRecords, Continuations
  <1>6. ASSUME NEW x \in BOOLEAN PROVE [p EXCEPT !.guarded = x] \in OpRecords
    BY SMT DEF OpRecords, Continuations
  <1>7. ASSUME NEW x \in 1..MaxAttempts PROVE [p EXCEPT !.attempt = x] \in OpRecords
    BY SMT DEF OpRecords, Continuations
  <1>8. ASSUME NEW x \in 0..MaxRequests PROVE [p EXCEPT !.requests = x] \in OpRecords
    BY SMT DEF OpRecords, Continuations
  <1>9. ASSUME NEW x \in 0..MaxTurns PROVE [p EXCEPT !.turns = x] \in OpRecords
    BY SMT DEF OpRecords, Continuations
  <1> QED
    BY <1>1, <1>2, <1>3, <1>4, <1>5, <1>6, <1>7, <1>8, <1>9

LEMMA OpFields ==
  ASSUME NEW p \in OpRecords, NEW at \in Leaves, NEW task \in Tasks, NEW b \in BOOLEAN,
         NEW cont \in Continuations, NEW guarded \in BOOLEAN,
         NEW attempt \in 1..MaxAttempts, NEW requests \in 0..MaxRequests
  PROVE  /\ [p EXCEPT !.at = at, !.cont = cont] \in OpRecords
         /\ [p EXCEPT !.at = at, !.attempt = attempt] \in OpRecords
         /\ [p EXCEPT !.at = at, !.requests = requests] \in OpRecords
         /\ [p EXCEPT !.at = at, !.attempt = attempt, !.requests = requests] \in OpRecords
         /\ [p EXCEPT !.task = task, !.cont = cont, !.ovf = b] \in OpRecords
         /\ [p EXCEPT !.cont = cont, !.guarded = guarded] \in OpRecords
         /\ [p EXCEPT !.at = at, !.task = task, !.cont = cont, !.ovf = b, !.guarded = guarded,
                      !.attempt = attempt, !.requests = requests] \in OpRecords
  <1>1. [p EXCEPT !.at = at, !.cont = cont] \in OpRecords
    BY OpField
  <1>2. [p EXCEPT !.at = at, !.attempt = attempt] \in OpRecords
    BY OpField
  <1>3. [p EXCEPT !.at = at, !.requests = requests] \in OpRecords
    BY OpField
  <1>4. [p EXCEPT !.at = at, !.attempt = attempt, !.requests = requests] \in OpRecords
    BY OpField
  <1>5. [p EXCEPT !.task = task, !.cont = cont, !.ovf = b] \in OpRecords
    BY OpField
  <1>6. [p EXCEPT !.cont = cont, !.guarded = guarded] \in OpRecords
    BY OpField
  <1>7. [p EXCEPT !.at = at, !.task = task, !.cont = cont, !.ovf = b, !.guarded = guarded,
                  !.attempt = attempt, !.requests = requests] \in OpRecords
    BY OpField
  <1> QED
    BY <1>1, <1>2, <1>3, <1>4, <1>5, <1>6, <1>7
LEMMA AcceptedTyped ==
  ASSUME NEW o \in Ops \cup {None}, NEW intent \in Intents, NEW at \in Leaves, NEW task \in Tasks
  PROVE  Accepted(o, intent, at, task) \in OpRecords
  BY BoundsAssumption, SMT DEF Accepted, OpRecords, Continuations

LEMMA FirstLeavesTyped ==
  ASSUME NEW intent \in Intents, NEW first \in FirstLeaves(intent)
  PROVE  first[1] \in Leaves /\ first[2] \in Tasks
  BY SMT DEF FirstLeaves, Intents, Leaves, SummaryLeaves, Tasks

LEMMA InstalledTyped ==
  ASSUME NEW o \in Ops \cup {None}, NEW mode \in Modes, NEW stage \in Stages,
         NEW pc \in Points
  PROVE  Installed(o, mode, pc, stage) \in Drives
  BY SMT DEF Installed, Drives, Gates

LEMMA LineTyped ==
  ASSUME TypeOK, line # <<>>
  PROVE  line[1] \in Jobs /\ Tail(line) \in Seq(Jobs)
  BY SMT DEF TypeOK

LEMMA AppendTyped ==
  ASSUME NEW S, NEW s \in Seq(S), NEW x \in S
  PROVE  Append(s, x) \in Seq(S)
  BY SMT

LEMMA JobTyped ==
  /\ \A o \in Ops, mode \in Modes : Claim(o, mode) \in ClaimJobs /\ Claim(o, mode) \in Jobs
  /\ Step \in Jobs
  BY SMT DEF Claim, ClaimJobs, Step, StepJobs, Jobs

LEMMA HeadTyped ==
  ASSUME TypeOK
  PROVE  /\ HeadIs("accept") => line[1] \in AcceptJobs
         /\ HeadIs("claim") => line[1] \in ClaimJobs
         /\ HeadIs("abort") => line[1] \in AbortJobs
  BY LineTyped, SMT DEF HeadIs, Jobs, AcceptJobs, ClaimJobs, AbortJobs, StepJobs

LEMMA TypeInit == Init => TypeOK
  BY BoundsAssumption, NoneAssumption, SMT
  DEF Init, TypeOK, NoOp, Accepted, OpRecords, NoDrive, Installed, Drives, NoCompactions, Stages,
      Outcomes, Leaves, Intents, Tasks, Gates, Points, Continuations

LEMMA TypeRunAccept == TypeOK /\ RunAccept => TypeOK'
  <1> SUFFICES ASSUME TypeOK, RunAccept PROVE TypeOK'
    OBVIOUS
  <1>1. line[1] \in AcceptJobs /\ Tail(line) \in Seq(Jobs)
    BY LineTyped, HeadTyped DEF RunAccept, HeadIs
  <1>2. op' \in OpRecords
    <2>1. CASE op' = op
      BY <2>1 DEF TypeOK
    <2>2. CASE \E first \in FirstLeaves(line[1].intent) :
                 op' = Accepted(line[1].id, line[1].intent, first[1], first[2])
      <3>1. line[1].id \in Ops \cup {None} /\ line[1].intent \in Intents
        BY <1>1, SMT DEF AcceptJobs
      <3> QED
        BY <3>1, <2>2, FirstLeavesTyped, AcceptedTyped
    <2> QED
      BY <2>1, <2>2 DEF RunAccept, durable
  <1>3. line' \in Seq(Jobs)
    <2>1. Claim(line[1].id, "prompt") \in Jobs
      BY <1>1, JobTyped, SMT DEF AcceptJobs, Modes
    <2>2. Append(Tail(line), Claim(line[1].id, "prompt")) \in Seq(Jobs)
      BY <1>1, <2>1, AppendTyped
    <2> QED
      BY <1>1, <2>2 DEF RunAccept
  <1> QED
    BY <1>2, <1>3 DEF TypeOK, RunAccept, durable, history

LEMMA TypeRunClaim == TypeOK /\ RunClaim => TypeOK'
  <1> SUFFICES ASSUME TypeOK, RunClaim PROVE TypeOK'
    OBVIOUS
  <1>1. line[1] \in ClaimJobs /\ Tail(line) \in Seq(Jobs)
    BY LineTyped, HeadTyped DEF RunClaim, HeadIs
  <1>2. drive' \in Drives
    <2>1. Install(line[1].id, line[1].mode) \in Drives
      <3>1. line[1].id \in Ops \cup {None} /\ line[1].mode \in Modes
        BY <1>1, SMT DEF ClaimJobs
      <3>2. \A pc \in Points : Installed(line[1].id, line[1].mode, pc, "before_drive") \in Drives
        BY <3>1, InstalledTyped DEF Stages, Effects, Hooks
      <3> QED
        BY <3>2 DEF Install, Points
    <2>2. (drive.conv \/ line[1].mode \in Convenience) \in BOOLEAN
      OBVIOUS
    <2>3. [drive EXCEPT !.conv = @ \/ line[1].mode \in Convenience] \in Drives
      BY <2>2, DriveField DEF TypeOK, Drives
    <2> QED
      BY <2>1, <2>3 DEF TypeOK, RunClaim
  <1>3. parked' \in Seq(ClaimJobs)
    <2>1. parked \in Seq(ClaimJobs)
      BY DEF TypeOK
    <2>2. Append(parked, line[1]) \in Seq(ClaimJobs)
      BY <1>1, <2>1, AppendTyped
    <2> QED
      BY <2>1, <2>2 DEF RunClaim
  <1> QED
    BY <1>1, <1>2, <1>3 DEF TypeOK, RunClaim, durable, history

LEMMA SettledTyped ==
  ASSUME drive \in Drives, NEW job
  PROVE  Settled(job) \in Drives
  <1> DEFINE gate == IF job.owns THEN "released" ELSE drive.gate
             released == [drive EXCEPT !.gate = IF job.owns THEN "released" ELSE @]
  <1>1. gate \in Gates
    BY SMT DEF Drives, Gates
  <1>2. released \in Drives
    BY <1>1, DriveField
  <1>3. (released.sig \/ job.holds) \in BOOLEAN
    OBVIOUS
  <1> QED
    BY <1>2, <1>3, DriveField DEF Settled

LEMMA AbortJobField ==
  ASSUME NEW job \in AbortJobs, NEW holds \in BOOLEAN, NEW owns \in BOOLEAN, NEW drives \in BOOLEAN
  PROVE  [job EXCEPT !.owns = owns, !.holds = holds, !.drives = drives] \in AbortJobs
  <1>1. \A x \in AbortJobs, b \in BOOLEAN :
          /\ [x EXCEPT !.owns = b] \in AbortJobs
          /\ [x EXCEPT !.holds = b] \in AbortJobs
          /\ [x EXCEPT !.drives = b] \in AbortJobs
    BY SMT DEF AbortJobs
  <1> QED
    BY <1>1

LEMMA TypeRunAbort == TypeOK /\ RunAbort => TypeOK'
  <1> SUFFICES ASSUME TypeOK, RunAbort PROVE TypeOK'
    OBVIOUS
  <1> DEFINE job == line[1]
             matches == op.id = job.id
             new == matches /\ ~op.cancelled
             owns == job.owns /\ ~new
             holds == job.holds /\ matches /\ ~new
             drives == job.drives /\ matches
             answered == [job EXCEPT !.owns = owns, !.holds = holds, !.drives = drives]
  <1>1. job \in AbortJobs /\ Tail(line) \in Seq(Jobs)
    BY LineTyped, HeadTyped DEF RunAbort, HeadIs
  <1>2. op' \in OpRecords
    BY OpField DEF TypeOK, RunAbort
  <1>3. drive' \in Drives
    BY SettledTyped DEF TypeOK, RunAbort
  <1>4. returned' \in Seq(AbortJobs)
    <2>1. owns \in BOOLEAN /\ holds \in BOOLEAN /\ drives \in BOOLEAN
      OBVIOUS
    <2>2. returned' = Append(returned, answered)
      BY DEF RunAbort
    <2>3. answered \in AbortJobs
      <3> HIDE DEF job, owns, holds, drives
      <3> QED
        BY <1>1, <2>1, AbortJobField
    <2> HIDE DEF answered
    <2> QED
      BY <2>2, <2>3, AppendTyped DEF TypeOK
  <1> QED
    BY <1>1, <1>2, <1>3, <1>4 DEF TypeOK, RunAbort, history

LEMMA TypeAbortReturns == TypeOK /\ AbortReturns => TypeOK'
  <1> SUFFICES ASSUME TypeOK, AbortReturns PROVE TypeOK'
    OBVIOUS
  <1>1. returned[1] \in AbortJobs /\ Tail(returned) \in Seq(AbortJobs)
    BY SMT DEF TypeOK, AbortReturns
  <1>2. drive' \in Drives
    BY SettledTyped DEF TypeOK, AbortReturns
  <1>3. line' \in Seq(Jobs)
    <2>1. Claim(returned[1].id, "drive") \in Jobs
      BY <1>1, JobTyped, SMT DEF AbortJobs, Modes
    <2>2. Append(line, Claim(returned[1].id, "drive")) \in Seq(Jobs)
      BY <2>1, AppendTyped DEF TypeOK
    <2> QED
      BY <2>2 DEF TypeOK, AbortReturns
  <1> QED
    BY <1>1, <1>2, <1>3 DEF TypeOK, AbortReturns, durable, history

LEMMA TypeClientCall == TypeOK /\ ClientCall => TypeOK'
  <1> SUFFICES ASSUME TypeOK, ClientCall PROVE TypeOK'
    OBVIOUS
  <1>1. ASSUME NEW o \in Ops, NEW intent \in Requested, NEW drives \in BOOLEAN,
               AcceptCall(o, intent, drives)
        PROVE  TypeOK'
    <2> DEFINE job == [kind |-> "accept", id |-> o, intent |-> intent, drives |-> drives]
    <2>1. job \in Jobs
      BY BoundsAssumption, SMT DEF Jobs, AcceptJobs, Intents
    <2>2. line' \in Seq(Jobs)
      BY <1>1, <2>1, AppendTyped DEF TypeOK, AcceptCall, Enqueue
    <2> QED
      BY <1>1, <2>2 DEF TypeOK, AcceptCall, durable, history
  <1>2. ASSUME NEW o \in Ops, NEW mode \in Modes, DriveCall(o, mode)
        PROVE  TypeOK'
    <2>1. line' \in Seq(Jobs)
      BY <1>2, JobTyped, AppendTyped DEF TypeOK, DriveCall, Enqueue
    <2> QED
      BY <1>2, <2>1 DEF TypeOK, DriveCall, durable, history
  <1>3. ASSUME NEW o \in Ops, NEW drives \in BOOLEAN, AbortCall(o, drives)
        PROVE  TypeOK'
    <2>1. drive' \in Drives
      BY <1>3, DriveField DEF TypeOK, AbortCall, ShutGate, Gates
    <2> DEFINE holds == drive.id = o
               owns == drive.id = o /\ drive.gate = "open"
               job == [kind |-> "abort", id |-> o, drives |-> drives, holds |-> holds,
                       owns |-> owns]
    <2>2. holds \in BOOLEAN /\ owns \in BOOLEAN
      OBVIOUS
    <2>3. job \in AbortJobs
      <3> HIDE DEF holds, owns
      <3> QED
        BY <2>2, SMT DEF AbortJobs
    <2>4. line' \in Seq(Jobs)
      BY <1>3, <2>3, AppendTyped DEF TypeOK, AbortCall, Enqueue, Jobs
    <2> QED
      BY <1>3, <2>1, <2>4 DEF TypeOK, AbortCall, durable, history
  <1> QED
    BY <1>1, <1>2, <1>3 DEF ClientCall
-----------------------------------------------------------------------------
(* What planners do, one lemma per idiom. *)

Planner == HeadIs("step") /\ stops' = stops

LEMMA TailOfPlanner ==
  ASSUME TypeOK, Planner
  PROVE  /\ Tail(line) \in Seq(Jobs)
         /\ Append(Tail(line), Step) \in Seq(Jobs)
  BY LineTyped, JobTyped, AppendTyped DEF Planner, HeadIs

LEMMA AtTyped ==
  ASSUME TypeOK, NEW pc \in Points, NEW stage \in Stages
  PROVE  At(pc, stage) \in Drives
  BY DriveField DEF TypeOK, At

LEMMA LoopTyped ==
  ASSUME TypeOK, Planner, Loop
  PROVE  /\ drive' \in Drives /\ line' \in Seq(Jobs)
         /\ parked' \in Seq(ClaimJobs) /\ returned' \in Seq(AbortJobs)
  BY TailOfPlanner, DriveField DEF TypeOK, Loop, Points

LEMMA ThenTyped ==
  ASSUME TypeOK, Planner, NEW stage \in Stages, Then(stage)
  PROVE  /\ drive' \in Drives /\ line' \in Seq(Jobs)
         /\ parked' \in Seq(ClaimJobs) /\ returned' \in Seq(AbortJobs)
  BY TailOfPlanner, AtTyped DEF TypeOK, Then, Points

LEMMA NoCompactionsTyped == NoCompactions \in [Reasons -> Nat]
  BY SMT DEF NoCompactions, Reasons

LEMMA MoveTyped ==
  ASSUME TypeOK, Planner, NEW next \in OpRecords, Move(next)
  PROVE  TypeOK'
  <1>1. asked' \in Nat
    BY DEF Move
  <1> QED
    BY <1>1, LoopTyped DEF TypeOK, Move, Commit, Planner

LEMMA TriggeredTyped ==
  ASSUME TypeOK, Planner, NEW next \in OpRecords, Triggered(next)
  PROVE  TypeOK'
  <1>1. asked' \in Nat
    BY DEF Triggered
  <1> QED
    BY <1>1, LoopTyped, NoCompactionsTyped DEF TypeOK, Triggered, Commit, Planner

LEMMA AnnounceTyped ==
  ASSUME TypeOK, Planner, NEW next \in OpRecords, NEW effect \in Effects, Announce(next, effect)
  PROVE  TypeOK'
  <1>1. asked' \in Nat
    BY DEF Announce
  <1>2. effect \in Stages
    BY DEF Stages
  <1> QED
    BY <1>1, <1>2, ThenTyped DEF TypeOK, Announce, Commit, Planner

LEMMA FinishTyped ==
  ASSUME TypeOK, Planner, NEW status \in Terminal, Finish(status)
  PROVE  TypeOK'
  <1>1. results' \in [Ops -> Terminal \cup {"none"}]
    <2>1. results \in [Ops -> Terminal \cup {"none"}] /\ status \in Terminal \cup {"none"}
      BY DEF TypeOK
    <2>2. results' = [results EXCEPT ![op.id] = status]
      BY DEF Finish
    <2> QED
      BY <2>1, <2>2
  <1>2. op' \in OpRecords
    BY AcceptedTyped, SMT DEF Finish, NoOp, Intents, Leaves, Tasks
  <1>3. drive' \in Drives
    BY AtTyped DEF Finish, Points, Stages, Outcomes
  <1>4. asked' \in Nat
    BY DEF Finish
  <1> QED
    BY <1>1, <1>2, <1>3, <1>4, TailOfPlanner, NoCompactionsTyped DEF TypeOK, Finish, Planner

LEMMA NoDriveTyped == NoDrive \in Drives
  BY InstalledTyped DEF NoDrive, Modes, Points, Stages, Outcomes

LEMMA FaultTyped ==
  ASSUME TypeOK, stops' = stops, NEW cause \in {"unwaited_retry", "aborted_running"}, Fault(cause)
  PROVE  TypeOK'
  <1>1. <<>> \in Seq(Jobs) /\ <<>> \in Seq(ClaimJobs) /\ <<>> \in Seq(AbortJobs)
    BY SMT
  <1> QED
    BY <1>1, NoDriveTyped DEF TypeOK, Fault, durable, history

LEMMA LeafTyped ==
  ASSUME TypeOK, NEW at \in Leaves
  PROVE  Leaf(at) \in OpRecords
  <1>1. /\ "none" \in Tasks /\ "need_assistant" \in Continuations
        /\ 1 \in 1..MaxAttempts /\ 0 \in 0..MaxRequests
    BY BoundsAssumption, SMT DEF Tasks, Continuations
  <1> QED
    BY <1>1, OpField DEF TypeOK, Leaf

LEMMA ReadyTyped ==
  ASSUME TypeOK, NEW ovf \in BOOLEAN
  PROVE  Ready(ovf) \in OpRecords
  BY LeafTyped, OpField DEF Ready, Leaves

LEMMA RenewedTyped ==
  ASSUME TypeOK, Planner, Renewed
  PROVE  TypeOK'
  <1>1. Ready(FALSE).turns = op.turns
    BY SMT DEF Ready, Leaf, TypeOK, OpRecords
  <1>2. op.turns + 1 \in 0..MaxTurns
    BY BoundsAssumption, SMT DEF TypeOK, OpRecords, Renewed
  <1>3. [Ready(FALSE) EXCEPT !.turns = @ + 1] \in OpRecords
    BY <1>1, <1>2, ReadyTyped, OpField
  <1> QED
    BY <1>3, TriggeredTyped DEF Renewed

LEMMA DecidingTyped ==
  ASSUME TypeOK, Planner, NEW reason \in Reasons, NEW cont \in Continuations,
         NEW ovf \in BOOLEAN, Deciding(reason, cont, ovf)
  PROVE  TypeOK'
  <1>1. reason \in Tasks /\ "summary.deciding" \in Leaves
    BY SMT DEF Reasons, Tasks, Leaves, SummaryLeaves
  <1>2. op' \in OpRecords
    BY <1>1, LeafTyped, OpField DEF Deciding, Commit
  <1>3. compactions' \in [Reasons -> Nat]
    BY SMT DEF TypeOK, Deciding
  <1>4. asked' \in Nat
    BY DEF Deciding
  <1> QED
    BY <1>2, <1>3, <1>4, LoopTyped DEF TypeOK, Deciding, Commit, Planner

LEMMA RetryWaitTyped ==
  ASSUME TypeOK, Planner, NEW leaf \in Leaves, RetryWait(leaf)
  PROVE  TypeOK'
  <1>1. op.attempt + 1 \in 1..MaxAttempts /\ 0 \in 0..MaxRequests
    BY BoundsAssumption, SMT DEF TypeOK, OpRecords, RetryWait
  <1>2. [op EXCEPT !.at = leaf, !.attempt = @ + 1, !.requests = 0] \in OpRecords
    BY <1>1, OpField DEF TypeOK
  <1> QED
    BY <1>2, MoveTyped DEF RetryWait

LEMMA AskRunEndTyped ==
  ASSUME TypeOK, Planner, AskRunEnd
  PROVE  TypeOK'
  <1>1. "before_run_end" \in Stages
    BY DEF Stages, Effects, Hooks
  <1> QED
    BY <1>1, ThenTyped DEF TypeOK, AskRunEnd, durable, history, Planner
-----------------------------------------------------------------------------
(* The planners preserve TypeOK. *)

NestedStages == {"before_summary_request", "nested_intent", "summary_provider", "nested_outcome"}

Working == drive.pc \in {"admit", "effect", "queued"}

\* A pass in an effect has an effect's stage; in a nested request the attempt
\* has requests left.
PointsOK ==
  /\ drive.pc \in {"admit", "effect"} => drive.stage \in Effects
  /\ Working /\ drive.stage \in NestedStages => op.requests < MaxRequests

LEMMA PlacedTyped ==
  ASSUME TypeOK, Planner, NEW cont \in Continuations, Placed(cont)
  PROVE  TypeOK'
  <1>1. [Leaf("checkpoint") EXCEPT !.cont = cont] \in OpRecords
    BY LeafTyped, OpField DEF Leaves
  <1> QED
    BY <1>1, TriggeredTyped DEF Placed

LEMMA ResumeAfterTyped ==
  ASSUME TypeOK, Planner, NEW summarised \in BOOLEAN, ResumeAfter(summarised)
  PROVE  TypeOK'
  <1>1. CASE Renewed
    BY <1>1, RenewedTyped
  <1>2. CASE Move(Ready(op.ovf))
    <2>1. op.ovf \in BOOLEAN
      BY DEF TypeOK, OpRecords
    <2> QED
      BY <1>2, <2>1, ReadyTyped, MoveTyped
  <1>3. CASE Move([Leaf("checkpoint") EXCEPT !.cont = "may_finish", !.guarded = TRUE])
    <2>1. Leaf("checkpoint") \in OpRecords
      BY LeafTyped DEF Leaves
    <2>2. [Leaf("checkpoint") EXCEPT !.cont = "may_finish", !.guarded = TRUE] \in OpRecords
      BY <2>1, OpField DEF Continuations
    <2> QED
      BY <1>3, <2>2, MoveTyped
  <1>4. CASE AskRunEnd
    BY <1>4, AskRunEndTyped
  <1> QED
    BY <1>1, <1>2, <1>3, <1>4 DEF ResumeAfter

LEMMA SummarisedTyped ==
  ASSUME TypeOK, Planner, Summarised
  PROVE  TypeOK'
  BY FinishTyped, ResumeAfterTyped DEF Summarised, Terminal

LEMMA DeclinedTyped ==
  ASSUME TypeOK, Planner, Declined
  PROVE  TypeOK'
  BY FinishTyped, ResumeAfterTyped DEF Declined, Terminal

PlannerStep ==
  \/ SkipCancelled \/ StartRun \/ Checkpoint \/ FinishRun \/ PublishIntent \/ PublishPollIntent
  \/ ConfigurationFailure \/ PublishResponse \/ RecoverResponse \/ RetryReady \/ ToolsDone
  \/ Decide \/ PublishAttemptIntent \/ PublishNestedIntent \/ PublishNestedOutcome
  \/ PublishAttemptResult \/ RecoverAttempt \/ CommitNavigation \/ PublishAborted

LEMMA TypePlanner == TypeOK /\ PointsOK /\ PlannerStep => TypeOK'
  <1> SUFFICES ASSUME TypeOK, PointsOK, PlannerStep PROVE TypeOK'
    OBVIOUS
  <1>0. Planner
    BY DEF PlannerStep, Planner, SkipCancelled, StartRun, Checkpoint, FinishRun, PublishIntent,
       PublishPollIntent, ConfigurationFailure, PublishResponse, RecoverResponse, RetryReady,
       ToolsDone, Decide, PublishAttemptIntent, PublishNestedIntent, PublishNestedOutcome,
       PublishAttemptResult, RecoverAttempt, CommitNavigation, PublishAborted, Continues,
       Settles, Planning
  <1>a. /\ op \in OpRecords /\ op.ovf \in BOOLEAN /\ op.cont \in Continuations
        /\ "need_assistant" \in Continuations /\ "may_finish" \in Continuations
    BY DEF TypeOK, OpRecords, Continuations
  <1>b. /\ \A status \in {"completed", "declined", "aborted", "failed"} : status \in Terminal
        /\ \A leaf \in {"assistant.retry_wait", "summary.retry_wait", "checkpoint", "tools",
                        "assistant.ready", "summary.ready", "assistant.effect_pending",
                        "deferred.effect_pending", "summary.effect_pending",
                        "deferred.suspended"} : leaf \in Leaves
    BY SMT DEF Terminal, Leaves, SummaryLeaves, ResponseLeaves
  <1>1. CASE SkipCancelled
    BY <1>1, <1>0, LoopTyped DEF SkipCancelled, TypeOK, durable, history, Planner
  <1>2. CASE StartRun
    <2>1. [op EXCEPT !.at = "checkpoint", !.cont = "need_assistant"] \in OpRecords
      BY <1>a, <1>b, OpFields, OpField
    <2> QED
      BY <1>2, <1>0, <2>1, MoveTyped DEF StartRun
  <1>3. CASE Checkpoint
    <2>1. "threshold" \in Reasons
      BY DEF Reasons
    <2> QED
      BY <1>3, <1>0, <1>a, <2>1, RenewedTyped, DecidingTyped, ReadyTyped, MoveTyped, AskRunEndTyped
      DEF Checkpoint
  <1>4. CASE FinishRun
    BY <1>4, <1>0, <1>b, RenewedTyped, FinishTyped DEF FinishRun
  <1>5. CASE PublishIntent
    <2>1. /\ [op EXCEPT !.at = "assistant.effect_pending"] \in OpRecords
          /\ "transform_context" \in Effects
      BY <1>a, <1>b, OpField DEF Effects, Hooks
    <2> QED
      BY <1>5, <1>0, <2>1, AnnounceTyped DEF PublishIntent
  <1>6. CASE PublishPollIntent
    <2>1. op' \in OpRecords
      BY <1>6, <1>a, <1>b, OpField DEF PublishPollIntent, Commit
    <2>2. drive' \in Drives
      <3>1. At("admit", "poll") \in Drives
        BY AtTyped DEF Points, Stages, Effects, Requests
      <3> QED
        BY <1>6, <3>1, DriveField DEF PublishPollIntent
    <2>3. asked' \in Nat
      BY <1>6 DEF PublishPollIntent
    <2> QED
      BY <1>6, <1>0, <2>1, <2>2, <2>3, TailOfPlanner
      DEF PublishPollIntent, Commit, TypeOK, Planner
  <1>7. CASE ConfigurationFailure
    BY <1>7, <1>0, <1>b, FinishTyped DEF ConfigurationFailure
  <1>8. CASE PublishResponse
    <2>1. "overflow" \in Reasons
      BY DEF Reasons
    <2>2. CASE Overflowed
      BY <2>2, <1>0, <1>a, <2>1, DecidingTyped DEF Overflowed
    <2>3. CASE Triggered(Leaf("deferred.suspended"))
      BY <2>3, <1>0, <1>b, LeafTyped, TriggeredTyped
    <2>4. CASE Retryable
      BY <2>4, <1>0, <1>b, RetryWaitTyped DEF Retryable
    <2>5. CASE ToolCalls
      <3>1. Leaf("tools").turns = op.turns
        BY SMT DEF Leaf, TypeOK, OpRecords
      <3>2. op.turns + 1 \in 0..MaxTurns
        BY <2>5, BoundsAssumption, SMT DEF TypeOK, OpRecords, ToolCalls
      <3>3. [Leaf("tools") EXCEPT !.turns = @ + 1] \in OpRecords
        BY <1>b, <3>1, <3>2, LeafTyped, OpField
      <3> QED
        BY <2>5, <1>0, <3>3, TriggeredTyped DEF ToolCalls
    <2> QED
      BY <1>8, <1>0, <1>a, <1>b, <2>2, <2>3, <2>4, <2>5, PlacedTyped, FinishTyped, FaultTyped
      DEF PublishResponse, Planner
  <1>9. CASE RecoverResponse
    BY <1>9, <1>0, <1>a, <1>b, PlacedTyped, RetryWaitTyped, FinishTyped
    DEF RecoverResponse, Retryable
  <1>10. CASE RetryReady
    <2>1. (IF op.at = "assistant.retry_wait" THEN "assistant.ready" ELSE "summary.ready") \in Leaves
      BY <1>b
    <2>2. [op EXCEPT !.at = IF @ = "assistant.retry_wait" THEN "assistant.ready"
                            ELSE "summary.ready"] \in OpRecords
      BY <1>a, <2>1, OpField
    <2> QED
      BY <1>10, <1>0, <2>2, MoveTyped DEF RetryReady
  <1>11. CASE ToolsDone
    BY <1>11, <1>0, PlacedTyped DEF ToolsDone, Continuations
  <1>12. CASE Decide
    <2>1. 1 \in 1..MaxAttempts
      BY BoundsAssumption, SMT
    <2>2. [op EXCEPT !.at = "summary.ready", !.attempt = 1] \in OpRecords
      BY <1>a, <1>b, <2>1, OpField
    <2> QED
      BY <1>12, <1>0, <2>2, DeclinedTyped, SummarisedTyped, MoveTyped DEF Decide
  <1>13. CASE PublishAttemptIntent
    <2>1. 0 \in 0..MaxRequests
      BY BoundsAssumption, SMT
    <2>2. [op EXCEPT !.at = "summary.effect_pending", !.requests = 0] \in OpRecords
      BY <1>a, <1>b, <2>1, OpField
    <2>3. "before_summary_request" \in Effects
      BY DEF Effects, Hooks
    <2> QED
      BY <1>13, <1>0, <2>2, <2>3, AnnounceTyped DEF PublishAttemptIntent
  <1>14. CASE PublishNestedIntent
    <2>1. "summary_provider" \in Effects
      BY DEF Effects, Requests
    <2> QED
      BY <1>14, <1>0, <1>a, <2>1, AnnounceTyped DEF PublishNestedIntent
  <1>15. CASE PublishNestedOutcome
    <2>1. op.requests + 1 \in 0..MaxRequests
      <3>1. op.requests < MaxRequests
        BY <1>15 DEF PointsOK, PublishNestedOutcome, Settles, Planning, Working, NestedStages
      <3> QED
        BY <3>1, BoundsAssumption, SMT DEF TypeOK, OpRecords
    <2>2. op' \in OpRecords
      BY <1>15, <1>a, <2>1, OpField DEF PublishNestedOutcome, Commit
    <2>3. "before_summary_request" \in Stages /\ "attempt_result" \in Stages
      BY DEF Stages, Effects, Hooks, ContinuePlanners
    <2> QED
      BY <1>15, <1>0, <2>2, <2>3, ThenTyped
      DEF PublishNestedOutcome, Commit, TypeOK, history, Planner
  <1>16. CASE PublishAttemptResult
    BY <1>16, <1>0, <1>b, SummarisedTyped, RetryWaitTyped, FinishTyped, FaultTyped
    DEF PublishAttemptResult, Planner
  <1>17. CASE RecoverAttempt
    BY <1>17, <1>0, <1>b, RetryWaitTyped, FinishTyped DEF RecoverAttempt
  <1>18. CASE CommitNavigation
    BY <1>18, <1>0, <1>b, FinishTyped DEF CommitNavigation
  <1>19. CASE PublishAborted
    BY <1>19, <1>0, <1>b, FinishTyped DEF PublishAborted
  <1> QED
    BY <1>1, <1>2, <1>3, <1>4, <1>5, <1>6, <1>7, <1>8, <1>9, <1>10, <1>11, <1>12, <1>13, <1>14,
       <1>15, <1>16, <1>17, <1>18, <1>19 DEF PlannerStep
-----------------------------------------------------------------------------
(* The drive loop and the lifecycle preserve TypeOK. *)

LEMMA EnterTyped ==
  ASSUME TypeOK, NEW stage \in Stages, Enter(stage)
  PROVE  drive' \in Drives /\ line' \in Seq(Jobs)
  <1>1. \A pc \in {"queued", "effect", "admit", "ended"} : At(pc, stage) \in Drives
    BY AtTyped DEF Points
  <1>2. line \in Seq(Jobs) /\ Append(line, Step) \in Seq(Jobs)
    BY JobTyped, AppendTyped DEF TypeOK
  <1> QED
    BY <1>1, <1>2 DEF Enter

LEMMA FirstStagesTyped ==
  ASSUME TypeOK, op.at \in Leaves
  PROVE  FirstStages \subseteq Stages
  BY SMT DEF FirstStages, Orphan, Leaves, SummaryLeaves, ResponseLeaves, Stages, Effects, Hooks,
     Requests, SettlePlanners, ContinuePlanners, Outcomes

LEMMA ReconcileStageTyped == ReconcileStage \in Stages
  BY SMT DEF ReconcileStage, Stages, Effects, SettlePlanners

LEMMA NextStageTyped ==
  ASSUME drive.stage \in Effects, drive.stage # "before_drive"
  PROVE  NextStage \in Stages
  BY SMT DEF NextStage, Stages, Effects, Hooks, Requests, SettlePlanners, ContinuePlanners

LEMMA ForgetAbortTyped ==
  ASSUME NEW job \in AbortJobs
  PROVE  Forget(job) \in AbortJobs
  <1>1. \A x \in AbortJobs, b \in BOOLEAN :
          [x EXCEPT !.holds = b] \in AbortJobs /\ [x EXCEPT !.owns = b] \in AbortJobs
    BY SMT DEF AbortJobs
  <1> QED
    BY <1>1 DEF Forget

LEMMA ForgetTyped ==
  ASSUME NEW job \in Jobs
  PROVE  Forget(job) \in Jobs
  <1>1. CASE job.kind = "abort"
    <2>1. job \in AbortJobs
      BY <1>1, SMT DEF Jobs, AcceptJobs, ClaimJobs, StepJobs
    <2> QED
      BY <2>1, ForgetAbortTyped DEF Jobs
  <1>2. CASE job.kind # "abort"
    BY <1>2 DEF Forget
  <1> QED
    BY <1>1, <1>2

LEMMA TypeDrive == TypeOK /\ PointsOK /\ DriveStep => TypeOK'
  <1> SUFFICES ASSUME TypeOK, PointsOK, DriveStep PROVE TypeOK'
    OBVIOUS
  <1>a. drive \in Drives /\ op.at \in Leaves /\ line \in Seq(Jobs) /\ Append(line, Step) \in Seq(Jobs)
    BY JobTyped, AppendTyped DEF TypeOK, OpRecords
  <1>1. CASE Dispatch
    <2>1. drive' \in Drives /\ line' \in Seq(Jobs)
      BY <1>1, <1>a, FirstStagesTyped, EnterTyped DEF Dispatch
    <2> QED
      BY <1>1, <2>1 DEF Dispatch, TypeOK, durable, history
  <1>2. CASE Reconcile
    <2> DEFINE gate == IF drive.gate = "open" THEN "released" ELSE drive.gate
               pc == IF ReconcileStage \in Effects THEN "effect" ELSE "queued"
    <2>1. gate \in Gates /\ pc \in Points
      BY <1>a, SMT DEF Drives, Gates, Points
    <2>2. drive' \in Drives
      <3>1. drive' = [drive EXCEPT !.gate = gate, !.sig = TRUE, !.stage = ReconcileStage, !.pc = pc]
        BY <1>2 DEF Reconcile
      <3> HIDE DEF gate, pc
      <3> QED
        BY <1>a, <2>1, <3>1, ReconcileStageTyped, DriveFields
    <2>3. line' \in Seq(Jobs)
      BY <1>2, <1>a DEF Reconcile
    <2> QED
      BY <1>2, <2>2, <2>3 DEF Reconcile, TypeOK, durable, history
  <1>3. CASE Admit
    <2>1. [drive EXCEPT !.pc = "effect"] \in Drives /\ [drive EXCEPT !.pc = "await"] \in Drives
      BY <1>a, DriveField DEF Points
    <2> DEFINE polls == IF drive.stage = "poll" THEN drive.polls - 1 ELSE drive.polls
    <2>2. polls \in Int
      BY <1>a, SMT DEF Drives
    <2>3. [drive EXCEPT !.pc = "effect", !.polls = polls] \in Drives
      <3> HIDE DEF polls
      <3> QED
        BY <2>1, <2>2, DriveField
    <2>4. drive' \in Drives
      BY <1>3, <2>1, <2>3 DEF Admit
    <2>5. asked' \in Nat
      BY <1>3, SMT DEF Admit, TypeOK
    <2> QED
      BY <1>3, <2>4, <2>5 DEF Admit, TypeOK, durable
  <1>4. CASE CancellationSettled
    <2>1. [drive EXCEPT !.pc = "loop"] \in Drives /\ At("queued", "publish_response") \in Drives
      BY <1>a, DriveField, AtTyped DEF Points, Stages, SettlePlanners
    <2> QED
      BY <1>4, <1>a, <2>1 DEF CancellationSettled, Enqueue, TypeOK, durable, history
  <1>5. CASE EffectDone
    <2>1. CASE drive' \in {[drive EXCEPT !.pc = "loop"], [drive EXCEPT !.pc = "await"]} /\ line' = line
      <3>1. drive' \in Drives
        BY <2>1, <1>a, DriveField DEF Points
      <3> QED
        BY <1>5, <2>1, <3>1 DEF EffectDone, TypeOK, durable, history
    <2>2. CASE /\ drive.stage # "before_drive"
               /\ \E pc \in {"admit", "queued"}, aborted \in BOOLEAN :
                      drive' = [At(pc, NextStage) EXCEPT !.aborted = aborted]
               /\ line' \in {line, Append(line, Step)}
      <3>1. NextStage \in Stages
        BY <1>5, <2>2, NextStageTyped DEF PointsOK, EffectDone, Pass, Stages
      <3>2. \A pc \in {"admit", "queued"} : At(pc, NextStage) \in Drives
        BY <3>1, AtTyped DEF Points
      <3>3. drive' \in Drives
        BY <2>2, <3>2, DriveField
      <3> QED
        BY <1>5, <1>a, <2>2, <3>3 DEF EffectDone, TypeOK, durable, history
    <2> QED
      BY <1>5, <2>1, <2>2 DEF EffectDone
  <1>6. CASE PassEnds
    <2>1. CASE Fault("unwaited_retry")
      BY <1>6, <2>1, FaultTyped DEF PassEnds
    <2>2. CASE /\ drive' = NoDrive /\ parked' = <<>>
               /\ line' = [i \in 1..Len(line) |-> Forget(line[i])] \o parked
               /\ returned' = [i \in 1..Len(returned) |-> Forget(returned[i])]
               /\ UNCHANGED <<durable, open, fault, history>>
      <3>2. [i \in 1..Len(line) |-> Forget(line[i])] \in Seq(Jobs)
        <4>1. \A i \in 1..Len(line) : Forget(line[i]) \in Jobs
          BY <1>a, ForgetTyped
        <4>2. Len(line) \in Nat
          BY <1>a
        <4> QED
          BY <4>1, <4>2, SMT
      <3>3. parked \in Seq(Jobs) /\ <<>> \in Seq(ClaimJobs)
        BY SMT DEF TypeOK, Jobs
      <3>4. line' \in Seq(Jobs)
        BY <2>2, <3>2, <3>3
      <3>5. returned' \in Seq(AbortJobs)
        <4>1. \A i \in 1..Len(returned) : Forget(returned[i]) \in AbortJobs
          BY ForgetAbortTyped DEF TypeOK
        <4>2. Len(returned) \in Nat
          BY DEF TypeOK
        <4> QED
          BY <2>2, <4>1, <4>2, SMT
      <3> QED
        BY <1>6, <2>2, <3>3, <3>4, <3>5, NoDriveTyped DEF PassEnds, TypeOK, durable, history
    <2> QED
      BY <1>6, <2>1, <2>2 DEF PassEnds
  <1> QED
    BY <1>1, <1>2, <1>3, <1>4, <1>5, <1>6 DEF DriveStep

LEMMA TypeLifecycle == TypeOK /\ (Stop \/ Restart) => TypeOK'
  <1> SUFFICES ASSUME TypeOK, Stop \/ Restart PROVE TypeOK'
    OBVIOUS
  <1>1. CASE Stop
    <2>1. <<>> \in Seq(Jobs) /\ <<>> \in Seq(ClaimJobs) /\ <<>> \in Seq(AbortJobs)
      BY SMT
    <2>2. stops' \in 0..MaxStops
      BY <1>1, BoundsAssumption, SMT DEF Stop, TypeOK
    <2> QED
      BY <1>1, <2>1, <2>2, NoDriveTyped DEF Stop, TypeOK, durable, history
  <1>2. CASE Restart
    BY <1>2 DEF Restart, TypeOK, durable, volatile, history
  <1> QED
    BY <1>1, <1>2
-----------------------------------------------------------------------------
(* The stage a working pass is in. *)

LEMMA AtFields ==
  ASSUME NEW pc, NEW stage, drive \in Drives
  PROVE  /\ At(pc, stage).pc = pc /\ At(pc, stage).stage = stage
         /\ At(pc, stage).id = drive.id /\ At(pc, stage).gate = drive.gate
         /\ At(pc, stage).sig = drive.sig /\ At(pc, stage).aborted = drive.aborted
  BY SMT DEF At, Drives

\* Admission moves the pass and counts its polls; nothing else of it changes.
LEMMA AdmitFields ==
  ASSUME TypeOK, Admit
  PROVE  /\ drive'.pc = IF Admits THEN "effect" ELSE "await"
         /\ drive'.stage = drive.stage /\ drive'.id = drive.id /\ drive'.gate = drive.gate
         /\ drive'.sig = drive.sig /\ drive'.aborted = drive.aborted
  <1> DEFINE polls == IF drive.stage = "poll" THEN drive.polls - 1 ELSE drive.polls
  <1>1. drive \in Drives
    BY DEF TypeOK
  <1>2. drive' = IF Admits THEN [drive EXCEPT !.pc = "effect", !.polls = polls]
                 ELSE [drive EXCEPT !.pc = "await"]
    BY DEF Admit
  <1> HIDE DEF polls
  <1> QED
    BY <1>1, <1>2, SMT DEF Drives

\* After an awaited cancellation: the loop, or the response as it was.
LEMMA SettledFields ==
  ASSUME TypeOK, CancellationSettled
  PROVE  /\ drive'.id = drive.id /\ drive'.gate = drive.gate /\ drive'.sig = drive.sig
         /\ drive'.aborted = drive.aborted
         /\ \/ drive'.pc = "loop" /\ line' = line
            \/ /\ drive.stage = "after_response" /\ line' = Append(line, Step)
               /\ drive'.pc = "queued" /\ drive'.stage = "publish_response"
  <1>1. drive \in Drives
    BY DEF TypeOK
  <1>2. CASE drive' = [drive EXCEPT !.pc = "loop"] /\ line' = line
    BY <1>1, <1>2, SMT DEF Drives
  <1>3. CASE /\ drive.stage = "after_response" /\ line' = Append(line, Step)
             /\ drive' = At("queued", "publish_response")
    BY <1>1, <1>3, AtFields
  <1> QED
    BY <1>2, <1>3 DEF CancellationSettled, Enqueue

\* After an effect: the loop, an awaited cancellation, or the next stage.
LEMMA EffectDoneFields ==
  ASSUME TypeOK, EffectDone
  PROVE  /\ drive'.id = drive.id /\ drive'.gate = drive.gate /\ drive'.sig = drive.sig
         /\ \/ /\ drive'.pc \in {"loop", "await"} /\ drive'.stage = drive.stage
               /\ drive'.aborted = drive.aborted /\ line' = line
            \/ /\ drive.stage # "before_drive" /\ drive'.stage = NextStage
               /\ drive'.pc = IF NextStage \in Effects THEN "admit" ELSE "queued"
               /\ drive'.aborted => MayReportAborted
               /\ line' = IF NextStage \in Effects THEN line ELSE Append(line, Step)
  <1>1. drive \in Drives
    BY DEF TypeOK
  <1>2. CASE drive' \in {[drive EXCEPT !.pc = "loop"], [drive EXCEPT !.pc = "await"]} /\ line' = line
    BY <1>1, <1>2, SMT DEF Drives
  <1> DEFINE pc == IF NextStage \in Effects THEN "admit" ELSE "queued"
  <1>3. ASSUME drive.stage # "before_drive", NEW aborted \in BOOLEAN, aborted => MayReportAborted,
               drive' = [At(pc, NextStage) EXCEPT !.aborted = aborted],
               line' = IF NextStage \in Effects THEN line ELSE Append(line, Step)
        PROVE  /\ drive'.id = drive.id /\ drive'.gate = drive.gate /\ drive'.sig = drive.sig
               /\ drive'.stage = NextStage /\ drive'.pc = pc /\ drive'.aborted = aborted
    <2> HIDE DEF pc
    <2> QED
      BY <1>1, <1>3, SMT DEF At, Drives
  <1> QED
    BY <1>2, <1>3 DEF EffectDone

LEMMA NotWorking ==
  ASSUME TypeOK, Loop \/ (\E status : Finish(status)) \/ (\E cause : Fault(cause))
  PROVE  ~Working'
  <1>1. CASE Loop
    BY <1>1, SMT DEF TypeOK, Drives, Loop, Working
  <1>2. ASSUME NEW status, Finish(status) PROVE drive'.pc = "ended"
    BY <1>2, AtFields DEF TypeOK, Finish
  <1>3. ASSUME NEW cause, Fault(cause) PROVE drive'.pc = "ended"
    BY <1>3, SMT DEF Fault, NoDrive, Installed
  <1> QED
    BY <1>1, <1>2, <1>3 DEF Working

\* Planners leave the pass between stages, except for five of them.
LEMMA PlannerCases ==
  ASSUME TypeOK, PlannerStep
  PROVE  \/ ~Working'
         \/ AskRunEnd
         \/ PublishIntent
         \/ PublishPollIntent
         \/ PublishAttemptIntent
         \/ PublishNestedIntent
         \/ PublishNestedOutcome
  BY NotWorking
  DEF PlannerStep, SkipCancelled, StartRun, Checkpoint, FinishRun, ConfigurationFailure,
      PublishResponse, RecoverResponse, RetryReady, ToolsDone, Decide, PublishAttemptResult,
      RecoverAttempt, CommitNavigation, PublishAborted, Move, Triggered, Renewed, Deciding,
      RetryWait, Placed, Overflowed, ToolCalls, Retryable, ResumeAfter, Summarised, Declined
LEMMA PointsPlanner == TypeOK /\ PointsOK /\ PlannerStep => PointsOK'
  <1> SUFFICES ASSUME TypeOK, PointsOK, PlannerStep PROVE PointsOK'
    OBVIOUS
  <1>a. drive \in Drives /\ op \in OpRecords
    BY DEF TypeOK
  <1>1. CASE ~Working'
    BY <1>1 DEF PointsOK, Working
  <1>2. CASE AskRunEnd
    BY <1>2, <1>a, AtFields DEF AskRunEnd, Then, PointsOK, NestedStages, Effects, Hooks
  <1>3. CASE PublishIntent
    BY <1>3, <1>a, AtFields
    DEF PublishIntent, Announce, Then, PointsOK, NestedStages, Effects, Hooks
  <1>4. CASE PublishPollIntent
    <2>1. drive'.stage = "poll"
      BY <1>4, <1>a, SMT DEF PublishPollIntent, At, Drives
    <2> QED
      BY <2>1 DEF PointsOK, NestedStages, Effects, Requests
  <1>5. CASE PublishAttemptIntent
    <2>1. drive'.stage \in Effects
      BY <1>5, <1>a, AtFields DEF PublishAttemptIntent, Announce, Then, Effects, Hooks
    <2>2. op'.requests < MaxRequests
      BY <1>5, <1>a, BoundsAssumption, SMT
      DEF PublishAttemptIntent, Announce, Commit, OpRecords
    <2> QED
      BY <2>1, <2>2 DEF PointsOK
  <1>6. CASE PublishNestedIntent
    <2>1. drive'.stage \in Effects
      BY <1>6, <1>a, AtFields DEF PublishNestedIntent, Announce, Then, Effects, Requests
    <2>2. op' = op
      BY <1>6 DEF PublishNestedIntent, Announce, Commit
    <2>3. op.requests < MaxRequests
      BY <1>6
      DEF PointsOK, PublishNestedIntent, Continues, Settles, Planning, Working, NestedStages
    <2> QED
      BY <2>1, <2>2, <2>3 DEF PointsOK
  <1>7. CASE PublishNestedOutcome
    <2>1. CASE /\ op.requests + 1 < MaxRequests
               /\ Then("before_summary_request")
               /\ Commit([op EXCEPT !.requests = @ + 1])
      <3>1. op'.requests < MaxRequests
        BY <2>1, <1>a, SMT DEF Commit, OpRecords
      <3>2. drive'.stage \in Effects
        BY <2>1, <1>a, AtFields DEF Then, Effects, Hooks
      <3> QED
        BY <3>1, <3>2 DEF PointsOK
    <2>2. CASE Then("attempt_result")
      <3>1. drive'.pc = "queued" /\ drive'.stage = "attempt_result"
        BY <2>2, <1>a, AtFields DEF Then, Effects, Hooks, Requests
      <3> QED
        BY <3>1 DEF PointsOK, NestedStages
    <2> QED
      BY <1>7, <2>1, <2>2 DEF PublishNestedOutcome
  <1> QED
    BY <1>1, <1>2, <1>3, <1>4, <1>5, <1>6, <1>7, PlannerCases

LEMMA PointsDrive == TypeOK /\ PointsOK /\ DriveStep => PointsOK'
  <1> SUFFICES ASSUME TypeOK, PointsOK, DriveStep PROVE PointsOK'
    OBVIOUS
  <1>a. drive \in Drives
    BY DEF TypeOK
  <1>b. op' = op
    BY DEF DriveStep, Dispatch, Reconcile, Admit, CancellationSettled, EffectDone, PassEnds, Fault,
       durable
  <1>1. CASE Dispatch
    <2>1. FirstStages \cap NestedStages = {}
      BY SMT DEF TypeOK, OpRecords, FirstStages, Orphan, Leaves, SummaryLeaves, ResponseLeaves,
         NestedStages
    <2>2. ASSUME NEW stage \in FirstStages, Enter(stage) PROVE PointsOK'
      BY <2>1, <2>2, <1>a, AtFields DEF Enter, PointsOK, Outcomes
    <2> QED
      BY <1>1, <2>2 DEF Dispatch
  <1>2. CASE Reconcile
    <2>1. drive'.stage = ReconcileStage /\ (drive'.pc # "queued" => drive'.stage \in Effects)
      BY <1>2, <1>a, SMT DEF Reconcile, Drives
    <2>2. ReconcileStage \notin NestedStages
      BY SMT DEF ReconcileStage, NestedStages
    <2> QED
      BY <1>2, <2>1, <2>2 DEF PointsOK, Reconcile, Working
  <1>3. CASE Admit
    <2>1. drive.pc = "admit" /\ drive'.stage = drive.stage /\ drive'.pc \in {"effect", "await"}
      BY <1>3, AdmitFields DEF Admit, Pass
    <2> QED
      BY <2>1, <1>b DEF PointsOK, Working
  <1>4. CASE CancellationSettled
    BY <1>4, SettledFields DEF PointsOK, Working, NestedStages
  <1>5. CASE EffectDone
    <2>1. CASE drive'.pc \in {"loop", "await"}
      BY <2>1 DEF PointsOK, Working
    <2>2. CASE /\ drive.stage # "before_drive" /\ drive'.stage = NextStage
               /\ drive'.pc = IF NextStage \in Effects THEN "admit" ELSE "queued"
      <3>1. drive.pc = "effect" /\ drive.stage \in Effects
        BY <1>5 DEF EffectDone, Pass, PointsOK
      <3>2. NextStage \in NestedStages => drive.stage \in NestedStages
        BY <2>2, <3>1, SMT DEF NextStage, NestedStages, Effects, Hooks, Requests
      <3> QED
        BY <2>2, <3>1, <3>2, <1>b DEF PointsOK, Working
    <2> QED
      BY <1>5, <2>1, <2>2, EffectDoneFields
  <1>6. CASE PassEnds
    <2>1. drive' = NoDrive
      BY <1>6 DEF PassEnds, Fault
    <2>2. drive'.pc = "ended"
      BY <2>1 DEF NoDrive, Installed
    <2> QED
      BY <2>2 DEF PointsOK, Working
  <1> QED
    BY <1>1, <1>2, <1>3, <1>4, <1>5, <1>6 DEF DriveStep

LEMMA PointsOthers ==
  TypeOK /\ PointsOK /\ (ClientCall \/ RunAccept \/ RunClaim \/ RunAbort \/ AbortReturns
                           \/ Stop \/ Restart)
  => PointsOK'
  <1> SUFFICES ASSUME TypeOK, PointsOK,
                      ClientCall \/ RunAccept \/ RunClaim \/ RunAbort \/ AbortReturns
                      \/ Stop \/ Restart
               PROVE  PointsOK'
    OBVIOUS
  <1>a. drive \in Drives /\ op \in OpRecords
    BY DEF TypeOK
  <1>1. CASE ClientCall
    <2>1. op' = op
      BY <1>1 DEF ClientCall, AcceptCall, DriveCall, AbortCall, durable
    <2>2. drive'.pc = drive.pc /\ drive'.stage = drive.stage
      <3>1. drive' = drive \/ drive' = [drive EXCEPT !.gate = "aborting"]
        BY <1>1 DEF ClientCall, AcceptCall, DriveCall, AbortCall, ShutGate
      <3> QED
        BY <3>1, <1>a, SMT DEF Drives
    <2> QED
      BY <2>1, <2>2 DEF PointsOK, Working
  <1>2. CASE RunAccept
    <2>1. drive' = drive /\ (op' = op \/ op'.requests = 0)
      BY <1>2 DEF RunAccept, Accepted, durable
    <2>2. 0 < MaxRequests
      BY BoundsAssumption, SMT
    <2> QED
      BY <2>1, <2>2 DEF PointsOK, Working
  <1>3. CASE RunClaim
    <2>1. op' = op
      BY <1>3 DEF RunClaim, durable
    <2>2. CASE drive'.pc = drive.pc /\ drive'.stage = drive.stage
      BY <2>1, <2>2 DEF PointsOK, Working
    <2>3. CASE drive' = Install(line[1].id, line[1].mode)
      <3>1. drive'.stage = "before_drive"
        BY <2>3 DEF Install, Installed
      <3> QED
        BY <3>1 DEF PointsOK, NestedStages, Effects, Hooks
    <2>4. CASE drive' = [drive EXCEPT !.conv = @ \/ line[1].mode \in Convenience]
      <3>1. drive'.pc = drive.pc /\ drive'.stage = drive.stage
        BY <2>4, <1>a, SMT DEF Drives
      <3> QED
        BY <2>2, <3>1
    <2> QED
      BY <1>3, <2>2, <2>3, <2>4 DEF RunClaim
  <1>4. CASE RunAbort
    <2>1. op'.requests = op.requests
      BY <1>4, <1>a, SMT DEF RunAbort, OpRecords
    <2>2. drive'.pc = drive.pc /\ drive'.stage = drive.stage
      BY <1>4, <1>a, SMT DEF RunAbort, Settled, Drives
    <2> QED
      BY <2>1, <2>2 DEF PointsOK, Working
  <1>5. CASE Stop
    <2>1. drive'.pc = "ended"
      BY <1>5 DEF Stop, NoDrive, Installed
    <2> QED
      BY <2>1 DEF PointsOK, Working
  <1>6. CASE Restart
    BY <1>6 DEF Restart, durable, volatile, PointsOK, Working
  <1>7. CASE AbortReturns
    <2>1. drive'.pc = drive.pc /\ drive'.stage = drive.stage
      BY <1>7, <1>a, SMT DEF AbortReturns, Settled, Drives
    <2> QED
      BY <1>7, <2>1 DEF AbortReturns, durable, PointsOK, Working
  <1> QED
    BY <1>1, <1>2, <1>3, <1>4, <1>5, <1>6, <1>7

-----------------------------------------------------------------------------
(* Type correctness. *)

LEMMA NextCases ==
  Next <=> \/ ClientCall \/ RunAccept \/ RunClaim \/ RunAbort \/ AbortReturns \/ Stop \/ Restart
           \/ PlannerStep \/ DriveStep
  BY DEF Next, LineStep, PlannerStep

LEMMA TypeStep == TypeOK /\ PointsOK /\ [Next]_vars => TypeOK' /\ PointsOK'
  <1> SUFFICES ASSUME TypeOK, PointsOK, [Next]_vars PROVE TypeOK' /\ PointsOK'
    OBVIOUS
  <1>1. CASE Next
    BY <1>1, NextCases, TypeClientCall, TypeRunAccept, TypeRunClaim, TypeRunAbort, TypeAbortReturns, TypePlanner,
       TypeDrive, TypeLifecycle, PointsPlanner, PointsDrive, PointsOthers
  <1>2. CASE UNCHANGED vars
    BY <1>2 DEF vars, TypeOK, PointsOK, Working
  <1> QED
    BY <1>1, <1>2

\* The inductive invariant of the typing.
LEMMA TypedPoints == Spec => [](TypeOK /\ PointsOK)
  <1>1. Init => TypeOK /\ PointsOK
    <2>1. Init => PointsOK
      BY DEF Init, NoDrive, Installed, PointsOK, Working
    <2> QED
      BY <2>1, TypeInit
  <1> QED
    BY <1>1, TypeStep, PTL DEF Spec

\* Every state of the lane has the types the code declares; attempts and nested
\* requests stay within the retry policy and the request bound.
THEOREM TypeCorrect == Spec => []TypeOK
  BY TypedPoints, PTL
=============================================================================
