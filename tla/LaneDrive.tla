----------------------------- MODULE LaneDrive -----------------------------
(***************************************************************************)
(* One lane of the agent harness: its durable operation, the mutation line *)
(* that serializes every read and commit, and the single process-local     *)
(* drive pass that turns the stored leaf into procedures.                  *)
(*                                                                         *)
(* A procedure is a chain of stages.  An effect stage (a hook, a provider  *)
(* request, a retry timer, a tool batch) passes the admission gate and     *)
(* runs off the line; a planner stage is one job of the line and commits   *)
(* at most once.  Clients call accept, drive and abort at any moment; the  *)
(* harness may stop (close, fault, process death) and restart from the     *)
(* durable part alone: op and results.                                     *)
(*                                                                         *)
(* Planners are of the two kinds of lane.ts: a continueOperation planner   *)
(* is skipped once the operation is cancelled, a settleOperation one runs  *)
(* regardless.  The tool batch, the inbox and the branch are modelled here *)
(* by their outcomes only.                                                 *)
(***************************************************************************)
EXTENDS Integers, Sequences

CONSTANTS
    Ops,            \* operation ids
    None,           \* no operation
    Requested,      \* bound: the kinds of operation clients ask for
    MaxAttempts,    \* retryPolicy.maxAttempts, for generations and summaries
    MaxRequests,    \* provider requests one structural attempt makes at most
    MaxTurns,       \* bound: new triggers (tool batches, input) one run gets
    QueueCap,       \* bound: client calls in flight
    MaxStops        \* bound: closes, faults and crashes

ASSUME NoneAssumption == None \notin Ops
ASSUME BoundsAssumption ==
    /\ Requested \subseteq {"run", "compaction", "navigation"}
    /\ MaxAttempts \in Nat \ {0}
    /\ MaxRequests \in Nat \ {0}
    /\ MaxTurns \in Nat
    /\ QueueCap \in Nat
    /\ MaxStops \in Nat

VARIABLES
    op,         \* durable: the lane's current operation and its leaf
    results,    \* durable: the operation result records
    drive,      \* activeDrive: the installed pass, its gate and its position
    line,       \* jobs queued on the mutation line, FIFO
    parked,     \* drive() calls awaiting another operation's pass
    returned,   \* abort calls answered by their job that have not gone on yet
    open,       \* a harness owns the session
    fault,      \* the SessionInvariantError that faulted the harness, if any
    asked,      \* history: provider requests under the reserved response ids
    compactions,\* history: compactions opened for the current trigger
    stops       \* history: how often the harness stopped

durable == <<op, results>>
waits == <<parked, returned>>
volatile == <<drive, line, parked, returned>>
history == <<asked, compactions>>
vars == <<op, results, drive, line, parked, returned, open, fault, asked, compactions, stops>>

-----------------------------------------------------------------------------
(* Durable values. *)

Intents == {"run", "compaction", "navigation"}

SummaryLeaves ==
    {"summary.deciding", "summary.ready", "summary.effect_pending", "summary.retry_wait"}

\* Leaves whose effect was announced and whose outcome is not yet stored.
ResponseLeaves == {"assistant.effect_pending", "deferred.effect_pending"}

Leaves ==
    {"starting", "checkpoint", "assistant.ready", "assistant.retry_wait", "tools",
     "deferred.suspended", "navigation.ready_to_commit"} \cup SummaryLeaves \cup ResponseLeaves

\* What a summary is for: "manual" ends a compaction operation, "navigation"
\* moves the branch, the two others resume the run's checkpoint.
Tasks == {"none", "manual", "navigation", "threshold", "overflow"}

\* Why a run is compacted.
Reasons == {"threshold", "overflow"}
NoCompactions == [reason \in Reasons |-> 0]

Terminal == {"completed", "declined", "aborted", "failed"}

Continuations == {"need_assistant", "may_finish"}    \* of a checkpoint

OpRecords ==
    [id: Ops \cup {None}, intent: Intents, at: Leaves, cancelled: BOOLEAN, task: Tasks,
     cont: Continuations,
     ovf: BOOLEAN,                             \* overflowRecoveryUsed
     guarded: BOOLEAN,      \* a compaction already follows the trigger entry
     attempt: 1..MaxAttempts, requests: 0..MaxRequests, turns: 0..MaxTurns]

Accepted(o, intent, at, task) ==
    [id |-> o, intent |-> intent, at |-> at, cancelled |-> FALSE, task |-> task,
     cont |-> "need_assistant", ovf |-> FALSE, guarded |-> FALSE,
     attempt |-> 1, requests |-> 0, turns |-> 0]

NoOp == Accepted(None, "run", "starting", "none")

\* First leaves by intent: a navigation that asks for a summary decides it first.
FirstLeaves(intent) ==
    CASE intent = "run" -> {<<"starting", "none">>}
      [] intent = "compaction" -> {<<"summary.deciding", "manual">>}
      [] intent = "navigation" -> {<<"summary.deciding", "navigation">>,
                                   <<"navigation.ready_to_commit", "none">>}

-----------------------------------------------------------------------------
(* Process-local values. *)

\* Who drives and with which options: prompt(), resume(), or drive() with no
\* option, with waitForRetry, with pollDeferred.  prompt() drives only what it
\* has just accepted.
Modes == {"prompt", "resume", "drive", "wait", "poll"}
WaitsForRetry == {"prompt", "resume", "wait"}
Polls == {"resume", "poll"}
Convenience == {"prompt", "resume"}    \* throws on an unwaited retry

Hooks ==
    {"before_drive", "before_run", "before_request", "transform_context", "after_response",
     "before_run_end", "before_poll", "before_decision", "before_summary_request"}
Requests == {"provider", "poll", "summary_provider"}
Effects == Hooks \cup Requests \cup {"timer", "tools", "cancel_deferred"}

SettlePlanners ==
    {"publish_response", "recover_response", "recover_cancelled", "nested_outcome",
     "tools_done", "aborted"}
ContinuePlanners ==
    {"start_run", "boundary", "finish", "publish_intent", "retry_ready", "config_failure",
     "poll_intent", "decide", "attempt_intent", "model_missing", "nested_intent",
     "attempt_result", "recover_attempt", "navigate"}
Outcomes == {"settled", "retry", "deferred"}
Stages == Effects \cup SettlePlanners \cup ContinuePlanners \cup Outcomes

Gates == {"open", "aborting", "released"}    \* released: cancellation resolved
\* In the drive loop; at the gate; in an effect; awaiting a cancellation; with a
\* job on the line; past the terminal commit or the decision to wait.
Points == {"loop", "admit", "effect", "await", "queued", "ended"}

Drives ==
    [id: Ops \cup {None},
     wait: BOOLEAN,         \* waitForRetry
     permit: BOOLEAN,       \* deferredPermits
     polls: Int,            \* history: the permits it came with, less the polls it made
     conv: BOOLEAN,         \* a prompt() or resume() observes this pass
     gate: Gates,
     sig: BOOLEAN,          \* gate.signal fired
     pc: Points,
     stage: Stages,
     aborted: BOOLEAN]      \* the effect reported stopReason "aborted"

Installed(o, mode, pc, stage) ==
    [id |-> o, wait |-> mode \in WaitsForRetry, permit |-> mode \in Polls,
     polls |-> IF mode \in Polls THEN 1 ELSE 0, conv |-> mode \in Convenience,
     gate |-> "open", sig |-> FALSE, pc |-> pc, stage |-> stage, aborted |-> FALSE]

NoDrive == Installed(None, "drive", "ended", "settled")

AcceptJobs == [kind: {"accept"}, id: Ops, intent: Intents, drives: BOOLEAN]
ClaimJobs == [kind: {"claim"}, id: Ops, mode: Modes]
\* holds: the call captured the installed pass; owns: its cancellation promise
\* is the one the gate carries; drives: abort(), which drives afterwards.
AbortJobs == [kind: {"abort"}, id: Ops, holds: BOOLEAN, owns: BOOLEAN, drives: BOOLEAN]
StepJobs == [kind: {"step"}]
Jobs == AcceptJobs \cup ClaimJobs \cup AbortJobs \cup StepJobs

Claim(o, mode) == [kind |-> "claim", id |-> o, mode |-> mode]
Step == [kind |-> "step"]

Known(o) == o = op.id \/ results[o] # "none"

-----------------------------------------------------------------------------
Init ==
    /\ op = NoOp
    /\ results = [o \in Ops |-> "none"]
    /\ drive = NoDrive
    /\ line = <<>>
    /\ parked = <<>>
    /\ returned = <<>>
    /\ open = TRUE
    /\ fault = "none"
    /\ asked = 0
    /\ compactions = NoCompactions
    /\ stops = 0

-----------------------------------------------------------------------------
(* Client calls: each queues one job; abort() also shuts the gate at once. *)

Room == open /\ Len(line) + Len(parked) + Len(returned) < QueueCap

Enqueue(job) == line' = Append(line, job)

AcceptCall(o, intent, drives) ==
    /\ Room
    /\ ~Known(o)
    /\ \A i \in 1..Len(line) : line[i].kind = "accept" => line[i].id # o
    /\ Enqueue([kind |-> "accept", id |-> o, intent |-> intent, drives |-> drives])
    /\ UNCHANGED <<durable, drive, waits, open, fault, history, stops>>

DriveCall(o, mode) ==
    /\ Room
    /\ Known(o)
    /\ Enqueue(Claim(o, mode))
    /\ UNCHANGED <<durable, drive, waits, open, fault, history, stops>>

\* Mutation: the call pulls the signal as well, before anything is durable.
ShutGateAndSignal(o) ==
    drive' = IF drive.id = o /\ drive.gate = "open"
             THEN [drive EXCEPT !.gate = "aborting", !.sig = TRUE] ELSE drive

\* Mutation: the cancellation is resolved by the call, not by its job.
ShutGateResolved(o) ==
    drive' = IF drive.id = o /\ drive.gate = "open"
             THEN [drive EXCEPT !.gate = "released"] ELSE drive

\* drive.beginAbort(cancellation), before the durable request is even queued.
ShutGate(o) ==
    drive' = IF drive.id = o /\ drive.gate = "open"
             THEN [drive EXCEPT !.gate = "aborting"] ELSE drive

AbortCall(o, drives) ==
    /\ Room
    /\ Known(o)
    /\ ShutGate(o)
    /\ Enqueue([kind |-> "abort", id |-> o, drives |-> drives, holds |-> drive.id = o,
                owns |-> drive.id = o /\ drive.gate = "open"])
    /\ UNCHANGED <<durable, waits, open, fault, history, stops>>

-----------------------------------------------------------------------------
(* Client jobs on the line. *)

HeadIs(kind) == open /\ line # <<>> /\ line[1].kind = kind

RunAccept ==
    /\ HeadIs("accept")
    /\ LET job == line[1] IN
       \/ /\ op.id = None
          /\ \E first \in FirstLeaves(job.intent) :
                 op' = Accepted(job.id, job.intent, first[1], first[2])
          /\ line' = IF job.drives THEN Append(Tail(line), Claim(job.id, "prompt"))
                     ELSE Tail(line)
          /\ UNCHANGED results
       \/ /\ op.id # None                                   \* LaneBusy
          /\ line' = Tail(line)
          /\ UNCHANGED durable
    /\ UNCHANGED <<drive, waits, open, fault, history, stops>>

\* before_drive runs only while durable control is running.
Install(o, mode) ==
    Installed(o, mode, IF op.cancelled THEN "loop" ELSE "admit", "before_drive")

RunClaim ==
    /\ HeadIs("claim")
    /\ LET job == line[1] IN
       /\ line' = Tail(line)
       /\ \/ /\ op.id = job.id /\ drive.id = None           \* install
             /\ drive' = Install(job.id, job.mode)
             /\ UNCHANGED parked
          \/ /\ op.id = job.id /\ drive.id = job.id         \* observe
             /\ drive' = [drive EXCEPT !.conv = @ \/ job.mode \in Convenience]
             /\ UNCHANGED parked
          \/ /\ op.id = job.id /\ drive.id \notin {None, job.id}   \* occupied
             /\ parked' = Append(parked, job)
             /\ UNCHANGED drive
          \/ /\ op.id # job.id                              \* settled
             /\ UNCHANGED <<drive, parked>>
    /\ UNCHANGED <<durable, returned, open, fault, history, stops>>

\* Mutation: only a new request resolves the cancellation, a repeated one not.
SettledIfNew(job) ==
    LET released == [drive EXCEPT !.gate = IF job.owns /\ ~op.cancelled THEN "released" ELSE @]
    IN  [released EXCEPT !.sig = @ \/ job.holds]

\* settleGate: the cancellation that the call owns is resolved, and the pass it
\* captured is signalled.
Settled(job) ==
    LET released == [drive EXCEPT !.gate = IF job.owns THEN "released" ELSE @]
    IN  [released EXCEPT !.sig = @ \/ job.holds]

\* A new request settles the gate while it is materialized.  A repeated one does
\* so when the call goes on, and one that mismatches only resolves then.  A job
\* that throws, which rejects the cancellation, faults the harness: see Stop.
RunAbort ==
    /\ HeadIs("abort")
    /\ LET job == line[1]
           matches == op.id = job.id
           new == matches /\ ~op.cancelled
       IN
       /\ op' = IF new THEN [op EXCEPT !.cancelled = TRUE] ELSE op
       /\ drive' = IF new THEN Settled(job) ELSE drive
       /\ returned' = Append(returned, [job EXCEPT !.owns = @ /\ ~new,
                                                  !.holds = @ /\ matches /\ ~new,
                                                  !.drives = @ /\ matches])
       /\ line' = Tail(line)
    /\ UNCHANGED <<results, parked, open, fault, history, stops>>

\* The call goes on; abort() drives what it has cancelled.
AbortReturns ==
    /\ open
    /\ returned # <<>>
    /\ LET job == returned[1] IN
       /\ drive' = Settled(job)
       /\ line' = IF job.drives THEN Append(line, Claim(job.id, "drive")) ELSE line
    /\ returned' = Tail(returned)
    /\ UNCHANGED <<durable, parked, open, fault, history, stops>>

-----------------------------------------------------------------------------
(* The drive loop. *)

Pass(pc) == open /\ drive.id # None /\ drive.pc = pc

At(pc, stage) == [drive EXCEPT !.pc = pc, !.stage = stage]

\* Enter a stage: planners join the line, effects face the gate.  A tool batch
\* and a remote cancellation are not admitted as a whole.
Enter(stage) ==
    \/ /\ stage \in SettlePlanners \cup ContinuePlanners
       /\ drive' = At("queued", stage)
       /\ line' = Append(line, Step)
    \/ /\ stage \in Effects
       /\ drive' = At(IF stage \in {"tools", "cancel_deferred"} THEN "effect" ELSE "admit", stage)
       /\ line' = line
    \/ /\ stage \in Outcomes
       /\ drive' = At("ended", stage)
       /\ line' = line

\* Mutation: an orphaned request is simply made again.
OrphanRepeated == IF op.at = "assistant.effect_pending" THEN "provider" ELSE "summary_provider"

\* An announced effect without a stored outcome, left by an earlier harness.
Orphan == IF op.at = "assistant.effect_pending" THEN "recover_response" ELSE "recover_attempt"

\* The procedures' first stages by leaf; a retry wait may already be over, the
\* configured model may be missing in this process.
FirstStages ==
    CASE op.at = "starting" -> {"before_run"}
      [] op.at = "checkpoint" -> {"boundary"}
      [] op.at = "assistant.ready" -> {"before_request", "config_failure"}
      [] op.at \in {"assistant.effect_pending", "summary.effect_pending"} -> {Orphan}
      [] op.at \in {"assistant.retry_wait", "summary.retry_wait"} ->
             {"retry_ready", IF drive.wait THEN "timer" ELSE "retry"}
      [] op.at = "tools" -> {"tools"}
      [] op.at \in {"deferred.suspended", "deferred.effect_pending"} ->
             IF drive.permit THEN {"before_poll", "config_failure"} ELSE {"deferred"}
      [] op.at = "summary.deciding" -> {"before_decision"}
      [] op.at = "summary.ready" -> {"attempt_intent", "model_missing"}
      [] op.at = "navigation.ready_to_commit" -> {"navigate"}

\* Reconciliation of a cancelled leaf.
ReconcileStage ==
    CASE op.at = "assistant.effect_pending" -> "recover_cancelled"
      [] op.at = "tools" -> "tools"
      [] op.at \in {"deferred.suspended", "deferred.effect_pending"} -> "cancel_deferred"
      [] OTHER -> "aborted"

Dispatch ==
    /\ Pass("loop")
    /\ op.id = drive.id
    /\ ~op.cancelled
    /\ \E stage \in FirstStages : Enter(stage)
    /\ UNCHANGED <<durable, waits, open, fault, history, stops>>

\* reconcileOperation pulls the gate itself, with a resolved cancellation.
Reconcile ==
    /\ Pass("loop")
    /\ op.id = drive.id
    /\ op.cancelled
    /\ LET stage == ReconcileStage
           gate == IF drive.gate = "open" THEN "released" ELSE drive.gate
       IN  /\ drive' = [drive EXCEPT !.gate = gate, !.sig = TRUE, !.stage = stage,
                            !.pc = IF stage \in Effects THEN "effect" ELSE "queued"]
           /\ line' = IF stage \in Effects THEN line ELSE Append(line, Step)
    /\ UNCHANGED <<durable, waits, open, fault, history, stops>>

\* Mutation: effects start without asking the gate.
AdmitsAlways == TRUE

Admits == drive.gate = "open"

\* gate.admit: the effect starts, or AbortRequested is thrown.
Admit ==
    /\ Pass("admit")
    /\ IF Admits
       THEN /\ drive' = [drive EXCEPT !.pc = "effect",
                                        !.polls = IF drive.stage = "poll" THEN @ - 1 ELSE @]
            /\ asked' = IF drive.stage \in Requests THEN asked + 1 ELSE asked
       ELSE /\ drive' = [drive EXCEPT !.pc = "await"]
            /\ UNCHANGED asked
    /\ UNCHANGED <<durable, line, waits, open, fault, compactions, stops>>

\* await error.cancellation; then the loop looks at the leaf again.  A response
\* whose hook was not admitted is published as it is.
CancellationSettled ==
    /\ Pass("await")
    /\ drive.gate = "released"
    /\ \/ /\ drive.stage # "after_response"
          /\ drive' = [drive EXCEPT !.pc = "loop"]
          /\ UNCHANGED line
       \/ /\ drive.stage = "after_response"
          /\ drive' = At("queued", "publish_response")
          /\ Enqueue(Step)
    /\ UNCHANGED <<durable, waits, open, fault, history, stops>>

NextStage ==
    CASE drive.stage = "before_run" -> "start_run"
      [] drive.stage = "before_request" -> "publish_intent"
      [] drive.stage = "transform_context" -> "provider"
      [] drive.stage \in {"provider", "poll"} -> "after_response"
      [] drive.stage = "after_response" -> "publish_response"
      [] drive.stage = "timer" -> "retry_ready"
      [] drive.stage = "before_run_end" -> "finish"
      [] drive.stage = "before_poll" -> "poll_intent"
      [] drive.stage = "before_decision" -> "decide"
      [] drive.stage = "before_summary_request" -> "nested_intent"
      [] drive.stage = "summary_provider" -> "nested_outcome"
      [] drive.stage = "tools" -> "tools_done"
      [] drive.stage = "cancel_deferred" ->
             IF op.at = "deferred.suspended" THEN "aborted" ELSE "recover_cancelled"

\* Mutation: a request reports "aborted" on its own account.
MayReportAbortedFreely == drive.stage \in Requests \/ drive.aborted

\* Only a signalled request can, and a hook passes on what the request reported.
MayReportAborted ==
    \/ drive.sig /\ drive.stage \in Requests
    \/ drive.aborted /\ drive.stage = "after_response"

\* An effect ends, and the procedure faces the gate again or joins the line.  A
\* signalled timer rejects with AbortRequested.
EffectDone ==
    /\ Pass("effect")
    /\ \/ /\ drive.stage = "before_drive"
          /\ drive' = [drive EXCEPT !.pc = "loop"]
          /\ UNCHANGED line
       \/ /\ drive.stage = "timer" /\ drive.sig
          /\ drive' = [drive EXCEPT !.pc = "await"]
          /\ UNCHANGED line
       \/ /\ drive.stage # "before_drive"
          /\ drive.stage = "timer" => ~drive.sig
          /\ \E aborted \in BOOLEAN :
                 /\ aborted => MayReportAborted
                 /\ drive' = [At(IF NextStage \in Effects THEN "admit" ELSE "queued", NextStage)
                                EXCEPT !.aborted = aborted]
          /\ line' = IF NextStage \in Effects THEN line ELSE Append(line, Step)
    /\ UNCHANGED <<durable, waits, open, fault, history, stops>>

-----------------------------------------------------------------------------
(* Planner jobs: one read-decide-commit each, the drive continuing after it. *)

Planning(stage) == HeadIs("step") /\ drive.pc = "queued" /\ drive.stage = stage
Settles(stage) == Planning(stage) /\ UNCHANGED stops

\* Mutation: the planner forgets to look at the cancellation marker.
ContinuesRegardless(stage) == Settles(stage)

Continues(stage) == Settles(stage) /\ ~op.cancelled

\* Back to the drive loop, or on to the procedure's next stage.
Loop ==
    /\ drive' = [drive EXCEPT !.pc = "loop", !.aborted = FALSE]
    /\ line' = Tail(line)
    /\ UNCHANGED waits

Then(stage) ==
    /\ \/ stage \in Effects /\ drive' = At("admit", stage) /\ line' = Tail(line)
       \/ stage \notin Effects /\ drive' = At("queued", stage) /\ line' = Append(Tail(line), Step)
    /\ UNCHANGED waits

Commit(next) == op' = next /\ UNCHANGED <<results, open, fault>>

\* Mutation: the pass goes round its loop after the terminal commit.
FinishAndLoop(status) ==
    /\ results' = [results EXCEPT ![op.id] = status]
    /\ op' = NoOp
    /\ asked' = 0
    /\ compactions' = NoCompactions
    /\ Loop
    /\ UNCHANGED <<open, fault>>

\* The terminal commit: result record stored, lane idle.  The pass remains
\* installed while the commit's events are delivered.
Finish(status) ==
    /\ results' = [results EXCEPT ![op.id] = status]
    /\ op' = NoOp
    /\ drive' = At("ended", "settled")
    /\ line' = Tail(line)
    /\ asked' = 0
    /\ compactions' = NoCompactions
    /\ UNCHANGED <<waits, open, fault>>

\* A throwing planner or caller: onFault seals the lane, nothing is committed.
Fault(cause) ==
    /\ fault' = cause
    /\ open' = FALSE
    /\ drive' = NoDrive
    /\ line' = <<>>
    /\ parked' = <<>>
    /\ returned' = <<>>
    /\ UNCHANGED <<durable, history>>

\* continueOperation found the operation cancelled.
SkipCancelled ==
    /\ \E stage \in ContinuePlanners : Settles(stage)
    /\ op.cancelled
    /\ Loop
    /\ UNCHANGED <<durable, open, fault, history>>

\* The same trigger is pursued from another leaf; a settled response id is gone.
Move(next) == Commit(next) /\ asked' = 0 /\ Loop /\ UNCHANGED compactions

\* A leaf has the fields of its own type only.
Leaf(at) ==
    [op EXCEPT !.at = at, !.task = "none", !.cont = "need_assistant", !.ovf = FALSE,
        !.guarded = FALSE, !.attempt = 1, !.requests = 0]

\* Mutation: overflowRecoveryUsed is lost on the way back to the generation.
ReadyForgetful(ovf) == Leaf("assistant.ready")

Ready(ovf) == [Leaf("assistant.ready") EXCEPT !.ovf = ovf]

\* The run has a new trigger entry: its compaction guards start afresh.
Triggered(next) ==
    /\ Commit(next)
    /\ asked' = 0
    /\ compactions' = NoCompactions
    /\ Loop

\* Boundary input, or a follow-up from the before_run_end hook.
Renewed ==
    /\ op.turns < MaxTurns
    /\ Triggered([Ready(FALSE) EXCEPT !.turns = @ + 1])

Deciding(reason, cont, ovf) ==
    /\ Commit([Leaf("summary.deciding") EXCEPT !.task = reason, !.cont = cont, !.ovf = ovf])
    /\ asked' = 0
    /\ compactions' = [compactions EXCEPT ![reason] = @ + 1]
    /\ Loop

\* Mutation: no look at the retry policy.
RetryWaitUnbounded(leaf) == Move([op EXCEPT !.at = leaf, !.attempt = @ + 1, !.requests = 0])

RetryWait(leaf) ==
    /\ op.attempt < MaxAttempts
    /\ Move([op EXCEPT !.at = leaf, !.attempt = @ + 1, !.requests = 0])

\* finish_pending: nothing is committed and the hook is asked.
AskRunEnd == Then("before_run_end") /\ UNCHANGED <<durable, open, fault, history>>

\* An intent reserves fresh response and usage ids.
Announce(next, effect) ==
    /\ Commit(next)
    /\ asked' = 0
    /\ Then(effect)
    /\ UNCHANGED compactions

-----------------------------------------------------------------------------
(* Run procedures. *)

StartRun ==
    /\ Continues("start_run")
    /\ Move([op EXCEPT !.at = "checkpoint", !.cont = "need_assistant"])

\* runCheckpoint: input first, then threshold compaction, then continuation.
Checkpoint ==
    /\ Continues("boundary")
    /\ \/ Renewed
       \/ ~op.guarded /\ Deciding("threshold", op.cont, op.ovf)
       \/ op.cont = "need_assistant" /\ Move(Ready(op.ovf))
       \/ op.cont = "may_finish" /\ AskRunEnd

FinishRun == Continues("finish") /\ (Renewed \/ Finish("completed"))

PublishIntent ==
    /\ Continues("publish_intent")
    /\ Announce([op EXCEPT !.at = "assistant.effect_pending"], "transform_context")

\* Mutation: the permit outlives the poll it was bought for.
PollIntentKeepsPermit ==
    /\ Continues("poll_intent")
    /\ Announce([op EXCEPT !.at = "deferred.effect_pending"], "poll")

\* The permit is spent by the commit that announces the poll.
PublishPollIntent ==
    /\ Continues("poll_intent")
    /\ Commit([op EXCEPT !.at = "deferred.effect_pending"])
    /\ asked' = 0
    /\ drive' = [At("admit", "poll") EXCEPT !.permit = FALSE]
    /\ line' = Tail(line)
    /\ UNCHANGED <<waits, compactions>>

ConfigurationFailure ==
    /\ \E stage \in {"config_failure", "model_missing"} : Continues(stage)
    /\ Finish("failed")

\* A response, or the results of its tool calls, is the run's new trigger.
Placed(cont) == Triggered([Leaf("checkpoint") EXCEPT !.cont = cont])

Overflowed ==
    /\ op.at = "assistant.effect_pending"
    /\ ~op.ovf
    /\ Deciding("overflow", "need_assistant", TRUE)

ToolCalls ==
    /\ op.turns < MaxTurns
    /\ Triggered([Leaf("tools") EXCEPT !.turns = @ + 1])

Retryable == op.at = "assistant.effect_pending" /\ RetryWait("assistant.retry_wait")

\* publishResponse.  recover_cancelled settles an orphan with a synthetic error.
PublishResponse ==
    /\ \E stage \in {"publish_response", "recover_cancelled"} : Settles(stage)
    /\ \/ op.cancelled /\ Placed("may_finish")
       \/ ~op.cancelled /\ drive.aborted /\ Fault("aborted_running")
       \/ /\ ~op.cancelled /\ ~drive.aborted
          /\ \/ Overflowed
             \/ Triggered(Leaf("deferred.suspended"))
             \/ Retryable
             \/ ToolCalls
             \/ Placed("may_finish")
             \/ Finish("failed")

\* recoverAssistantGeneration: no second provider call, a bounded retry instead.
RecoverResponse ==
    /\ Settles("recover_response")
    /\ \/ op.cancelled /\ Placed("may_finish")
       \/ ~op.cancelled /\ Retryable
       \/ ~op.cancelled /\ op.attempt = MaxAttempts /\ Finish("failed")

\* Mutation: every retry is taken for an assistant generation's.
RetryReadyAssistant ==
    /\ Continues("retry_ready")
    /\ Move([op EXCEPT !.at = "assistant.ready"])

RetryReady ==
    /\ Continues("retry_ready")
    /\ Move([op EXCEPT !.at = IF @ = "assistant.retry_wait" THEN "assistant.ready"
                              ELSE "summary.ready"])

ToolsDone ==
    /\ Settles("tools_done")
    /\ \E cont \in {"need_assistant", "may_finish"} : Placed(cont)

-----------------------------------------------------------------------------
(* Structural procedures. *)

\* publishStructuralOutcome at a resume_checkpoint boundary.
ResumeAfter(summarised) ==
    \/ Renewed
    \/ op.cont = "need_assistant" /\ Move(Ready(op.ovf))
    \/ /\ op.cont = "may_finish" /\ summarised
       /\ Move([Leaf("checkpoint") EXCEPT !.cont = "may_finish", !.guarded = TRUE])
    \/ op.cont = "may_finish" /\ ~summarised /\ AskRunEnd

EndsOperation == op.task \in {"manual", "navigation"}

Summarised ==
    \/ EndsOperation /\ Finish("completed")
    \/ ~EndsOperation /\ ResumeAfter(TRUE)

Declined ==
    \/ EndsOperation /\ Finish("declined")
    \/ op.task = "threshold" /\ ResumeAfter(FALSE)
    \/ op.task = "overflow" /\ Finish("failed")

\* The decision hook declines, summarises itself, or leaves it to a provider.
Decide ==
    /\ Continues("decide")
    /\ \/ Declined
       \/ Summarised
       \/ Move([op EXCEPT !.at = "summary.ready", !.attempt = 1])

PublishAttemptIntent ==
    /\ Continues("attempt_intent")
    /\ Announce([op EXCEPT !.at = "summary.effect_pending", !.requests = 0],
                "before_summary_request")

PublishNestedIntent == Continues("nested_intent") /\ Announce(op, "summary_provider")

\* A compaction may ask for a second summary in the same attempt.
PublishNestedOutcome ==
    /\ Settles("nested_outcome")
    /\ Commit([op EXCEPT !.requests = @ + 1])
    /\ \/ op.requests + 1 < MaxRequests /\ ~drive.aborted /\ Then("before_summary_request")
       \/ Then("attempt_result")
    /\ UNCHANGED history

PublishAttemptResult ==
    /\ Continues("attempt_result")
    /\ \/ drive.aborted /\ Fault("aborted_running")
       \/ ~drive.aborted /\ (Summarised \/ RetryWait("summary.retry_wait") \/ Finish("failed"))

RecoverAttempt ==
    /\ Continues("recover_attempt")
    /\ RetryWait("summary.retry_wait") \/ (op.attempt = MaxAttempts /\ Finish("failed"))

CommitNavigation == Continues("navigate") /\ Finish("completed")

\* publishAbortedTerminal.
PublishAborted == Settles("aborted") /\ op.cancelled /\ Finish("aborted")

-----------------------------------------------------------------------------
(* The end of a pass, of a harness. *)

Forget(job) ==
    IF job.kind = "abort" THEN [job EXCEPT !.holds = FALSE, !.owns = FALSE] ELSE job

\* activeDrive is cleared, the callers it kept waiting claim again, observers
\* get the outcome; prompt() and resume() did not expect an unwaited retry.
PassEnds ==
    /\ Pass("ended")
    /\ \/ /\ ~(drive.conv /\ drive.stage = "retry")
          /\ drive' = NoDrive
          /\ line' = [i \in 1..Len(line) |-> Forget(line[i])] \o parked
          /\ parked' = <<>>
          /\ returned' = [i \in 1..Len(returned) |-> Forget(returned[i])]
          /\ UNCHANGED <<durable, open, fault, history>>
       \/ /\ drive.conv /\ drive.stage = "retry"
          /\ Fault("unwaited_retry")
    /\ UNCHANGED stops

\* close(), a storage or hook fault, or the death of the process.
Stop ==
    /\ open
    /\ stops < MaxStops
    /\ open' = FALSE
    /\ drive' = NoDrive
    /\ line' = <<>>
    /\ parked' = <<>>
    /\ returned' = <<>>
    /\ stops' = stops + 1
    /\ UNCHANGED <<durable, fault, history>>

\* What restoreLaneState accepts: the leaf agrees with the accepted intent.
StateMatchesIntent ==
    \/ op.id = None
    \/ op.intent = "compaction" /\ op.at \in SummaryLeaves /\ op.task = "manual"
    \/ /\ op.intent = "navigation"
       /\ \/ op.at = "navigation.ready_to_commit"
          \/ op.at \in SummaryLeaves /\ op.task = "navigation"
    \/ /\ op.intent = "run"
       /\ op.at # "navigation.ready_to_commit"
       /\ op.at \in SummaryLeaves => op.task \in {"threshold", "overflow"}

Restart ==
    /\ ~open
    /\ StateMatchesIntent
    /\ open' = TRUE
    /\ UNCHANGED <<durable, volatile, fault, history, stops>>

-----------------------------------------------------------------------------
ClientCall ==
    \E o \in Ops :
        \/ \E intent \in Requested, drives \in BOOLEAN : AcceptCall(o, intent, drives)
        \/ \E mode \in Modes \ {"prompt"} : DriveCall(o, mode)
        \/ \E drives \in BOOLEAN : AbortCall(o, drives)

LineStep ==
    \/ RunAccept \/ RunClaim \/ RunAbort
    \/ SkipCancelled \/ StartRun \/ Checkpoint \/ FinishRun
    \/ PublishIntent \/ PublishPollIntent \/ ConfigurationFailure
    \/ PublishResponse \/ RecoverResponse \/ RetryReady \/ ToolsDone
    \/ Decide \/ PublishAttemptIntent \/ PublishNestedIntent \/ PublishNestedOutcome
    \/ PublishAttemptResult \/ RecoverAttempt \/ CommitNavigation \/ PublishAborted

DriveStep ==
    Dispatch \/ Reconcile \/ Admit \/ CancellationSettled \/ EffectDone \/ PassEnds

Next == ClientCall \/ LineStep \/ DriveStep \/ AbortReturns \/ Stop \/ Restart

Spec == Init /\ [][Next]_vars

\* The event loop runs queued jobs and continuations; hooks, requests, tools
\* and timers end.  Nothing obliges a client to call or a harness to stop.
FairSpec == Spec /\ WF_vars(LineStep) /\ WF_vars(DriveStep) /\ WF_vars(AbortReturns)

-----------------------------------------------------------------------------
(* Properties. *)

TypeOK ==
    /\ op \in OpRecords
    /\ results \in [Ops -> Terminal \cup {"none"}]
    /\ drive \in Drives
    /\ line \in Seq(Jobs)
    /\ parked \in Seq(ClaimJobs)
    /\ returned \in Seq(AbortJobs)
    /\ open \in BOOLEAN
    /\ fault \in {"none", "unwaited_retry", "aborted_running"}
    /\ asked \in Nat
    /\ compactions \in [Reasons -> Nat]
    /\ stops \in 0..MaxStops

\* A live pass owns the lane's current operation: nothing but the pass itself
\* ends an operation, so driveOperation's "has no matching current operation"
\* cannot be thrown (drive.ts currentOperation).
DriveOwnsOperation ==
    drive.id # None /\ drive.pc # "ended" => drive.id = op.id

\* A restart finds an operation restoreLaneState accepts, wherever the harness
\* stopped (restore.ts stateMatchesIntent).
Restorable == StateMatchesIntent

\* The gate signals only durable cancellation: no effect is interrupted for an
\* abort that has not been committed.
SignalMeansCancelled ==
    drive.sig /\ drive.pc # "ended" => op.cancelled

\* Hence no response is "aborted" while control is running, which publishResponse
\* and publishAttemptResult treat as an invariant failure.
NoAbortedWhileRunning == fault # "aborted_running"

\* A pass awaiting a cancellation waits for an abort call whose job is still on
\* the line, or which is about to go on: the promise of a superseded or
\* mismatched abort is never left unresolved.
AwaitedCancellationPending ==
    drive.gate = "aborting" =>
        \/ \E i \in 1..Len(line) : line[i].kind = "abort" /\ line[i].owns
        \/ \E i \in 1..Len(returned) : returned[i].owns

\* A pass whose awaited cancellation is resolved finds it durable: its next turn
\* reconciles, and "Drive procedure made no progress" is not thrown (drive.ts).
ReleasedMeansCancelled ==
    drive.gate = "released" /\ drive.pc # "ended" => op.cancelled

PollsWithinPermits == drive.polls >= 0

\* The external request of one intent is made at most once, whatever stops and
\* restarts: recovery settles or re-announces, it never repeats.  Nor is a
\* deferred response polled more than once for each permit of the drive, however
\* often the run suspends again and whatever it retries on the way.
AskedAtMostOnce == asked <= 1 /\ PollsWithinPermits

\* A trigger is compacted at most once by the threshold and at most once by an
\* overflow, through retries, declines and restarts: no compaction loop.
OneCompactionPerTrigger == \A reason \in Reasons : compactions[reason] <= 1

\* No provider request starts once the cancellation is durable.
NoRequestAfterCancel == [][asked' > asked => ~op.cancelled]_vars

\* Cancellation is for good, and a cancelled leaf makes no forward progress: it
\* is settled into a checkpoint or stays, until the operation ends.
CancelFreezesLeaf ==
    [][op.cancelled /\ op'.id = op.id =>
          op'.cancelled /\ op'.at \in {op.at, "checkpoint"}]_vars

\* What the harness promises about operations, told from the durable part.
phase ==
    [o \in Ops |->
        IF results[o] # "none" THEN results[o]
        ELSE IF op.id # o THEN "new"
        ELSE IF op.cancelled THEN "cancelling" ELSE "open"]

Lifecycle == INSTANCE OperationLifecycle

\* Every step of the lane is a step of that promise, or invisible to it.
RefinesLifecycle == Lifecycle!Spec

\* A pass ends, so a caller of drive() gets an answer or the harness fails.
PassTerminates == (drive.id # None) ~> (drive.id = None)

\* A cancelled operation under a live pass is reconciled to its end.
AbortReconciles ==
    (op.cancelled /\ drive.id # None /\ drive.pc # "ended") ~> (op.id = None \/ ~open)

-----------------------------------------------------------------------------
(* Claims of the documentation that the code does not keep. *)

\* docs/harness.md on retry waits: "requestAbort wakes it after durable
\* cancellation so reconciliation runs".
CancelWakesRetryWait ==
    (/\ drive.pc = "effect" /\ drive.stage = "timer" /\ op.cancelled
     /\ returned = <<>> /\ \A i \in 1..Len(line) : line[i].kind # "abort")
    => drive.sig

\* The assertion of resume() and prompt(): no pass they observe returns an
\* unwaited retry.
NoUnwaitedRetry == fault # "unwaited_retry"

=============================================================================
