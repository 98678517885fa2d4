# Formal models of the agent harness

TLA+ modules, TLC configurations and TLAPS proofs for the durable agent harness of this
repository, `src/packages/agent/src/harness`. Paths below are relative to that directory unless they
start with `packages/`. The normative document is `packages/agent/docs/harness.md`; the modules are
translated from the code, and the places where the two disagree are listed under
[Findings](#findings).

- [1. The system](#1-the-system)
- [2. Modules and how they correspond to the code](#2-modules-and-how-they-correspond-to-the-code)
- [3. Runs, bounds, fairness](#3-runs-bounds-fairness)
- [4. Proofs](#4-proofs)
- [Findings](#findings)
- [5. What is not modelled](#5-what-is-not-modelled)
- [6. Plan](#6-plan)

## 1. The system

The repository is a coding agent: a terminal application and a server around a library that talks
to model providers and executes tools. Its own core logic is the *durable harness*: a program that
may stop at any instruction and continue from what it has stored, while users type, abort, queue
messages and reconfigure it. That is where concurrency, failure and ordering meet, and it is what is
modelled first.

| Component | State it keeps | Operations | Talks to | What makes it correct |
|---|---|---|---|---|
| **Lane** (`runtime/lane.ts`) | durable: current operation (`OperationState`, one leaf of a flat union), last operation, inbox, branch tip; volatile: the mutation line, `activeDrive`, `idleOwner` | accept (run, compaction, navigation), `drive`, `requestAbort`, `abort`, `prompt`, `resume`, `steer`, `followUp`, `nextRun`, `append`, `cancelQueued`, `waitForIdle`, `runWhenIdle`, configuration changes | session commits, drive pass | one operation at a time, one result each, once; cancellation is for good; queued input is neither lost nor doubled |
| **Drive pass** (`runtime/drive.ts`, `runtime/drive/*`) | gate, signal, options, position; memos of a tool batch | a loop of procedures: start, checkpoint, generation, retry wait, deferred poll, tools, summary, navigation, reconciliation | hooks, providers, tools (effects); the lane (commits) | terminates; does no forward work after a cancellation; announces an effect before it and never repeats it blindly |
| **Admission gate** (`execution/effect-gate.ts`) | open, aborting (a promise), signal | `check`, `admit`, `beginAbort`, `signalAbort`, `close` | every effect | the signal follows the durable marker |
| **Mutation line** (`session/mutation-line.ts`) | a promise chain, a seal | `run`, `seal` | every read and commit of a lane | jobs one after another, FIFO |
| **Run boundary and inbox** (`runtime/drive/boundary.ts`, `checkpoint.ts`) | `LaneState.inbox`, captured queue modes | select, place, finish or go on | the `before_run_end` hook | order, no loss, no stale plan |
| **Tool batch** (`runtime/drive/tools.ts`, `tool-placement.ts`) | per call: planned, effect pending, outcome ready, completed; staged results; replay checkpoint | execute, stage, materialize, recover | tools, hooks, progress | a call that may not run twice does not; results enter the branch in source order |
| **Structural operations** (`runtime/drive/structural.ts`) | summary task, its boundary, attempt, nested requests | decide, attempt, publish, recover | providers, hooks, checkpoint | bounded attempts; the run resumes where it was |
| **Restore** (`runtime/restore.ts`) | - | `restoreLaneState` | storage | accepts everything the harness can have stored |
| **Harness** (`runtime/harness.ts`) | lanes by name, closed error, fault error | open, `lane()`, `setName`, `setLabel`, close, fault | lanes, session | no job starts to plan after the end; close ends; every call is answered |
| **Idle ownership** (`runtime/lane.ts`) | `idleOwner`, the state-change signal | `runWhenIdle`, `waitForIdle`, the wait of every command | the callback of an application | nothing happens on the lane while the callback owns it; nobody waits for it for ever |
| **Snapshot reducer, transcript** (`runtime/reducer.ts`, `transcript.ts`) | lane snapshot | reduce event | watch streams | event by event equal to a fresh read |
| **JSONL store** (`session/jsonl/storage.ts`, `repo.ts`) | the file, `<path>.tmp`; memory state, `nextSeq`, commit queue, backing | create, open, commit, close, fork, delete | file system | a commit is atomic and is kept; memory is what the file replays to; the file can be opened |
| **Session tree and other backends** (`session/*`, `packages/session-backends`) | entries, values, lists, tips; SQL tables | commit, read, fork | storage | append-only tree; forks see what was committed |
| **Classic loop** (`packages/agent/src/agent-loop.ts`, `agent.ts`) | messages, steering and follow-up queues | prompt, continue, abort | providers, tools | turn order, queue modes |
| **Chord, client, protocol, server** | links, pending calls, routed sessions | call, stream, attach, detach | each other | an answer for each call, deltas in order |
| **Coding agent, TUI, extensions, telemetry, evals, scripts** | settings, credentials, screens, jobs | - | the above | - |

**How the parts interact.** A client call (`accept`, `abort`, ...) becomes a *job* on the lane's mutation
line. A job reads durable state, decides, and commits at most once; nothing else commits. `drive`
installs a *pass*, an asynchronous loop which looks at the stored leaf, runs the procedure of that leaf, and
looks again. Procedures alternate between *effects*, run off the line behind the gate (hooks,
provider requests, timers, tools), and *planners*, run on the line. A planner is run either by
`continueOperation`, which skips it when the operation has been cancelled, or by `settleOperation`, which
runs it regardless: which one is used where is most of the cancellation protocol.

**What is hard.** Calls arrive between any two stages of a pass. An abort acts twice: at the call, when it
shuts the gate of the pass installed *then*, and later on the line, when it becomes durable. State read
before a hook is used after it. A process may die between an announced effect and its outcome, and the tools
and models of the next process may differ. The death may also fall into an append or between the two renames
of an upgrade, and an append may be reported as failed that has happened. Jobs of one lane are queued among
those of others, and their lane may be owned, faulted or closed by the time they start. Tools finish out of order and may have to be replayed. Retry and
overflow counters travel through half a dozen leaves. `PROJECT.json` lists these hazards at their lines,
with the properties that watch each one.

## 2. Modules and how they correspond to the code

| Module | Kind | What it is |
|---|---|---|
| `OperationLifecycle` | abstract | what a lane promises about operations: new, open, cancelling, and one final result |
| `LaneDrive` | detailed | a lane: durable leaf, mutation line, drive pass, gate, stop and restart |
| `MCLaneDrive` | TLC | symmetry of operation ids |
| `LaneDriveTyping`, `LaneDriveSafety`, `LaneDriveRefinement`, `LaneDriveLeaves` | proofs | about `LaneDrive` |
| `OrderedResults` | abstract | results of a batch enter the branch in source order, each once |
| `ToolBatch` | detailed | the execution, recovery and placement of one tool batch |
| `ToolBatchSafety` | proofs | about `ToolBatch` |
| `OrderedMailbox` | abstract | queued items are placed or withdrawn, once, and none overtakes an earlier one of its kind |
| `Sublists` | helper | what `Array.filter` keeps of a list, by positions |
| `LaneInbox` | detailed | the inbox: queueing, acceptance, run boundaries, the hook at the end of a run |
| `LaneInboxSafety` | proofs | about `LaneInbox` |
| `AtomicStore` | abstract | what the harness takes a storage for: transactions become durable whole, in order, and stay; a failed commit is in doubt |
| `JsonlStore` | detailed | a session file, its storage instance and its repository, with the death of the process at any step and appends that fail in any way |
| `MCJsonlStore` | TLC | symmetry of entry ids |
| `JsonlStoreSafety` | proofs | about `JsonlStore` |
| `HarnessLifecycle` | detailed | a harness with several lanes: the shared mutation line, idle ownership, fault and close |
| `HarnessSafety` | proofs | about `HarnessLifecycle` |

`PROJECT.json` maps each definition to the lines it translates. A definition marked *Mutation* is a
plausible mistake in that code; it is used by no specification, and each property is known to fail when
its mutant replaces the definition.

### LaneDrive

`op` and `results` are durable, all else dies with the harness. `op` is `OperationState` cut down to what
planners branch on: `at`, `control` (`cancelled`), the summary task, the checkpoint continuation,
`overflowRecoveryUsed` (`ovf`), the threshold guard (`guarded`, in the code read off the branch), the attempt,
the nested requests. `drive` is `activeDrive` with its gate: `gate` is `open`, `aborting` (holding a promise)
or `released` (the same with the promise resolved), `sig` is the signal. `drive.pc` says where the pass is:
in the `loop`, at the gate (`admit`), in an `effect`, awaiting a cancellation (`await`), with a job on the line
(`queued`), or `ended`, the window between the terminal commit (or the decision to wait) and the moment
`activeDrive` is cleared. `drive.stage` is the stage of the procedure. `line` is the mutation line,
`parked` the `drive` calls which wait for another operation's pass, `returned` the abort calls whose job has answered and
whose own code has not gone on: an abort that made the request settles the gate in its job, one that repeats it or does not match
settles it in the call, after `command()` has returned. `drive.polls` is a history: the permits a pass came with, less
the polls it has made.

| Code | Actions |
|---|---|
| `accept*`, `drive`, `requestAbort`/`abort` at the call | `AcceptCall`, `DriveCall`, `AbortCall` |
| their jobs | `RunAccept`, `RunClaim`, `RunAbort` |
| `requestOperationAbort` after its job | `AbortReturns` |
| `driveOperation`, dispatch and reconciliation | `Dispatch`, `Reconcile` |
| `gate.admit`, `AbortRequested`, effects and their ends | `Admit`, `CancellationSettled`, `EffectDone` |
| `continueOperation` on a cancelled operation | `SkipCancelled` |
| `startRun`, `runCheckpoint`, `finishRunBoundary` | `StartRun`, `Checkpoint`, `FinishRun` |
| `performGeneration`, `publishResponse`, recovery, retry, polls | `PublishIntent`, `PublishPollIntent`, `PublishResponse`, `RecoverResponse`, `RetryReady`, `ConfigurationFailure`, `ToolsDone` |
| `structural.ts` | `Decide`, `PublishAttemptIntent`, `PublishNestedIntent`, `PublishNestedOutcome`, `PublishAttemptResult`, `RecoverAttempt`, `CommitNavigation` |
| `publishAbortedTerminal` | `PublishAborted` |
| outcome of a pass, `fault`/`close`/death, opening | `PassEnds`, `Stop`, `Restart` |

Abstractions. Procedures contain jobs which only read (for instance the first one of `startRun`); they
commit nothing and can only end the procedure earlier on a cancelled operation, which `SkipCancelled` does at the
next planner, so they are left out. A job is atomic: the line lets nothing between its reads and its
commit. The tool batch, the inbox and the branch appear by their outcomes; whether a threshold is exceeded, a
boundary finds input or a response overflows is a free choice, with `MaxTurns` bounding the new triggers of
a run. Hooks return normally (a throwing hook faults the harness: `Stop`; so does an abort job that throws, which is
what rejects the cancellation another pass may await). A generation passes the gate three times, as in the code: for the
`transform_context` hook, for the request, and for the `after_response` hook; a response whose hook is refused is published as
it is, after the cancellation the refusal carries. A provider answers "aborted" only if its signal fired, and the
`after_response` hook does not turn another answer into one. Cancellation of the caller's own context and `idleOwner` are left out. Leaf fields
which the type of a leaf does not have are reset to a fixed value when the leaf is entered; the code reads none
of them.

### ToolBatch

Per call: the durable `ToolCall` status, the staged result, the replay policy announced with the effect, its
checkpoint (`partial`, the execution its partial output stems from) and the position of its task; for the pass: where `runTools` stands, the gate, and the chain of materializations with what each has read. One
action per job or effect end of `performToolInvocation`, `recoverToolInvocation`, `runTools` and
`materializeReady`. `Crash` is a stop and the next opening in one step, with a newly chosen tool
configuration, since an installation may differ after a restart.

Abstractions. Jobs of *different* tasks may run in any order, more than the FIFO line allows, with one
exception that matters: an abort which was queued before the pass was installed precedes the pass's first
job. A tool's result is its wish to terminate. Argument memos, progress records and usage rows
are left out. The transitions of `runSequential` are counted (`NextTransition`), since it throws after
`MaxTransitions` of them: `NoInvariantFault` includes that it never does. `replay` is kept in the model after the outcome so
that a property can refer to it.

### LaneInbox

Items are numbered in order of arrival; `kinds` is their kind, `inbox` and `branch` the two places the code moves
them between. A *note* is a custom write without an entry projector: the only kind that never triggers a turn. Each
action is one job. The operation is reduced to what its planners distinguish: `starting`, `checkpoint`, a
compaction of a run, a structural operation, and `busy` for everything that leaves the inbox alone. `asking` is
the window in which `finishRunBoundary` awaits the `before_run_end` hook, `planned` the ids it took along;
`HookEnds` plans again, as the code does. `HookDropped` is the pass that found the operation cancelled, or a
restart. Responses, prompts and summaries are not on the modelled branch; the hook's message is `FollowUp`.
Whether a threshold compaction is due is a free choice.

What the code filters (`inboxItems`, `withoutInboxItems`) is `Kept` of `Sublists`, which says by positions what
`SelectSeq` says by recursion. Nothing recursive stands between the planners and the proofs about them.

### JsonlStore

`file` is the header and the transactions of the session file, with `torn` for an unterminated last line; `tmp` is
`<path>.tmp`. `mem` and `next` are `InMemoryStorageState` and `nextSeq`, memory being represented by the
transactions it was built from. `queue` is `commitQueue`; `stage` is where `applyCommit` of its head stands. `loading`
is the repository call under way. A file whose `lines` cannot be replayed (`Replays`) makes `open` throw. `trace` is a
history of the failed appends of this storage: `trailing` once one has left something at the end of the file, `buried`
when the same storage has completed a line behind that. An append that fails leaves `nothing`, a `part` of its
line, or the `whole` line (`AppendFailures`); all three come from the code, the last from `appendFile`'s look at its signal
after it has written. Closing, dying and opening again end a trailing trace, since the opening repairs or accepts what
it finds; a buried one stays with the file.

| Code | Actions |
|---|---|
| `JsonlSessionRepo.create`, `publishFileAtomically` | `Create`, `PublishNew`, `FinishCreate`, `FailCreate`, which may leave the file: `create` ignores what its `remove` answers |
| `open`, `loadStorage`, `publishOpenSession` | `OpenIntact`, `StageRepair("open")`, `PublishRepair`, `FailRepair` |
| `fork` of a session that is not open | `StageRepair("fork")`, `PublishRepair` |
| `commit`, `applyCommit`, `prepareStorageCommit` | `Commit`, `Refuse`, `StartAppend`, `AppendLands`, `FailAppend`, `Apply` |
| `upgradeLegacyV3ToV4` | `StageUpgrade`, `PublishUpgrade`, `FailUpgrade` |
| `close`, `delete` | `Close`, `CloseDone`, `Delete` |
| death of the process | `Crash`, with a part of the line if an append is under way |

Abstractions. A transaction is a sequence of writes with the fields which validation looks at: id, parent,
sequence number. Values, lists and tips are one kind of write (`ValueWrite`), since they carry no id. A legacy
session is one entry and one value; its entries are given new ids by each opening until the upgrade fixes them, here
they have one. Commits without writes, reads, listing and the file a fork writes at a path of its own (a
`Create`) are left out. There is one owner, who makes one call of the repository at a time:
`packages/agent/docs/harness.md:120` asks this of applications. What `rename` has published survives a death of the
process; a loss of power is not modelled.

### HarnessLifecycle

`published` is `lanesByName`, `sealed` the `closedError` of each lane, `closed` and `faulted` the harness's own.
`line` holds the jobs of all lanes that have not started, `running` the one that has, with its phase (`planning`:
it reads and may await, `committing`: it awaits storage) and what it `saw`. `running` is a set, so that
the exclusion is a property (`PlansAreCurrent`) of `LineFree` and not of the representation. `operation` and
`pass` are what the lane's commands look at. A pass makes up to `MaxJobs` jobs, any of which may settle its
operation; then it is `settled`, and until `activeDrive` is cleared the lane can have a next operation behind it. A call is
`queued`, or `waiting` on one of three things: a `change` of the lane's state, the end of a `pass` after which it looks again
(a `drive` that found the pass of an earlier operation, or a wait for idleness), or the `outcome` of the pass which it has
installed or joined. A `runWhenIdle` has `claimed` the lane or is in its `callback`. `acquiring` is a history: the lanes whose
acquisition held the line at the moment of the fault.

| Code | Actions |
|---|---|
| `Lane.command`, `Harness.lane`, `setName`, `setLabel` at the call | `CallLane`, `CallHarness`, `Retry`, `GiveUp` |
| `drive` with the outcome it waited for | `Answer` |
| `MutationLine.run`, `beginMutation` | `GrantRefused`, `GrantPlan` |
| `idle_blocked`, `drive`, `waitForIdle`, `runWhenIdle` inside of their jobs | `GrantBlocked`, `GrantDrive`, `GrantIdle`, `GrantKnown` |
| planner, commit, a throw in either | `DecideReturn`, `DecideCommit`, `Commit`, `Fail` |
| a pass, seen from the line | `PassCommand`, `PassReturns`, `PassThrows`, `PassEnds` |
| the callback of `runWhenIdle` | `StartCallback`, `SkipCallback`, `EndCallback` |
| `fault`, `close`, `StorageBackedSession.close` | `Raise` (in `Fail` and `PassThrows`), `Close`, `CloseSession`, `CloseResolves` |

Abstractions. A call is made once and its result is left out. Commands differ in what they do to `operation` only
(`accept` sets it, a job of the pass may clear it, `write` stands for all others). Operations have no ids here: a `drive` finds
its operation settled, or current, by free choice, which is more than the code allows. A job starts and finds its gate open in
one step. Any waiting call may give up, as its caller's context allows. Reads and watch streams have no effect and
are left out.

### Abstract specifications

`LaneDrive` implements `OperationLifecycle` under the mapping `phase`, which is read off the durable part only:
restarts, queued jobs and passes are invisible. `ToolBatch` implements `OrderedResults`, `LaneInbox`
implements `OrderedMailbox`, and `JsonlStore` implements `AtomicStore` with the lines of the file as the log and `trace` as the
doubt: what is staged, torn, repaired or half upgraded is invisible. All four are checked by TLC as properties
and proved for all values of the constants. The last one is what the other detailed modules assume when they let a
job commit in one step.

`AtomicStore` says what can be promised when commits may fail after they have happened. A failed commit leaves a
*doubt*, whether its transaction is durable. Opening the session anew settles it (`Settle`). A storage that goes on
committing instead (`Bury`) keeps no promise but that nothing which was durable is taken away or changed. A harness stays on the good side because
it faults on a failed commit; finding 3 is about the callers that do not.

## 3. Runs, bounds, fairness

| Run | Instance | Shows |
|---|---|---|
| `lane_run` | one operation of any intent, 2 calls in flight, no stop | typing; `SignalMeansCancelled`, `NoAbortedWhileRunning`, `ReleasedMeansCancelled`; `NoRequestAfterCancel`, `CancelFreezesLeaf` |
| `lane_crash` | one operation of any intent, 2 attempts, 2 summary requests, a stop anywhere | `Restorable`, `AskedAtMostOnce`, `OneCompactionPerTrigger` |
| `lane_handover` | two operations in succession, 2 calls in flight | `DriveOwnsOperation`, `AwaitedCancellationPending`, `RefinesLifecycle` |
| `lane_liveness` | one run, fair | `PassTerminates`, `AbortReconciles` |
| `tools_crash` | 2 calls, both modes, 2 crashes, fair | `NeverRepeatedUnlessSafe`, `CheckpointFromLastRun`, `NoInvariantFault`, `PlacedInOrder`, `NoExecutionAfterCancel`, `ReturnsFinished`, `RefinesResults`, `BatchCompletes` |
| `inbox_run` | 3 items of any kind, one message of the hook, both queue modes | `NothingLeftBehind`, `HookAnswersWhatItSaw`, `CancelledPlacesNothing`, `PlacedInTurn`, `RefinesMailbox` |
| `store_run` | new or legacy file, 2 ids, 2 commits queued, 8 sequence numbers, 4 lines, 2 deaths, appends that leave nothing, a part of the line or all of it | `ReopenAgrees`, `AlwaysOpens`, `RefinesAtomicStore` |
| `harness_run` | 2 lanes, one of them acquired late, 3 calls of any kind, passes of up to 2 jobs, fair | `PlansAreCurrent`, `IdleOwnsLane`, `QuietAfterClose`, `NothingStartsAfterSeal`, `CallsSettle`, `CloseEnds` |
| `lane_missed_abort`, `lane_unwaited_retry` | one run, 2 calls in flight | findings 1 and 2 |
| `store_aborted_append` | one id, no death, an append that lands and is reported as aborted | finding 3 |
| `harness_latecomer` | as `harness_run` | finding 4: `FaultStopsAllCalls` |

**Why the bounds suffice.** The protocols between a pass and its clients involve an abort or a claim that
is queued, and one that comes before or after it: two calls in flight make every order of the two happen, and
calls may be repeated without limit, one after another. Two operations are needed to have a stale abort,
a stale pass or an occupied claim; a third would only repeat the second. Two attempts distinguish "may be
retried" from "exhausted", two requests a first from a last nested request, one permit a poll that was allowed from one more, one extra turn a guard
that is reset from one that is kept. One stop in `lane_crash` reaches every place at which a harness can die, and
recovery itself is interrupted in `tools_crash`, where two crashes are allowed. Two tool calls give
every pair of statuses, a result that waits for an earlier one, and a materialization that has read while the next result
arrives; a call which is staged between one that is placed and one that is not takes a third, and is covered by the
theorems, which hold for any number of calls.
Two queued commits give a commit validated after another one has been applied, refused or lost; two
ids a duplicate and a new one, or a child and a parent that is or is not there; eight sequence numbers four
transactions of two writes, or a legacy session, its upgrade and a commit behind it; four lines a failed append, one that is
completed behind it and one more on each side; two deaths one within the
repair of what the first has torn. Two jobs of a pass are one that goes on and one that settles. Three calls on two
lanes give an idle callback, a command that waits for it and another one that overtakes the command on the line, or a lane acquired while another faults.
Three items cover two of a kind with one of another between them, and one-at-a-time with a remainder.

**Deadlock** is checked in the lane, inbox and store runs: a client can always call again. A batch that has been
placed is over, so `tools_crash` does not check it; in `harness_run` every call is made once, and `CallsSettle` says
in which states the system may rest.

**Fairness.** `LaneDrive!FairSpec` has weak fairness of `LineStep`, of `DriveStep` and of `AbortReturns`: the event loop runs queued
promise jobs and the calls that await them, and hooks, requests, timers and tools end. There is no fairness of clients, of `Stop` or of
`Restart`. `ToolBatch!FairSpec` has weak fairness of `PassStep` and `CommitAbort` for the same reason; crashes
are bounded by `MaxCrashes`. `PassTerminates` hence does not say that a provider answers; it says that no
pass waits for a cancellation nobody will resolve, or goes round for ever. `AbortReconciles` allows the harness
to have stopped, since only a later opening can then go on. `HarnessLifecycle!FairSpec` has a single weak fairness,
of `Proceed`: the event loop does not rest while any job, pass, callback or woken call can go on; commits, passes and
callbacks end, as the harness requires of them. Nobody has to make a call, give up or close. `JsonlStore` has no
liveness.

Of the properties that these runs find to hold, the liveness ones alone are model-checked only: `PassTerminates`,
`AbortReconciles`, `BatchCompletes`, `CallsSettle`, `CloseEnds`. All others are theorems, see below.

## 4. Proofs

All proofs hold for every set of operation ids, every retry policy, queue capacity and number of stops. They
assume only what the modules state: `NoneAssumption` (the null id is no operation), `BoundsAssumption` (bounds
are naturals, at least one attempt and one request), for the tool batch `NumCallsAssumption` (a batch has a call),
`ExecutionsAssumption` and `MaxCrashesAssumption`, for the inbox `MaxItemsAssumption`,
`MaxFollowUpsAssumption`, `QueueModesAssumption`, for the harness that lanes and calls are different things
(`LanesAssumption`, `CallsAssumption`) and `MaxJobsAssumption`, for the store that the reserved ids differ and bounds are naturals
(`IdsAssumption`, `StoreBoundsAssumption`), what a failed append can leave at most (`FailuresAssumption`) and that the
numbers of the legacy file are within the bounds (`LegacyFits`).
No theorem has a hypothesis of its own: those about the store hold for every way in which appends may fail.

| Theorem | Module | Argument |
|---|---|---|
| `TypeCorrect`: `Spec => []TypeOK` | `LaneDriveTyping` | `TypeOK` alone is not inductive: a nested request counts one up when its outcome is stored, and that there is room for it was decided stages earlier. `PointsOK` carries it: a pass at a stage of a nested request has requests left, and one at the gate or in an effect is at an effect's stage |
| `DriveOwns` | `LaneDriveSafety` | Only a step job ends an operation, so it has to be the pass's own. `Owned` adds `OneStep`: there is at most one step job on the line, and only while a pass is `queued` |
| `SignalIsDurable`, `NeverAbortedWhileRunning` | `LaneDriveSafety` | `Signalled`: the signal of a live pass implies the durable marker, a response reported "aborted" implies the signal; with `Owned`, the marker is not withdrawn under a live pass |
| `CancellationPending` | `LaneDriveSafety` | `AwaitedCancellationPending` is inductive with `TypeOK`, once it is known how each action shifts the two queues: whatever is taken off the head of the line, the owning abort job behind it stays, and an owning job that answers without settling takes its debt along to `returned` (`Owes`) |
| `ReleaseIsDurable` | `LaneDriveSafety` | `CapturesName`: an abort which has captured the installed pass names that pass's operation while it is on the line, and once its job has answered, that operation is cancelled or at its end; with `Owned` its job finds that operation current and marks it |
| `ImplementsLifecycle`: `Spec => RefinesLifecycle` | `LaneDriveRefinement` | every action is a lifecycle step of one operation or leaves `phase` unchanged. `Fresh`: an operation that is open or about to be accepted by a queued job has no result, and no id is queued twice. `PlannerShape` gives that a result is "aborted" exactly if the operation is cancelled |
| `AlwaysRestorable` | `LaneDriveLeaves` | `Restorable` is not inductive: what a planner stores depends on the stage it is at. `StageFits` ties the stage of a pass to the leaves its procedure can find, and `LeafOK` the leaf to the intent (`Matches`) |
| `CompactionsAreSingle` | `LaneDriveLeaves` | the other half of `LeafOK`, `Guards`: on each leaf, how often the present trigger has been compacted follows from `ovf` and `guarded`, for as long as a compaction of that reason can still begin |
| `RequestsAreSingle` | `LaneDriveLeaves` | `RequestIsNew`: a pass at the gate of a request has announced one that nobody has made. A pass that finds an announced effect of an earlier one recovers it instead (`Orphan`). `PermitsCover`: the permit is taken by the planner that announces the poll, so a pass at the gate of a poll has one poll left and no permit, and a pass before that planner still has its permit |
| `NothingAskedAfterCancel`, `CancellationIsFinal` | `LaneDriveLeaves` | `AbortsSeen`: an abort that was called before the pass existed never shuts its gate, but its job precedes every job of that pass; so the planner which announces a request has found the operation cancelled. `Asking` takes in the hook that stands between the announcement and the request. The second one goes by the planners that run in spite of a cancellation |
| `ResultsInOrder`, `AssertionsHold`, `TypeCorrect` | `ToolBatchSafety` | one invariant, `IInv`. `Prefix`: what is completed is a prefix of the calls, and it is the branch. `InTurn`: each task, and the procedure, stands in the chain once. `ReadIsCurrent`: the run of results a materialization has read is still ready when it commits, because nobody else places. `Transitions`: each transition of the sequential loop places at least one result, which keeps it below its bound |
| `NoUnsafeReplay`, `CheckpointIsOfLastRun` | `ToolBatchSafety` | `TaskAgrees`, the durable status of a call for each position of its task, and `PhaseAllows`, the positions of tasks for each position of the pass: nobody but a call's own task changes its status before placement, so what it found holds until it commits |
| `NothingExecutedAfterCancel`, `ReturnsOnlyFinished` | `ToolBatchSafety` | `GateShuts`: a pass that executes tools has chosen to while the operation was running, so a cancellation that has become durable since has shut its gate. A pass returns when nothing stands in the chain and the batch is placed |
| `ImplementsResults`: `Spec => RefinesResults` | `ToolBatchSafety` | an outcome settles one call; a placement appends the ready run, which is where `ReadIsCurrent` is needed; all else stutters |
| `TypeCorrect`, `NoLostUpdate`, `IdleExcludes` | `HarnessSafety` | `Exclusive`: a job is on the line once or holds it, and one at most holds it; `Placement` ties that to the calls and passes, so that a call which is made or made again has no job whose meaning it could change. `Alone`: a job that holds the line has found its lane without an owner, an owner has found it without an operation, a pass and a holder |
| `ClosedIsQuiet`, `SealHolds` | `HarnessSafety` | `Closing`: from close on nobody becomes an owner, so the owners are among those close waits for, and a closed session has an empty line; `Named`: clients and passes have only published lanes, which every seal reaches. `Escapes`: after a fault a published lane is open only if its acquisition held the line when the fault came, and no other acquisition is under way |
| `SessionAlwaysOpens`, `MemoryIsTheFile` | `JsonlStoreSafety` | neither is inductive alone. `Progress` says how far the head of the queue has come in file, memory and `<path>.tmp`, `Loading` what a repository call has staged, `Formats` that a legacy file is never appended to. `LandedDoc`: what memory accepts from `nextSeq` on, the file accepts from its highest sequence number on. All of this speaks of a storage without a `trace`; with a trailing one the lines of the file are what memory holds and possibly one transaction more, which still replays; and the next line that is completed, be it glued to a fragment or a sequence number used twice, is one that no replay accepts |
| `TypeCorrect` | `JsonlStoreSafety` | `Bounded` on top of that invariant: whatever is numbered from `nextSeq` or from the highest number in the file stays within `MaxSeq`, repairs and the upgrade included |
| `ImplementsAtomicStore`: `Spec => RefinesAtomicStore` | `JsonlStoreSafety` | `AppendLands` and `PublishUpgrade` persist, `Apply` acknowledges, `Delete` discards, `FailAppend` raises a doubt unless it leaves nothing, the end of the storage settles it, a completed line behind it buries it, all else is invisible; `Room` keeps the sequence numbers of what is queued within the bound |
| `TypeCorrect` | `LaneInboxSafety` | `Stock` adds that the inbox is rising. The plan of a finish holds nothing but notes because a finish that projects anything is not asked about (`DueShape`) |
| `FinishLeavesNothing`, `AnswerIsCurrent`, `EntersInTurn` | `LaneInboxSafety` | `Effect` says once what a step does to the items: queue, deliver, withdraw, or take what is due. A rising list is fixed by what it holds, so the planners are statements about sets; `OnlyItemsEnter` says that nothing but what a step takes can enter |
| `ImplementsMailbox`: `Spec => RefinesMailbox` | `LaneInboxSafety` | a planner's step places a rising list that leaves no earlier item of its kind behind; the hook's message is filtered out (`KeptConcat`); an append to an idle lane is one arrival placed at once behind the queued writes |
| `CancelledConsumesNothing` | `LaneInboxSafety` | every action that places requires a running operation or an idle lane; `MarkerHasOwner` says that no marker is left over on an idle one |

The line makes most of these non-trivial: the properties speak of the pass, while what keeps them true is the
content of a queue. `PlannerShape` in `LaneDriveSafety` is the lemma the others rest on: whatever a planner
does, it takes exactly its own step off the line, keeps the rest in order, and either loops, ends the pass, goes
on to one further stage, or faults the harness.

A few lemmas about operators carry much of this. The ascending list of a finite set of numbers exists, is rising, and
is the only one (`RankProperties` to `AscendingUnique` in `LaneInboxSafety`); what a filter keeps is characterised
by its set where the list rises (`KeptProperties`, `KeptOfRising`), and distributes over concatenation
(`KeptConcat`). None of them is an induction: they follow from `Rank` being a bijection, that is, from cardinalities.

Out of the prover's reach, and left to TLC: liveness (`ENABLED` and fairness), and inductions over data. That is why
`Sublists` defines its lists by positions: that the recursive `SelectSeq` keeps an order could not be shown.

## Findings

1. **A retry wait that an abort does not wake** (`lane_missed_abort`, `runtime/lane.ts:1012`).
   `requestOperationAbort` captures `activeDrive` at the call. With a `drive(A, {waitForRetry})` claim already on the
   line, no pass is installed at that moment; the claim then installs one, it can reach its timer before the abort's
   own job commits (a retry wait takes no job before its timer, while the abort's job awaits storage), and the abort
   afterwards signals only what it captured: nothing. The timer runs to its end with the cancellation durable.
   `packages/agent/docs/harness.md:993`: "`requestAbort` wakes it after durable cancellation so reconciliation
   runs". The operation is still reconciled, after the delay; `AbortReconciles` holds.
2. **`resume()` faults the harness by joining a plain pass** (`lane_unwaited_retry`, `runtime/lane.ts:1367`, and
   `prompt()` at 1194). A pass without `waitForRetry` returns `waiting`/`retry`; a convenience call that joined it
   takes this for a broken invariant and calls `onFault`. `packages/agent/docs/harness.md:1366` describes
   joining as ordinary: "one installs the pass; the other joins exactly that pass and may drive again after its
   outcome".
3. **A commit that the file holds and memory does not** (`store_aborted_append`, `env/nodejs.ts:715`).
   `appendFile` writes and then reports `aborted` if its caller's signal fired meanwhile. `applyCommit`
   (`session/jsonl/storage.ts:249-262`) throws, leaves memory alone and does not advance `nextSeq`. The next commit is
   appended under the same sequence number and acknowledged; the next opening throws "Invalid JSONL storage" at
   that line (`session/commit.ts:99`). `packages/agent/docs/harness.md:363`: "a resolved `commit()` survives
   process death". A harness faults on the failed commit, and the lanes it seals commit nothing more; what is left are
   callers of `Session` itself (`setValue`, `appendToBranch`, `session/session.ts:365-454`) and a lane that was
   being acquired (finding 4). An append that fails half-way leads to the like: the next commit is glued to the fragment.
   `store_run` includes both failures, and `AlwaysOpens` says that these are the only ways to a file that cannot be opened.
4. **A fault does not stop a lane that is being acquired** (`harness_latecomer`, `runtime/harness.ts:144`). `Harness.lane`
   publishes the lane it has read or created without another look at the gates (lines 117-118 and 144-145). If another
   lane's pass faults the harness meanwhile (`fault`, 309-320, seals the lanes in `lanesByName`), the new lane is not
   sealed and is handed out; its commands ask its own `closedError` only, go on to plan and to commit.
   `packages/agent/docs/harness.md:305`: "A failed admitted commit **faults the harness** (§4.8): all effects stop, all
   calls reject, the process must restart." `NothingStartsAfterSeal` shows that no other lane escapes, that the
   harness's own calls do stop, and that nothing escapes a close.

**Observation**, without a run of its own:

- Two overlapping `open` calls of one path, or an `open` and a `fork` (`session/jsonl/repo.ts:102`, `304`), may repair
  the file over one another. The documentation asks for one owner; the code does not enforce it.

## 5. What is not modelled

- In the lane: the content of configuration changes, watch streams and events.
- The branch as a tree, fork policies, compaction preparations, transcript projection, usage accounting. What a
  provider is sent is a function of the branch, not of the protocol.
- The SQLite backend, whose atomicity is that of SQL transactions; overlapping repository calls on a JSONL file;
  listing.
- Retry delays, timestamps, ids, wording of messages.
- `driveOperation` throws when a procedure made no progress; of this check only the case of a released gate is
  covered (`ReleasedMeansCancelled`).
- Effects that outlive a faulted harness: a stop drops the pass with everything it had started.
- The packages outside the harness, see the components in `PROJECT.json` with their reasons. They are most of the
  repository by size: terminal rendering and key handling, provider formats and generated model tables, commands and
  settings of the application, bundled extensions, evaluation and release tooling. The share of the repository's lines
  that has a model is therefore small; the share of the harness runtime (lane, drive, line, inbox, tools,
  JSONL store), where the protocols are, is most of it.

## 6. Plan

Done, in this order: `OperationLifecycle` and `LaneDrive`; `OrderedResults` and `ToolBatch`; `OrderedMailbox` and `LaneInbox`;
`AtomicStore` and `JsonlStore`; `HarnessLifecycle`; proofs of every safety property of these, the action properties
and the four refinements included. Next:

1. `SessionWorkers`: the session worker manager of the coding agent
   (`packages/coding-agent/src/experimental/session-worker-manager.ts`), where a worker exits or is evicted while a
   client attaches to the session it serves. Abstract: a session has at most one worker, and an attached client a live
   one or an error.
2. `SessionTree`: entries, tips, forks and their policies; abstract: an append-only tree.
3. `FileMutationQueue` (`tools/file-mutation-queue.ts`), the classic `AgentLoop` with its steering queues,
   `SnapshotReducer` against a fresh read.
4. Chord's links, routing in server and client, auth storage.

Theorems still worth proving: those of the modules above. Of the present ones, what is left is the half of each
liveness property that is a safety property in disguise: that a pass always has a step it can take, that a batch
which is not placed has one, and that every call of a closing harness is known to somebody who will answer it.
