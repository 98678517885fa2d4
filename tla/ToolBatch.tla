----------------------------- MODULE ToolBatch -----------------------------
(***************************************************************************)
(* The tool batch of one assistant message (runtime/drive/tools.ts and     *)
(* tool-placement.ts): the durable status of every call, the tasks that    *)
(* execute calls one after the other or concurrently, and the placement of *)
(* staged results on the branch in source order.                           *)
(*                                                                         *)
(* Hooks and executions pass the pass's admission gate; a job of the       *)
(* mutation line is one step.  Jobs of different tasks are taken in any    *)
(* order, which includes the FIFO order of the line.  A crash at any point *)
(* keeps the durable part alone; the next pass starts from it.             *)
(***************************************************************************)
EXTENDS Integers, Sequences

CONSTANTS
    NumCalls,       \* tool calls of the assistant message
    Executions,     \* settings.toolExecution a run may have
    MaxCrashes      \* bound: closes, faults and crashes

ASSUME NumCallsAssumption == NumCalls \in Nat \ {0}
ASSUME ExecutionsAssumption == Executions \subseteq {"sequential", "parallel"}
ASSUME MaxCrashesAssumption == MaxCrashes \in Nat

Calls == 1..NumCalls

VARIABLES
    calls,      \* durable: status, replay and terminate of each call
    partial,    \* durable: the execution a call's checkpoint stems from, 0: none
    branch,     \* durable: placed results, by source index
    next,       \* durable: "tools", or the checkpoint's continuation
    cancelled,  \* durable: control.status is cancel_requested
    execution,  \* durable: settings.toolExecution
    replayable, \* calls whose configured tool declares replay "safe"
    main,       \* where runTools stands
    task,       \* where each call's task stands, and its outcome
    chain,      \* materializations in turn, by call; 0 is the procedure's own
    reading,    \* the run of results each materialization has read
    gate,       \* the pass's gate; "released": the cancellation is resolved
    abort,      \* an abort on its way to the line
    fault,      \* an invariant of the procedures failed
    runs,       \* history: executions of each call
    crashes     \* history

durable == <<calls, partial, branch, next, cancelled, execution>>
pass == <<main, task, chain, reading>>
vars == <<calls, partial, branch, next, cancelled, execution, replayable, main, task,
          chain, reading, gate, abort, fault, runs, crashes>>

-----------------------------------------------------------------------------
(* Values. *)

CallRecords ==
    [status: {"planned", "effect_pending", "outcome_ready", "completed"},
     replay: {"never", "safe"}, terminate: BOOLEAN]

Planned == [status |-> "planned", replay |-> "never", terminate |-> FALSE]

\* A task that its starter still awaits: hooks, the intent, the recovery job.
StartingPoints ==
    {"prepare", "before_tool", "await_prepare", "intent", "replay", "read_checkpoint",
     "admit"}
TaskPoints ==
    StartingPoints \cup {"idle", "running", "await_execute", "after_tool", "settle",
                         "join", "done"}

IdleTask == [pc |-> "idle", terminate |-> FALSE]
NoRead == [first |-> 1, last |-> 0]

Settled(i) == calls[i].status \in {"outcome_ready", "completed"}
Completed(i) == calls[i].status = "completed"

\* The first call without a placed result; NumCalls + 1 when there is none.
FirstOpen ==
    CHOOSE k \in 1..NumCalls + 1 :
        /\ \A i \in 1..k - 1 : Completed(i)
        /\ k \in Calls => ~Completed(k)

Running == fault = "none" /\ main.pc # "off"

NewPass ==
    /\ main' = [pc |-> "off", executes |-> FALSE, at |-> 1]
    /\ task' = [i \in Calls |-> IdleTask]
    /\ chain' = <<>>
    /\ reading' = [k \in 0..NumCalls |-> NoRead]

-----------------------------------------------------------------------------
Init ==
    /\ calls = [i \in Calls |-> Planned]
    /\ partial = [i \in Calls |-> 0]
    /\ branch = <<>>
    /\ next = "tools"
    /\ cancelled = FALSE
    /\ execution \in Executions
    /\ replayable \in SUBSET Calls
    /\ main = [pc |-> "off", executes |-> FALSE, at |-> 1]
    /\ task = [i \in Calls |-> IdleTask]
    /\ chain = <<>>
    /\ reading = [k \in 0..NumCalls |-> NoRead]
    /\ gate = "open"
    /\ abort = "none"
    /\ fault = "none"
    /\ runs = [i \in Calls |-> 0]
    /\ crashes = 0

-----------------------------------------------------------------------------
(* Cancellation, as LaneDrive has it. *)

\* requestOperationAbort shuts the gate of an installed pass at once; without
\* one it only queues its job.
RequestAbort ==
    /\ next = "tools"
    /\ abort = "none"
    /\ fault = "none"
    /\ \/ gate = "open" /\ gate' = "aborting" /\ abort' = "captured"
       \/ main.pc = "off" /\ gate = "open" /\ ~cancelled /\ abort' = "uncaptured" /\ gate' = gate
    /\ UNCHANGED <<durable, replayable, pass, fault, runs, crashes>>

\* Mutation: the resolution of the awaited cancellation is forgotten.
GateKeptShut == gate

GateAfterAbort == IF abort = "captured" THEN "released" ELSE gate

\* The job that makes the cancellation durable and then resolves it.
CommitAbort ==
    /\ abort # "none"
    /\ fault = "none"
    /\ cancelled' = TRUE
    /\ gate' = GateAfterAbort
    /\ abort' = "none"
    /\ UNCHANGED <<calls, partial, branch, next, execution, replayable, pass, fault, runs,
                   crashes>>

-----------------------------------------------------------------------------
(* The procedure. *)

Schedule(k) == chain' = Append(chain, k)

Procedure(pc) == Running /\ main.pc = pc /\ UNCHANGED <<durable, replayable, abort, runs, crashes>>

\* The drive loop comes to the leaf; reconciliation pulls the gate itself.
Begin ==
    /\ fault = "none"
    /\ main.pc = "off"
    /\ next = "tools"
    /\ main' = [main EXCEPT !.pc = "enter"]
    /\ gate' = IF cancelled /\ gate = "open" THEN "released" ELSE gate
    /\ UNCHANGED <<durable, replayable, task, chain, reading, abort, fault, runs, crashes>>

\* readToolBatchSource is the procedure's first job: an abort queued before the
\* pass was installed is before it on the line.
ReadSource ==
    /\ Procedure("enter")
    /\ abort # "uncaptured"
    /\ main' = [main EXCEPT !.pc = "recover"]
    /\ Schedule(0)
    /\ UNCHANGED <<task, reading, gate, fault>>

Choose ==
    /\ Procedure("choose")
    /\ \/ next # "tools" /\ main' = [main EXCEPT !.pc = "off"] /\ chain' = chain
       \/ /\ next = "tools"
          /\ cancelled \/ execution = "sequential"
          /\ main' = [main EXCEPT !.pc = "sequential", !.executes = ~cancelled,
                                   !.at = 1]
          /\ Schedule(0)
       \/ /\ next = "tools" /\ ~cancelled /\ execution = "parallel"
          /\ main' = [main EXCEPT !.pc = "starting", !.executes = TRUE, !.at = 1]
          /\ chain' = chain
    /\ UNCHANGED <<task, reading, gate, fault>>

\* Mutation: the tool as configured now decides, not the stored intent.
FirstByTool(i) ==
    IF calls[i].status = "planned" THEN "prepare"
    ELSE IF ~cancelled /\ i \in replayable THEN "replay"
    ELSE "read_checkpoint"

\* A planned call is prepared; an announced one is replayed if its intent and
\* its configured tool both allow that, and reported as interrupted otherwise.
First(i) ==
    IF calls[i].status = "planned" THEN "prepare"
    ELSE IF ~cancelled /\ calls[i].replay = "safe" /\ i \in replayable THEN "replay"
    ELSE "read_checkpoint"

Start(i, pc) == task' = [task EXCEPT ![i] = [pc |-> pc, terminate |-> FALSE]]

Fault(what) == fault' = what /\ UNCHANGED <<main, task, chain>>

\* One turn of runSequential's loop, its materialization done.
SequentialStep ==
    /\ Procedure("sequential_step")
    /\ LET i == FirstOpen IN
       \/ /\ next # "tools"
          /\ main' = [main EXCEPT !.pc = "off"]
          /\ UNCHANGED <<task, chain, fault>>
       \/ /\ next = "tools"
          /\ \/ i \notin Calls /\ Fault("open_after_completion")
             \/ i \in Calls /\ calls[i].status = "outcome_ready" /\ Fault("not_materialized")
             \/ /\ i \in Calls /\ ~Settled(i) /\ cancelled
                /\ Start(i, IF calls[i].status = "planned" THEN "settle" ELSE "read_checkpoint")
                /\ main' = [main EXCEPT !.pc = "await_call"]
                /\ UNCHANGED <<chain, fault>>
             \/ /\ i \in Calls /\ ~Settled(i) /\ ~cancelled
                /\ \/ ~main.executes /\ Fault("no_execution_context")
                   \/ /\ main.executes
                      /\ Start(i, First(i))
                      /\ main' = [main EXCEPT !.pc = "await_call"]
                      /\ UNCHANGED <<chain, fault>>
    /\ UNCHANGED <<reading, gate>>

\* The last transition runSequential's loop may begin, counted from 1.
MaxTransitions == 2 * NumCalls + 2

\* The loop goes on to its next transition, which materializes first.
NextTransition ==
    /\ Procedure("next_transition")
    /\ \/ /\ main.at < MaxTransitions
          /\ main' = [main EXCEPT !.pc = "sequential", !.at = @ + 1]
          /\ Schedule(0)
          /\ UNCHANGED <<task, fault>>
       \/ main.at >= MaxTransitions /\ Fault("too_many_transitions")
    /\ UNCHANGED <<reading, gate>>

\* The parallel loop starts a call when the start of the one before is over.
ParallelStart ==
    /\ Procedure("starting")
    /\ \A i \in Calls : task[i].pc \notin StartingPoints
    /\ LET i == main.at IN
       \/ /\ i \in Calls
          /\ main' = [main EXCEPT !.at = @ + 1]
          /\ IF Settled(i) THEN task' = task ELSE Start(i, First(i))
       \/ /\ i \notin Calls
          /\ main' = [main EXCEPT !.pc = "joining"]
          /\ task' = task
    /\ UNCHANGED <<chain, reading, gate, fault>>

\* Mutation: the tasks are started and not awaited.
JoinUnawaited ==
    /\ Procedure("joining")
    /\ main' = [main EXCEPT !.pc = "draining"]
    /\ Schedule(0)
    /\ UNCHANGED <<task, reading, gate, fault>>

Join ==
    /\ Procedure("joining")
    /\ \A i \in Calls : task[i].pc \in {"idle", "done"}
    /\ main' = [main EXCEPT !.pc = "draining"]
    /\ Schedule(0)
    /\ UNCHANGED <<task, reading, gate, fault>>

-----------------------------------------------------------------------------
(* Placement: the longest run of staged results next in source order is read in
   one job, announced, and committed in another. *)

\* Mutation: a materialization does not wait for the one before it.
MayMaterializeAnytime(k) == \E n \in 1..Len(chain) : chain[n] = k

\* scheduleMaterialization chains them.
MayMaterialize(k) == chain # <<>> /\ chain[1] = k

AfterMaterialization ==
    CASE main.pc = "recover" -> "choose"
      [] main.pc = "sequential" -> "sequential_step"
      [] main.pc = "draining" -> "off"
      [] OTHER -> main.pc

Materialized(k) ==
    /\ chain' = Tail(chain)
    /\ reading' = [reading EXCEPT ![k] = NoRead]
    /\ IF k = 0
       THEN main' = [main EXCEPT !.pc = AfterMaterialization] /\ task' = task
       ELSE task' = [task EXCEPT ![k].pc = "done"] /\ main' = main

\* Mutation: the end of the run is taken for its last index.
LongReadyRun(k) ==
    \E last \in Calls :
        /\ FirstOpen <= last
        /\ \A i \in FirstOpen..last : calls[i].status = "outcome_ready"
        /\ last < NumCalls => calls[last + 1].status # "outcome_ready"
        /\ reading' = [reading EXCEPT ![k] = [first |-> FirstOpen, last |-> last + 1]]

\* Mutation: only the first ready result is taken.
FirstReadyRun(k) == reading' = [reading EXCEPT ![k] = [first |-> FirstOpen, last |-> FirstOpen]]

ReadyRun(k) ==
    \E last \in Calls :
        /\ FirstOpen <= last
        /\ \A i \in FirstOpen..last : calls[i].status = "outcome_ready"
        /\ last < NumCalls => calls[last + 1].status # "outcome_ready"
        /\ reading' = [reading EXCEPT ![k] = [first |-> FirstOpen, last |-> last]]

\* readPlacement.
ReadPlacement(k) ==
    /\ Running
    /\ MayMaterialize(k)
    /\ reading[k] = NoRead
    /\ IF next = "tools" /\ FirstOpen \in Calls /\ calls[FirstOpen].status = "outcome_ready"
       THEN ReadyRun(k) /\ UNCHANGED <<main, task, chain>>
       ELSE Materialized(k)
    /\ UNCHANGED <<durable, replayable, gate, abort, fault, runs, crashes>>

\* commitPlacement: entries chained on the tip, the last one closes the batch.
CommitPlacement(k) ==
    /\ Running
    /\ MayMaterialize(k)
    /\ reading[k] # NoRead
    /\ LET run == reading[k]
           placed == [i \in Calls |->
               IF i \in run.first..run.last THEN [calls[i] EXCEPT !.status = "completed"]
               ELSE calls[i]]
       IN
       /\ branch' = branch \o [j \in 1..(run.last - run.first + 1) |-> run.first + j - 1]
       /\ calls' = placed
       /\ next' = IF \E i \in Calls : placed[i].status # "completed" THEN "tools"
                  ELSE IF \A i \in Calls : placed[i].terminate THEN "may_finish"
                  ELSE "need_assistant"
    /\ Materialized(k)
    /\ UNCHANGED <<partial, cancelled, execution, replayable, gate, abort, fault, runs, crashes>>

-----------------------------------------------------------------------------
(* One call's task. *)

Tasking(i, pc) == Running /\ task[i].pc = pc /\ UNCHANGED <<reading, replayable, gate, abort, fault, crashes>>

Goto(i, pc) == task' = [task EXCEPT ![i].pc = pc] /\ UNCHANGED <<main, chain>>

\* An outcome is known and its job is queued.
Outcome(i, terminate) ==
    /\ task' = [task EXCEPT ![i] = [pc |-> "settle", terminate |-> terminate]]
    /\ UNCHANGED <<main, chain>>

\* Mutation: effects start without asking the gate.
AdmitsAlways == TRUE

Admits == gate = "open"

\* Unknown tool, invalid arguments or a truncated response need no effect.
Prepare(i) ==
    /\ Tasking(i, "prepare")
    /\ \/ Outcome(i, FALSE)
       \/ Admits /\ Goto(i, "before_tool")
       \/ ~Admits /\ Goto(i, "await_prepare")
    /\ UNCHANGED <<durable, runs>>

\* The hook blocks the call, possibly terminating the run, or clears it.
BeforeTool(i) ==
    /\ Tasking(i, "before_tool")
    /\ \/ \E terminate \in BOOLEAN : Outcome(i, terminate)
       \/ Goto(i, "intent")
    /\ UNCHANGED <<durable, runs>>

Intent(i) ==
    calls' = [calls EXCEPT ![i].status = "effect_pending",
                           ![i].replay = IF i \in replayable THEN "safe" ELSE "never"]

PublishToolIntent(i) ==
    /\ Tasking(i, "intent")
    /\ \/ cancelled /\ Outcome(i, FALSE) /\ calls' = calls
       \/ ~cancelled /\ Intent(i) /\ Goto(i, "admit")
    /\ UNCHANGED <<partial, branch, next, cancelled, execution, runs>>

\* executeToolCall.
Execute(i) ==
    /\ Tasking(i, "admit")
    /\ IF Admits
       THEN Goto(i, "running") /\ runs' = [runs EXCEPT ![i] = @ + 1]
       ELSE Goto(i, "await_execute") /\ runs' = runs
    /\ UNCHANGED durable

\* The abort that shut the gate is durable or void: an aborted outcome, or an
\* interrupted one in recovery.
Cancelled(i) ==
    /\ Tasking(i, "await_prepare") \/ Tasking(i, "await_execute")
    /\ gate = "released"
    /\ Outcome(i, FALSE)
    /\ UNCHANGED <<durable, runs>>

\* A checkpoint of the execution's progress.
Progress(i) ==
    /\ Tasking(i, "running")
    /\ partial[i] # runs[i]
    /\ partial' = [partial EXCEPT ![i] = runs[i]]
    /\ UNCHANGED <<calls, branch, next, cancelled, execution, main, task, chain, runs>>

ToolEnds(i) ==
    /\ Tasking(i, "running")
    /\ Goto(i, "after_tool")
    /\ UNCHANGED <<durable, runs>>

\* after_tool patches the result if the gate still admits it.
AfterTool(i) ==
    /\ Tasking(i, "after_tool")
    /\ \E terminate \in BOOLEAN : Outcome(i, terminate)
    /\ UNCHANGED <<durable, runs>>

\* Mutation: the checkpoint of the interrupted execution stays.
CheckpointKept(i) == partial' = partial

CheckpointCleared(i) == partial' = [partial EXCEPT ![i] = 0]

\* clearReplayCheckpoint: the stored arguments are executed once more.
Replay(i) ==
    /\ Tasking(i, "replay")
    /\ CheckpointCleared(i)
    /\ Goto(i, "admit")
    /\ UNCHANGED <<calls, branch, next, cancelled, execution, runs>>

ReadCheckpoint(i) ==
    /\ Tasking(i, "read_checkpoint")
    /\ Outcome(i, FALSE)
    /\ UNCHANGED <<durable, runs>>

\* A tool's wish to end the run counts only while control is running.
Terminates(i) == ~cancelled /\ task[i].terminate

\* publishToolOutcome.  A parallel task then queues its materialization, a
\* sequential one returns to the loop.
PublishToolOutcome(i) ==
    /\ Tasking(i, "settle")
    /\ calls' = [calls EXCEPT ![i].status = "outcome_ready", ![i].terminate = Terminates(i)]
    /\ partial' = [partial EXCEPT ![i] = 0]
    /\ \/ /\ main.pc = "await_call"
          /\ task' = [task EXCEPT ![i] = IdleTask]
          /\ main' = [main EXCEPT !.pc = "next_transition"]
          /\ chain' = chain
       \/ /\ main.pc # "await_call"
          /\ task' = [task EXCEPT ![i].pc = "join"]
          /\ main' = main
          /\ Schedule(i)
    /\ UNCHANGED <<branch, next, cancelled, execution, runs>>

-----------------------------------------------------------------------------
\* The harness stops; another one opens the session, its tools configured anew.
Crash ==
    /\ crashes < MaxCrashes
    /\ fault = "none"
    /\ crashes' = crashes + 1
    /\ NewPass
    /\ gate' = "open"
    /\ abort' = "none"
    /\ replayable' \in SUBSET Calls
    /\ UNCHANGED <<durable, fault, runs>>

TaskStep(i) ==
    \/ Prepare(i) \/ BeforeTool(i) \/ PublishToolIntent(i) \/ Execute(i) \/ Cancelled(i)
    \/ ToolEnds(i) \/ AfterTool(i) \/ Replay(i) \/ ReadCheckpoint(i) \/ PublishToolOutcome(i)

PassStep ==
    \/ ReadSource \/ Choose \/ SequentialStep \/ NextTransition \/ ParallelStart \/ Join
    \/ \E k \in 0..NumCalls : ReadPlacement(k) \/ CommitPlacement(k)
    \/ \E i \in Calls : TaskStep(i)

Next ==
    \/ RequestAbort \/ CommitAbort
    \/ Begin \/ PassStep
    \/ \E i \in Calls : Progress(i)
    \/ Crash

Spec == Init /\ [][Next]_vars

\* Hooks and tools end, queued jobs run; nobody has to drive, abort or crash.
FairSpec == Spec /\ WF_vars(PassStep) /\ WF_vars(CommitAbort)

-----------------------------------------------------------------------------
(* Properties. *)

TypeOK ==
    /\ calls \in [Calls -> CallRecords]
    /\ partial \in [Calls -> Nat]
    /\ branch \in Seq(Calls)
    /\ next \in {"tools", "may_finish", "need_assistant"}
    /\ cancelled \in BOOLEAN
    /\ execution \in Executions
    /\ replayable \in SUBSET Calls
    /\ main \in [pc: {"off", "enter", "recover", "choose", "sequential", "sequential_step",
                      "await_call", "next_transition", "starting", "joining", "draining"},
                 executes: BOOLEAN, at: 1..MaxTransitions]
    /\ task \in [Calls -> [pc: TaskPoints, terminate: BOOLEAN]]
    /\ chain \in Seq(0..NumCalls)
    /\ reading \in [0..NumCalls -> [first: 1..NumCalls + 1, last: 0..NumCalls]]
    /\ gate \in {"open", "aborting", "released"}
    /\ abort \in {"none", "captured", "uncaptured"}
    /\ fault \in {"none", "open_after_completion", "not_materialized", "no_execution_context",
                  "too_many_transitions"}
    /\ runs \in [Calls -> Nat]
    /\ crashes \in 0..MaxCrashes

\* Each result enters the branch once and in source order, and a call counts as
\* completed exactly if its result is there, however tasks and materializations
\* interleave (materializeReady's separate read and commit).
PlacedInOrder ==
    /\ branch = [k \in 1..Len(branch) |-> k]
    /\ \A i \in Calls : Completed(i) <=> i <= Len(branch)

\* A tool whose intent says replay "never" is executed at most once, through
\* any number of crashes; one that is executed again said "safe".
NeverRepeatedUnlessSafe ==
    \A i \in Calls :
        /\ runs[i] > 0 => calls[i].status # "planned"
        /\ runs[i] > 1 => calls[i].replay = "safe"

\* The partial output an interrupted result may carry stems from the latest
\* execution, never from one before a replay (clearReplayCheckpoint).
CheckpointFromLastRun == \A i \in Calls : partial[i] # 0 => partial[i] = runs[i]

\* The assertions of runSequential do not fail, whatever mixture of statuses a
\* parallel pass left behind.
NoInvariantFault == fault = "none"

\* No tool is executed once the cancellation is durable.
NoExecutionAfterCancel == [][runs' # runs => ~cancelled]_vars

\* runTools returns only from a finished batch: the drive loop makes progress.
ReturnsFinished ==
    [][main.pc # "off" /\ main'.pc = "off" /\ crashes' = crashes => next' # "tools"]_vars

Results ==
    INSTANCE OrderedResults WITH settled <- {i \in Calls : Settled(i)}, open <- next = "tools"

\* Settled once, in any order; placed once, in source order.
RefinesResults == Results!Spec

\* Once driven, a batch is finished unless the harness stops.
BatchCompletes == (main.pc # "off") ~> (main.pc = "off")

=============================================================================
