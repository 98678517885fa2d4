-------------------------- MODULE ToolBatchSafety --------------------------
(***************************************************************************)
(* Safety of ToolBatch for every number of calls, every execution mode and *)
(* any number of crashes: results enter the branch once and in source      *)
(* order, no assertion of the procedures fails, nothing is executed after  *)
(* the durable cancellation, and nothing twice that is not safe to replay; *)
(* and ToolBatch implements OrderedResults.                                *)
(***************************************************************************)
EXTENDS ToolBatch, SequenceTheorems, TLAPS

-----------------------------------------------------------------------------
(* The inductive invariant. *)

Placed == Len(branch)

\* The next result in source order is staged and not yet placed.
ReadyHere == Placed < NumCalls /\ calls[Placed + 1].status = "outcome_ready"

Sequential == {"sequential", "sequential_step", "await_call", "next_transition"}
Parallel == {"starting", "joining"}

\* What has been placed is a prefix of the calls, and the batch is open until
\* it is all of them.
Prefix ==
    /\ Placed <= NumCalls
    /\ branch = [k \in 1..Placed |-> k]
    /\ \A i \in Calls : Completed(i) <=> i <= Placed
    /\ next = "tools" <=> Placed < NumCalls

\* Each task and the procedure itself materialize at most once at a time.
InTurn ==
    /\ \A m, n \in 1..Len(chain) : chain[m] = chain[n] => m = n
    /\ \A n \in 1..Len(chain) :
           IF chain[n] = 0 THEN main.pc \in {"recover", "sequential", "draining"}
           ELSE task[chain[n]].pc = "join"

\* A read run is still what its materialization will commit: nobody else is
\* placing, and the procedure's own reads are not overtaken by an outcome.
ReadIsCurrent(k) ==
    LET run == reading[k] IN
    run # NoRead =>
        /\ chain # <<>> /\ chain[1] = k
        /\ run.first = Placed + 1 /\ run.first <= run.last
        /\ \A i \in run.first..run.last : calls[i].status = "outcome_ready"
        /\ k = 0 /\ run.last < NumCalls => calls[run.last + 1].status # "outcome_ready"

\* Where a task stands agrees with its call's durable status.
TaskAgrees(i) ==
    LET pc == task[i].pc IN
    /\ pc \in {"prepare", "before_tool", "await_prepare", "intent"} => calls[i].status = "planned"
    /\ pc \in {"replay", "read_checkpoint", "admit", "await_execute", "running", "after_tool"} =>
           calls[i].status = "effect_pending"
    /\ pc = "settle" => ~Settled(i)
    /\ pc \in {"join", "done"} => Settled(i)
    /\ pc = "replay" => calls[i].replay = "safe"
    /\ pc = "admit" => partial[i] = 0 /\ (runs[i] = 0 \/ calls[i].replay = "safe")
    /\ pc \notin {"idle", "settle", "read_checkpoint", "join", "done"} => main.executes

\* Which tasks a phase of the procedure may have.
PhaseAllows(i) ==
    /\ task[i].pc # "idle" =>
           \/ main.pc \in {"await_call", "starting", "joining", "draining"}
           \/ main.pc = "off" /\ next # "tools" /\ task[i].pc = "done"
    /\ main.pc = "await_call" /\ task[i].pc # "idle" =>
           i = Placed + 1 /\ task[i].pc \notin {"join", "done"}
    /\ main.pc = "starting" =>
           IF i < main.at THEN task[i].pc = "idle" => Settled(i) ELSE task[i].pc = "idle"
    /\ main.pc \in {"joining", "draining"} /\ task[i].pc = "idle" => Settled(i)
    /\ main.pc = "draining" => task[i].pc \in {"idle", "done"}

\* Each transition of the sequential loop places at least one result, and a
\* parallel pass ends with everything placed.
Transitions ==
    /\ main.pc \in {"sequential_step", "await_call", "next_transition"} => main.at <= Placed + 1
    /\ main.pc = "sequential" => main.at <= Placed + (IF ReadyHere THEN 2 ELSE 1)
    /\ main.pc = "sequential_step" => ~ReadyHere
    /\ main.pc = "next_transition" => ReadyHere
    /\ main.pc = "starting" => main.at <= NumCalls + 1
    /\ main.pc = "draining" => main.executes
    /\ main.pc = "off" /\ main.executes => next # "tools"

\* A pass with an execution context that finds the operation cancelled has its
\* gate shut.
GateShuts ==
    /\ abort = "uncaptured" => main.pc \in {"off", "enter"}
    /\ abort = "captured" <=> gate = "aborting"
    /\ main.pc \in Sequential \cup Parallel /\ main.executes /\ cancelled => gate # "open"
    /\ main.pc \in Parallel => main.executes
    /\ main.pc \in Sequential /\ ~cancelled => main.executes

IInv ==
    /\ TypeOK
    /\ fault = "none"
    /\ Prefix /\ InTurn /\ Transitions /\ GateShuts
    /\ \A k \in 0..NumCalls : ReadIsCurrent(k)
    /\ \A i \in Calls : TaskAgrees(i)
    /\ \A i \in Calls : PhaseAllows(i)
    /\ NeverRepeatedUnlessSafe /\ CheckpointFromLastRun

-----------------------------------------------------------------------------
(* Operators. *)

\* The first open call is the one after the placed results.
LEMMA FirstOpenIsNext == TypeOK /\ Prefix => FirstOpen = Placed + 1
<1> SUFFICES ASSUME TypeOK, Prefix PROVE FirstOpen = Placed + 1
  OBVIOUS
<1> DEFINE Open(k) == /\ \A i \in 1..k - 1 : Completed(i)
                      /\ k \in Calls => ~Completed(k)
<1>1. Placed \in 0..NumCalls /\ NumCalls \in Nat
  BY NumCallsAssumption DEF TypeOK, Prefix, Placed
<1>2. \A i \in 1..NumCalls : Completed(i) <=> i <= Placed
  BY DEF Prefix, Calls
<1>3. Placed + 1 \in 1..NumCalls + 1 /\ Open(Placed + 1)
  BY <1>1, <1>2 DEF Calls
<1>4. ASSUME NEW k \in 1..NumCalls + 1, Open(k) PROVE k = Placed + 1
  <2>1. CASE k <= Placed
    BY <1>1, <1>2, <1>4, <2>1 DEF Calls
  <2>2. CASE k > Placed + 1
    BY <1>1, <1>2, <1>4, <2>2
  <2> QED BY <1>1, <2>1, <2>2
<1>5. FirstOpen = CHOOSE k \in 1..NumCalls + 1 : Open(k)
  BY DEF FirstOpen
<1> HIDE DEF Open
<1> QED BY <1>3, <1>4, <1>5

LEMMA InChain == TypeOK => \A n \in 1..Len(chain) : chain[n] \in 0..NumCalls
  BY ElementOfSeq DEF TypeOK

LEMMA ChainHead ==
    ASSUME TypeOK, chain # <<>>
    PROVE  Len(chain) \in Nat /\ 1 \in 1..Len(chain) /\ Head(chain) = chain[1]
  BY EmptySeq DEF TypeOK

\* The results a run appends continue the branch.
LEMMA Continued ==
    ASSUME NEW b, NEW n \in Nat, NEW p \in Nat, n <= p, b = [k \in 1..n |-> k]
    PROVE  b \o [j \in 1..(p - n) |-> n + j] = [k \in 1..p |-> k]
<1> DEFINE c == [j \in 1..(p - n) |-> n + j]
<1>1. b \in Seq(Nat) /\ Len(b) = n
  OBVIOUS
<1>2. c \in Seq(Nat) /\ Len(c) = p - n
  OBVIOUS
<1>3. /\ b \o c \in Seq(Nat) /\ Len(b \o c) = p
      /\ \A k \in 1..p : (b \o c)[k] = IF k <= n THEN b[k] ELSE c[k - n]
  BY <1>1, <1>2, ConcatProperties, SMT
<1>4. \A k \in 1..p : (b \o c)[k] = k
  BY <1>3, SMT
<1>5. b \o c = [k \in 1..p |-> (b \o c)[k]]
  BY <1>3, LenProperties
<1> QED BY <1>4, <1>5

-----------------------------------------------------------------------------
(* Steps of one task before its outcome is staged. *)

Active == TaskPoints \ {"idle", "join", "done"}

Fresh == {"planned", "effect_pending"}

TaskMoves(i) ==
    /\ UNCHANGED <<branch, next, cancelled, execution, replayable, main, chain, reading, gate,
                   abort, fault, crashes>>
    /\ task[i].pc \in Active
    /\ \E t \in [pc: Active, terminate: BOOLEAN] : task' = [task EXCEPT ![i] = t]
    /\ \E c \in CallRecords : c.status \in Fresh /\ calls' = [calls EXCEPT ![i] = c]
    /\ \E p \in Nat : partial' = [partial EXCEPT ![i] = p]
    /\ \E r \in Nat : runs' = [runs EXCEPT ![i] = r]

LEMMA TaskMovesKeeps ==
    ASSUME IInv, NEW i \in Calls, TaskMoves(i)
    PROVE  /\ TypeOK' /\ fault' = "none" /\ Prefix' /\ InTurn' /\ Transitions' /\ GateShuts'
           /\ \A k \in 0..NumCalls : ReadIsCurrent(k)'
           /\ \A j \in Calls \ {i} : TaskAgrees(j)'
           /\ \A j \in Calls : PhaseAllows(j)'
<1>1. PICK t \in [pc: Active, terminate: BOOLEAN] : task' = [task EXCEPT ![i] = t]
  BY DEF TaskMoves
<1>2. PICK c \in CallRecords : c.status \in Fresh /\ calls' = [calls EXCEPT ![i] = c]
  BY DEF TaskMoves
<1>3. PICK p \in Nat : partial' = [partial EXCEPT ![i] = p]
  BY DEF TaskMoves
<1>4. PICK r \in Nat : runs' = [runs EXCEPT ![i] = r]
  BY DEF TaskMoves
<1>5. UNCHANGED <<branch, next, cancelled, execution, replayable, main, chain, reading, gate,
                  abort, fault, crashes>>
  BY DEF TaskMoves
<1>6. ~Settled(i) /\ ~Settled(i)' /\ task[i].pc \in Active /\ task'[i].pc \in Active
  BY <1>1, <1>2 DEF TaskMoves, IInv, TypeOK, TaskAgrees, Settled, Active, Fresh, TaskPoints,
     StartingPoints, CallRecords
<1>7. \A j \in Calls \ {i} : /\ task'[j] = task[j] /\ calls'[j] = calls[j]
                             /\ partial'[j] = partial[j] /\ runs'[j] = runs[j]
  BY <1>1, <1>2, <1>3, <1>4 DEF IInv, TypeOK
<1>8. TypeOK'
  BY <1>1, <1>2, <1>3, <1>4, <1>5 DEF IInv, TypeOK, Active
<1>9. \A j \in Calls : /\ Settled(j)' <=> Settled(j)
                       /\ Completed(j)' <=> Completed(j)
                       /\ calls'[j].status = "outcome_ready" <=> calls[j].status = "outcome_ready"
  BY <1>6, <1>7 DEF Settled, Completed
<1>10. Prefix'
  BY <1>5, <1>9 DEF IInv, Prefix, Placed
<1>11. InTurn'
  BY <1>1, <1>5, <1>6 DEF IInv, TypeOK, InTurn, Active, Calls
<1>12. ReadyHere' <=> ReadyHere
  BY <1>5, <1>9, NumCallsAssumption DEF IInv, TypeOK, ReadyHere, Placed, Calls
<1>13. Transitions'
  BY <1>5, <1>12 DEF IInv, Transitions, Placed
<1>14. GateShuts'
  BY <1>5 DEF IInv, GateShuts
<1>15. ASSUME NEW k \in 0..NumCalls PROVE ReadIsCurrent(k)'
  <2>0. reading[k] \in [first: 1..NumCalls + 1, last: 0..NumCalls]
    BY DEF IInv, TypeOK
  <2>1. reading[k].first \in Nat \ {0} /\ reading[k].last \in 0..NumCalls
    BY <2>0, NumCallsAssumption
  <2>2. /\ \A j \in reading[k].first..reading[k].last : j \in Calls
        /\ reading[k].last < NumCalls => reading[k].last + 1 \in Calls
    BY <2>1, NumCallsAssumption DEF Calls
  <2> QED BY <1>5, <1>9, <2>2 DEF IInv, ReadIsCurrent, Placed
<1>16. ASSUME NEW j \in Calls \ {i} PROVE TaskAgrees(j)'
  BY <1>5, <1>7 DEF IInv, TaskAgrees, Settled
<1>17. ASSUME NEW j \in Calls PROVE PhaseAllows(j)'
  BY <1>5, <1>6, <1>7, <1>9 DEF IInv, PhaseAllows, Active, Placed
<1> QED BY <1>5, <1>8, <1>10, <1>11, <1>13, <1>14, <1>15, <1>16, <1>17 DEF IInv

\* What is left to show of a task's step is about its own call.
LEMMA OwnCallKeeps ==
    ASSUME IInv, NEW i \in Calls, TaskMoves(i), TaskAgrees(i)',
           /\ runs'[i] > 0 => calls'[i].status # "planned"
           /\ runs'[i] > 1 => calls'[i].replay = "safe",
           partial'[i] # 0 => partial'[i] = runs'[i]
    PROVE  IInv'
<1>1. \A j \in Calls \ {i} : /\ calls'[j] = calls[j] /\ partial'[j] = partial[j]
                             /\ runs'[j] = runs[j]
  BY DEF IInv, TypeOK, TaskMoves
<1>2. NeverRepeatedUnlessSafe'
  BY <1>1 DEF IInv, NeverRepeatedUnlessSafe
<1>3. CheckpointFromLastRun'
  BY <1>1 DEF IInv, CheckpointFromLastRun
<1> QED BY <1>2, <1>3, TaskMovesKeeps DEF IInv

\* An active task's call is not settled.
LEMMA ActiveIsFresh ==
    ASSUME IInv, NEW i \in Calls, task[i].pc \in Active
    PROVE  /\ calls[i] \in CallRecords /\ calls[i].status \in Fresh
           /\ calls = [calls EXCEPT ![i] = calls[i]]
           /\ partial[i] \in Nat /\ partial = [partial EXCEPT ![i] = partial[i]]
           /\ runs[i] \in Nat /\ runs = [runs EXCEPT ![i] = runs[i]]
  BY DEF IInv, TypeOK, TaskAgrees, Settled, Active, Fresh, TaskPoints, StartingPoints,
     CallRecords

LEMMA GotoIs ==
    ASSUME TypeOK, NEW i \in Calls, NEW pc, Goto(i, pc)
    PROVE  /\ task' = [task EXCEPT ![i] = [pc |-> pc, terminate |-> task[i].terminate]]
           /\ task[i].terminate \in BOOLEAN
           /\ task'[i].pc = pc
           /\ UNCHANGED <<main, chain>>
<1>1. task \in [Calls -> [pc: TaskPoints, terminate: BOOLEAN]]
  BY DEF TypeOK
<1>2. /\ task[i].terminate \in BOOLEAN
      /\ [task[i] EXCEPT !.pc = pc] = [pc |-> pc, terminate |-> task[i].terminate]
  BY <1>1
<1>3. task' = [task EXCEPT ![i] = [pc |-> pc, terminate |-> task[i].terminate]]
  BY <1>2 DEF Goto
<1>4. task'[i].pc = pc
  BY <1>1, <1>3
<1> QED BY <1>2, <1>3, <1>4 DEF Goto

LEMMA OutcomeIs ==
    ASSUME TypeOK, NEW i \in Calls, NEW terminate \in BOOLEAN, Outcome(i, terminate)
    PROVE  /\ task' = [task EXCEPT ![i] = [pc |-> "settle", terminate |-> terminate]]
           /\ task'[i].pc = "settle"
           /\ UNCHANGED <<main, chain>>
  BY DEF TypeOK, Outcome

\* A task that goes on without a durable change.
LEMMA QuietKeeps ==
    ASSUME IInv, NEW i \in Calls, NEW from \in Active, NEW pc \in Active, Tasking(i, from),
           UNCHANGED <<durable, runs>>,
           Goto(i, pc) \/ (pc = "settle" /\ \E terminate \in BOOLEAN : Outcome(i, terminate)),
           \/ pc = "settle"
           \/ pc \in {"before_tool", "await_prepare", "intent"}
              /\ calls[i].status = "planned" /\ main.executes
           \/ pc \in {"await_execute", "running", "after_tool"}
              /\ calls[i].status = "effect_pending" /\ main.executes
    PROVE  IInv'
<1>1. PICK terminate \in BOOLEAN :
        /\ task' = [task EXCEPT ![i] = [pc |-> pc, terminate |-> terminate]]
        /\ task'[i].pc = pc
        /\ UNCHANGED <<main, chain>>
  BY GotoIs, OutcomeIs DEF IInv
<1>2. task[i].pc \in Active
  BY DEF Tasking
<1>3. calls[i].status \in Fresh
  BY <1>2, ActiveIsFresh
<1>4. TaskMoves(i)
  BY <1>1, <1>2, ActiveIsFresh, Zenon DEF TaskMoves, Tasking, durable
<1>5. TaskAgrees(i)'
  BY <1>1, <1>3 DEF TaskAgrees, Settled, Fresh, durable
<1> QED BY <1>4, <1>5, OwnCallKeeps
        DEF IInv, NeverRepeatedUnlessSafe, CheckpointFromLastRun, durable

LEMMA QuietActionsKeep ==
    ASSUME IInv, NEW i \in Calls,
           \/ Prepare(i) \/ BeforeTool(i) \/ Cancelled(i) \/ ToolEnds(i) \/ AfterTool(i)
           \/ ReadCheckpoint(i)
    PROVE  IInv'
<1> USE DEF Active, TaskPoints, StartingPoints
<1>1. CASE Prepare(i)
  <2>1. calls[i].status = "planned" /\ main.executes
    BY <1>1 DEF IInv, TaskAgrees, Prepare, Tasking
  <2> QED BY <1>1, <2>1, QuietKeeps DEF Prepare
<1>2. CASE BeforeTool(i)
  <2>1. calls[i].status = "planned" /\ main.executes
    BY <1>2 DEF IInv, TaskAgrees, BeforeTool, Tasking
  <2> QED BY <1>2, <2>1, QuietKeeps DEF BeforeTool
<1>3. CASE Cancelled(i)
  BY <1>3, QuietKeeps DEF Cancelled
<1>4. CASE ToolEnds(i)
  <2>1. calls[i].status = "effect_pending" /\ main.executes
    BY <1>4 DEF IInv, TaskAgrees, ToolEnds, Tasking
  <2> QED BY <1>4, <2>1, QuietKeeps DEF ToolEnds
<1>5. CASE AfterTool(i)
  BY <1>5, QuietKeeps DEF AfterTool
<1>6. CASE ReadCheckpoint(i)
  BY <1>6, QuietKeeps DEF ReadCheckpoint
<1> QED BY <1>1, <1>2, <1>3, <1>4, <1>5, <1>6

\* The intent of a call that was never executed.
LEMMA PublishToolIntentKeeps ==
    ASSUME IInv, NEW i \in Calls, PublishToolIntent(i)
    PROVE  IInv'
<1>0. task[i].pc = "intent" /\ calls[i].status = "planned" /\ main.executes
  BY DEF IInv, TaskAgrees, PublishToolIntent, Tasking
<1>1. runs[i] = 0 /\ partial[i] = 0
  <2>1. runs[i] \in Nat
    BY DEF IInv, TypeOK
  <2>2. runs[i] = 0
    BY <1>0, <2>1 DEF IInv, NeverRepeatedUnlessSafe
  <2> QED BY <2>2 DEF IInv, CheckpointFromLastRun
<1>2. CASE cancelled /\ Outcome(i, FALSE) /\ calls' = calls
  BY <1>2, QuietKeeps DEF PublishToolIntent, durable, Active, TaskPoints, StartingPoints
<1>3. CASE ~cancelled /\ Intent(i) /\ Goto(i, "admit")
  <2>1. /\ task' = [task EXCEPT ![i] = [pc |-> "admit", terminate |-> task[i].terminate]]
        /\ task[i].terminate \in BOOLEAN
        /\ task'[i].pc = "admit"
        /\ UNCHANGED <<main, chain>>
    BY <1>3, GotoIs DEF IInv
  <2> DEFINE c == [status |-> "effect_pending", terminate |-> calls[i].terminate,
                   replay |-> IF i \in replayable THEN "safe" ELSE "never"]
         edited == [calls[i] EXCEPT !.status = "effect_pending", !.replay = c.replay]
  <2>2. c \in CallRecords /\ calls' = [calls EXCEPT ![i] = c] /\ calls'[i] = c
    <3>1. calls \in [Calls -> CallRecords]
      BY DEF IInv, TypeOK
    <3>2. c \in CallRecords
      BY <3>1 DEF CallRecords
    <3>3. /\ edited \in CallRecords
          /\ edited.status = c.status /\ edited.replay = c.replay
          /\ edited.terminate = c.terminate
      BY <3>1 DEF CallRecords
    <3>4. edited = c
      BY <3>2, <3>3 DEF CallRecords
    <3>5. calls' = [calls EXCEPT ![i] = edited]
      BY <1>3, <3>1 DEF Intent
    <3> QED BY <3>1, <3>2, <3>4, <3>5
  <2>3. "admit" \in Active /\ task[i].pc \in Active
    BY <1>0 DEF Active, TaskPoints, StartingPoints
  <2>4. TaskMoves(i)
    BY <2>1, <2>2, <2>3, ActiveIsFresh, Zenon DEF TaskMoves, Tasking, PublishToolIntent, Fresh
  <2>5. runs'[i] = 0 /\ partial'[i] = 0
    BY <1>1 DEF PublishToolIntent
  <2>6. TaskAgrees(i)'
    BY <1>0, <1>1, <2>1, <2>2, <2>5 DEF TaskAgrees, Settled
  <2> QED BY <2>2, <2>4, <2>5, <2>6, OwnCallKeeps
<1> QED BY <1>2, <1>3 DEF PublishToolIntent

LEMMA ExecuteKeeps ==
    ASSUME IInv, NEW i \in Calls, Execute(i)
    PROVE  IInv'
<1>1. /\ task[i].pc = "admit" /\ calls[i].status = "effect_pending" /\ main.executes
      /\ partial[i] = 0 /\ (runs[i] = 0 \/ calls[i].replay = "safe")
      /\ runs[i] \in Nat /\ task[i].pc \in Active
  BY DEF IInv, TypeOK, TaskAgrees, Execute, Tasking, Active, TaskPoints, StartingPoints
<1>2. CASE Admits
  <2>1. /\ task' = [task EXCEPT ![i] = [pc |-> "running", terminate |-> task[i].terminate]]
        /\ task[i].terminate \in BOOLEAN
        /\ task'[i].pc = "running"
        /\ UNCHANGED <<main, chain>>
    BY <1>2, GotoIs DEF IInv, Execute
  <2>2. runs' = [runs EXCEPT ![i] = runs[i] + 1] /\ runs[i] + 1 \in Nat /\ runs'[i] = runs[i] + 1
    BY <1>1, <1>2 DEF IInv, TypeOK, Execute
  <2>3. TaskMoves(i)
    <3>1. "running" \in Active
      BY DEF Active, TaskPoints
    <3> QED BY <1>1, <2>1, <2>2, <3>1, ActiveIsFresh, Zenon DEF TaskMoves, Tasking, Execute, durable
  <2>4. TaskAgrees(i)'
    BY <1>1, <2>1 DEF TaskAgrees, Settled, Execute, durable
  <2> QED BY <1>1, <2>2, <2>3, <2>4, OwnCallKeeps DEF Execute, durable
<1>3. CASE ~Admits
  BY <1>1, <1>3, QuietKeeps DEF Execute, Active, TaskPoints
<1> QED BY <1>2, <1>3

\* A checkpoint names the execution that wrote it.
LEMMA ProgressKeeps ==
    ASSUME IInv, NEW i \in Calls, Progress(i)
    PROVE  IInv'
<1>1. /\ task[i].pc = "running" /\ calls[i].status = "effect_pending" /\ main.executes
      /\ task[i].pc \in Active /\ runs[i] \in Nat
      /\ task[i] \in [pc: Active, terminate: BOOLEAN] /\ task = [task EXCEPT ![i] = task[i]]
  BY DEF IInv, TypeOK, TaskAgrees, Progress, Tasking, Active, TaskPoints, StartingPoints
<1>2. partial' = [partial EXCEPT ![i] = runs[i]] /\ partial'[i] = runs[i]
  BY DEF IInv, TypeOK, Progress
<1>3. TaskMoves(i)
  BY <1>1, <1>2, ActiveIsFresh, Zenon DEF TaskMoves, Tasking, Progress
<1>4. TaskAgrees(i)'
  BY <1>1 DEF TaskAgrees, Settled, Progress
<1> QED BY <1>2, <1>3, <1>4, OwnCallKeeps
        DEF IInv, NeverRepeatedUnlessSafe, Progress

LEMMA ReplayKeeps ==
    ASSUME IInv, NEW i \in Calls, Replay(i)
    PROVE  IInv'
<1>1. /\ task[i].pc = "replay" /\ calls[i].status = "effect_pending" /\ main.executes
      /\ calls[i].replay = "safe" /\ task[i].pc \in Active /\ "admit" \in Active
  BY DEF IInv, TypeOK, TaskAgrees, Replay, Tasking, Active, TaskPoints, StartingPoints
<1>2. /\ task' = [task EXCEPT ![i] = [pc |-> "admit", terminate |-> task[i].terminate]]
      /\ task[i].terminate \in BOOLEAN
      /\ task'[i].pc = "admit"
      /\ UNCHANGED <<main, chain>>
  BY GotoIs DEF IInv, Replay
<1>3. partial' = [partial EXCEPT ![i] = 0] /\ partial'[i] = 0 /\ 0 \in Nat
  BY DEF IInv, TypeOK, Replay, CheckpointCleared
<1>4. TaskMoves(i)
  BY <1>1, <1>2, <1>3, ActiveIsFresh, Zenon DEF TaskMoves, Tasking, Replay
<1>5. TaskAgrees(i)'
  BY <1>1, <1>2, <1>3 DEF TaskAgrees, Settled, Replay
<1> QED BY <1>3, <1>4, <1>5, OwnCallKeeps
        DEF IInv, NeverRepeatedUnlessSafe, Replay

-----------------------------------------------------------------------------
(* An outcome is staged. *)

LEMMA PublishToolOutcomeKeeps ==
    ASSUME IInv, NEW i \in Calls, PublishToolOutcome(i)
    PROVE  IInv'
<1>1. /\ task[i].pc = "settle" /\ ~Settled(i) /\ fault = "none"
      /\ UNCHANGED <<branch, next, cancelled, execution, runs, reading, replayable, gate, abort,
                     fault, crashes>>
  BY DEF IInv, TaskAgrees, PublishToolOutcome, Tasking
<1>2. /\ calls' \in [Calls -> CallRecords]
      /\ calls'[i].status = "outcome_ready" /\ calls'[i].replay = calls[i].replay
      /\ \A j \in Calls \ {i} : calls'[j] = calls[j]
  <2> DEFINE edited == [calls[i] EXCEPT !.status = "outcome_ready", !.terminate = Terminates(i)]
  <2>1. calls \in [Calls -> CallRecords] /\ Terminates(i) \in BOOLEAN
    BY DEF IInv, TypeOK, Terminates
  <2>2. /\ edited \in CallRecords
        /\ edited.status = "outcome_ready" /\ edited.replay = calls[i].replay
    BY <2>1 DEF CallRecords
  <2>3. calls' = [calls EXCEPT ![i] = edited]
    BY <2>1 DEF PublishToolOutcome
  <2> QED BY <2>1, <2>2, <2>3
<1>3. /\ partial' \in [Calls -> Nat] /\ partial'[i] = 0
      /\ \A j \in Calls \ {i} : partial'[j] = partial[j]
  BY DEF IInv, TypeOK, PublishToolOutcome
<1>4. /\ Settled(i)' /\ ~Completed(i) /\ ~Completed(i)'
      /\ \A j \in Calls : /\ Completed(j)' <=> Completed(j)
                          /\ Settled(j) => Settled(j)'
                          /\ calls[j].status = "outcome_ready" => calls'[j].status = "outcome_ready"
  BY <1>1, <1>2 DEF Settled, Completed
<1>5. main.pc \in {"await_call", "starting", "joining"} /\ (main.pc = "await_call" => i = Placed + 1)
  BY <1>1 DEF IInv, PhaseAllows
<1>6. Prefix'
  BY <1>1, <1>4 DEF IInv, Prefix, Placed
<1>7. NeverRepeatedUnlessSafe' /\ CheckpointFromLastRun'
  BY <1>1, <1>2, <1>3 DEF IInv, NeverRepeatedUnlessSafe, CheckpointFromLastRun
<1>8. \A n \in 1..Len(chain) : chain[n] \in Calls \ {i}
  <2> SUFFICES ASSUME NEW n \in 1..Len(chain) PROVE chain[n] \in Calls \ {i}
    OBVIOUS
  <2>1. chain[n] \in 0..NumCalls
    BY InChain DEF IInv
  <2>2. chain[n] # 0 /\ chain[n] # i
    BY <1>1, <1>5 DEF IInv, InTurn
  <2> QED BY <2>1, <2>2, NumCallsAssumption DEF Calls
<1>9. reading[0] = NoRead
  <2> SUFFICES ASSUME reading[0] # NoRead PROVE FALSE
    OBVIOUS
  <2>1. chain # <<>> /\ chain[1] = 0
    BY NumCallsAssumption DEF IInv, ReadIsCurrent
  <2>2. 1 \in 1..Len(chain)
    BY <2>1, ChainHead DEF IInv
  <2> QED BY <1>8, <2>1, <2>2 DEF Calls
<1>10. CASE main.pc = "await_call"
  <2>1. /\ task' = [task EXCEPT ![i] = IdleTask]
        /\ main' = [main EXCEPT !.pc = "next_transition"]
        /\ chain' = chain
    BY <1>10 DEF PublishToolOutcome
  <2>2. /\ main'.pc = "next_transition" /\ main'.at = main.at /\ main'.executes = main.executes
        /\ task'[i].pc = "idle" /\ \A j \in Calls \ {i} : task'[j] = task[j] /\ task[j].pc = "idle"
    BY <1>5, <1>10, <2>1 DEF IInv, TypeOK, PhaseAllows, IdleTask
  <2>3. TypeOK'
    BY <1>1, <1>2, <1>3, <2>1 DEF IInv, TypeOK, IdleTask, TaskPoints
  <2>4. InTurn'
    BY <1>8, <2>1, <2>2 DEF IInv, InTurn, Calls
  <2>5. Transitions'
    <3>1. Placed + 1 \in Calls /\ i = Placed + 1
      BY <1>5, <1>10
    <3>2. Placed' = Placed /\ Placed < NumCalls
      BY <1>1, <3>1, NumCallsAssumption DEF Placed, Calls, IInv, TypeOK
    <3>3. ReadyHere'
      BY <1>2, <3>1, <3>2 DEF ReadyHere
    <3> QED BY <1>10, <2>2, <3>2, <3>3 DEF IInv, Transitions
  <2>6. GateShuts'
    BY <1>1, <1>10, <2>2 DEF IInv, GateShuts, Sequential, Parallel
  <2>7. ASSUME NEW k \in 0..NumCalls PROVE ReadIsCurrent(k)'
    BY <1>1, <1>8, <1>10, <2>1, <2>2 DEF IInv, ReadIsCurrent, InTurn, TypeOK
  <2>8. ASSUME NEW j \in Calls PROVE TaskAgrees(j)'
    BY <2>2 DEF TaskAgrees
  <2>9. ASSUME NEW j \in Calls PROVE PhaseAllows(j)'
    BY <2>2 DEF PhaseAllows
  <2> QED BY <1>1, <1>6, <1>7, <2>3, <2>4, <2>5, <2>6, <2>7, <2>8, <2>9 DEF IInv
<1>11. CASE main.pc # "await_call"
  <2>1. task' = [task EXCEPT ![i].pc = "join"] /\ main' = main /\ chain' = Append(chain, i)
    BY <1>11 DEF PublishToolOutcome, Schedule
  <2>2. /\ task' \in [Calls -> [pc: TaskPoints, terminate: BOOLEAN]]
        /\ task'[i].pc = "join" /\ \A j \in Calls \ {i} : task'[j] = task[j]
    BY <2>1 DEF IInv, TypeOK, TaskPoints
  <2>3. /\ chain' \in Seq(0..NumCalls) /\ Len(chain') = Len(chain) + 1
        /\ \A n \in 1..Len(chain) : chain'[n] = chain[n]
        /\ chain'[Len(chain) + 1] = i
    <3>1. i \in 0..NumCalls /\ chain \in Seq(0..NumCalls)
      BY NumCallsAssumption DEF Calls, IInv, TypeOK
    <3> QED BY <2>1, <3>1, AppendProperties
  <2>4. TypeOK'
    BY <1>1, <1>2, <1>3, <2>1, <2>2, <2>3 DEF IInv, TypeOK
  <2>5. InTurn'
    BY <1>8, <2>1, <2>2, <2>3 DEF IInv, InTurn, Calls, TypeOK
  <2>6. Transitions'
    BY <1>1, <1>5, <1>11, <2>1 DEF IInv, Transitions, Placed
  <2>7. GateShuts'
    BY <1>1, <2>1 DEF IInv, GateShuts
  <2>8. ASSUME NEW k \in 0..NumCalls PROVE ReadIsCurrent(k)'
    <3>1. CASE reading[k] = NoRead
      BY <1>1, <3>1 DEF ReadIsCurrent
    <3>2. CASE reading[k] # NoRead
      <4>1. reading[k] \in [first: 1..NumCalls + 1, last: 0..NumCalls]
        BY DEF IInv, TypeOK
      <4>2. \A j \in reading[k].first..reading[k].last : j \in Calls
        BY <4>1, NumCallsAssumption DEF Calls
      <4>3. chain' # <<>> /\ chain'[1] = k
        <5>1. chain # <<>> /\ chain[1] = k
          BY <3>2 DEF IInv, ReadIsCurrent
        <5>2. Len(chain) \in Nat /\ 1 \in 1..Len(chain)
          BY <5>1, ChainHead DEF IInv
        <5> QED BY <2>3, <5>1, <5>2
      <4>4. k # 0
        BY <1>9, <3>2
      <4> QED BY <1>1, <1>4, <3>2, <4>2, <4>3, <4>4 DEF IInv, ReadIsCurrent, Placed
    <3> QED BY <3>1, <3>2
  <2>9. ASSUME NEW j \in Calls PROVE TaskAgrees(j)'
    BY <1>1, <1>2, <1>3, <1>4, <2>1, <2>2 DEF IInv, TaskAgrees, Settled
  <2>10. ASSUME NEW j \in Calls PROVE PhaseAllows(j)'
    BY <1>1, <1>4, <1>5, <1>11, <2>1, <2>2 DEF IInv, PhaseAllows, Placed
  <2> QED BY <1>1, <1>6, <1>7, <2>4, <2>5, <2>6, <2>7, <2>8, <2>9, <2>10 DEF IInv
<1> QED BY <1>10, <1>11

-----------------------------------------------------------------------------
(* Steps of the procedure.  They leave what is durable alone. *)

LEMMA DurableKept ==
    ASSUME IInv, UNCHANGED <<durable, runs>>
    PROVE  /\ Prefix' /\ NeverRepeatedUnlessSafe' /\ CheckpointFromLastRun'
           /\ Placed' = Placed /\ ReadyHere' = ReadyHere
           /\ \A i \in Calls : Settled(i)' = Settled(i)
<1> USE DEF durable
<1>1. Prefix'
  BY DEF IInv, Prefix, Placed, Completed
<1>2. NeverRepeatedUnlessSafe' /\ CheckpointFromLastRun'
  BY DEF IInv, NeverRepeatedUnlessSafe, CheckpointFromLastRun
<1>3. Placed' = Placed /\ ReadyHere' = ReadyHere
  BY DEF Placed, ReadyHere
<1>4. \A i \in Calls : Settled(i)' = Settled(i)
  BY DEF Settled
<1> QED BY <1>1, <1>2, <1>3, <1>4

\* Outside the phases that have tasks, there are none.
LEMMA NoTask ==
    ASSUME IInv, main.pc \notin {"await_call", "starting", "joining", "draining"},
           main.pc = "off" => next = "tools"
    PROVE  \A i \in Calls : task[i].pc = "idle"
  BY DEF IInv, PhaseAllows

\* Nobody waits to materialize, and no run is read.
LEMMA NoChain ==
    ASSUME IInv, main.pc \notin {"recover", "sequential", "draining"},
           \A i \in Calls : task[i].pc # "join"
    PROVE  chain = <<>> /\ \A k \in 0..NumCalls : reading[k] = NoRead
<1>1. chain = <<>>
  <2> SUFFICES ASSUME chain # <<>> PROVE FALSE
    OBVIOUS
  <2>1. 1 \in 1..Len(chain) /\ chain[1] \in 0..NumCalls
    BY ChainHead, InChain DEF IInv
  <2>2. chain[1] # 0 /\ task[chain[1]].pc = "join"
    BY <2>1 DEF IInv, InTurn
  <2> QED BY <2>1, <2>2, NumCallsAssumption DEF Calls
<1> QED BY <1>1 DEF IInv, ReadIsCurrent

LEMMA ScheduleFirst ==
    ASSUME chain = <<>>, Schedule(0)
    PROVE  chain' \in Seq(0..NumCalls) /\ Len(chain') = 1 /\ chain'[1] = 0
  BY NumCallsAssumption DEF Schedule

\* A step of the procedure that finds no task and starts none.
LEMMA AloneKeeps ==
    ASSUME IInv, UNCHANGED <<durable, replayable, task, reading, abort, runs, crashes>>,
           fault' = "none",
           \A i \in Calls : task[i].pc = "idle",
           main.pc \notin {"recover", "sequential", "draining"},
           NEW pc \in {"enter", "recover", "choose", "off", "sequential", "starting"},
           NEW executes \in BOOLEAN, NEW at \in 1..MaxTransitions,
           main' = [pc |-> pc, executes |-> executes, at |-> at],
           IF pc \in {"recover", "sequential"} THEN Schedule(0) ELSE UNCHANGED chain,
           gate' \in {"open", "aborting", "released"},
           Transitions', GateShuts',
           pc = "starting" => at = 1
    PROVE  IInv'
<1>1. main'.pc = pc /\ main'.executes = executes /\ main'.at = at
  OBVIOUS
<1>2. chain = <<>> /\ \A k \in 0..NumCalls : reading[k] = NoRead
  BY NoChain
<1>3. chain' \in Seq(0..NumCalls) /\ \A n \in 1..Len(chain') : n = 1 /\ chain'[n] = 0
                                     /\ pc \in {"recover", "sequential"}
  <2>1. CASE pc \in {"recover", "sequential"}
    <3>1. chain' \in Seq(0..NumCalls) /\ Len(chain') = 1 /\ chain'[1] = 0
      BY <1>2, <2>1, ScheduleFirst
    <3>2. \A n \in 1..1 : n = 1
      OBVIOUS
    <3> QED BY <2>1, <3>1, <3>2
  <2>2. CASE pc \notin {"recover", "sequential"}
    <3>1. chain' = <<>>
      BY <1>2, <2>2
    <3> QED BY <3>1, EmptySeq
  <2> QED BY <2>1, <2>2
<1>4. TypeOK'
  BY <1>3 DEF IInv, TypeOK, durable
<1>5. InTurn'
  BY <1>1, <1>3 DEF InTurn
<1>6. \A k \in 0..NumCalls : ReadIsCurrent(k)'
  BY <1>2 DEF ReadIsCurrent
<1>7. \A i \in Calls : TaskAgrees(i)'
  BY DEF TaskAgrees
<1>8. \A i \in Calls : PhaseAllows(i)'
  BY <1>1 DEF PhaseAllows, Calls
<1> QED BY <1>4, <1>5, <1>6, <1>7, <1>8, DurableKept DEF IInv

LEMMA MainIs ==
    ASSUME TypeOK
    PROVE  /\ main = [pc |-> main.pc, executes |-> main.executes, at |-> main.at]
           /\ main.executes \in BOOLEAN /\ main.at \in 1..MaxTransitions
           /\ \A pc : [main EXCEPT !.pc = pc] =
                          [pc |-> pc, executes |-> main.executes, at |-> main.at]
           /\ MaxTransitions \in Nat /\ NumCalls + 1 < MaxTransitions
<1>1. /\ main = [pc |-> main.pc, executes |-> main.executes, at |-> main.at]
      /\ main.executes \in BOOLEAN /\ main.at \in 1..MaxTransitions
  BY DEF TypeOK
<1>2. \A pc : [main EXCEPT !.pc = pc] = [pc |-> pc, executes |-> main.executes, at |-> main.at]
  BY <1>1
<1>3. MaxTransitions \in Nat /\ NumCalls + 1 < MaxTransitions
  BY NumCallsAssumption DEF MaxTransitions
<1> QED BY <1>1, <1>2, <1>3

LEMMA BeginKeeps == IInv /\ Begin => IInv'
<1> SUFFICES ASSUME IInv, Begin PROVE IInv'
  OBVIOUS
<1>1. main' = [pc |-> "enter", executes |-> main.executes, at |-> main.at]
  BY MainIs DEF IInv, Begin
<1>2. \A i \in Calls : task[i].pc = "idle"
  BY NoTask DEF Begin
<1>3. Transitions' /\ GateShuts'
  BY <1>1 DEF IInv, Begin, Transitions, GateShuts, Sequential, Parallel
<1>4. gate' \in {"open", "aborting", "released"}
  BY DEF IInv, TypeOK, Begin
<1> QED BY <1>1, <1>2, <1>3, <1>4, MainIs, AloneKeeps DEF IInv, Begin

LEMMA ReadSourceKeeps == IInv /\ ReadSource => IInv'
<1> SUFFICES ASSUME IInv, ReadSource PROVE IInv'
  OBVIOUS
<1>1. main' = [pc |-> "recover", executes |-> main.executes, at |-> main.at]
  BY MainIs DEF IInv, ReadSource
<1>2. \A i \in Calls : task[i].pc = "idle"
  BY NoTask DEF ReadSource, Procedure
<1>3. Transitions' /\ GateShuts'
  BY <1>1 DEF IInv, ReadSource, Procedure, Transitions, GateShuts, Sequential, Parallel, durable
<1> QED BY <1>1, <1>2, <1>3, MainIs, AloneKeeps DEF IInv, TypeOK, ReadSource, Procedure

LEMMA ChooseKeeps == IInv /\ Choose => IInv'
<1> SUFFICES ASSUME IInv, Choose PROVE IInv'
  OBVIOUS
<1>1. \A i \in Calls : task[i].pc = "idle"
  BY NoTask DEF Choose, Procedure
<1>2. CASE next # "tools" /\ main' = [main EXCEPT !.pc = "off"] /\ chain' = chain
  <2>1. main' = [pc |-> "off", executes |-> main.executes, at |-> main.at]
    BY <1>2, MainIs DEF IInv
  <2>2. Transitions' /\ GateShuts'
    BY <2>1 DEF IInv, Choose, Procedure, Transitions, GateShuts, Sequential, Parallel, durable
  <2> QED BY <1>1, <1>2, <2>1, <2>2, MainIs, AloneKeeps DEF IInv, TypeOK, Choose, Procedure
<1>3. CASE /\ next = "tools"
           /\ main' = [main EXCEPT !.pc = "sequential", !.executes = ~cancelled, !.at = 1]
           /\ Schedule(0)
  <2>1. main' = [pc |-> "sequential", executes |-> ~cancelled, at |-> 1]
    BY <1>3 DEF IInv, TypeOK
  <2>2. 1 \in 1..MaxTransitions /\ (~cancelled) \in BOOLEAN
    BY NumCallsAssumption DEF MaxTransitions, IInv, TypeOK
  <2>3. Placed \in Nat /\ Placed' = Placed
    BY DurableKept DEF Placed, IInv, TypeOK, Choose, Procedure
  <2>4. Transitions'
    BY <2>1, <2>3 DEF Transitions
  <2>5. GateShuts'
    BY <2>1 DEF IInv, Choose, Procedure, GateShuts, Sequential, Parallel, durable
  <2> QED BY <1>1, <1>3, <2>1, <2>2, <2>4, <2>5, AloneKeeps
          DEF IInv, TypeOK, Choose, Procedure
<1>4. CASE /\ next = "tools" /\ ~cancelled
           /\ main' = [main EXCEPT !.pc = "starting", !.executes = TRUE, !.at = 1]
           /\ chain' = chain
  <2>1. main' = [pc |-> "starting", executes |-> TRUE, at |-> 1]
    BY <1>4 DEF IInv, TypeOK
  <2>2. 1 \in 1..MaxTransitions
    BY NumCallsAssumption DEF MaxTransitions
  <2>3. Transitions'
    BY <2>1, NumCallsAssumption DEF Transitions
  <2>4. GateShuts'
    BY <1>4, <2>1 DEF IInv, Choose, Procedure, GateShuts, Sequential, Parallel, durable
  <2> QED BY <1>1, <1>4, <2>1, <2>2, <2>3, <2>4, AloneKeeps
          DEF IInv, TypeOK, Choose, Procedure
<1> QED BY <1>2, <1>3, <1>4 DEF Choose

LEMMA NextTransitionKeeps == IInv /\ NextTransition => IInv'
<1> SUFFICES ASSUME IInv, NextTransition PROVE IInv'
  OBVIOUS
<1>1. \A i \in Calls : task[i].pc = "idle"
  BY NoTask DEF NextTransition, Procedure
<1>2. /\ Placed \in Nat /\ Placed < NumCalls /\ ReadyHere /\ main.at <= Placed + 1
      /\ main.at \in Nat \ {0}
  BY MainIs DEF IInv, TypeOK, Transitions, Placed, NextTransition, Procedure, ReadyHere
<1>3. main.at < MaxTransitions /\ main.at + 1 \in 1..MaxTransitions
  BY <1>2, NumCallsAssumption DEF MaxTransitions
<1>4. /\ main' = [main EXCEPT !.pc = "sequential", !.at = @ + 1]
      /\ Schedule(0)
      /\ UNCHANGED <<task, fault>>
  BY <1>2, <1>3, NumCallsAssumption DEF NextTransition, MaxTransitions
<1>5. main' = [pc |-> "sequential", executes |-> main.executes, at |-> main.at + 1]
  BY <1>4 DEF IInv, TypeOK
<1>6. Transitions'
  BY <1>2, <1>5, DurableKept DEF Transitions, NextTransition, Procedure
<1>7. GateShuts'
  BY <1>5 DEF IInv, NextTransition, Procedure, GateShuts, Sequential, Parallel, durable
<1> QED BY <1>1, <1>3, <1>4, <1>5, <1>6, <1>7, MainIs, AloneKeeps
        DEF IInv, TypeOK, NextTransition, Procedure

\* What a call is started with fits its durable status.
LEMMA FirstFits ==
    ASSUME IInv, NEW i \in Calls, ~Settled(i)
    PROVE  /\ \/ First(i) = "prepare" /\ calls[i].status = "planned"
              \/ First(i) = "read_checkpoint" /\ calls[i].status = "effect_pending"
              \/ /\ First(i) = "replay" /\ calls[i].status = "effect_pending"
                 /\ calls[i].replay = "safe"
           /\ First(i) \in Active
<1>1. calls[i].status \in {"planned", "effect_pending"}
  <2>1. calls[i] \in CallRecords
    BY DEF IInv, TypeOK
  <2> QED BY <2>1 DEF CallRecords, Settled
<1>2. {"prepare", "replay", "read_checkpoint"} \subseteq Active
  BY DEF Active, TaskPoints, StartingPoints
<1> QED BY <1>1, <1>2 DEF First

\* The assertions of the loop do not fail: what is next is open, not ready, and
\* there is an execution context unless control is cancelled.
LEMMA SequentialStepIs ==
    ASSUME IInv, SequentialStep
    PROVE  \/ next # "tools" /\ main' = [main EXCEPT !.pc = "off"] /\ UNCHANGED <<task, chain, fault>>
           \/ LET i == Placed + 1 IN
              /\ next = "tools" /\ i \in Calls /\ ~Settled(i)
              /\ \/ Start(i, First(i)) /\ main.executes
                 \/ Start(i, "settle")
                 \/ Start(i, "read_checkpoint") /\ calls[i].status = "effect_pending"
              /\ main' = [main EXCEPT !.pc = "await_call"]
              /\ UNCHANGED <<chain, fault>>
<1>1. CASE next # "tools"
  BY <1>1 DEF SequentialStep
<1>2. CASE next = "tools"
  <2>1. /\ Placed \in Nat /\ Placed < NumCalls /\ FirstOpen = Placed + 1 /\ Placed + 1 \in Calls
        /\ ~Completed(Placed + 1)
    <3>1. Placed \in Nat
      BY DEF IInv, TypeOK, Placed
    <3>2. Placed < NumCalls /\ FirstOpen = Placed + 1
      BY <1>2, FirstOpenIsNext DEF IInv, Prefix
    <3>3. Placed + 1 \in Calls
      BY <3>1, <3>2, NumCallsAssumption DEF Calls
    <3>4. ~Completed(Placed + 1)
      BY <3>1, <3>3 DEF IInv, Prefix
    <3> QED BY <3>1, <3>2, <3>3, <3>4
  <2>2. /\ main.pc = "sequential_step" /\ ~ReadyHere
        /\ calls[Placed + 1].status # "outcome_ready"
        /\ ~cancelled => main.executes
    BY <2>1 DEF IInv, Transitions, ReadyHere, GateShuts, Sequential, SequentialStep, Procedure
  <2>3. ~Settled(Placed + 1) /\ calls[Placed + 1].status \in Fresh
    BY <2>1, <2>2 DEF IInv, TypeOK, CallRecords, Settled, Completed, Fresh
  <2> QED BY <1>2, <2>1, <2>2, <2>3 DEF SequentialStep, Fresh
<1> QED BY <1>1, <1>2

LEMMA SequentialStepKeeps == IInv /\ SequentialStep => IInv'
<1> SUFFICES ASSUME IInv, SequentialStep PROVE IInv'
  OBVIOUS
<1>1. \A i \in Calls : task[i].pc = "idle"
  BY NoTask DEF SequentialStep, Procedure
<1>2. chain = <<>> /\ \A k \in 0..NumCalls : reading[k] = NoRead
  BY <1>1, NoChain DEF SequentialStep, Procedure
<1>3. CASE next # "tools" /\ main' = [main EXCEPT !.pc = "off"] /\ UNCHANGED <<task, chain, fault>>
  <2>1. main' = [pc |-> "off", executes |-> main.executes, at |-> main.at]
    BY <1>3, MainIs DEF IInv
  <2>2. Transitions' /\ GateShuts'
    <3>1. next' = next /\ UNCHANGED <<abort, gate, cancelled>>
      BY DEF SequentialStep, Procedure, durable
    <3> QED BY <1>3, <2>1, <3>1 DEF IInv, Transitions, GateShuts, Sequential, Parallel
  <2> QED BY <1>1, <1>3, <2>1, <2>2, MainIs, AloneKeeps
          DEF IInv, TypeOK, SequentialStep, Procedure
<1>4. CASE LET i == Placed + 1 IN
           /\ next = "tools" /\ i \in Calls /\ ~Settled(i)
           /\ \/ Start(i, First(i)) /\ main.executes
              \/ Start(i, "settle")
              \/ Start(i, "read_checkpoint") /\ calls[i].status = "effect_pending"
           /\ main' = [main EXCEPT !.pc = "await_call"]
           /\ UNCHANGED <<chain, fault>>
  <2> DEFINE i == Placed + 1
  <2>1. /\ i \in Calls /\ ~Settled(i) /\ UNCHANGED <<chain, fault>>
        /\ main' = [pc |-> "await_call", executes |-> main.executes, at |-> main.at]
        /\ main'.pc = "await_call" /\ main'.executes = main.executes /\ main'.at = main.at
    BY <1>4, MainIs DEF IInv
  <2>2. PICK pc \in Active :
          /\ Start(i, pc)
          /\ \/ pc = First(i) /\ main.executes
             \/ pc = "settle"
             \/ pc = "read_checkpoint" /\ calls[i].status = "effect_pending"
    BY <1>4, <2>1, FirstFits DEF Active, TaskPoints, StartingPoints
  <2>3. /\ task' \in [Calls -> [pc: TaskPoints, terminate: BOOLEAN]]
        /\ task'[i].pc = pc
        /\ \A j \in Calls \ {i} : task'[j] = task[j]
    BY <2>1, <2>2 DEF IInv, TypeOK, Start, Active
  <2>4. UNCHANGED <<durable, replayable, abort, runs, crashes, reading, gate>>
    BY DEF SequentialStep, Procedure
  <2>5. TypeOK'
    BY <2>1, <2>3, <2>4, MainIs DEF IInv, TypeOK, durable
  <2>6. InTurn'
    BY <1>2, <2>1 DEF InTurn
  <2>7. Transitions'
    BY <2>1, <2>4, DurableKept DEF IInv, Transitions, SequentialStep, Procedure
  <2>8. GateShuts'
    BY <2>1, <2>4 DEF IInv, GateShuts, Sequential, Parallel, SequentialStep, Procedure, durable
  <2>9. \A k \in 0..NumCalls : ReadIsCurrent(k)'
    BY <1>2, <2>4 DEF ReadIsCurrent
  <2>10. ASSUME NEW j \in Calls PROVE TaskAgrees(j)'
    <3>1. CASE j = i
      BY <2>1, <2>2, <2>3, <2>4, <3>1, FirstFits DEF TaskAgrees, Settled, durable
    <3>2. CASE j # i
      BY <1>1, <2>3, <3>2 DEF TaskAgrees
    <3> QED BY <3>1, <3>2
  <2>11. ASSUME NEW j \in Calls PROVE PhaseAllows(j)'
    BY <1>1, <2>1, <2>2, <2>3, <2>4, DurableKept DEF PhaseAllows, Active
  <2> QED BY <2>1, <2>4, <2>5, <2>6, <2>7, <2>8, <2>9, <2>10, <2>11, DurableKept DEF IInv
<1> HIDE DEF IInv
<1> QED BY <1>3, <1>4, SequentialStepIs

LEMMA JoinKeeps == IInv /\ Join => IInv'
<1> SUFFICES ASSUME IInv, Join PROVE IInv'
  OBVIOUS
<1>1. /\ main' = [pc |-> "draining", executes |-> main.executes, at |-> main.at]
      /\ main'.pc = "draining" /\ main'.executes = main.executes
      /\ main.pc = "joining" /\ fault = "none"
      /\ \A i \in Calls : task[i].pc \in {"idle", "done"}
      /\ UNCHANGED <<durable, replayable, abort, runs, crashes, task, reading, gate, fault>>
  BY MainIs DEF IInv, Join, Procedure
<1>2. chain = <<>> /\ \A k \in 0..NumCalls : reading[k] = NoRead
  BY <1>1, NoChain
<1>3. chain' \in Seq(0..NumCalls) /\ Len(chain') = 1 /\ chain'[1] = 0
  BY <1>2, ScheduleFirst DEF Join
<1>4. TypeOK'
  BY <1>1, <1>3, MainIs DEF IInv, TypeOK, durable
<1>5. InTurn'
  BY <1>1, <1>3 DEF InTurn
<1>6. Transitions' /\ GateShuts'
  BY <1>1 DEF IInv, Transitions, GateShuts, Sequential, Parallel, durable
<1>7. \A k \in 0..NumCalls : ReadIsCurrent(k)'
  BY <1>1, <1>2 DEF ReadIsCurrent
<1>8. \A i \in Calls : TaskAgrees(i)'
  BY <1>1 DEF IInv, TaskAgrees, Settled, durable
<1>9. \A i \in Calls : PhaseAllows(i)'
  BY <1>1, DurableKept DEF IInv, PhaseAllows
<1> QED BY <1>1, <1>4, <1>5, <1>6, <1>7, <1>8, <1>9, DurableKept DEF IInv

LEMMA ParallelStartKeeps == IInv /\ ParallelStart => IInv'
<1> SUFFICES ASSUME IInv, ParallelStart PROVE IInv'
  OBVIOUS
<1>1. /\ main.pc = "starting" /\ fault = "none"
      /\ UNCHANGED <<durable, replayable, abort, runs, crashes, reading, gate, chain, fault>>
      /\ main.at \in Nat \ {0} /\ main.at <= NumCalls + 1 /\ main.executes
  BY MainIs DEF IInv, ParallelStart, Procedure, Transitions, GateShuts, Parallel
<1>2. CASE /\ main.at \notin Calls /\ main' = [main EXCEPT !.pc = "joining"] /\ task' = task
  <2>1. /\ main' = [pc |-> "joining", executes |-> main.executes, at |-> main.at]
        /\ main'.pc = "joining" /\ main'.executes = main.executes
    BY <1>2, MainIs DEF IInv
  <2>2. \A i \in Calls : i < main.at
    BY <1>1, <1>2, NumCallsAssumption DEF Calls
  <2>3. TypeOK'
    BY <1>1, <1>2, <2>1, MainIs DEF IInv, TypeOK, durable
  <2>4. InTurn'
    BY <1>1, <1>2, <2>1, InChain DEF IInv, InTurn
  <2>5. Transitions' /\ GateShuts'
    BY <1>1, <2>1 DEF IInv, Transitions, GateShuts, Sequential, Parallel, durable
  <2>6. \A k \in 0..NumCalls : ReadIsCurrent(k)'
    BY <1>1 DEF IInv, ReadIsCurrent, Placed, durable
  <2>7. \A i \in Calls : TaskAgrees(i)'
    BY <1>1, <1>2, <2>1 DEF IInv, TaskAgrees, Settled, durable
  <2>8. \A i \in Calls : PhaseAllows(i)'
    BY <1>1, <1>2, <2>1, <2>2, DurableKept DEF IInv, PhaseAllows
  <2> QED BY <1>1, <2>3, <2>4, <2>5, <2>6, <2>7, <2>8, DurableKept DEF IInv
<1>3. CASE /\ main.at \in Calls /\ main' = [main EXCEPT !.at = @ + 1]
           /\ IF Settled(main.at) THEN task' = task ELSE Start(main.at, First(main.at))
  <2> DEFINE i == main.at
  <2>1. /\ main' = [pc |-> "starting", executes |-> main.executes, at |-> main.at + 1]
        /\ main'.pc = "starting" /\ main'.executes = main.executes /\ main'.at = main.at + 1
    BY <1>1, <1>3 DEF IInv, TypeOK
  <2>2. main.at + 1 \in 1..MaxTransitions /\ main.at + 1 <= NumCalls + 1
    BY <1>1, <1>3, NumCallsAssumption DEF Calls, MaxTransitions
  <2>3. task[i].pc = "idle"
    BY <1>1, <1>3 DEF IInv, PhaseAllows
  <2>4. /\ task' \in [Calls -> [pc: TaskPoints, terminate: BOOLEAN]]
        /\ \A j \in Calls \ {i} : task'[j] = task[j]
        /\ IF Settled(i) THEN task'[i] = task[i] ELSE task'[i].pc = First(i)
    <3>1. ~Settled(i) => First(i) \in TaskPoints
      BY <1>3, FirstFits DEF Active
    <3>2. CASE Settled(i)
      BY <1>3, <3>2 DEF IInv, TypeOK
    <3>3. CASE ~Settled(i)
      <4>1. task' = [task EXCEPT ![i] = [pc |-> First(i), terminate |-> FALSE]]
        BY <1>3, <3>3 DEF Start
      <4> QED BY <1>3, <3>1, <3>3, <4>1 DEF IInv, TypeOK
    <3> QED BY <3>2, <3>3
  <2>5. TypeOK'
    BY <1>1, <2>1, <2>2, <2>4, MainIs DEF IInv, TypeOK, durable
  <2>6. InTurn'
    <3>1. \A n \in 1..Len(chain) : chain[n] # 0 /\ task[chain[n]].pc = "join" /\ chain[n] # i
      BY <1>1, <2>3 DEF IInv, InTurn
    <3>2. \A n \in 1..Len(chain) : chain[n] \in Calls \ {i}
      BY <3>1, InChain, NumCallsAssumption DEF IInv, Calls
    <3> QED BY <1>1, <2>4, <3>1, <3>2 DEF IInv, InTurn
  <2>7. Transitions'
    BY <2>1, <2>2 DEF Transitions
  <2>8. GateShuts'
    BY <1>1, <2>1 DEF IInv, GateShuts, Sequential, Parallel, durable
  <2>9. \A k \in 0..NumCalls : ReadIsCurrent(k)'
    BY <1>1 DEF IInv, ReadIsCurrent, Placed, durable
  <2>10. ASSUME NEW j \in Calls PROVE TaskAgrees(j)'
    <3>1. CASE j = i /\ ~Settled(i)
      BY <1>1, <1>3, <2>1, <2>4, <3>1, FirstFits DEF TaskAgrees, Settled, durable
    <3>2. CASE j # i \/ Settled(i)
      BY <1>1, <1>3, <2>1, <2>4, <3>2 DEF IInv, TaskAgrees, Settled, durable
    <3> QED BY <3>1, <3>2
  <2>11. ASSUME NEW j \in Calls PROVE PhaseAllows(j)'
    <3>1. CASE j = i
      <4>1. Settled(i) \/ First(i) # "idle"
        BY <1>3, FirstFits DEF Active
      <4> QED BY <1>1, <1>3, <2>1, <2>3, <2>4, <3>1, <4>1, DurableKept DEF PhaseAllows
    <3>2. CASE j # i
      <4>1. j < main.at + 1 <=> j < main.at
        BY <1>1, <3>2 DEF Calls
      <4> QED BY <1>1, <2>1, <2>4, <3>2, <4>1, DurableKept DEF IInv, PhaseAllows
    <3> QED BY <3>1, <3>2
  <2> QED BY <1>1, <2>5, <2>6, <2>7, <2>8, <2>9, <2>10, <2>11, DurableKept DEF IInv
<1> QED BY <1>2, <1>3 DEF ParallelStart

-----------------------------------------------------------------------------
(* Placement. *)

\* The materialization in turn is the procedure's, outside any task, or that of
\* a parallel task that has joined.
LEMMA HeadIs ==
    ASSUME IInv, NEW k \in 0..NumCalls, MayMaterialize(k)
    PROVE  /\ k = 0 => /\ main.pc \in {"recover", "sequential", "draining"}
                       /\ \A i \in Calls : task[i].pc \in {"idle", "done"}
           /\ k # 0 => /\ k \in Calls /\ task[k].pc = "join" /\ Settled(k)
                       /\ main.pc \in {"starting", "joining"}
<1>1. 1 \in 1..Len(chain) /\ chain[1] = k
  BY ChainHead DEF IInv, MayMaterialize
<1>2. CASE k = 0
  <2>1. main.pc \in {"recover", "sequential", "draining"}
    BY <1>1, <1>2 DEF IInv, InTurn
  <2> QED BY <1>2, <2>1 DEF IInv, PhaseAllows
<1>3. CASE k # 0
  <2>1. k \in Calls /\ task[k].pc = "join"
    BY <1>1, <1>3, NumCallsAssumption DEF IInv, InTurn, Calls
  <2> QED BY <1>3, <2>1 DEF IInv, PhaseAllows, TaskAgrees
<1> QED BY <1>2, <1>3

\* Nobody else has read a run.
LEMMA OnlyHeadReads ==
    ASSUME IInv, NEW k \in 0..NumCalls, MayMaterialize(k), NEW other \in 0..NumCalls, other # k
    PROVE  reading[other] = NoRead
  BY DEF IInv, ReadIsCurrent, MayMaterialize

LEMMA MaterializedIs ==
    ASSUME IInv, NEW k \in 0..NumCalls, MayMaterialize(k), Materialized(k)
    PROVE  /\ chain' \in Seq(0..NumCalls) /\ InTurn'
           /\ \A other \in 0..NumCalls : reading'[other] = NoRead
           /\ reading' \in [0..NumCalls -> [first: 1..NumCalls + 1, last: 0..NumCalls]]
           /\ main' = [pc |-> main'.pc, executes |-> main.executes, at |-> main.at]
           /\ main'.executes = main.executes /\ main'.at = main.at
           /\ k = 0 => /\ task' = task
                       /\ \/ main.pc = "recover" /\ main'.pc = "choose"
                          \/ main.pc = "sequential" /\ main'.pc = "sequential_step"
                          \/ main.pc = "draining" /\ main'.pc = "off"
           /\ k # 0 => /\ main' = main /\ task'[k].pc = "done"
                       /\ \A i \in Calls \ {k} : task'[i] = task[i]
           /\ task' \in [Calls -> [pc: TaskPoints, terminate: BOOLEAN]]
<1>1. /\ Len(chain) \in Nat /\ 1 \in 1..Len(chain) /\ chain[1] = k /\ chain # <<>>
      /\ chain \in Seq(0..NumCalls)
  BY ChainHead DEF IInv, MayMaterialize, TypeOK
<1>2. /\ chain' \in Seq(0..NumCalls) /\ Len(chain') = Len(chain) - 1
      /\ \A n \in 1..Len(chain') : chain'[n] = chain[n + 1]
  <2>1. chain' = Tail(chain)
    BY DEF Materialized
  <2> QED BY <1>1, <2>1, HeadTailProperties
<1>3. \A n \in 1..Len(chain') : n + 1 \in 1..Len(chain) /\ chain'[n] # k
  <2>1. \A n \in 1..Len(chain') : n + 1 \in 1..Len(chain) /\ n + 1 # 1
    BY <1>1, <1>2
  <2> QED BY <1>1, <1>2, <2>1 DEF IInv, InTurn
<1>4. \A other \in 0..NumCalls : reading'[other] = NoRead
  BY OnlyHeadReads DEF IInv, TypeOK, Materialized
<1>5. reading' \in [0..NumCalls -> [first: 1..NumCalls + 1, last: 0..NumCalls]]
  BY NumCallsAssumption DEF IInv, TypeOK, Materialized, NoRead
<1>6. CASE k = 0
  <2>1. main' = [main EXCEPT !.pc = AfterMaterialization] /\ task' = task
    BY <1>6 DEF Materialized
  <2>2. main' = [pc |-> AfterMaterialization, executes |-> main.executes, at |-> main.at]
    BY <2>1, MainIs DEF IInv
  <2>3. \/ main.pc = "recover" /\ main'.pc = "choose"
        \/ main.pc = "sequential" /\ main'.pc = "sequential_step"
        \/ main.pc = "draining" /\ main'.pc = "off"
    BY <1>6, <2>2, HeadIs DEF AfterMaterialization
  <2>4. InTurn'
    BY <1>2, <1>3, <1>6, <2>1 DEF IInv, InTurn
  <2> QED BY <1>2, <1>4, <1>5, <1>6, <2>1, <2>2, <2>3, <2>4 DEF IInv, TypeOK
<1>7. CASE k # 0
  <2>1. task' = [task EXCEPT ![k].pc = "done"] /\ main' = main /\ k \in Calls
    BY <1>7, HeadIs DEF Materialized
  <2>2. /\ task' \in [Calls -> [pc: TaskPoints, terminate: BOOLEAN]]
        /\ task'[k].pc = "done" /\ \A i \in Calls \ {k} : task'[i] = task[i]
    BY <2>1 DEF IInv, TypeOK, TaskPoints
  <2>3. \A n \in 1..Len(chain') : chain'[n] # 0 => chain'[n] \in Calls \ {k}
    BY <1>2, <1>3, InChain, NumCallsAssumption DEF IInv, Calls
  <2>4. InTurn'
    BY <1>2, <1>3, <2>1, <2>2, <2>3 DEF IInv, InTurn
  <2> QED BY <1>2, <1>4, <1>5, <1>7, <2>1, <2>2, <2>4, MainIs DEF IInv
<1> QED BY <1>6, <1>7

\* What a materialization leaves behind, placed or not: Settled calls stay so,
\* and the procedure goes on only from a state without a result to place.
LEMMA AfterMaterializing ==
    ASSUME IInv, NEW k \in 0..NumCalls, MayMaterialize(k), Materialized(k),
           UNCHANGED <<cancelled, execution, replayable, gate, abort, fault, runs, crashes, partial>>,
           calls' \in [Calls -> CallRecords],
           \A i \in Calls : \/ calls'[i] = calls[i]
                            \/ /\ Settled(i) /\ Settled(i)'
                               /\ calls'[i].replay = calls[i].replay,
           branch' \in Seq(Calls), next' \in {"tools", "may_finish", "need_assistant"},
           Prefix', k = 0 => ~ReadyHere',
           main.pc = "sequential" /\ k = 0 => main.at <= Placed' + 1
    PROVE  IInv'
<1> USE MaterializedIs
<1>1. TypeOK'
  <2>1. main'.pc \in {"off", "enter", "recover", "choose", "sequential", "sequential_step",
                      "await_call", "next_transition", "starting", "joining", "draining"}
    BY HeadIs DEF IInv, TypeOK
  <2> QED BY <2>1, MainIs DEF IInv, TypeOK
<1>2. \A i \in Calls : Settled(i)' <=> Settled(i)
  BY DEF Settled
<1>7. k = 0 /\ main.pc = "draining" => next' # "tools"
  <2> SUFFICES ASSUME k = 0, main.pc = "draining", next' = "tools" PROVE FALSE
    OBVIOUS
  <2>1. Placed' \in Nat /\ Placed' < NumCalls
    BY DEF Prefix, Placed
  <2>2. PICK n \in Calls : n = Placed' + 1
    BY <2>1, NumCallsAssumption DEF Calls
  <2>3. \A i \in Calls : Settled(i)'
    BY <1>2 DEF IInv, PhaseAllows, TaskAgrees
  <2>4. ~Completed(n)'
    BY <2>1, <2>2 DEF Prefix
  <2>5. calls'[n].status # "outcome_ready"
    BY <2>1, <2>2 DEF ReadyHere
  <2> QED BY <2>2, <2>3, <2>4, <2>5 DEF Settled, Completed
<1>3. Transitions'
  BY <1>7, HeadIs DEF IInv, Transitions
<1>4. GateShuts'
  BY HeadIs DEF IInv, GateShuts, Sequential, Parallel
<1>5. \A other \in 0..NumCalls : ReadIsCurrent(other)'
  BY DEF ReadIsCurrent
<1>6. ASSUME NEW i \in Calls PROVE TaskAgrees(i)'
  <2>1. CASE k = 0 \/ i # k
    BY <1>2, <2>1 DEF IInv, TaskAgrees, Settled
  <2>2. CASE k # 0 /\ i = k
    BY <1>2, <2>2, HeadIs DEF TaskAgrees
  <2> QED BY <2>1, <2>2
<1>8. ASSUME NEW i \in Calls PROVE PhaseAllows(i)'
  <2>1. CASE k = 0
    BY <1>2, <1>7, <2>1, HeadIs DEF IInv, PhaseAllows
  <2>2. CASE k # 0
    BY <1>2, <2>2, HeadIs DEF IInv, PhaseAllows
  <2> QED BY <2>1, <2>2
<1>9. NeverRepeatedUnlessSafe'
  BY DEF IInv, NeverRepeatedUnlessSafe, Settled
<1>10. CheckpointFromLastRun'
  BY DEF IInv, CheckpointFromLastRun
<1> QED BY <1>1, <1>3, <1>4, <1>5, <1>6, <1>8, <1>9, <1>10 DEF IInv

LEMMA ReadPlacementKeeps ==
    ASSUME IInv, NEW k \in 0..NumCalls, ReadPlacement(k)
    PROVE  IInv'
<1>1. /\ MayMaterialize(k) /\ fault = "none"
      /\ UNCHANGED <<durable, replayable, gate, abort, fault, runs, crashes>>
  BY DEF IInv, ReadPlacement
<1>2. FirstOpen = Placed + 1 /\ Placed \in Nat /\ Placed <= NumCalls
  BY FirstOpenIsNext DEF IInv, TypeOK, Placed, Prefix
<1>3. next = "tools" /\ FirstOpen \in Calls /\ calls[FirstOpen].status = "outcome_ready" <=> ReadyHere
  BY <1>2, NumCallsAssumption DEF IInv, Prefix, ReadyHere, Calls
<1>4. CASE ReadyHere
  <2>1. ReadyRun(k) /\ UNCHANGED <<main, task, chain>>
    BY <1>3, <1>4 DEF ReadPlacement
  <2>2. PICK last \in Calls :
          /\ Placed + 1 <= last
          /\ \A i \in Placed + 1..last : calls[i].status = "outcome_ready"
          /\ last < NumCalls => calls[last + 1].status # "outcome_ready"
          /\ reading' = [reading EXCEPT ![k] = [first |-> Placed + 1, last |-> last]]
    BY <1>2, <2>1 DEF ReadyRun
  <2>3. /\ reading' \in [0..NumCalls -> [first: 1..NumCalls + 1, last: 0..NumCalls]]
        /\ reading'[k] = [first |-> Placed + 1, last |-> last]
        /\ \A other \in 0..NumCalls \ {k} : reading'[other] = NoRead
    <3>1. Placed + 1 \in 1..NumCalls + 1 /\ last \in 0..NumCalls
      BY <1>2, NumCallsAssumption DEF Calls
    <3> QED BY <2>2, <3>1, OnlyHeadReads, <1>1 DEF IInv, TypeOK
  <2>4. TypeOK'
    BY <1>1, <2>1, <2>3 DEF IInv, TypeOK, durable
  <2>5. InTurn' /\ Transitions' /\ GateShuts'
    BY <1>1, <2>1, DurableKept DEF IInv, InTurn, Transitions, GateShuts, durable
  <2>6. ASSUME NEW other \in 0..NumCalls PROVE ReadIsCurrent(other)'
    BY <1>1, <2>1, <2>2, <2>3 DEF ReadIsCurrent, MayMaterialize, Placed, durable
  <2>7. \A i \in Calls : TaskAgrees(i)'
    BY <1>1, <2>1 DEF IInv, TaskAgrees, Settled, durable
  <2>8. \A i \in Calls : PhaseAllows(i)'
    BY <1>1, <2>1 DEF IInv, PhaseAllows, Settled, Placed, durable
  <2> QED BY <1>1, <2>4, <2>5, <2>6, <2>7, <2>8, DurableKept DEF IInv
<1>5. CASE ~ReadyHere
  <2>1. Materialized(k)
    BY <1>3, <1>5 DEF ReadPlacement
  <2>2. Prefix' /\ ~ReadyHere' /\ Placed' = Placed
    BY <1>1, <1>5, DurableKept
  <2>3. main.pc = "sequential" => main.at <= Placed + 1
    BY <1>5 DEF IInv, Transitions
  <2> QED BY <1>1, <2>1, <2>2, <2>3, AfterMaterializing DEF IInv, TypeOK, durable
<1> QED BY <1>4, <1>5

\* The run that was read, placed as a whole.
LEMMA PlacedRun ==
    ASSUME IInv, NEW k \in 0..NumCalls, CommitPlacement(k)
    PROVE  LET last == reading[k].last IN
           /\ last \in Calls /\ Placed < last /\ Placed' = last
           /\ branch' = branch \o [j \in 1..(last - Placed) |-> Placed + j]
           /\ branch' = [n \in 1..last |-> n]
           /\ calls' \in [Calls -> CallRecords]
           /\ \A i \in Calls :
                  IF i \in Placed + 1..last
                  THEN /\ calls[i].status = "outcome_ready" /\ calls'[i].status = "completed"
                       /\ calls'[i].replay = calls[i].replay
                  ELSE calls'[i] = calls[i]
           /\ next' \in {"tools", "may_finish", "need_assistant"}
           /\ next' = "tools" <=> \E i \in Calls : calls'[i].status # "completed"
<1> DEFINE last == reading[k].last
<1>1. /\ reading[k].first = Placed + 1 /\ Placed + 1 <= last /\ last \in Calls
      /\ \A i \in Placed + 1..last : calls[i].status = "outcome_ready"
  <2>1. reading[k] # NoRead /\ reading[k] \in [first: 1..NumCalls + 1, last: 0..NumCalls]
    BY DEF IInv, TypeOK, CommitPlacement
  <2>2. /\ reading[k].first = Placed + 1 /\ Placed + 1 <= last
        /\ \A i \in Placed + 1..last : calls[i].status = "outcome_ready"
    BY <2>1 DEF IInv, ReadIsCurrent
  <2>3. last \in Calls
    BY <2>1, <2>2, NumCallsAssumption DEF Calls
  <2> QED BY <2>2, <2>3
<1>2. Placed \in Nat /\ last \in Nat /\ Placed < last
  <2>1. Placed \in Nat
    BY DEF IInv, TypeOK, Placed
  <2>2. last \in Nat
    BY <1>1, NumCallsAssumption DEF Calls
  <2> QED BY <1>1, <2>1, <2>2
<1>3. branch' = branch \o [j \in 1..(last - (Placed + 1) + 1) |-> Placed + 1 + j - 1]
  BY <1>1 DEF CommitPlacement
<1>4. [j \in 1..(last - (Placed + 1) + 1) |-> Placed + 1 + j - 1]
        = [j \in 1..(last - Placed) |-> Placed + j]
  BY <1>2
<1>5. branch' = [n \in 1..last |-> n]
  BY <1>2, <1>3, <1>4, Continued DEF IInv, Prefix
<1>6. Placed' = last
  <2>1. Len([n \in 1..last |-> n]) = last
    BY <1>2
  <2> QED BY <1>5, <2>1 DEF Placed
<1> DEFINE placed == [i \in Calls |->
               IF i \in Placed + 1..last THEN [calls[i] EXCEPT !.status = "completed"]
               ELSE calls[i]]
<1>7. calls' = placed
  BY <1>1 DEF CommitPlacement
<1>8. \A i \in Calls :
        /\ calls[i] \in CallRecords
        /\ [calls[i] EXCEPT !.status = "completed"] \in CallRecords
        /\ [calls[i] EXCEPT !.status = "completed"].status = "completed"
        /\ [calls[i] EXCEPT !.status = "completed"].replay = calls[i].replay
  BY DEF IInv, TypeOK, CallRecords
<1>9. calls' \in [Calls -> CallRecords]
  BY <1>7, <1>8
<1>10. \A i \in Calls :
          IF i \in Placed + 1..last
          THEN /\ calls[i].status = "outcome_ready" /\ calls'[i].status = "completed"
               /\ calls'[i].replay = calls[i].replay
          ELSE calls'[i] = calls[i]
  BY <1>1, <1>7, <1>8
<1>11. next' = IF \E i \in Calls : calls'[i].status # "completed" THEN "tools"
               ELSE IF \A i \in Calls : calls'[i].terminate THEN "may_finish"
               ELSE "need_assistant"
  BY <1>1, <1>7 DEF CommitPlacement
<1> HIDE DEF placed
<1> QED BY <1>1, <1>2, <1>3, <1>4, <1>5, <1>6, <1>9, <1>10, <1>11

LEMMA CommitPlacementKeeps ==
    ASSUME IInv, NEW k \in 0..NumCalls, CommitPlacement(k)
    PROVE  IInv'
<1> DEFINE last == reading[k].last
<1>1. /\ MayMaterialize(k) /\ Materialized(k) /\ reading[k] # NoRead
      /\ UNCHANGED <<partial, cancelled, execution, replayable, gate, abort, fault, runs, crashes>>
  BY DEF CommitPlacement
<1>2. Placed \in Nat /\ last \in Calls /\ last \in Nat /\ last <= NumCalls /\ Placed < last
  <2>1. Placed \in Nat
    BY DEF IInv, TypeOK, Placed
  <2>2. last \in Calls /\ Placed < last
    BY PlacedRun
  <2>3. last \in Nat /\ last <= NumCalls
    BY <2>2, NumCallsAssumption DEF Calls
  <2> QED BY <2>1, <2>2, <2>3
<1>3. \A i \in Calls : Completed(i)' <=> i <= last
  <2> SUFFICES ASSUME NEW i \in Calls PROVE Completed(i)' <=> i <= last
    OBVIOUS
  <2>1. CASE i \in Placed + 1..last
    BY <2>1, <1>2, PlacedRun DEF Completed
  <2>2. CASE i \notin Placed + 1..last
    <3>1. Completed(i)' <=> Completed(i)
      BY <2>2, PlacedRun DEF Completed
    <3>2. Completed(i) <=> i <= Placed
      BY DEF IInv, Prefix
    <3>3. i <= Placed <=> i <= last
      BY <1>2, <2>2, NumCallsAssumption DEF Calls
    <3> QED BY <3>1, <3>2, <3>3
  <2> QED BY <2>1, <2>2
<1>4. next' = "tools" <=> last < NumCalls
  <2>1. next' = "tools" <=> \E i \in Calls : ~(i <= last)
    BY <1>3, PlacedRun DEF Completed
  <2> QED BY <1>2, <2>1, NumCallsAssumption DEF Calls
<1>5. Placed' = last /\ branch' = [n \in 1..last |-> n]
  BY PlacedRun
<1>6. Prefix'
  BY <1>2, <1>3, <1>4, <1>5 DEF Prefix
<1>7. branch' \in Seq(Calls)
  <2>1. \A n \in 1..last : n \in Calls
    BY <1>2, NumCallsAssumption DEF Calls
  <2> QED BY <1>2, <1>5, <2>1
<1>8. \A i \in Calls : \/ calls'[i] = calls[i]
                       \/ Settled(i) /\ Settled(i)' /\ calls'[i].replay = calls[i].replay
  BY PlacedRun DEF Settled
<1>9. k = 0 => ~ReadyHere'
  <2> SUFFICES ASSUME k = 0, last < NumCalls PROVE calls'[last + 1].status # "outcome_ready"
    BY <1>5 DEF ReadyHere
  <2>1. last + 1 \in Calls /\ last + 1 \notin Placed + 1..last
    BY <1>2, NumCallsAssumption DEF Calls
  <2>2. calls[last + 1].status # "outcome_ready"
    BY <1>1 DEF IInv, ReadIsCurrent
  <2> QED BY <2>1, <2>2, PlacedRun
<1>10. main.pc = "sequential" => main.at <= last + 1
  <2>1. main.pc = "sequential" => main.at <= Placed + 2
    BY <1>2, MainIs DEF IInv, Transitions
  <2> QED BY <1>2, <2>1, MainIs DEF IInv
<1>11. calls' \in [Calls -> CallRecords] /\ next' \in {"tools", "may_finish", "need_assistant"}
  BY PlacedRun
<1> HIDE DEF last
<1> QED BY <1>1, <1>5, <1>6, <1>7, <1>8, <1>9, <1>10, <1>11, AfterMaterializing

-----------------------------------------------------------------------------
(* Cancellation, crashes, and the theorems. *)

LEMMA AbortKeeps == IInv /\ (RequestAbort \/ CommitAbort) => IInv'
<1> SUFFICES ASSUME IInv, RequestAbort \/ CommitAbort PROVE IInv'
  OBVIOUS
<1>1. /\ UNCHANGED <<calls, partial, branch, next, execution, replayable, pass, fault, runs, crashes>>
      /\ cancelled' \in BOOLEAN
      /\ gate' \in {"open", "aborting", "released"} /\ abort' \in {"none", "captured", "uncaptured"}
  BY DEF IInv, TypeOK, RequestAbort, CommitAbort, GateAfterAbort, durable
<1> USE DEF pass
<1>2. TypeOK'
  BY <1>1 DEF IInv, TypeOK
<1>3. Prefix' /\ InTurn' /\ Transitions'
  BY <1>1 DEF IInv, Prefix, InTurn, Transitions, Completed, ReadyHere, Placed
<1>4. GateShuts'
  <2>1. CASE RequestAbort
    BY <1>1, <2>1 DEF IInv, GateShuts, Sequential, Parallel, RequestAbort, durable
  <2>2. CASE CommitAbort
    BY <1>1, <2>2 DEF IInv, TypeOK, GateShuts, Sequential, Parallel, CommitAbort, GateAfterAbort
  <2> QED BY <2>1, <2>2
<1>5. \A k \in 0..NumCalls : ReadIsCurrent(k)'
  BY <1>1 DEF IInv, ReadIsCurrent, Placed
<1>6. \A i \in Calls : TaskAgrees(i)' /\ PhaseAllows(i)'
  BY <1>1 DEF IInv, TaskAgrees, PhaseAllows, Settled, Placed
<1>7. NeverRepeatedUnlessSafe' /\ CheckpointFromLastRun'
  BY <1>1 DEF IInv, NeverRepeatedUnlessSafe, CheckpointFromLastRun
<1> QED BY <1>1, <1>2, <1>3, <1>4, <1>5, <1>6, <1>7 DEF IInv

\* A new pass satisfies whatever the durable state does not decide.
LEMMA NewPassFits ==
    ASSUME NewPass
    PROVE  /\ main'.pc = "off" /\ main' = [pc |-> "off", executes |-> FALSE, at |-> 1]
           /\ \A i \in Calls : task'[i].pc = "idle"
           /\ task' \in [Calls -> [pc: TaskPoints, terminate: BOOLEAN]]
           /\ chain' = <<>> /\ chain' \in Seq(0..NumCalls)
           /\ \A k \in 0..NumCalls : reading'[k] = NoRead
           /\ reading' \in [0..NumCalls -> [first: 1..NumCalls + 1, last: 0..NumCalls]]
           /\ 1 \in 1..MaxTransitions
  BY NumCallsAssumption DEF NewPass, IdleTask, NoRead, TaskPoints, StartingPoints, MaxTransitions

LEMMA CrashKeeps == IInv /\ Crash => IInv'
<1> SUFFICES ASSUME IInv, Crash PROVE IInv'
  OBVIOUS
<1>1. /\ UNCHANGED <<durable, fault, runs>> /\ NewPass /\ gate' = "open" /\ abort' = "none"
      /\ replayable' \in SUBSET Calls /\ crashes' \in 0..MaxCrashes
  BY MaxCrashesAssumption DEF IInv, TypeOK, Crash
<1>2. TypeOK'
  <2>1. main' \in [pc: {"off", "enter", "recover", "choose", "sequential", "sequential_step",
                       "await_call", "next_transition", "starting", "joining", "draining"},
                  executes: BOOLEAN, at: 1..MaxTransitions]
    <3>1. main' = [pc |-> "off", executes |-> FALSE, at |-> 1] /\ 1 \in 1..MaxTransitions
      BY <1>1, NewPassFits
    <3> QED BY <3>1
  <2>2. UNCHANGED <<calls, partial, branch, next, cancelled, execution, fault, runs>>
    BY <1>1 DEF durable
  <2> QED BY <1>1, <2>1, <2>2, NewPassFits DEF IInv, TypeOK
<1>3. InTurn' /\ Transitions' /\ GateShuts'
  BY <1>1, NewPassFits DEF InTurn, Transitions, GateShuts, Sequential, Parallel
<1>4. \A k \in 0..NumCalls : ReadIsCurrent(k)'
  BY <1>1, NewPassFits DEF ReadIsCurrent
<1>5. \A i \in Calls : TaskAgrees(i)' /\ PhaseAllows(i)'
  BY <1>1, NewPassFits DEF TaskAgrees, PhaseAllows
<1> QED BY <1>1, <1>2, <1>3, <1>4, <1>5, DurableKept DEF IInv

LEMMA InitFits == Init => IInv
<1> SUFFICES ASSUME Init PROVE IInv
  OBVIOUS
<1>1. Placed = 0
  BY DEF Init, Placed
<1>2. TypeOK
  <2> USE DEF Init
  <2>1. calls \in [Calls -> CallRecords] /\ partial \in [Calls -> Nat] /\ runs \in [Calls -> Nat]
    BY DEF CallRecords, Planned
  <2>2. branch \in Seq(Calls) /\ chain \in Seq(0..NumCalls)
    BY EmptySeq
  <2>3. 1 \in 1..MaxTransitions
    BY NumCallsAssumption DEF MaxTransitions
  <2>4. main \in [pc: {"off", "enter", "recover", "choose", "sequential", "sequential_step",
                      "await_call", "next_transition", "starting", "joining", "draining"},
                 executes: BOOLEAN, at: 1..MaxTransitions]
    BY <2>3
  <2>5. task \in [Calls -> [pc: TaskPoints, terminate: BOOLEAN]]
    BY DEF IdleTask, TaskPoints
  <2>6. reading \in [0..NumCalls -> [first: 1..NumCalls + 1, last: 0..NumCalls]]
    BY NumCallsAssumption DEF NoRead
  <2>7. crashes \in 0..MaxCrashes
    BY MaxCrashesAssumption
  <2>8. /\ next \in {"tools", "may_finish", "need_assistant"}
        /\ cancelled \in BOOLEAN /\ execution \in Executions /\ replayable \in SUBSET Calls
        /\ gate \in {"open", "aborting", "released"}
        /\ abort \in {"none", "captured", "uncaptured"}
        /\ fault \in {"none", "open_after_completion", "not_materialized",
                     "no_execution_context", "too_many_transitions"}
    OBVIOUS
  <2> HIDE DEF Init
  <2> QED BY <2>1, <2>2, <2>4, <2>5, <2>6, <2>7, <2>8 DEF TypeOK
<1>3. Prefix
  BY <1>1, NumCallsAssumption DEF Init, Prefix, Completed, Planned, Calls
<1>4. InTurn /\ Transitions /\ GateShuts
  BY DEF Init, InTurn, Transitions, GateShuts, Sequential, Parallel
<1>5. \A k \in 0..NumCalls : ReadIsCurrent(k)
  BY DEF Init, ReadIsCurrent
<1>6. \A i \in Calls : TaskAgrees(i) /\ PhaseAllows(i)
  BY DEF Init, TaskAgrees, PhaseAllows, IdleTask
<1>7. NeverRepeatedUnlessSafe /\ CheckpointFromLastRun
  BY DEF Init, NeverRepeatedUnlessSafe, CheckpointFromLastRun
<1> QED BY <1>2, <1>3, <1>4, <1>5, <1>6, <1>7 DEF IInv, Init

LEMMA StutterKeeps == IInv /\ UNCHANGED vars => IInv'
  BY DEF vars, IInv, TypeOK, Prefix, InTurn, Transitions, GateShuts, ReadIsCurrent, TaskAgrees,
     PhaseAllows, NeverRepeatedUnlessSafe, CheckpointFromLastRun, ReadyHere, Placed, Settled,
     Completed

LEMMA TaskStepKeeps ==
    ASSUME IInv, NEW i \in Calls, TaskStep(i)
    PROVE  IInv'
  BY QuietActionsKeep, PublishToolIntentKeeps, ExecuteKeeps, ReplayKeeps, PublishToolOutcomeKeeps
     DEF TaskStep

LEMMA NextKeeps == IInv /\ [Next]_vars => IInv'
<1> SUFFICES ASSUME IInv, [Next]_vars PROVE IInv'
  OBVIOUS
<1>1. ASSUME PassStep PROVE IInv'
  BY <1>1, ReadSourceKeeps, ChooseKeeps, SequentialStepKeeps, NextTransitionKeeps,
     ParallelStartKeeps, JoinKeeps, ReadPlacementKeeps, CommitPlacementKeeps, TaskStepKeeps
     DEF PassStep
<1> QED BY <1>1, AbortKeeps, BeginKeeps, ProgressKeeps, CrashKeeps, StutterKeeps DEF Next

LEMMA Inductive == Spec => []IInv
  BY InitFits, NextKeeps, PTL DEF Spec

\* The state is well typed, and the sequential loop's counter within its bound.
THEOREM TypeCorrect == Spec => []TypeOK
<1>1. IInv => TypeOK
  BY DEF IInv
<1> QED BY <1>1, Inductive, PTL

\* Each result enters the branch once and in source order, however the tasks
\* and materializations of a batch of any size interleave.
THEOREM ResultsInOrder == Spec => []PlacedInOrder
<1>1. IInv => PlacedInOrder
  BY DEF IInv, Prefix, Placed, PlacedInOrder
<1> QED BY <1>1, Inductive, PTL

\* A tool that is not safe to replay is executed at most once, through any
\* number of crashes.
THEOREM NoUnsafeReplay == Spec => []NeverRepeatedUnlessSafe
<1>1. IInv => NeverRepeatedUnlessSafe
  BY DEF IInv
<1> QED BY <1>1, Inductive, PTL

\* The partial output of an interrupted result is that of the last execution.
THEOREM CheckpointIsOfLastRun == Spec => []CheckpointFromLastRun
<1>1. IInv => CheckpointFromLastRun
  BY DEF IInv
<1> QED BY <1>1, Inductive, PTL

\* None of the procedures' assertions fails; the bound of the sequential loop
\* in particular is never reached.
THEOREM AssertionsHold == Spec => []NoInvariantFault
<1>1. IInv => NoInvariantFault
  BY DEF IInv, NoInvariantFault
<1> QED BY <1>1, Inductive, PTL

\* No tool is executed once the cancellation is durable: the only step that
\* executes one asks the gate, which is shut by then.
THEOREM NothingExecutedAfterCancel == Spec => NoExecutionAfterCancel
<1>1. IInv /\ [Next]_vars => [runs' # runs => ~cancelled]_vars
  <2> SUFFICES ASSUME IInv, Next, runs' # runs PROVE ~cancelled
    BY DEF vars
  <2>1. PICK i \in Calls : Execute(i)
    BY DEF Next, RequestAbort, CommitAbort, Begin, PassStep, ReadSource, Choose, SequentialStep,
       NextTransition, ParallelStart, Join, ReadPlacement, CommitPlacement, TaskStep, Prepare,
       BeforeTool, PublishToolIntent, Cancelled, ToolEnds, AfterTool, Replay, ReadCheckpoint,
       PublishToolOutcome, Progress, Crash, Procedure
  <2>2. task[i].pc = "admit" /\ gate = "open"
    BY <2>1 DEF Execute, Tasking, Admits, durable
  <2>3. main.executes /\ main.pc \in {"await_call", "starting", "joining"}
    BY <2>2 DEF IInv, TaskAgrees, PhaseAllows
  <2> QED BY <2>2, <2>3 DEF IInv, GateShuts, Sequential, Parallel
<1> QED BY <1>1, Inductive, PTL DEF Spec, NoExecutionAfterCancel

\* runTools returns only from a finished batch, so that the drive loop which
\* called it makes progress.
THEOREM ReturnsOnlyFinished == Spec => ReturnsFinished
<1>1. IInv /\ IInv' /\ [Next]_vars =>
        [main.pc # "off" /\ main'.pc = "off" /\ crashes' = crashes => next' # "tools"]_vars
  <2> SUFFICES ASSUME IInv, IInv', Next, main.pc # "off", main'.pc = "off", crashes' = crashes
               PROVE  next' # "tools"
    BY DEF vars
  <2>1. CASE SequentialStep
    <3>1. main.pc = "sequential_step" /\ next' = next
      BY <2>1 DEF SequentialStep, Procedure, durable
    <3> QED BY <2>1, <3>1, SequentialStepIs, MainIs DEF IInv
  <2>2. CASE Choose
    <3>1. next' = next
      BY <2>2 DEF Choose, Procedure, durable
    <3>2. main' # [main EXCEPT !.pc = "sequential", !.executes = ~cancelled, !.at = 1]
      BY DEF IInv, TypeOK
    <3>3. main' # [main EXCEPT !.pc = "starting", !.executes = TRUE, !.at = 1]
      BY DEF IInv, TypeOK
    <3> QED BY <2>2, <3>1, <3>2, <3>3 DEF Choose
  <2>3. ASSUME NEW k \in 0..NumCalls, ReadPlacement(k) \/ CommitPlacement(k)
        PROVE  next' # "tools"
    <3>1. Materialized(k) /\ MayMaterialize(k)
      BY <2>3 DEF ReadPlacement, CommitPlacement, ReadyRun
    <3>2. main.pc = "draining" /\ main'.executes = main.executes
      BY <3>1, MaterializedIs
    <3> QED BY <3>2 DEF IInv, Transitions
  <2>4. main' # main
    OBVIOUS
  <2>5. ASSUME NEW i \in Calls, TaskStep(i) \/ Progress(i) PROVE FALSE
    <3>1. \/ main' = main
          \/ main' = [main EXCEPT !.pc = "next_transition"]
      BY <2>5 DEF TaskStep, Prepare, BeforeTool, PublishToolIntent, Execute, Cancelled, ToolEnds,
         AfterTool, Replay, ReadCheckpoint, PublishToolOutcome, Progress, Goto, Outcome
    <3> QED BY <2>4, <3>1 DEF IInv, TypeOK
  <2>6. ~ReadSource /\ ~NextTransition /\ ~ParallelStart /\ ~Join /\ ~Begin
    BY <2>4 DEF IInv, TypeOK, ReadSource, NextTransition, ParallelStart, Join, Begin, Procedure, Fault
  <2>7. ~RequestAbort /\ ~CommitAbort
    BY <2>4 DEF RequestAbort, CommitAbort, pass
  <2>8. ~Crash
    BY DEF IInv, TypeOK, Crash
  <2> QED BY <2>1, <2>2, <2>3, <2>5, <2>6, <2>7, <2>8 DEF Next, PassStep
<1> QED BY <1>1, Inductive, PTL DEF Spec, ReturnsFinished

-----------------------------------------------------------------------------
(* The refinement. *)

SettledCalls == {i \in Calls : Settled(i)}

\* Steps that the promise does not see.
LEMMA Unseen ==
    ASSUME UNCHANGED <<branch, next>>,
           \A i \in Calls : Settled(i)' <=> Settled(i)
    PROVE  UNCHANGED Results!vars
<1>1. SettledCalls' = SettledCalls
  BY DEF SettledCalls
<1> QED BY <1>1 DEF Results!vars, SettledCalls

LEMMA PublishSettles ==
    ASSUME IInv, NEW i \in Calls, PublishToolOutcome(i)
    PROVE  Results!Settle(i)
<1>1. ~Settled(i) /\ UNCHANGED <<branch, next>>
  BY DEF IInv, TaskAgrees, PublishToolOutcome, Tasking
<1>2. Settled(i)' /\ \A j \in Calls \ {i} : Settled(j)' <=> Settled(j)
  BY DEF IInv, TypeOK, PublishToolOutcome, Settled
<1>3. next = "tools"
  <2>1. i > Placed /\ Placed \in Nat
    BY <1>1 DEF IInv, TypeOK, Prefix, Settled, Completed, Placed, Calls
  <2> QED BY <2>1, NumCallsAssumption DEF IInv, Prefix, Calls
<1>4. SettledCalls' = SettledCalls \cup {i} /\ i \notin SettledCalls
  BY <1>1, <1>2 DEF SettledCalls
<1> QED BY <1>1, <1>3, <1>4 DEF Results!Settle, SettledCalls

LEMMA CommitPlaces ==
    ASSUME IInv, NEW k \in 0..NumCalls, CommitPlacement(k)
    PROVE  Results!Place(reading[k].last)
<1> DEFINE last == reading[k].last
<1>1. /\ last \in Calls /\ Placed < last
      /\ branch' = branch \o [j \in 1..(last - Placed) |-> Placed + j]
      /\ \A i \in Placed + 1..last : i \in Calls => Settled(i)
      /\ \A i \in Calls : Settled(i)' <=> Settled(i)
      /\ next' = "tools" <=> \E i \in Calls : calls'[i].status # "completed"
  BY PlacedRun DEF Settled
<1>2. Placed \in Nat /\ last \in Nat /\ last <= NumCalls
  <2>1. Placed \in Nat
    BY DEF IInv, TypeOK, Placed
  <2> QED BY <1>1, <2>1, NumCallsAssumption DEF Calls
<1>3. SettledCalls' = SettledCalls /\ Placed + 1..last \subseteq SettledCalls
  <2>1. Placed + 1..last \subseteq Calls
    BY <1>2, NumCallsAssumption DEF Calls
  <2> QED BY <1>1, <2>1 DEF SettledCalls
<1>4. next = "tools"
  <2>1. Placed < NumCalls
    BY <1>1, <1>2, NumCallsAssumption
  <2>2. next = "tools" <=> Placed < NumCalls
    BY DEF IInv, Prefix
  <2> QED BY <2>1, <2>2
<1>5. next' = "tools" <=> last # NumCalls
  <2>1. Prefix' /\ Placed' = last
    BY CommitPlacementKeeps, PlacedRun DEF IInv
  <2> QED BY <1>2, <2>1, NumCallsAssumption DEF Prefix
<1> QED BY <1>1, <1>3, <1>4, <1>5 DEF Results!Place, SettledCalls, Placed

\* Whatever tasks, crashes and cancellations do to a batch, the conversation
\* sees each call settled once and each result placed once, in source order.
THEOREM ImplementsResults == Spec => RefinesResults
<1>1. Init => Results!Init
  BY DEF Init, Results!Init, Settled, Planned
<1>2. IInv /\ [Next]_vars => [Results!Next]_Results!vars
  <2> SUFFICES ASSUME IInv, [Next]_vars PROVE [Results!Next]_Results!vars
    OBVIOUS
  <2>1. ASSUME NEW i \in Calls, PublishToolOutcome(i) PROVE Results!Next
    BY <2>1, PublishSettles DEF Results!Next, Calls
  <2>2. ASSUME NEW k \in 0..NumCalls, CommitPlacement(k) PROVE Results!Next
    <3>1. reading[k].last \in 1..NumCalls
      BY <2>2, PlacedRun DEF Calls
    <3> QED BY <2>2, <3>1, CommitPlaces DEF Results!Next
  <2>3. ASSUME NEW i \in Calls, PublishToolIntent(i) PROVE UNCHANGED Results!vars
    <3>1. calls[i].status = "planned" /\ UNCHANGED <<branch, next>>
      BY <2>3 DEF IInv, TaskAgrees, PublishToolIntent, Tasking
    <3>2. CASE calls' = calls
      BY <3>1, <3>2, Unseen DEF Settled
    <3>3. CASE Intent(i)
      <4> DEFINE edited == [calls[i] EXCEPT !.status = "effect_pending",
                                            !.replay = IF i \in replayable THEN "safe" ELSE "never"]
      <4>1. calls[i] \in CallRecords /\ calls \in [Calls -> CallRecords]
        BY DEF IInv, TypeOK
      <4>2. edited.status = "effect_pending"
        BY <4>1 DEF CallRecords
      <4>3. calls' = [calls EXCEPT ![i] = edited]
        BY <3>3, Zenon DEF Intent
      <4> HIDE DEF edited
      <4>4. \A j \in Calls : Settled(j)' <=> Settled(j)
        BY <3>1, <4>1, <4>2, <4>3 DEF Settled
      <4> QED BY <3>1, <4>4, Unseen
    <3> QED BY <2>3, <3>2, <3>3 DEF PublishToolIntent
  <2>4. ASSUME UNCHANGED <<calls, branch, next>> PROVE UNCHANGED Results!vars
    BY <2>4, Unseen DEF Settled
  <2>5. \/ \E i \in Calls : PublishToolOutcome(i)
        \/ \E k \in 0..NumCalls : CommitPlacement(k)
        \/ \E i \in Calls : PublishToolIntent(i)
        \/ UNCHANGED <<calls, branch, next>>
    BY DEF Next, RequestAbort, CommitAbort, Begin, PassStep, ReadSource, Choose, SequentialStep,
       NextTransition, ParallelStart, Join, ReadPlacement, TaskStep, Prepare, BeforeTool, Execute,
       Cancelled, ToolEnds, AfterTool, Replay, ReadCheckpoint, Progress, Crash, Procedure,
       durable, vars
  <2> QED BY <2>1, <2>2, <2>3, <2>4, <2>5
<1> QED BY <1>1, <1>2, Inductive, PTL DEF Spec, RefinesResults, Results!Spec

=============================================================================
