------------------------ MODULE LaneDriveRefinement ------------------------
(***************************************************************************)
(* LaneDrive implements OperationLifecycle for every value of its          *)
(* constants: whatever calls, passes, stops and restarts do, an operation  *)
(* is accepted on an idle lane only, ends once, and ends "aborted" exactly *)
(* when its cancellation is durable.                                       *)
(***************************************************************************)
EXTENDS LaneDriveSafety

USE DEF waits

-----------------------------------------------------------------------------
(* Ids are fresh: an accept job on the line names an operation that has no *)
(* record yet, and no two of them name the same one.                       *)

Accepting(l, i) == i \in 1..Len(l) /\ l[i].kind = "accept"

Fresh ==
  /\ op.id \in Ops => results[op.id] = "none"
  /\ \A i : Accepting(line, i) => results[line[i].id] = "none" /\ line[i].id # op.id
  /\ \A i, j : Accepting(line, i) /\ Accepting(line, j) /\ line[i].id = line[j].id => i = j

\* Every accept job of the next line is one of this line.
Shifted ==
  \E shift \in 0..1 : \A i : Accepting(line', i) =>
      i \in Nat /\ Accepting(line, i + shift) /\ line'[i] = line[i + shift]

LEMMA FreshShifted ==
  ASSUME Fresh, Shifted, results' = results, op'.id = op.id \/ op'.id = None,
         \A i : Accepting(line, i) => line[i].id # None
  PROVE  Fresh'
  <1>1. PICK shift \in 0..1 : \A i : Accepting(line', i) =>
            i \in Nat /\ Accepting(line, i + shift) /\ line'[i] = line[i + shift]
    BY DEF Shifted
  <1>2. ASSUME NEW i, NEW j, Accepting(line', i), Accepting(line', j), line'[i].id = line'[j].id
        PROVE  i = j
    <2>1. i \in Nat /\ j \in Nat /\ i + shift = j + shift
      BY <1>1, <1>2 DEF Fresh
    <2> QED
      BY <2>1, SMT
  <1>3. ASSUME NEW i, Accepting(line', i)
        PROVE  results'[line'[i].id] = "none" /\ line'[i].id # op'.id
    BY <1>1, <1>3 DEF Fresh
  <1>4. op'.id \in Ops => results'[op'.id] = "none"
    BY NoneAssumption DEF Fresh
  <1> QED
    BY <1>2, <1>3, <1>4 DEF Fresh

LEMMA AcceptingIds ==
  ASSUME TypeOK
  PROVE  \A i : Accepting(line, i) => line[i] \in AcceptJobs /\ line[i].id \in Ops /\ line[i].id # None
  <1> SUFFICES ASSUME NEW i, Accepting(line, i)
               PROVE  line[i] \in AcceptJobs /\ line[i].id \in Ops /\ line[i].id # None
    OBVIOUS
  <1>1. line[i] \in Jobs /\ line[i].kind = "accept"
    BY DEF TypeOK, Accepting
  <1> QED
    BY <1>1, NoneAssumption, SMT DEF Jobs, AcceptJobs, ClaimJobs, AbortJobs, StepJobs

LEMMA ShiftedTail ==
  ASSUME TypeOK, line # <<>>, NEW job, job.kind # "accept",
         line' = Tail(line) \/ line' = Append(Tail(line), job)
  PROVE  Shifted
  <1>1. line \in Seq(Jobs) /\ Tail(line) \in Seq(Jobs)
    BY TailElements DEF TypeOK
  <1>2. ASSUME NEW i, Accepting(line', i)
        PROVE  i \in Nat /\ Accepting(line, i + 1) /\ line'[i] = line[i + 1]
    <2>1. Accepting(Tail(line), i) /\ line'[i] = Tail(line)[i]
      BY <1>1, <1>2, AppendElements, SMT DEF Accepting
    <2> QED
      BY <1>1, <2>1, TailElements, SMT DEF Accepting
  <1>3. 1 \in 0..1
    BY SMT
  <1> QED
    BY <1>2, <1>3 DEF Shifted

LEMMA ShiftedAppend ==
  ASSUME TypeOK, NEW job, job.kind # "accept", line' = line \/ line' = Append(line, job)
  PROVE  Shifted
  <1>1. ASSUME NEW i, Accepting(line', i)
        PROVE  i \in Nat /\ Accepting(line, i + 0) /\ line'[i] = line[i + 0]
    <2>1. line \in Seq(Jobs)
      BY DEF TypeOK
    <2>2. i \in Nat /\ i + 0 = i
      BY <2>1, <1>1, AppendElements, SMT DEF Accepting
    <2>3. Accepting(line, i) /\ line'[i] = line[i]
      <3>1. CASE line' = line
        BY <1>1, <3>1
      <3>2. CASE line' = Append(line, job)
        <4>1. i \in 1..Len(line)
          BY <1>1, <2>1, <3>2, AppendElements, SMT DEF Accepting
        <4> QED
          BY <1>1, <2>1, <3>2, <4>1, AppendElements DEF Accepting
      <3> QED
        BY <3>1, <3>2
    <2> QED
      BY <2>2, <2>3
  <1>2. 0 \in 0..1
    BY SMT
  <1> QED
    BY <1>1, <1>2 DEF Shifted

LEMMA ShiftedEmpty ==
  ASSUME line' = <<>>
  PROVE  Shifted
  <1>1. \A i : ~Accepting(line', i)
    BY SMT DEF Accepting
  <1>2. 0 \in 0..1
    BY SMT
  <1> QED
    BY <1>1, <1>2 DEF Shifted

-----------------------------------------------------------------------------
(* The lane's phases. *)

LEMMA PhaseTyped ==
  ASSUME TypeOK
  PROVE  phase \in [Ops -> {"new", "open", "cancelling"} \cup Terminal]
  BY DEF TypeOK, phase

\* A step that leaves results and the durable control alone is invisible.
LEMMA Stutters ==
  ASSUME results' = results, op'.id = op.id, op'.cancelled = op.cancelled
  PROVE  phase' = phase
  BY DEF phase

\* The durable effect of a step: none, an acceptance, a cancellation or an end.
Invisible == results' = results /\ op'.id = op.id /\ op'.cancelled = op.cancelled

Accepts ==
  /\ op.id = None /\ results' = results
  /\ op'.id \in Ops /\ results[op'.id] = "none" /\ op'.cancelled = FALSE

Cancels == op.id \in Ops /\ results' = results /\ op'.id = op.id /\ op'.cancelled = TRUE

Ends ==
  /\ op.id \in Ops /\ op'.id = None
  /\ \E status \in Terminal : /\ status = "aborted" <=> op.cancelled
                              /\ results' = [results EXCEPT ![op.id] = status]

LEMMA AcceptsMaps == TypeOK /\ Fresh /\ Accepts => [Lifecycle!Next]_phase
  <1> SUFFICES ASSUME TypeOK, Fresh, Accepts PROVE [Lifecycle!Next]_phase
    OBVIOUS
  <1> DEFINE o == op'.id
  <1>1. o \in Ops /\ phase[o] = "new"
    BY NoneAssumption DEF Accepts, phase
  <1>2. Lifecycle!Open = {}
    BY NoneAssumption DEF Accepts, phase, Lifecycle!Open, TypeOK, Terminal
  <1>3. phase' = [phase EXCEPT ![o] = "open"]
    <2>1. \A p \in Ops : phase'[p] = (IF p = o THEN "open" ELSE phase[p])
      BY NoneAssumption DEF Accepts, phase
    <2>2. phase' = [p \in Ops |-> phase'[p]] /\ phase = [p \in Ops |-> phase[p]]
      BY DEF phase
    <2> QED
      BY <2>1, <2>2
  <1> QED
    BY <1>1, <1>2, <1>3 DEF Lifecycle!Next, Lifecycle!Accept

LEMMA CancelsMaps == TypeOK /\ Fresh /\ Cancels => [Lifecycle!Next]_phase
  <1> SUFFICES ASSUME TypeOK, Fresh, Cancels PROVE [Lifecycle!Next]_phase
    OBVIOUS
  <1> DEFINE o == op.id
  <1>1. CASE op.cancelled
    <2>1. phase' = phase
      BY <1>1, Stutters DEF Cancels
    <2> QED
      BY <2>1
  <1>2. CASE ~op.cancelled
    <2>1. o \in Ops /\ phase[o] = "open"
      BY <1>2 DEF Cancels, Fresh, phase
    <2>2. \A p \in Ops : phase'[p] = (IF p = o THEN "cancelling" ELSE phase[p])
      BY DEF Cancels, Fresh, phase
    <2>3. phase' = [p \in Ops |-> phase'[p]] /\ phase = [p \in Ops |-> phase[p]]
      BY DEF phase
    <2>4. phase' = [phase EXCEPT ![o] = "cancelling"]
      BY <2>2, <2>3
    <2> QED
      BY <2>1, <2>4 DEF Lifecycle!Next, Lifecycle!Cancel
  <1> QED
    BY <1>1, <1>2

LEMMA EndsMaps == TypeOK /\ Fresh /\ Ends => [Lifecycle!Next]_phase
  <1> SUFFICES ASSUME TypeOK, Fresh, Ends PROVE [Lifecycle!Next]_phase
    OBVIOUS
  <1> DEFINE o == op.id
  <1>1. PICK status \in Terminal : /\ status = "aborted" <=> op.cancelled
                                   /\ results' = [results EXCEPT ![o] = status]
    BY DEF Ends
  <1>2. o \in Ops /\ phase[o] = (IF op.cancelled THEN "cancelling" ELSE "open")
    BY DEF Ends, Fresh, phase
  <1>3. \A p \in Ops : results'[p] = (IF p = o THEN status ELSE results[p])
    BY <1>1, <1>2 DEF TypeOK
  <1>4. \A p \in Ops : phase'[p] = (IF p = o THEN status ELSE phase[p])
    BY <1>1, <1>3, NoneAssumption DEF Ends, phase, Terminal
  <1>5. phase' = [p \in Ops |-> phase'[p]] /\ phase = [p \in Ops |-> phase[p]]
    BY DEF phase
  <1>6. phase' = [phase EXCEPT ![o] = status]
    BY <1>4, <1>5
  <1>7. Lifecycle!Finish(o)
    BY <1>1, <1>2, <1>6 DEF Lifecycle!Finish, Lifecycle!Terminal, Terminal
  <1> QED
    BY <1>2, <1>7 DEF Lifecycle!Next

-----------------------------------------------------------------------------
(* Every step keeps ids fresh and has one of those effects. *)

LEMMA FreshEnds ==
  ASSUME TypeOK, Fresh, Shifted, Ends
  PROVE  Fresh'
  <1>1. PICK shift \in 0..1 : \A i : Accepting(line', i) =>
            i \in Nat /\ Accepting(line, i + shift) /\ line'[i] = line[i + shift]
    BY DEF Shifted
  <1>2. PICK status : results' = [results EXCEPT ![op.id] = status]
    BY DEF Ends
  <1>3. ASSUME NEW i, NEW j, Accepting(line', i), Accepting(line', j), line'[i].id = line'[j].id
        PROVE  i = j
    <2>1. i \in Nat /\ j \in Nat /\ i + shift = j + shift
      BY <1>1, <1>3 DEF Fresh
    <2> QED
      BY <2>1, SMT
  <1>4. ASSUME NEW i, Accepting(line', i)
        PROVE  results'[line'[i].id] = "none" /\ line'[i].id # op'.id
    <2>1. /\ line'[i].id \in Ops /\ results[line'[i].id] = "none" /\ line'[i].id # op.id
          /\ line'[i].id # None
      BY <1>1, <1>4, AcceptingIds DEF Fresh
    <2> QED
      BY <1>2, <2>1 DEF Ends, TypeOK
  <1> QED
    BY <1>3, <1>4, NoneAssumption DEF Fresh, Ends

LEMMA RefinesPlanner ==
  TypeOK /\ Owned /\ Fresh /\ PlannerStep => Fresh' /\ (Invisible \/ Ends)
  <1> SUFFICES ASSUME TypeOK, Owned, Fresh, PlannerStep
               PROVE  Fresh' /\ (Invisible \/ Ends)
    OBVIOUS
  <1>1. /\ line # <<>> /\ op.id \in Ops /\ drive \in Drives
    BY PlannerHead, NoStepBehind DEF HeadIs, Owned, DriveOwnsOperation, TypeOK, OpRecords
  <1>2. CASE GoesOn
    <2>1. Shifted
      BY <1>1, <1>2, ShiftedTail DEF GoesOn, Step
    <2> QED
      BY <1>2, <2>1, AcceptingIds, FreshShifted DEF GoesOn, Invisible
  <1>3. CASE Finishes
    <2>a. PICK status \in Terminal : (status = "aborted" <=> op.cancelled) /\ Finish(status)
      BY <1>3 DEF Finishes
    <2>b. NoOp.id = None
      BY DEF NoOp, Accepted
    <2>c. Step.kind # "accept" /\ line' = Tail(line)
      BY <2>a DEF Finish, Step
    <2>d. results' = [results EXCEPT ![op.id] = status] /\ op' = NoOp
      BY <2>a DEF Finish
    <2>1. Ends
      BY <1>1, <2>a, <2>b, <2>d DEF Ends
    <2>2. Shifted
      BY <1>1, <2>c, ShiftedTail
    <2> QED
      BY <2>1, <2>2, FreshEnds
  <1>4. CASE FaultsAborted
    <2>1. op' = op /\ results' = results /\ line' = <<>>
      BY <1>4 DEF FaultsAborted, Fault, durable
    <2> QED
      BY <2>1, ShiftedEmpty, AcceptingIds, FreshShifted DEF Invisible
  <1> QED
    BY <1>2, <1>3, <1>4, PlannerShape

LEMMA RefinesDrive == TypeOK /\ Fresh /\ DriveStep => Fresh' /\ Invisible
  <1> SUFFICES ASSUME TypeOK, Fresh, DriveStep PROVE Fresh' /\ Invisible
    OBVIOUS
  <1>1. op' = op /\ results' = results
    BY DEF DriveStep, Dispatch, Reconcile, Admit, CancellationSettled, EffectDone, PassEnds, Fault,
       durable
  <1>2. Shifted
    <2>1. CASE PassEnds
      <3>1. CASE line' = <<>>
        BY <3>1, ShiftedEmpty
      <3>2. CASE line' = [k \in 1..Len(line) |-> Forget(line[k])] \o parked
        <4>1. ASSUME NEW i, Accepting(line', i)
              PROVE  i \in Nat /\ Accepting(line, i + 0) /\ line'[i] = line[i + 0]
          <5>1. i \in 1..Len(line')
            BY <4>1 DEF Accepting
          <5>2. line'[i] \notin ClaimJobs
            BY <4>1, SMT DEF Accepting, ClaimJobs
          <5>3. i \in 1..Len(line) /\ line[i] \in Jobs /\ line'[i] = Forget(line[i])
            BY <3>2, <5>1, <5>2, ForgottenLine
          <5>4. line[i].kind = "accept" /\ line'[i] = line[i]
            BY <4>1, <5>3, ForgetKind DEF Accepting
          <5>5. i \in Nat /\ i + 0 = i
            BY <5>3, SMT DEF TypeOK
          <5> QED
            BY <5>3, <5>4, <5>5 DEF Accepting
        <4>2. 0 \in 0..1
          BY SMT
        <4> QED
          BY <4>1, <4>2 DEF Shifted
      <3> QED
        BY <2>1, <3>1, <3>2 DEF PassEnds, Fault
    <2>2. CASE ~PassEnds
      <3>1. line' = line \/ line' = Append(line, Step)
        BY <2>2 DEF DriveStep, Dispatch, Enter, Reconcile, Admit, CancellationSettled,
                    EffectDone, Enqueue
      <3> QED
        BY <3>1, ShiftedAppend DEF Step
    <2> QED
      BY <2>1, <2>2
  <1> QED
    BY <1>1, <1>2, AcceptingIds, FreshShifted DEF Invisible

LEMMA RefinesCall == TypeOK /\ Fresh /\ ClientCall => Fresh' /\ Invisible
  <1> SUFFICES ASSUME TypeOK, Fresh, ClientCall PROVE Fresh' /\ Invisible
    OBVIOUS
  <1>1. op' = op /\ results' = results
    BY CallShape
  <1>2. CASE \E o \in Ops, intent \in Requested, drives \in BOOLEAN : AcceptCall(o, intent, drives)
    <2>1. PICK o \in Ops, intent \in Requested, drives \in BOOLEAN : AcceptCall(o, intent, drives)
      BY <1>2
    <2> DEFINE job == [kind |-> "accept", id |-> o, intent |-> intent, drives |-> drives]
    <2>2. job.id = o /\ line' = Append(line, job)
      BY <2>1 DEF AcceptCall, Enqueue
    <2>3. results[o] = "none" /\ o # op.id
      BY <2>1 DEF AcceptCall, Known
    <2>4. \A i : Accepting(line, i) => line[i].id # o
      BY <2>1 DEF AcceptCall, Accepting
    <2> HIDE DEF job
    <2>5. ASSUME NEW i, Accepting(line', i)
          PROVE  \/ Accepting(line, i) /\ line'[i] = line[i]
                 \/ i = Len(line) + 1 /\ line'[i] = job
      <3>1. line \in Seq(Jobs)
        BY DEF TypeOK
      <3>2. i \in 1..Len(line) \/ i = Len(line) + 1
        BY <2>2, <2>5, <3>1, AppendElements, SMT DEF Accepting
      <3> QED
        BY <2>2, <2>5, <3>1, <3>2, AppendElements DEF Accepting
    <2>6. ASSUME NEW i, Accepting(line', i)
          PROVE  results'[line'[i].id] = "none" /\ line'[i].id # op'.id
      BY <1>1, <2>2, <2>3, <2>5, <2>6 DEF Fresh
    <2>7. ASSUME NEW i, NEW j, Accepting(line', i), Accepting(line', j), line'[i].id = line'[j].id
          PROVE  i = j
      <3>1. CASE Accepting(line, i) /\ line'[i] = line[i] /\ Accepting(line, j) /\ line'[j] = line[j]
        BY <2>7, <3>1 DEF Fresh
      <3>2. CASE line'[i] = job /\ i = Len(line) + 1
        BY <2>2, <2>4, <2>5, <2>7, <3>2
      <3>3. CASE line'[j] = job /\ j = Len(line) + 1
        BY <2>2, <2>4, <2>5, <2>7, <3>3
      <3> QED
        BY <2>5, <2>7, <3>1, <3>2, <3>3
    <2> QED
      BY <1>1, <2>6, <2>7 DEF Fresh, Invisible
  <1>3. CASE \E job : job.kind # "accept" /\ line' = Append(line, job)
    BY <1>1, <1>3, ShiftedAppend, AcceptingIds, FreshShifted DEF Invisible
  <1> QED
    BY <1>2, <1>3 DEF ClientCall, DriveCall, AbortCall, Enqueue, Claim

LEMMA RefinesAccept == TypeOK /\ Fresh /\ RunAccept => Fresh' /\ (Invisible \/ Accepts)
  <1> SUFFICES ASSUME TypeOK, Fresh, RunAccept PROVE Fresh' /\ (Invisible \/ Accepts)
    OBVIOUS
  <1>1. line # <<>> /\ results' = results
    BY DEF RunAccept, HeadIs, durable
  <1>2. Shifted
    BY <1>1, ShiftedTail DEF RunAccept, Claim
  <1>3. CASE op' = op
    BY <1>1, <1>2, <1>3, AcceptingIds, FreshShifted DEF Invisible
  <1>4. CASE /\ op.id = None
             /\ \E first \in FirstLeaves(line[1].intent) :
                    op' = Accepted(line[1].id, line[1].intent, first[1], first[2])
    <2>1. Accepting(line, 1)
      BY SMT DEF RunAccept, HeadIs, Accepting, TypeOK
    <2>2. op'.id = line[1].id /\ op'.cancelled = FALSE
      BY <1>4 DEF Accepted
    <2>3. results[line[1].id] = "none" /\ line[1].id \in Ops
      BY <2>1, AcceptingIds DEF Fresh
    <2>4. ASSUME NEW i, Accepting(line', i)
          PROVE  i \in Nat /\ Accepting(line, i + 1) /\ line'[i] = line[i + 1]
      <3>1. line \in Seq(Jobs) /\ Tail(line) \in Seq(Jobs)
        BY <1>1, TailElements DEF TypeOK
      <3>2. line' = Tail(line) \/ line' = Append(Tail(line), Claim(line[1].id, "prompt"))
        BY DEF RunAccept
      <3>3. Claim(line[1].id, "prompt").kind # "accept"
        BY DEF Claim
      <3>4. Accepting(Tail(line), i) /\ line'[i] = Tail(line)[i]
        BY <2>4, <3>1, <3>2, <3>3, AppendElements, SMT DEF Accepting
      <3> QED
        BY <1>1, <3>1, <3>4, TailElements, SMT DEF Accepting
    <2>5. ASSUME NEW i, Accepting(line', i)
          PROVE  results'[line'[i].id] = "none" /\ line'[i].id # op'.id
      <3>1. i + 1 # 1
        BY <2>4, <2>5, SMT DEF Accepting
      <3> QED
        BY <1>1, <2>1, <2>2, <2>4, <2>5, <3>1 DEF Fresh
    <2>6. ASSUME NEW i, NEW j, Accepting(line', i), Accepting(line', j), line'[i].id = line'[j].id
          PROVE  i = j
      <3>1. i \in Nat /\ j \in Nat /\ i + 1 = j + 1
        BY <2>4, <2>6 DEF Fresh
      <3> QED
        BY <3>1, SMT
    <2> QED
      BY <1>1, <1>4, <2>2, <2>3, <2>5, <2>6 DEF Fresh, Accepts
  <1> QED
    BY <1>3, <1>4 DEF RunAccept, durable

LEMMA RefinesClaim == TypeOK /\ Fresh /\ RunClaim => Fresh' /\ Invisible
  <1> SUFFICES ASSUME TypeOK, Fresh, RunClaim PROVE Fresh' /\ Invisible
    OBVIOUS
  <1>1. op' = op /\ results' = results /\ line # <<>> /\ line' = Tail(line)
    BY DEF RunClaim, HeadIs, durable
  <1>2. Shifted
    <2>1. Step.kind # "accept"
      BY DEF Step
    <2> QED
      BY <1>1, <2>1, ShiftedTail
  <1> QED
    BY <1>1, <1>2, AcceptingIds, FreshShifted DEF Invisible

LEMMA RefinesAbort == TypeOK /\ Fresh /\ RunAbort => Fresh' /\ (Invisible \/ Cancels)
  <1> SUFFICES ASSUME TypeOK, Fresh, RunAbort PROVE Fresh' /\ (Invisible \/ Cancels)
    OBVIOUS
  <1>1. line # <<>> /\ results' = results /\ line[1].id \in Ops
    <2>1. line[1] \in AbortJobs
      BY HeadTyped DEF RunAbort
    <2> QED
      BY <2>1, SMT DEF RunAbort, HeadIs, AbortJobs
  <1>2. Shifted
    <2>1. Step.kind # "accept" /\ line' = Tail(line)
      BY DEF RunAbort, Step
    <2> QED
      BY <1>1, <2>1, ShiftedTail
  <1>3. CASE op.id = line[1].id /\ ~op.cancelled
    <2>1. op'.id = op.id /\ op'.cancelled = TRUE
      BY <1>3 DEF RunAbort, TypeOK, OpRecords
    <2> QED
      BY <1>1, <1>2, <1>3, <2>1, AcceptingIds, FreshShifted DEF Cancels
  <1>4. CASE ~(op.id = line[1].id /\ ~op.cancelled)
    <2>1. op' = op
      BY <1>4 DEF RunAbort
    <2> QED
      BY <1>1, <1>2, <2>1, AcceptingIds, FreshShifted DEF Invisible
  <1> QED
    BY <1>3, <1>4

LEMMA RefinesReturn == TypeOK /\ Fresh /\ AbortReturns => Fresh' /\ Invisible
  <1> SUFFICES ASSUME TypeOK, Fresh, AbortReturns PROVE Fresh' /\ Invisible
    OBVIOUS
  <1>1. op' = op /\ results' = results
    BY DEF AbortReturns, durable
  <1>2. Shifted
    <2>1. \E job : job.kind # "accept" /\ (line' = line \/ line' = Append(line, job))
      BY DEF AbortReturns, Claim
    <2> QED
      BY <2>1, ShiftedAppend
  <1> QED
    BY <1>1, <1>2, AcceptingIds, FreshShifted DEF Invisible

LEMMA RefinesStops == TypeOK /\ Fresh /\ (Stop \/ Restart) => Fresh' /\ Invisible
  <1> SUFFICES ASSUME TypeOK, Fresh, Stop \/ Restart PROVE Fresh' /\ Invisible
    OBVIOUS
  <1>1. op' = op /\ results' = results /\ (line' = line \/ line' = <<>>)
    BY DEF Stop, Restart, durable, volatile
  <1>2. CASE line' = line
    BY <1>1, <1>2 DEF Fresh, Invisible, Accepting
  <1>3. CASE line' = <<>>
    BY <1>1, <1>3, ShiftedEmpty, AcceptingIds, FreshShifted DEF Invisible
  <1> QED
    BY <1>1, <1>2, <1>3

LEMMA RefinementStep ==
  TypeOK /\ Owned /\ Fresh /\ [Next]_vars => Fresh' /\ [Lifecycle!Next]_phase
  <1> SUFFICES ASSUME TypeOK, Owned, Fresh, [Next]_vars
               PROVE  Fresh' /\ [Lifecycle!Next]_phase
    OBVIOUS
  <1>1. CASE UNCHANGED vars
    BY <1>1, Stutters DEF vars, Fresh, Accepting
  <1>2. CASE Next
    <2>1. Fresh' /\ (Invisible \/ Accepts \/ Cancels \/ Ends)
      BY <1>2, NextCases, RefinesPlanner, RefinesDrive, RefinesCall, RefinesAccept, RefinesClaim,
         RefinesAbort, RefinesReturn, RefinesStops
    <2>2. Invisible => phase' = phase
      BY Stutters DEF Invisible
    <2> QED
      BY <2>1, <2>2, AcceptsMaps, CancelsMaps, EndsMaps
  <1> QED
    BY <1>1, <1>2

LEMMA RefinementInit == Init => Fresh /\ Lifecycle!Init
  <1> SUFFICES ASSUME Init PROVE Fresh /\ Lifecycle!Init
    OBVIOUS
  <1>1. op.id = None /\ \A o \in Ops : results[o] = "none"
    BY DEF Init, NoOp, Accepted
  <1>2. \A i : ~Accepting(line, i)
    BY SMT DEF Init, Accepting
  <1>3. \A o \in Ops : phase[o] = "new"
    BY <1>1, NoneAssumption DEF phase
  <1>4. phase = [o \in Ops |-> "new"]
    BY <1>3 DEF phase
  <1> QED
    BY <1>1, <1>2, <1>4, NoneAssumption DEF Fresh, Lifecycle!Init

\* The lane implements the operation lifecycle: an operation is accepted on an
\* idle lane, ends exactly once with an immutable result, and ends "aborted" if
\* and only if it was cancelled, whatever passes, calls, stops and restarts do.
THEOREM ImplementsLifecycle == Spec => RefinesLifecycle
  <1>1. Init /\ [][Next]_vars => Lifecycle!Spec
    BY RefinementInit, RefinementStep, AlwaysOwned, TypedPoints, PTL DEF Spec, Lifecycle!Spec,
       Lifecycle!vars
  <1> QED
    BY <1>1 DEF Spec, RefinesLifecycle
=============================================================================
