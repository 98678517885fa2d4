--------------------------- MODULE HarnessLifecycle ---------------------------
(***************************************************************************)
(* A harness, its lanes and the mutation line of its session, from opening *)
(* to a fault or to the end of close: harness/runtime/harness.ts, the      *)
(* command and idle part of runtime/lane.ts, session/session.ts and        *)
(* session/mutation-line.ts. Calls on any lane, and on the harness, share  *)
(* one line. A job that holds the line reads, commits and publishes; the   *)
(* next one starts when it has let go. An idle callback owns its lane      *)
(* without holding the line. A fault seals the lanes that are published; a *)
(* close also seals the line, and waits for the jobs and the callbacks     *)
(* that it found.                                                          *)
(***************************************************************************)
EXTENDS Naturals, Sequences, FiniteSets

CONSTANTS Lanes,   \* lane names
          Late,    \* those that no lane has when the harness opens
          Calls,   \* calls of clients, each made at most once
          None,    \* no lane, no call
          MaxJobs  \* bound: jobs of a pass

ASSUME LanesAssumption == Late \subseteq Lanes /\ None \notin Lanes
ASSUME CallsAssumption == None \notin Calls /\ Calls \cap Lanes = {}
ASSUME MaxJobsAssumption == MaxJobs \in Nat

VARIABLES
    faulted,     \* faultError is set
    closed,      \* "no", "closing", or "done" when the promise of close has resolved
    published,   \* the keys of lanesByName
    sealed,      \* closedError of each lane: "no", "fault" or "closed"
    operation,   \* the lane has an operation
    pass,        \* activeDrive: "none", "working", "queued" (its job is), "ending", or "settled"
                 \* when it ends and its operation has been settled
    jobs,        \* how many jobs the pass has asked for
    idleOwner,   \* the call whose idle callback owns the lane
    session,     \* "open", "closing" or "closed" with its storage
    line,        \* jobs of the line that have not started; a lane stands for a job of its pass
    running,     \* the jobs that hold the line
    awaited,     \* the owners that close waits for
    acquiring,   \* history: the lanes that a job was acquiring when the harness faulted
    calls        \* the calls

vars == <<faulted, closed, published, sealed, operation, pass, jobs, idleOwner, session, line,
          running, awaited, acquiring, calls>>
gates == <<faulted, closed, sealed, awaited, acquiring>>
drives == <<pass, jobs>>

-----------------------------------------------------------------------------
(* Calls and jobs *)

\* Calls that run a command on a lane: one that admits an operation, one that commits something
\* else, drive, runWhenIdle, waitForIdle. Then lane() of the harness, and setName or setLabel.
LaneKinds == {"accept", "write", "drive", "idle", "wait"}
Kinds == LaneKinds \union {"acquire", "name"}

Jobs == Calls \union Lanes
LaneOf(job) == IF job \in Lanes THEN job ELSE calls[job].lane
KindOf(job) == IF job \in Lanes THEN "settle" ELSE calls[job].kind

Unused == [kind |-> "name", lane |-> None, pc |-> "unused", on |-> "nothing", woken |-> FALSE]
Call(kind, lane, pc) ==
    [kind |-> kind, lane |-> lane, pc |-> pc, on |-> "nothing", woken |-> FALSE]

\* A call that waits for the state of its lane to change ("change"), or for the pass on it to end,
\* to look again then ("pass") or to answer with its outcome ("outcome").
Waiting(kind, lane, on) ==
    [kind |-> kind, lane |-> lane, pc |-> "waiting", on |-> on, woken |-> FALSE]

To(job, pc) == [calls EXCEPT ![job].pc = pc]
Blocked(job, on) == [calls EXCEPT ![job].pc = "waiting", ![job].on = on, ![job].woken = FALSE]

\* signalStateChange, and the completion of a pass: whoever waits for it will look again.
Woken(now, lanes, on) ==
    [c \in Calls |-> [now[c] EXCEPT !.woken = @ \/ ( /\ now[c].pc = "waiting"
                                                     /\ now[c].lane \in lanes
                                                     /\ now[c].on \in on )]]
Change == {"change"}

-----------------------------------------------------------------------------
(* Gates *)

ShutHarness == faulted \/ closed # "no"

\* assertOpen of the lane for its commands and those of its pass, else of the harness.
Shut(kind, lane) == IF kind \in LaneKinds \union {"settle"} THEN sealed[lane] # "no"
                                                           ELSE ShutHarness

\* Mutation: a lane with a pass on it is left open.
SealAllIdle(error) == [l \in Lanes |->
    IF l \in published /\ sealed[l] = "no" /\ pass[l] = "none" THEN error ELSE sealed[l]]
SealAll(error) == [l \in Lanes |-> IF l \in published /\ sealed[l] = "no" THEN error
                                                                        ELSE sealed[l]]

AcquiredBy(holders) == { LaneOf(r.job) : r \in { q \in holders : KindOf(q.job) = "acquire" } }

\* Mutation: the seal wakes nobody.
RaiseInSilence(now, holders) ==
    IF ShutHarness
    THEN calls' = now /\ UNCHANGED gates
    ELSE /\ faulted' = TRUE
         /\ sealed' = SealAll("fault")
         /\ acquiring' = AcquiredBy(holders)
         /\ calls' = now
         /\ UNCHANGED <<closed, awaited>>

\* fault: the first error seals the published lanes, while these jobs hold the line.
Raise(now, holders) ==
    IF ShutHarness
    THEN calls' = now /\ UNCHANGED gates
    ELSE /\ faulted' = TRUE
         /\ sealed' = SealAll("fault")
         /\ acquiring' = AcquiredBy(holders)
         /\ calls' = Woken(now, published, Change)
         /\ UNCHANGED <<closed, awaited>>

\* Mutation: close waits for the session only.
CloseForgetsOwners ==
    /\ closed = "no"
    /\ closed' = "closing"
    /\ sealed' = SealAll("closed")
    /\ awaited' = {}
    /\ session' = "closing"
    /\ calls' = Woken(calls, published, Change)
    /\ UNCHANGED <<faulted, published, operation, drives, idleOwner, line, running, acquiring>>

\* close: once. It seals the lanes and then the session.
Close == /\ closed = "no"
         /\ closed' = "closing"
         /\ sealed' = SealAll("closed")
         /\ awaited' = { idleOwner[l] : l \in published } \ {None}
         /\ session' = "closing"
         /\ calls' = Woken(calls, published, Change)
         /\ UNCHANGED <<faulted, published, operation, drives, idleOwner, line, running, acquiring>>

\* The line has drained, and the storage is closed.
CloseSession == /\ session = "closing"
                /\ line = <<>> /\ running = {}
                /\ session' = "closed"
                /\ UNCHANGED <<gates, published, operation, drives, idleOwner, line, running, calls>>

CloseResolves == /\ closed = "closing"
                 /\ session = "closed"
                 /\ \A l \in Lanes : idleOwner[l] \notin awaited
                 /\ closed' = "done"
                 /\ UNCHANGED <<faulted, published, sealed, operation, drives, idleOwner, session,
                                line, running, awaited, acquiring, calls>>

-----------------------------------------------------------------------------
(* Before the line *)

Others == UNCHANGED <<gates, published, operation, drives, idleOwner, session, running>>

\* The head of command, of harness.lane and of setName: refused at a shut gate, held back while
\* an idle callback owns the lane, refused by a session that closes, queued otherwise.
Enter(c, kind, lane) ==
    /\ IF Shut(kind, lane)
       THEN calls' = [calls EXCEPT ![c] = Call(kind, lane, "done")] /\ UNCHANGED line
       ELSE IF kind \in LaneKinds /\ idleOwner[lane] # None
       THEN calls' = [calls EXCEPT ![c] = Waiting(kind, lane, "change")] /\ UNCHANGED line
       ELSE IF session # "open"
       THEN calls' = [calls EXCEPT ![c] = Call(kind, lane, "done")] /\ UNCHANGED line
       ELSE /\ calls' = [calls EXCEPT ![c] = Call(kind, lane, "queued")]
            /\ line' = Append(line, c)
    /\ Others

\* A client that holds the lane, or the harness, makes a call.
CallLane(c) == /\ calls[c].pc = "unused"
               /\ \E kind \in LaneKinds, l \in published : Enter(c, kind, l)
CallHarness(c) == /\ calls[c].pc = "unused"
                  /\ \/ \E l \in Lanes : Enter(c, "acquire", l)
                     \/ Enter(c, "name", None)

\* What the call waited for has happened: it looks again, or answers.
Retry(c) == /\ calls[c].pc = "waiting" /\ calls[c].woken /\ calls[c].on # "outcome"
            /\ Enter(c, calls[c].kind, calls[c].lane)
Answer(c) == /\ calls[c].pc = "waiting" /\ calls[c].woken /\ calls[c].on = "outcome"
             /\ calls' = To(c, "done")
             /\ UNCHANGED line
             /\ Others

\* awaitWithContext: the caller's own context ends the wait.
GiveUp(c) == /\ calls[c].pc = "waiting"
             /\ calls' = To(c, "done")
             /\ UNCHANGED line
             /\ Others

-----------------------------------------------------------------------------
(* On the line *)

\* What a job finds: for a command of a lane whether there is an operation, for harness.lane
\* whether there is the lane.
View(job) == IF KindOf(job) = "name" THEN FALSE
             ELSE IF KindOf(job) = "acquire" THEN LaneOf(job) \in published
             ELSE operation[LaneOf(job)]
Run(job, phase, saw) == [job |-> job, phase |-> phase, saw |-> saw]

\* Mutation: the next job starts while one is still waiting for its commit.
LineNotAwaited == line # <<>>
LineFree == running = {} /\ line # <<>>
First == Head(line)

\* MutationLine.run and assertOpen inside of the job: what was queued before a seal does nothing.
Refuses(job) == session # "open" \/ Shut(KindOf(job), LaneOf(job))
\* Mutation: a pass never hears that its job was refused.
GrantRefusedSilently ==
    /\ LineFree /\ Refuses(First)
    /\ line' = Tail(line)
    /\ IF First \in Calls THEN calls' = To(First, "done") ELSE UNCHANGED calls
    /\ UNCHANGED <<gates, published, operation, drives, idleOwner, session, running>>

GrantRefused ==
    /\ LineFree /\ Refuses(First)
    /\ line' = Tail(line)
    /\ IF First \in Calls THEN calls' = To(First, "done") /\ UNCHANGED pass
                          ELSE pass' = [pass EXCEPT ![First] = "ending"] /\ UNCHANGED calls
    /\ UNCHANGED <<gates, published, operation, jobs, idleOwner, session, running>>

Granted(job) == LineFree /\ First = job /\ ~Refuses(job) /\ line' = Tail(line)

\* Mutation: the owner is only looked for before the line.
NeverOwned(job) == FALSE

\* idle_blocked: an idle callback has come to own the lane while the job was queued.
Owned(job) == KindOf(job) \in LaneKinds /\ idleOwner[LaneOf(job)] # None
GrantBlocked(c) == /\ Granted(c) /\ Owned(c)
                   /\ calls' = Blocked(c, "change")
                   /\ Others

\* drive: of the lane's operation, where the first to ask installs a pass and those after it join,
\* or, while the pass of an earlier operation is still there, wait for it to be gone; or of an
\* operation that has its result, or is unknown.
GrantDrive(c) ==
    /\ Granted(c) /\ ~Owned(c)
    /\ calls[c].kind = "drive"
    /\ LET l == calls[c].lane
       IN  \/ /\ operation[l] /\ pass[l] = "none"
              /\ pass' = [pass EXCEPT ![l] = "working"]
              /\ jobs' = [jobs EXCEPT ![l] = 0]
              /\ calls' = Woken(Blocked(c, "outcome"), {l}, Change)
           \/ /\ operation[l] /\ pass[l] # "none"
              /\ calls' = Blocked(c, IF pass[l] = "settled" THEN "pass" ELSE "outcome")
              /\ UNCHANGED drives
           \/ /\ calls' = To(c, "done")
              /\ UNCHANGED drives
    /\ UNCHANGED <<gates, published, operation, idleOwner, session, running>>

\* runWhenIdle and waitForIdle: only when the lane has neither an operation nor a pass.
Busy(l) == operation[l] \/ pass[l] # "none"
GrantIdle(c) ==
    /\ Granted(c) /\ ~Owned(c)
    /\ calls[c].kind \in {"idle", "wait"}
    /\ LET l == calls[c].lane
       IN  \/ /\ Busy(l)
              /\ calls' = Blocked(c, IF pass[l] # "none" THEN "pass" ELSE "change")
              /\ UNCHANGED idleOwner
           \/ /\ ~Busy(l) /\ calls[c].kind = "wait"
              /\ calls' = To(c, "done")
              /\ UNCHANGED idleOwner
           \/ /\ ~Busy(l) /\ calls[c].kind = "idle"
              /\ idleOwner' = [idleOwner EXCEPT ![l] = c]
              /\ calls' = Woken(To(c, "claimed"), {l}, Change)
    /\ UNCHANGED <<gates, published, operation, drives, session, running>>

\* lane() of a lane that is there by now.
GrantKnown(c) == /\ Granted(c)
                 /\ calls[c].kind = "acquire" /\ calls[c].lane \in published
                 /\ calls' = To(c, "done")
                 /\ Others

\* All other jobs read, and hold the line while they do.
Plans(job) == \/ KindOf(job) \in {"accept", "write", "settle"} /\ ~Owned(job)
              \/ KindOf(job) = "acquire" /\ LaneOf(job) \notin published
              \/ KindOf(job) = "name"
GrantPlan(job) ==
    /\ Granted(job) /\ Plans(job)
    /\ running' = running \union {Run(job, "planning", View(job))}
    /\ UNCHANGED <<gates, published, operation, drives, idleOwner, session, calls>>

\* The planner answers without a commit, as accept does when it finds an operation and lane()
\* when it does not know where to start. A pass goes on with the answer.
MustReturn(r) == KindOf(r.job) = "accept" /\ r.saw
DecideReturn(r) == /\ r.phase = "planning" /\ KindOf(r.job) # "name"
                   /\ running' = running \ {r}
                   /\ IF r.job \in Calls
                      THEN calls' = To(r.job, "done") /\ UNCHANGED pass
                      ELSE pass' = [pass EXCEPT ![r.job] = "working"] /\ UNCHANGED calls
                   /\ UNCHANGED <<gates, published, operation, jobs, idleOwner, session, line>>

DecideCommit(r) == /\ r.phase = "planning" /\ ~MustReturn(r)
                   /\ running' = (running \ {r}) \union {Run(r.job, "committing", r.saw)}
                   /\ UNCHANGED <<gates, published, operation, drives, idleOwner, session, line,
                                  calls>>

\* The commit has landed: publish, signal, and let go of the line. One of a pass may settle its
\* operation.
Commit(r) ==
    /\ r.phase = "committing"
    /\ running' = running \ {r}
    /\ LET job == r.job
           l == LaneOf(job)
       IN  /\ \E ends \in {KindOf(job) = "settle", FALSE} :
                 /\ operation' = IF KindOf(job) = "accept" \/ ends
                                 THEN [operation EXCEPT ![l] = ~ends]
                                 ELSE operation
                 /\ pass' = IF job \in Lanes
                            THEN [pass EXCEPT ![l] = IF ends THEN "settled" ELSE "working"]
                            ELSE pass
           /\ published' = IF KindOf(job) = "acquire" THEN published \union {l} ELSE published
           /\ calls' = Woken(IF job \in Calls THEN To(job, "done") ELSE calls,
                             IF KindOf(job) \in LaneKinds \union {"settle"} THEN {l} ELSE {}, Change)
    /\ UNCHANGED <<gates, jobs, idleOwner, session, line>>

\* The planner or the storage throws.
Fail(r) == /\ running' = running \ {r}
           /\ Raise(IF r.job \in Calls THEN To(r.job, "done") ELSE calls, running \ {r})
           /\ pass' = IF r.job \in Lanes THEN [pass EXCEPT ![r.job] = "ending"] ELSE pass
           /\ UNCHANGED <<published, operation, jobs, idleOwner, session, line>>

-----------------------------------------------------------------------------
(* Off the line: passes and idle callbacks *)

\* A pass asks for the line, to go on with its operation or to settle it, or finds its lane sealed.
\* No idle callback owns the lane of a pass, so it never waits as other commands do.
PassCommand(l) == /\ pass[l] = "working"
                  /\ jobs[l] < MaxJobs
                  /\ IF Shut("settle", l) \/ session # "open"
                     THEN pass' = [pass EXCEPT ![l] = "ending"] /\ UNCHANGED <<jobs, line>>
                     ELSE /\ pass' = [pass EXCEPT ![l] = "queued"]
                          /\ jobs' = [jobs EXCEPT ![l] = @ + 1]
                          /\ line' = Append(line, l)
                  /\ UNCHANGED <<gates, published, operation, idleOwner, session, running, calls>>

\* It returns with its operation still open (a retry to wait for), or it throws.
PassReturns(l) == /\ pass[l] = "working"
                  /\ pass' = [pass EXCEPT ![l] = "ending"]
                  /\ UNCHANGED <<gates, published, operation, jobs, idleOwner, session, line, running,
                                 calls>>
PassThrows(l) == /\ pass[l] = "working"
                 /\ pass' = [pass EXCEPT ![l] = "ending"]
                 /\ Raise(calls, running)
                 /\ UNCHANGED <<published, operation, jobs, idleOwner, session, line, running>>

\* activeDrive is cleared, and the completion of the pass settles.
PassEnds(l) == /\ pass[l] \in {"ending", "settled"}
               /\ pass' = [pass EXCEPT ![l] = "none"]
               /\ calls' = Woken(calls, {l}, {"change", "pass", "outcome"})
               /\ UNCHANGED <<gates, published, operation, jobs, idleOwner, session, line, running>>

Release(c) == LET l == calls[c].lane
              IN  /\ idleOwner' = [idleOwner EXCEPT ![l] = None]
                  /\ calls' = Woken(To(c, "done"), {l}, Change)
                  /\ UNCHANGED <<gates, published, operation, drives, session, line, running>>

\* The claim has been answered: the callback starts unless the lane has been sealed meanwhile.
StartCallback(c) == /\ calls[c].pc = "claimed"
                    /\ sealed[calls[c].lane] = "no"
                    /\ calls' = To(c, "callback")
                    /\ UNCHANGED line
                    /\ Others
\* Mutation: the owner is released only after a callback that has started.
SkipWithoutRelease(c) == /\ calls[c].pc = "claimed"
                         /\ sealed[calls[c].lane] # "no"
                         /\ calls' = To(c, "done")
                         /\ UNCHANGED line
                         /\ Others
SkipCallback(c) == /\ calls[c].pc = "claimed"
                   /\ sealed[calls[c].lane] # "no"
                   /\ Release(c)
EndCallback(c) == calls[c].pc = "callback" /\ Release(c)

-----------------------------------------------------------------------------
Init == /\ faulted = FALSE /\ closed = "no"
        /\ published = Lanes \ Late
        /\ sealed = [l \in Lanes |-> "no"]
        /\ operation \in { f \in [Lanes -> BOOLEAN] : \A l \in Late : ~f[l] }
        /\ pass = [l \in Lanes |-> "none"] /\ jobs = [l \in Lanes |-> 0]
        /\ idleOwner = [l \in Lanes |-> None]
        /\ session = "open"
        /\ line = <<>> /\ running = {}
        /\ awaited = {} /\ acquiring = {}
        /\ calls = [c \in Calls |-> Unused]

LineStep == \/ GrantRefused
            \/ \E c \in Calls : GrantBlocked(c) \/ GrantDrive(c) \/ GrantIdle(c) \/ GrantKnown(c)
            \/ \E job \in Jobs : GrantPlan(job)
            \/ \E r \in running : DecideReturn(r) \/ DecideCommit(r) \/ Commit(r) \/ Fail(r)
PassStep(l) == PassCommand(l) \/ PassReturns(l) \/ PassThrows(l) \/ PassEnds(l)
CallbackStep(c) == StartCallback(c) \/ SkipCallback(c) \/ EndCallback(c)
CloseStep == CloseSession \/ CloseResolves

\* What goes on by itself: jobs, passes, callbacks, and calls whose wait is over.
Proceed == \/ LineStep \/ CloseStep
           \/ \E l \in Lanes : PassStep(l)
           \/ \E c \in Calls : Retry(c) \/ Answer(c) \/ CallbackStep(c)

Next == \/ \E c \in Calls : CallLane(c) \/ CallHarness(c) \/ GiveUp(c)
        \/ Close
        \/ Proceed

Spec == Init /\ [][Next]_vars

\* The event loop does not rest while anything is ready; commits, passes and idle callbacks end.
\* Nobody has to make a call, to give up or to close.
FairSpec == Spec /\ WF_vars(Proceed)

-----------------------------------------------------------------------------
(* Properties *)

Placed(job) == \/ \E i \in DOMAIN line : line[i] = job
               \/ \E r \in running : r.job = job
CallRecord == [kind : Kinds, lane : Lanes \union {None},
               pc : {"unused", "waiting", "queued", "claimed", "callback", "done"},
               on : {"nothing", "change", "pass", "outcome"}, woken : BOOLEAN]

\* Types, and each job has its place: a call or a pass counts as queued exactly while its job is
\* on the line or holds it.
TypeOK ==
    /\ faulted \in BOOLEAN /\ closed \in {"no", "closing", "done"}
    /\ published \subseteq Lanes
    /\ sealed \in [Lanes -> {"no", "fault", "closed"}]
    /\ operation \in [Lanes -> BOOLEAN]
    /\ pass \in [Lanes -> {"none", "working", "queued", "ending", "settled"}]
    /\ jobs \in [Lanes -> 0..MaxJobs]
    /\ idleOwner \in [Lanes -> Calls \union {None}]
    /\ session \in {"open", "closing", "closed"}
    /\ line \in Seq(Jobs)
    /\ running \subseteq [job : Jobs, phase : {"planning", "committing"}, saw : BOOLEAN]
    /\ awaited \subseteq Calls /\ acquiring \subseteq Lanes
    /\ calls \in [Calls -> CallRecord]
    /\ \A c \in Calls : calls[c].pc = "queued" <=> Placed(c)
    /\ \A l \in Lanes : pass[l] = "queued" <=> Placed(l)

\* A job commits what it planned for the state it commits to: between the reading of a planner and
\* its commit nothing else changes the lane, on whichever lanes and through whichever calls.
PlansAreCurrent == \A r \in running : r.saw = View(r.job)

\* While an idle callback owns a lane nothing is committed there, no pass runs and no other
\* callback: whatever was queued before the claim, or passed the first look at the owner.
IdleOwnsLane ==
    \A l \in Lanes : idleOwner[l] # None =>
        /\ pass[l] = "none" /\ ~operation[l]
        /\ \A r \in running : KindOf(r.job) \in LaneKinds \union {"settle"} => LaneOf(r.job) # l
        /\ \A c \in Calls : (calls[c].pc \in {"claimed", "callback"} /\ calls[c].lane = l)
                                => c = idleOwner[l]

\* After a fault or a close no job starts to plan, on whatever lane and wherever it was queued when
\* it came. One kind of lane escapes a fault: a lane whose acquisition held the line at that
\* moment. Harness.lane publishes it without another look at the gates, unsealed (see
\* FaultStopsAllCalls). Nothing escapes a close.
NothingStartsAfterSeal ==
    [][ShutHarness => \A r \in running' \ running :
            r.phase = "planning" =>
                /\ closed = "no"
                /\ KindOf(r.job) \in LaneKinds \union {"settle"}
                /\ LaneOf(r.job) \in acquiring]_vars

\* "A failed admitted commit faults the harness: all effects stop, all calls reject, the process
\* must restart" (docs/harness.md). The code breaks this on a lane that escapes.
FaultStopsAllCalls == [][faulted => \A r \in running' \ running : r.phase # "planning"]_vars

\* When close has resolved no callback runs or will run, and no job commits to the closed storage.
QuietAfterClose == closed = "done" => /\ \A c \in Calls : calls[c].pc \notin {"claimed", "callback"}
                                      /\ \A l \in Lanes : idleOwner[l] = None
                                      /\ running = {} /\ line = <<>>

\* Every call settles, whatever it waits for on the way, and whoever faults or closes the harness
\* meanwhile; but a wait for an open lane to become idle lasts while nobody drives its operation.
Unanswered(c) == calls[c].pc \notin {"unused", "done"}
AwaitsOperation(c) == /\ calls[c].pc = "waiting" /\ calls[c].kind \in {"idle", "wait"}
                      /\ operation[calls[c].lane] /\ sealed[calls[c].lane] = "no"
CallsSettle == []<>(\A c \in Calls : Unanswered(c) => AwaitsOperation(c))

\* close resolves: neither the line nor an owner it waits for is held for ever.
CloseEnds == []<>(closed # "closing")
=============================================================================
