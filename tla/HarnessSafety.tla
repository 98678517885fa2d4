--------------------------- MODULE HarnessSafety ---------------------------
(***************************************************************************)
(* Theorems about HarnessLifecycle for any sets of lanes and calls. What   *)
(* is excluded on a lane is decided when a job starts, what was true when  *)
(* it was queued does not matter; the proofs rest on the line being        *)
(* exclusive and on no job being there twice.                              *)
(***************************************************************************)
EXTENDS HarnessLifecycle, TLAPS

-----------------------------------------------------------------------------
(* The inductive invariant *)

Passes == {"none", "working", "queued", "ending", "settled"}

Types ==
    /\ faulted \in BOOLEAN /\ closed \in {"no", "closing", "done"}
    /\ published \subseteq Lanes
    /\ sealed \in [Lanes -> {"no", "fault", "closed"}]
    /\ operation \in [Lanes -> BOOLEAN]
    /\ pass \in [Lanes -> Passes]
    /\ jobs \in [Lanes -> 0..MaxJobs]
    /\ idleOwner \in [Lanes -> Calls \union {None}]
    /\ session \in {"open", "closing", "closed"}
    /\ line \in Seq(Jobs)
    /\ running \subseteq [job : Jobs, phase : {"planning", "committing"}, saw : BOOLEAN]
    /\ awaited \subseteq Calls /\ acquiring \subseteq Lanes
    /\ calls \in [Calls -> CallRecord]

On(s, job) == \E i \in DOMAIN s : s[i] = job
Once(s) == \A i, j \in DOMAIN s : s[i] = s[j] => i = j

\* A job is on the line once, or it is the one that holds it.
Exclusive == /\ Once(line)
             /\ \A r \in running : ~On(line, r.job)
             /\ \A r, q \in running : r = q

\* Calls and passes count as queued exactly while their jobs are placed.
Placement == /\ \A c \in Calls : calls[c].pc = "queued" <=> Placed(c)
             /\ \A l \in Lanes : pass[l] = "queued" <=> Placed(l)

\* Clients hold only lanes that have been published, and passes run only there.
Named == /\ \A c \in Calls : /\ calls[c].kind # "name" => calls[c].lane \in Lanes
                             /\ calls[c].kind \in LaneKinds => calls[c].lane \in published
         /\ \A l \in Lanes : pass[l] # "none" => l \in published

\* A callback owns the lane of its call from the claim on.
Owners == /\ \A c \in Calls : calls[c].pc \in {"claimed", "callback"} =>
                /\ calls[c].kind = "idle"
                /\ idleOwner[calls[c].lane] = c
          /\ \A l \in Lanes : idleOwner[l] # None => l \in published

\* From close on there are only the owners it waits for, and nothing is queued.
Closing == /\ closed = "no" <=> session = "open"
           /\ closed = "done" => session = "closed"
           /\ session = "closed" => line = <<>> /\ running = {}
           /\ \A l \in Lanes : idleOwner[l] # None =>
                 /\ closed # "no" => idleOwner[l] \in awaited
                 /\ closed # "done"

\* What excludes the callbacks of a lane and its jobs from one another.
Alone == \A l \in Lanes : idleOwner[l] # None =>
            /\ pass[l] = "none" /\ ~operation[l]
            /\ \A r \in running : KindOf(r.job) \in LaneKinds \union {"settle"} => LaneOf(r.job) # l

IInv == /\ Types /\ Exclusive /\ Placement /\ Named /\ Owners /\ Closing
        /\ PlansAreCurrent /\ Alone

-----------------------------------------------------------------------------
(* The line and the calls *)

LEMMA OnTail ==
    ASSUME NEW S, NEW s \in Seq(S), s # <<>>, Once(s)
    PROVE  /\ Tail(s) \in Seq(S) /\ Head(s) \in S /\ Once(Tail(s)) /\ On(s, Head(s))
           /\ \A job : On(Tail(s), job) <=> On(s, job) /\ job # Head(s)
<1>1. /\ Tail(s) \in Seq(S) /\ Head(s) \in S /\ Head(s) = s[1]
      /\ Len(s) \in Nat /\ Len(s) >= 1 /\ DOMAIN s = 1..Len(s)
      /\ DOMAIN Tail(s) = 1..(Len(s) - 1)
      /\ \A i \in 1..(Len(s) - 1) : Tail(s)[i] = s[i + 1]
  OBVIOUS
<1>2. Once(Tail(s))
  BY <1>1 DEF Once
<1>3. ASSUME NEW job PROVE On(Tail(s), job) <=> On(s, job) /\ job # Head(s)
  <2>1. ASSUME On(Tail(s), job) PROVE On(s, job) /\ job # Head(s)
    BY <1>1, <2>1 DEF On, Once
  <2>2. ASSUME On(s, job), job # Head(s) PROVE On(Tail(s), job)
    <3>1. PICK i \in DOMAIN s : s[i] = job
      BY <2>2 DEF On
    <3>2. i - 1 \in 1..(Len(s) - 1) /\ Tail(s)[i - 1] = job
      BY <1>1, <2>2, <3>1
    <3> QED BY <1>1, <3>2 DEF On
  <2> QED BY <2>1, <2>2
<1>4. On(s, Head(s))
  BY <1>1 DEF On
<1> QED BY <1>1, <1>2, <1>3, <1>4

LEMMA OnAppend ==
    ASSUME NEW S, NEW s \in Seq(S), NEW new \in S, Once(s), ~On(s, new)
    PROVE  /\ Append(s, new) \in Seq(S) /\ Once(Append(s, new))
           /\ \A job : On(Append(s, new), job) <=> On(s, job) \/ job = new
<1>1. /\ Append(s, new) \in Seq(S)
      /\ Len(s) \in Nat /\ DOMAIN s = 1..Len(s)
      /\ DOMAIN Append(s, new) = 1..(Len(s) + 1)
      /\ \A i \in 1..Len(s) : Append(s, new)[i] = s[i]
      /\ Append(s, new)[Len(s) + 1] = new
  OBVIOUS
<1>2. Once(Append(s, new))
  BY <1>1 DEF Once, On
<1>3. ASSUME NEW job PROVE On(Append(s, new), job) <=> On(s, job) \/ job = new
  BY <1>1 DEF On
<1> QED BY <1>1, <1>2, <1>3

\* The jobs of a pass are counted from none to the bound.
LEMMA JobCounts ==
    /\ [l \in Lanes |-> 0] \in [Lanes -> 0..MaxJobs]
    /\ \A f \in [Lanes -> 0..MaxJobs], l \in Lanes :
          /\ [f EXCEPT ![l] = 0] \in [Lanes -> 0..MaxJobs]
          /\ f[l] < MaxJobs => [f EXCEPT ![l] = @ + 1] \in [Lanes -> 0..MaxJobs]
<1> DEFINE Counts == 0..MaxJobs
<1>1. 0 \in Counts /\ \A n \in Counts : n < MaxJobs => n + 1 \in Counts
  BY MaxJobsAssumption
<1> HIDE DEF Counts
<1>2. [l \in Lanes |-> 0] \in [Lanes -> Counts]
  BY <1>1
<1>3. ASSUME NEW f \in [Lanes -> Counts], NEW l \in Lanes
      PROVE  /\ [f EXCEPT ![l] = 0] \in [Lanes -> Counts]
             /\ f[l] < MaxJobs => [f EXCEPT ![l] = @ + 1] \in [Lanes -> Counts]
  BY <1>1
<1> QED BY <1>2, <1>3, Zenon DEF Counts

\* Only the program counters differ.
Alike(now, then) == \A c \in Calls : now[c].kind = then[c].kind /\ now[c].lane = then[c].lane
Pcs == {"unused", "waiting", "queued", "claimed", "callback", "done"}

LEMMA WokenKeeps ==
    ASSUME NEW now \in [Calls -> CallRecord], NEW lanes, NEW on
    PROVE  /\ Woken(now, lanes, on) \in [Calls -> CallRecord]
           /\ Alike(Woken(now, lanes, on), now)
           /\ \A c \in Calls : Woken(now, lanes, on)[c].pc = now[c].pc
<1>1. ASSUME NEW c \in Calls
      PROVE  LET w == Woken(now, lanes, on)[c]
             IN  w \in CallRecord /\ w.kind = now[c].kind /\ w.lane = now[c].lane /\ w.pc = now[c].pc
  BY DEF Woken, CallRecord
<1>2. Woken(now, lanes, on) = [c \in Calls |-> Woken(now, lanes, on)[c]]
  BY DEF Woken
<1> QED BY <1>1, <1>2 DEF Alike

LEMMA ToMoves ==
    ASSUME calls \in [Calls -> CallRecord], NEW c \in Calls, NEW pc \in Pcs
    PROVE  /\ To(c, pc) \in [Calls -> CallRecord]
           /\ Alike(To(c, pc), calls)
           /\ \A d \in Calls : To(c, pc)[d].pc = IF d = c THEN pc ELSE calls[d].pc
  BY DEF To, CallRecord, Alike, Pcs

LEMMA BlockedMoves ==
    ASSUME calls \in [Calls -> CallRecord], NEW c \in Calls, NEW on \in {"change", "pass", "outcome"}
    PROVE  /\ Blocked(c, on) \in [Calls -> CallRecord]
           /\ Alike(Blocked(c, on), calls)
           /\ \A d \in Calls : Blocked(c, on)[d].pc = IF d = c THEN "waiting" ELSE calls[d].pc
  BY DEF Blocked, CallRecord, Alike

\* What a step does to the calls: all stay where they are, or one of them moves.
Kept == /\ calls' \in [Calls -> CallRecord]
        /\ Alike(calls', calls)
        /\ \A d \in Calls : calls'[d].pc = calls[d].pc
Moved(c, pc) == /\ calls' \in [Calls -> CallRecord]
                /\ Alike(calls', calls)
                /\ \A d \in Calls : calls'[d].pc = IF d = c THEN pc ELSE calls[d].pc

LEMMA SameJobs ==
    ASSUME Alike(calls', calls), NEW job \in Jobs
    PROVE  KindOf(job)' = KindOf(job) /\ LaneOf(job)' = LaneOf(job)
  BY DEF Alike, Jobs, KindOf, LaneOf

LEMMA SameView ==
    ASSUME NEW job, KindOf(job)' = KindOf(job), LaneOf(job)' = LaneOf(job),
           published' = published, operation' = operation
    PROVE  View(job)' = View(job)
  BY Zenon DEF View

-----------------------------------------------------------------------------
(* Each action keeps the invariant *)

\* Steps that move no job: calls which are not queued may move, gates may shut.
Aside == /\ UNCHANGED <<published, operation, line, running>>
         /\ calls' \in [Calls -> CallRecord]
         /\ Alike(calls', calls)
         /\ \A d \in Calls : calls'[d].pc = "queued" <=> calls[d].pc = "queued"
         /\ pass' \in [Lanes -> Passes]
         /\ \A l \in Lanes : /\ pass'[l] = "queued" <=> pass[l] = "queued"
                             /\ pass'[l] # "none" => pass[l] # "none"
         /\ idleOwner' \in [Lanes -> Calls \union {None}]
         /\ \A l \in Lanes : idleOwner'[l] # None => idleOwner[l] # None

LEMMA AsideKeeps ==
    ASSUME IInv, Aside
    PROVE  Exclusive' /\ Placement' /\ Named' /\ PlansAreCurrent' /\ Alone'
<1> USE DEF IInv, Aside, Types
<1>1. \A job : Placed(job)' <=> Placed(job)
  BY DEF Placed
<1>2. \A r \in running : r.job \in Jobs
  OBVIOUS
<1>3. Exclusive'
  BY DEF Exclusive
<1>4. Placement'
  BY <1>1 DEF Placement
<1>5. Named'
  BY DEF Named, Alike
<1>6. \A job \in Jobs : KindOf(job)' = KindOf(job) /\ LaneOf(job)' = LaneOf(job)
  BY SameJobs
<1>7. PlansAreCurrent'
  <2>1. \A r \in running : View(r.job)' = View(r.job)
    BY <1>2, <1>6, SameView
  <2> QED BY <2>1 DEF PlansAreCurrent
<1>8. Alone'
  BY <1>2, <1>6 DEF Alone
<1> QED BY <1>3, <1>4, <1>5, <1>7, <1>8

LEMMA WokenKept ==
    ASSUME Types, NEW lanes, NEW on, calls' = Woken(calls, lanes, on)
    PROVE  Kept
  BY WokenKeeps DEF Types, Kept

LEMMA ToMoved ==
    ASSUME Types, NEW c \in Calls, NEW pc \in Pcs, calls' = To(c, pc)
    PROVE  Moved(c, pc)
  BY ToMoves DEF Types, Moved

LEMMA WokenMoved ==
    ASSUME Types, NEW c \in Calls, NEW pc \in Pcs, NEW lanes, NEW on,
           calls' = Woken(To(c, pc), lanes, on)
    PROVE  Moved(c, pc)
<1>1. /\ To(c, pc) \in [Calls -> CallRecord]
      /\ Alike(To(c, pc), calls)
      /\ \A d \in Calls : To(c, pc)[d].pc = IF d = c THEN pc ELSE calls[d].pc
  BY ToMoves DEF Types
<1>2. /\ calls' \in [Calls -> CallRecord]
      /\ Alike(calls', To(c, pc))
      /\ \A d \in Calls : calls'[d].pc = To(c, pc)[d].pc
  BY <1>1, WokenKeeps
<1> QED BY <1>1, <1>2 DEF Moved, Alike

LEMMA SealTyped == ASSUME Types, NEW error \in {"fault", "closed"}
                   PROVE  SealAll(error) \in [Lanes -> {"no", "fault", "closed"}]
  BY DEF Types, SealAll

LEMMA CloseKeeps == ASSUME IInv, Close PROVE IInv'
<1>1. Kept
  BY WokenKept DEF IInv, Close
<1>2. Aside
  BY <1>1 DEF Aside, Kept, Close, drives, IInv, Types
<1>3. Types'
  BY <1>1, SealTyped DEF Kept, Close, drives, IInv, Types, Jobs
<1>4. Owners'
  BY <1>1 DEF Kept, Alike, Close, IInv, Owners
<1>5. Closing'
  BY <1>1 DEF Close, IInv, Closing, Owners
<1> QED BY <1>2, <1>3, <1>4, <1>5, AsideKeeps DEF IInv

LEMMA CloseStepKeeps == ASSUME IInv, CloseStep PROVE IInv'
<1>1. /\ UNCHANGED <<faulted, published, sealed, operation, pass, jobs, idleOwner, line, running,
                     awaited, acquiring, calls>>
  BY DEF CloseStep, CloseSession, CloseResolves, gates, drives
<1>2. Aside
  BY <1>1 DEF Aside, Alike, IInv, Types
<1>3. Types'
  BY <1>1 DEF CloseStep, CloseSession, CloseResolves, gates, IInv, Types, Jobs
<1>4. Owners'
  BY <1>1 DEF IInv, Owners
<1>5. Closing'
  <2>1. CASE CloseSession
    BY <1>1, <2>1 DEF CloseSession, gates, IInv, Closing
  <2>2. CASE CloseResolves
    BY <1>1, <2>2, CallsAssumption DEF CloseResolves, IInv, Closing, Types
  <2> QED BY <2>1, <2>2 DEF CloseStep
<1> QED BY <1>2, <1>3, <1>4, <1>5, AsideKeeps DEF IInv

LEMMA GiveUpKeeps == ASSUME IInv, NEW c \in Calls, GiveUp(c) \/ Answer(c) PROVE IInv'
<1>1. Moved(c, "done") /\ calls[c].pc = "waiting" /\ UNCHANGED line /\ Others
  BY ToMoved DEF IInv, GiveUp, Answer, Pcs
<1>2. Aside
  BY <1>1 DEF Aside, Moved, Others, drives, IInv, Types
<1>3. Types'
  BY <1>1 DEF Moved, Others, gates, drives, IInv, Types, Jobs
<1>4. Owners'
  BY <1>1 DEF Moved, Alike, Others, IInv, Owners
<1>5. Closing'
  BY <1>1 DEF Others, gates, IInv, Closing
<1> QED BY <1>2, <1>3, <1>4, <1>5, AsideKeeps DEF IInv

LEMMA ReleaseKeeps ==
    ASSUME IInv, NEW c \in Calls, calls[c].pc \in {"claimed", "callback"}, Release(c)
    PROVE  IInv'
<1>1. Moved(c, "done")
  BY WokenMoved DEF IInv, Release, Pcs
<1>2. calls[c].kind = "idle" /\ calls[c].lane \in Lanes /\ idleOwner[calls[c].lane] = c
  BY DEF IInv, Owners, Named
<1>3. /\ idleOwner' \in [Lanes -> Calls \union {None}]
      /\ \A l \in Lanes : idleOwner'[l] = IF l = calls[c].lane THEN None ELSE idleOwner[l]
  BY <1>2 DEF Release, IInv, Types
<1>4. Aside
  BY <1>1, <1>3 DEF Aside, Moved, Release, drives, IInv, Types
<1>5. Types'
  BY <1>1, <1>3 DEF Moved, Release, gates, drives, IInv, Types, Jobs
<1>6. Owners'
  <2>1. ASSUME NEW d \in Calls, calls'[d].pc \in {"claimed", "callback"}
        PROVE  calls'[d].kind = "idle" /\ idleOwner'[calls'[d].lane] = d
    <3>1. d # c /\ calls[d].pc \in {"claimed", "callback"} /\ calls'[d].lane = calls[d].lane
          /\ calls'[d].kind = calls[d].kind
      BY <1>1, <2>1 DEF Moved, Alike
    <3>2. calls[d].kind = "idle" /\ calls[d].lane \in Lanes /\ idleOwner[calls[d].lane] = d
      BY <3>1 DEF IInv, Owners, Named
    <3> QED BY <1>2, <1>3, <3>1, <3>2
  <2>2. \A l \in Lanes : idleOwner'[l] # None => l \in published'
    BY <1>3 DEF Release, IInv, Owners
  <2> QED BY <2>1, <2>2 DEF Owners
<1>7. Closing'
  BY <1>3 DEF Release, gates, IInv, Closing
<1> QED BY <1>4, <1>5, <1>6, <1>7, AsideKeeps DEF IInv

LEMMA CallbackKeeps == ASSUME IInv, NEW c \in Calls, CallbackStep(c) PROVE IInv'
<1>1. CASE StartCallback(c)
  <2>1. Moved(c, "callback")
    BY <1>1, ToMoved DEF IInv, StartCallback, Pcs
  <2>2. Aside
    BY <1>1, <2>1 DEF Aside, Moved, StartCallback, Others, drives, IInv, Types
  <2>3. Types'
    BY <1>1, <2>1 DEF Moved, StartCallback, Others, gates, drives, IInv, Types, Jobs
  <2>4. Owners'
    BY <1>1, <2>1 DEF Moved, Alike, StartCallback, Others, IInv, Owners
  <2>5. Closing'
    BY <1>1 DEF StartCallback, Others, gates, IInv, Closing
  <2> QED BY <2>2, <2>3, <2>4, <2>5, AsideKeeps DEF IInv
<1>2. CASE SkipCallback(c) \/ EndCallback(c)
  BY <1>2, ReleaseKeeps DEF SkipCallback, EndCallback
<1> QED BY <1>1, <1>2 DEF CallbackStep

LEMMA RaiseDoes ==
    ASSUME Types, Named, NEW now \in [Calls -> CallRecord],
           NEW holders \in SUBSET running, Raise(now, holders)
    PROVE  /\ calls' \in [Calls -> CallRecord]
           /\ Alike(calls', now)
           /\ \A c \in Calls : calls'[c].pc = now[c].pc
           /\ sealed' \in [Lanes -> {"no", "fault", "closed"}]
           /\ faulted' \in BOOLEAN /\ acquiring' \subseteq Lanes
           /\ UNCHANGED <<closed, awaited>>
<1>1. CASE ShutHarness
  BY <1>1 DEF Raise, gates, Alike, Types
<1>2. CASE ~ShutHarness
  <2>1. AcquiredBy(holders) \subseteq Lanes
    <3> SUFFICES ASSUME NEW r \in running, KindOf(r.job) = "acquire" PROVE LaneOf(r.job) \in Lanes
      BY DEF AcquiredBy
    <3> QED BY DEF KindOf, LaneOf, Named, Types, Jobs
  <2> QED BY <1>2, <2>1, WokenKeeps, SealTyped DEF Raise, Types
<1> QED BY <1>1, <1>2

LEMMA PassOffLineKeeps ==
    ASSUME IInv, NEW l \in Lanes, PassReturns(l) \/ PassThrows(l) \/ PassEnds(l)
    PROVE  IInv'
<1>1. Kept
  <2>1. CASE PassReturns(l)
    BY <2>1 DEF PassReturns, Kept, Alike, IInv, Types
  <2>2. CASE PassThrows(l)
    BY <2>2, RaiseDoes DEF PassThrows, Kept, IInv, Types
  <2>3. CASE PassEnds(l)
    BY <2>3, WokenKept DEF PassEnds, IInv
  <2> QED BY <2>1, <2>2, <2>3
<1>2. /\ sealed' \in [Lanes -> {"no", "fault", "closed"}]
      /\ faulted' \in BOOLEAN /\ acquiring' \subseteq Lanes
      /\ UNCHANGED <<closed, awaited>>
  <2>1. CASE PassThrows(l)
    BY <2>1, RaiseDoes DEF PassThrows, IInv, Types
  <2>2. CASE PassReturns(l) \/ PassEnds(l)
    BY <2>2 DEF PassReturns, PassEnds, gates, IInv, Types
  <2> QED BY <2>1, <2>2
<1>3. /\ UNCHANGED <<published, operation, jobs, idleOwner, session, line, running>>
      /\ pass[l] # "queued" /\ pass[l] # "none"
      /\ \E to \in {"ending", "none"} : pass' = [pass EXCEPT ![l] = to]
  BY DEF PassReturns, PassThrows, PassEnds
<1>4. Aside
  BY <1>1, <1>3 DEF Aside, Kept, IInv, Types, Passes
<1>5. Types'
  BY <1>1, <1>2, <1>3 DEF Kept, IInv, Types, Passes, Jobs
<1>6. Owners'
  BY <1>1, <1>3 DEF Kept, Alike, IInv, Owners
<1>7. Closing'
  BY <1>2, <1>3 DEF IInv, Closing
<1> QED BY <1>4, <1>5, <1>6, <1>7, AsideKeeps DEF IInv

\* A job joins the end of the line.
LEMMA PassCommandKeeps == ASSUME IInv, NEW l \in Lanes, PassCommand(l) PROVE IInv'
<1> USE DEF IInv
<1>1. /\ UNCHANGED <<gates, published, operation, idleOwner, session, running, calls>>
      /\ pass[l] = "working"
      /\ \/ pass' = [pass EXCEPT ![l] = "ending"] /\ UNCHANGED line
         \/ session = "open" /\ pass' = [pass EXCEPT ![l] = "queued"] /\ line' = Append(line, l)
  BY DEF PassCommand
<1>5. jobs' \in [Lanes -> 0..MaxJobs]
  <2>1. jobs' = jobs \/ (jobs[l] < MaxJobs /\ jobs' = [jobs EXCEPT ![l] = jobs[l] + 1])
    BY DEF PassCommand
  <2>2. jobs \in [Lanes -> 0..MaxJobs]
    BY DEF Types
  <2>3. jobs[l] < MaxJobs => [jobs EXCEPT ![l] = jobs[l] + 1] \in [Lanes -> 0..MaxJobs]
    BY <2>2, JobCounts, Zenon
  <2> QED BY <2>1, <2>2, <2>3, Zenon
<1>2. l \in Jobs /\ ~Placed(l) /\ ~On(line, l) /\ Once(line) /\ line \in Seq(Jobs) /\ l \notin Calls
  BY <1>1, CallsAssumption DEF Jobs, Placement, Placed, On, Exclusive, Types
<1>3. CASE pass' = [pass EXCEPT ![l] = "ending"] /\ UNCHANGED line
  <2>1. Aside
    BY <1>1, <1>2, <1>3 DEF Aside, Alike, Types, Passes, Placement
  <2>2. Types'
    BY <1>1, <1>3, <1>5 DEF Types, Passes, gates, Jobs
  <2>3. Owners' /\ Closing'
    BY <1>1, <1>3 DEF Owners, Closing, gates
  <2> QED BY <2>1, <2>2, <2>3, AsideKeeps
<1>4. CASE session = "open" /\ pass' = [pass EXCEPT ![l] = "queued"] /\ line' = Append(line, l)
  <2>1. line' \in Seq(Jobs) /\ Once(line') /\ \A job : On(line', job) <=> On(line, job) \/ job = l
    BY <1>2, <1>4, OnAppend
  <2>2. \A job : Placed(job)' <=> Placed(job) \/ job = l
    BY <1>1, <2>1 DEF Placed, On
  <2>3. Types'
    BY <1>1, <1>4, <1>5, <2>1 DEF Types, Passes, gates, Jobs
  <2>4. Exclusive'
    BY <1>1, <1>2, <2>1 DEF Exclusive, Placed
  <2>5. Placement'
    BY <1>1, <1>2, <1>4, <2>2 DEF Placement, Types
  <2>6. Named' /\ Owners'
    BY <1>1, <1>4 DEF Named, Owners, Types
  <2>7. Closing'
    BY <1>1, <1>4 DEF Closing, gates
  <2>8. PlansAreCurrent'
    BY <1>1 DEF PlansAreCurrent, View, KindOf, LaneOf
  <2>9. Alone'
    BY <1>1, <1>4 DEF Alone, KindOf, LaneOf, Types
  <2> QED BY <2>3, <2>4, <2>5, <2>6, <2>7, <2>8, <2>9
<1> QED BY <1>1, <1>3, <1>4

\* A call that is made, or made again, has no job: it may become any other one.
LEMMA EnterKeeps ==
    ASSUME IInv, NEW c \in Calls, calls[c].pc \in {"unused", "waiting"},
           NEW kind \in Kinds, NEW l \in Lanes \union {None},
           kind # "name" => l \in Lanes, kind \in LaneKinds => l \in published,
           Enter(c, kind, l)
    PROVE  IInv'
<1> USE DEF IInv
<1>1. /\ UNCHANGED <<gates, published, operation, pass, jobs, idleOwner, session, running>>
      /\ \E rec \in CallRecord :
            /\ calls' = [calls EXCEPT ![c] = rec]
            /\ rec.kind = kind /\ rec.lane = l
            /\ \/ rec.pc \in {"done", "waiting"} /\ UNCHANGED line
               \/ session = "open" /\ rec.pc = "queued" /\ line' = Append(line, c)
  <2>1. \A pc \in {"done", "queued"} : Call(kind, l, pc) \in CallRecord
    BY DEF Call, CallRecord
  <2>2. Waiting(kind, l, "change") \in CallRecord
    BY DEF Waiting, CallRecord
  <2> QED BY <2>1, <2>2 DEF Enter, Others, drives, Call, Waiting
<1>2. PICK rec \in CallRecord :
            /\ calls' = [calls EXCEPT ![c] = rec]
            /\ rec.kind = kind /\ rec.lane = l
            /\ \/ rec.pc \in {"done", "waiting"} /\ UNCHANGED line
               \/ session = "open" /\ rec.pc = "queued" /\ line' = Append(line, c)
  BY <1>1
<1>3. c \in Jobs /\ ~Placed(c) /\ ~On(line, c) /\ Once(line) /\ line \in Seq(Jobs) /\ c \notin Lanes
  BY CallsAssumption DEF Jobs, Placement, Placed, On, Exclusive, Types
<1>4. /\ calls' \in [Calls -> CallRecord] /\ calls'[c] = rec
      /\ \A d \in Calls \ {c} : calls'[d] = calls[d]
  BY <1>2 DEF Types
<1>5. \A r \in running : /\ r.job \in Jobs /\ r.job # c
                         /\ KindOf(r.job)' = KindOf(r.job) /\ LaneOf(r.job)' = LaneOf(r.job)
  BY <1>3, <1>4 DEF Types, Placed, KindOf, LaneOf, Jobs
<1>6. Named' /\ Owners'
  <2>1. rec.pc \notin {"claimed", "callback"} /\ rec.kind = kind /\ rec.lane = l
    BY <1>2
  <2>2. Named'
    BY <1>1, <1>4, <2>1 DEF Named
  <2>3. Owners'
    BY <1>1, <1>4, <2>1 DEF Owners
  <2> QED BY <2>2, <2>3
<1>7. PlansAreCurrent'
  <2>1. \A r \in running : View(r.job)' = View(r.job)
    BY <1>1, <1>5, SameView
  <2> QED BY <1>1, <2>1 DEF PlansAreCurrent
<1>8. Alone'
  BY <1>1, <1>5 DEF Alone
<1>9. CASE rec.pc \in {"done", "waiting"} /\ UNCHANGED line
  <2>1. \A job : Placed(job)' <=> Placed(job)
    BY <1>1, <1>9 DEF Placed
  <2>2. Types' /\ Exclusive' /\ Closing'
    BY <1>1, <1>4, <1>9 DEF Types, Exclusive, Closing, gates, Jobs
  <2>3. Placement'
    BY <1>1, <1>3, <1>4, <1>9, <2>1 DEF Placement
  <2> QED BY <1>6, <1>7, <1>8, <2>2, <2>3
<1>10. CASE session = "open" /\ rec.pc = "queued" /\ line' = Append(line, c)
  <2>1. line' \in Seq(Jobs) /\ Once(line') /\ \A job : On(line', job) <=> On(line, job) \/ job = c
    BY <1>3, <1>10, OnAppend
  <2>2. \A job : Placed(job)' <=> Placed(job) \/ job = c
    BY <1>1, <2>1 DEF Placed, On
  <2>3. Types'
    BY <1>1, <1>4, <2>1 DEF Types, gates, Jobs
  <2>4. Exclusive'
    BY <1>1, <1>3, <2>1 DEF Exclusive, Placed
  <2>5. Placement'
    BY <1>1, <1>3, <1>4, <1>10, <2>2 DEF Placement
  <2>6. Closing'
    BY <1>1, <1>10 DEF Closing, gates
  <2> QED BY <1>6, <1>7, <1>8, <2>3, <2>4, <2>5, <2>6
<1> QED BY <1>2, <1>9, <1>10

LEMMA ClientKeeps ==
    ASSUME IInv, NEW c \in Calls, CallLane(c) \/ CallHarness(c) \/ Retry(c)
    PROVE  IInv'
<1>1. CASE CallLane(c)
  <2>1. PICK kind \in LaneKinds, l \in published : Enter(c, kind, l)
    BY <1>1 DEF CallLane
  <2>2. kind \in Kinds /\ l \in Lanes
    BY DEF Kinds, IInv, Types
  <2> QED BY <1>1, <2>1, <2>2, EnterKeeps DEF CallLane
<1>2. CASE CallHarness(c)
  <2>1. {"acquire", "name"} \subseteq Kinds \ LaneKinds
    BY DEF Kinds, LaneKinds
  <2>2. ASSUME NEW l \in Lanes, Enter(c, "acquire", l) PROVE IInv'
    BY <1>2, <2>1, <2>2, EnterKeeps DEF CallHarness
  <2>3. ASSUME Enter(c, "name", None) PROVE IInv'
    BY <1>2, <2>1, <2>3, EnterKeeps DEF CallHarness
  <2> QED BY <1>2, <2>2, <2>3 DEF CallHarness
<1>3. CASE Retry(c)
  <2>1. calls[c].kind \in Kinds /\ calls[c].lane \in Lanes \union {None}
    BY DEF IInv, Types, CallRecord
  <2> QED BY <1>3, <2>1, EnterKeeps DEF Retry, IInv, Named
<1> QED BY <1>1, <1>2, <1>3

\* The first job leaves the line without holding it.
LEMMA HeadLeaves ==
    ASSUME IInv, LineFree, line' = Tail(line), UNCHANGED running
    PROVE  /\ First \in Jobs /\ Placed(First)
           /\ running = {} /\ line' \in Seq(Jobs)
           /\ Exclusive' /\ PlansAreCurrent'
           /\ \A job : Placed(job)' <=> Placed(job) /\ job # First
<1>1. /\ Tail(line) \in Seq(Jobs) /\ Head(line) \in Jobs /\ Once(Tail(line)) /\ On(line, Head(line))
      /\ \A job : On(Tail(line), job) <=> On(line, job) /\ job # Head(line)
  BY OnTail DEF LineFree, IInv, Types, Exclusive
<1>2. running = {} /\ running' = {}
  BY DEF LineFree
<1>3. \A job : Placed(job) <=> On(line, job)
  BY <1>2 DEF Placed, On
<1>4. \A job : Placed(job)' <=> On(Tail(line), job)
  BY <1>2 DEF Placed, On
<1>5. Exclusive' /\ PlansAreCurrent'
  BY <1>1, <1>2 DEF Exclusive, PlansAreCurrent
<1> QED BY <1>1, <1>2, <1>3, <1>4, <1>5 DEF First

LEMMA GrantRefusedKeeps == ASSUME IInv, GrantRefused PROVE IInv'
<1> USE DEF IInv
<1>1. /\ UNCHANGED <<gates, published, operation, jobs, idleOwner, session, running>>
      /\ LineFree /\ line' = Tail(line)
  BY DEF GrantRefused
<1>2. /\ First \in Jobs /\ Placed(First)
      /\ running = {} /\ line' \in Seq(Jobs)
      /\ Exclusive' /\ PlansAreCurrent'
      /\ \A job : Placed(job)' <=> Placed(job) /\ job # First
  BY <1>1, HeadLeaves
<1>3. Closing'
  BY <1>1 DEF Closing, gates, LineFree
<1>4. CASE First \in Calls
  <2>1. First \notin Lanes /\ UNCHANGED pass /\ calls[First].pc = "queued"
    BY <1>2, <1>4, CallsAssumption DEF GrantRefused, Placement
  <2>2. Moved(First, "done")
    BY <1>4, ToMoved DEF GrantRefused, Pcs
  <2>3. Types'
    BY <1>1, <1>2, <2>1, <2>2 DEF Moved, Types, gates, Jobs
  <2>4. Placement'
    BY <1>2, <2>1, <2>2 DEF Placement, Moved
  <2>5. Named' /\ Owners'
    BY <1>1, <2>1, <2>2 DEF Named, Owners, Moved, Alike
  <2>6. Alone'
    BY <1>1, <1>2, <2>1 DEF Alone
  <2> QED BY <1>2, <1>3, <2>3, <2>4, <2>5, <2>6
<1>5. CASE First \in Lanes
  <2>1. First \notin Calls /\ UNCHANGED calls /\ pass[First] = "queued"
    BY <1>2, <1>5, CallsAssumption DEF GrantRefused, Placement
  <2>2. /\ pass' \in [Lanes -> Passes]
        /\ \A l \in Lanes : pass'[l] = IF l = First THEN "ending" ELSE pass[l]
    BY <1>5, <2>1 DEF GrantRefused, Types, Passes
  <2>3. Types'
    BY <1>1, <1>2, <2>1, <2>2 DEF Types, gates, Jobs
  <2>4. Placement'
    BY <1>2, <2>1, <2>2 DEF Placement
  <2>5. Named' /\ Owners'
    BY <1>1, <2>1, <2>2 DEF Named, Owners
  <2>6. Alone'
    BY <1>1, <1>2, <2>1, <2>2 DEF Alone
  <2> QED BY <1>2, <1>3, <2>3, <2>4, <2>5, <2>6
<1> QED BY <1>2, <1>4, <1>5 DEF Jobs

\* Jobs of calls that end, or go back to wait, when they reach the head of the line.
LEMMA GrantToEndKeeps ==
    ASSUME IInv, NEW c \in Calls, Granted(c), UNCHANGED <<gates, published, operation, pass, jobs,
                                                          idleOwner, session, running>>,
           NEW pc \in {"done", "waiting"}, Moved(c, pc)
    PROVE  IInv'
<1> USE DEF IInv
<1>1. LineFree /\ line' = Tail(line) /\ First = c
  BY DEF Granted
<1>2. /\ First \in Jobs /\ Placed(First)
      /\ running = {} /\ line' \in Seq(Jobs)
      /\ Exclusive' /\ PlansAreCurrent'
      /\ \A job : Placed(job)' <=> Placed(job) /\ job # First
  BY <1>1, HeadLeaves
<1>3. Types'
  BY <1>2 DEF Types, gates, Moved, Jobs
<1>4. Placement'
  BY <1>1, <1>2, CallsAssumption DEF Placement, Moved
<1>5. Named' /\ Owners'
  BY DEF Named, Owners, Moved, Alike
<1>6. Closing' /\ Alone'
  BY <1>1, <1>2 DEF Closing, Alone, gates, LineFree
<1> QED BY <1>2, <1>3, <1>4, <1>5, <1>6

LEMMA BlockedMoved ==
    ASSUME Types, NEW c \in Calls, NEW on \in {"change", "pass", "outcome"}, calls' = Blocked(c, on)
    PROVE  Moved(c, "waiting")
  BY BlockedMoves DEF Types, Moved

LEMMA GrantOffKeeps == ASSUME IInv, NEW c \in Calls, GrantBlocked(c) \/ GrantKnown(c) PROVE IInv'
<1>1. CASE GrantBlocked(c)
  <2>1. Moved(c, "waiting")
    BY <1>1, BlockedMoved DEF GrantBlocked, IInv
  <2> QED BY <1>1, <2>1, GrantToEndKeeps DEF GrantBlocked, Others, drives
<1>2. CASE GrantKnown(c)
  <2>1. Moved(c, "done")
    BY <1>2, ToMoved DEF GrantKnown, IInv, Pcs
  <2> QED BY <1>2, <2>1, GrantToEndKeeps DEF GrantKnown, Others, drives
<1> QED BY <1>1, <1>2

LEMMA WokenBlockedMoved ==
    ASSUME Types, NEW c \in Calls, NEW what \in {"change", "pass", "outcome"}, NEW lanes, NEW on,
           calls' = Woken(Blocked(c, what), lanes, on)
    PROVE  Moved(c, "waiting")
<1>1. /\ Blocked(c, what) \in [Calls -> CallRecord]
      /\ Alike(Blocked(c, what), calls)
      /\ \A d \in Calls : Blocked(c, what)[d].pc = IF d = c THEN "waiting" ELSE calls[d].pc
  BY BlockedMoves DEF Types
<1>2. /\ calls' \in [Calls -> CallRecord]
      /\ Alike(calls', Blocked(c, what))
      /\ \A d \in Calls : calls'[d].pc = Blocked(c, what)[d].pc
  BY <1>1, WokenKeeps
<1> QED BY <1>1, <1>2 DEF Moved, Alike

LEMMA GrantDriveKeeps == ASSUME IInv, NEW c \in Calls, GrantDrive(c) PROVE IInv'
<1> USE DEF IInv
<1> DEFINE l == calls[c].lane
<1>1. /\ UNCHANGED <<gates, published, operation, idleOwner, session, running>>
      /\ Granted(c) /\ LineFree /\ line' = Tail(line) /\ First = c
      /\ calls[c].kind = "drive" /\ ~Owned(c)
  BY DEF GrantDrive, Granted
<1>2. c \notin Lanes /\ l \in Lanes /\ l \in published /\ idleOwner[l] = None
  BY <1>1, CallsAssumption DEF Named, LaneKinds, Owned, KindOf, LaneOf
<1>3. CASE UNCHANGED drives /\ calls' = To(c, "done")
  <2>1. Moved(c, "done")
    BY <1>3, ToMoved DEF Pcs
  <2> QED BY <1>1, <1>3, <2>1, GrantToEndKeeps DEF drives
<1>4. ASSUME NEW on \in {"pass", "outcome"}, UNCHANGED drives, calls' = Blocked(c, on) PROVE IInv'
  <2>1. Moved(c, "waiting")
    BY <1>4, BlockedMoved
  <2> QED BY <1>1, <1>4, <2>1, GrantToEndKeeps DEF drives
<1>5. CASE /\ operation[l] /\ pass[l] = "none"
           /\ pass' = [pass EXCEPT ![l] = "working"] /\ jobs' = [jobs EXCEPT ![l] = 0]
           /\ calls' = Woken(Blocked(c, "outcome"), {l}, Change)
  <2>1. /\ First \in Jobs /\ Placed(First)
        /\ running = {} /\ line' \in Seq(Jobs)
        /\ Exclusive' /\ PlansAreCurrent'
        /\ \A job : Placed(job)' <=> Placed(job) /\ job # First
    BY <1>1, HeadLeaves
  <2>2. Moved(c, "waiting")
    BY <1>5, WokenBlockedMoved
  <2>3. /\ pass' \in [Lanes -> Passes]
        /\ \A k \in Lanes : pass'[k] = IF k = l THEN "working" ELSE pass[k]
    BY <1>2, <1>5 DEF Types, Passes
  <2>4. jobs' \in [Lanes -> 0..MaxJobs]
    BY <1>2, <1>5, JobCounts, Zenon DEF Types
  <2>5. Types'
    BY <1>1, <2>1, <2>2, <2>3, <2>4 DEF Types, gates, Moved, Jobs
  <2>6. Placement'
    BY <1>1, <1>2, <1>5, <2>1, <2>2, <2>3 DEF Placement, Moved
  <2>7. Named' /\ Owners'
    BY <1>1, <1>2, <2>2, <2>3 DEF Named, Owners, Moved, Alike
  <2>8. Closing'
    BY <1>1 DEF Closing, gates, LineFree
  <2>9. Alone'
    BY <1>1, <1>2, <1>5, <2>1, <2>3 DEF Alone
  <2> QED BY <2>1, <2>5, <2>6, <2>7, <2>8, <2>9
<1> QED BY <1>3, <1>4, <1>5 DEF GrantDrive

\* The claim: the job finds the lane without an owner, an operation and a pass, and holds the line.
LEMMA GrantIdleKeeps == ASSUME IInv, NEW c \in Calls, GrantIdle(c) PROVE IInv'
<1> USE DEF IInv
<1> DEFINE l == calls[c].lane
<1>1. /\ UNCHANGED <<gates, published, operation, pass, jobs, session, running>>
      /\ Granted(c) /\ LineFree /\ line' = Tail(line) /\ First = c
      /\ calls[c].kind \in {"idle", "wait"} /\ ~Owned(c) /\ ~Refuses(c)
  BY DEF GrantIdle, Granted, drives
<1>2. c \notin Lanes /\ l \in Lanes /\ l \in published /\ idleOwner[l] = None
  BY <1>1, CallsAssumption DEF Named, LaneKinds, Owned, KindOf, LaneOf
<1>3. CASE UNCHANGED idleOwner
  <2>1. (\E on \in {"change", "pass"} : calls' = Blocked(c, on)) \/ calls' = To(c, "done")
    <3>1. ~(idleOwner' = [idleOwner EXCEPT ![l] = c])
      BY <1>2, <1>3, CallsAssumption DEF Types
    <3> QED BY <3>1 DEF GrantIdle
  <2>2. Moved(c, "waiting") \/ Moved(c, "done")
    BY <2>1, BlockedMoved, ToMoved DEF Pcs
  <2> QED BY <1>1, <1>3, <2>2, GrantToEndKeeps
<1>4. CASE /\ ~Busy(l) /\ calls[c].kind = "idle"
           /\ idleOwner' = [idleOwner EXCEPT ![l] = c]
           /\ calls' = Woken(To(c, "claimed"), {l}, Change)
  <2>1. /\ First \in Jobs /\ Placed(First)
        /\ running = {} /\ line' \in Seq(Jobs)
        /\ Exclusive' /\ PlansAreCurrent'
        /\ \A job : Placed(job)' <=> Placed(job) /\ job # First
    BY <1>1, HeadLeaves
  <2>2. Moved(c, "claimed")
    BY <1>4, WokenMoved DEF Pcs
  <2>3. /\ idleOwner' \in [Lanes -> Calls \union {None}]
        /\ \A k \in Lanes : idleOwner'[k] = IF k = l THEN c ELSE idleOwner[k]
    BY <1>2, <1>4 DEF Types
  <2>4. Types'
    BY <1>1, <2>1, <2>2, <2>3 DEF Types, gates, Moved, Jobs
  <2>5. Placement'
    BY <1>1, <1>2, <2>1, <2>2 DEF Placement, Moved
  <2>6. Named'
    BY <1>1, <2>2 DEF Named, Moved, Alike
  <2>7. Owners'
    <3>1. ASSUME NEW d \in Calls, calls'[d].pc \in {"claimed", "callback"}
          PROVE  calls'[d].kind = "idle" /\ idleOwner'[calls'[d].lane] = d
      <4>1. calls'[d].kind = calls[d].kind /\ calls'[d].lane = calls[d].lane
        BY <2>2 DEF Moved, Alike
      <4>2. CASE d = c
        BY <1>2, <1>4, <2>3, <4>1, <4>2
      <4>3. CASE d # c
        <5>1. calls[d].pc \in {"claimed", "callback"}
          BY <2>2, <3>1, <4>3 DEF Moved
        <5>2. calls[d].kind = "idle" /\ calls[d].lane \in Lanes /\ idleOwner[calls[d].lane] = d
          BY <5>1 DEF Owners, Named
        <5>3. calls[d].lane # l
          BY <1>2, <5>2, CallsAssumption
        <5> QED BY <2>3, <4>1, <5>2, <5>3
      <4> QED BY <4>2, <4>3
    <3>2. \A k \in Lanes : idleOwner'[k] # None => k \in published'
      BY <1>1, <1>2, <2>3 DEF Owners
    <3> QED BY <3>1, <3>2 DEF Owners
  <2>8. Closing'
    BY <1>1, <2>3 DEF Closing, gates, LineFree, Refuses
  <2>9. Alone'
    BY <1>1, <1>4, <2>1, <2>3 DEF Alone, Busy, Types
  <2> QED BY <2>1, <2>4, <2>5, <2>6, <2>7, <2>8, <2>9
<1> QED BY <1>3, <1>4 DEF GrantIdle

\* The job reads while it holds the line: what it has seen is how things are.
LEMMA GrantPlanKeeps == ASSUME IInv, NEW job \in Jobs, GrantPlan(job) PROVE IInv'
<1> USE DEF IInv
<1>1. /\ UNCHANGED <<gates, published, operation, pass, jobs, idleOwner, session, calls>>
      /\ LineFree /\ line' = Tail(line) /\ First = job /\ Plans(job) /\ ~Refuses(job)
      /\ running = {} /\ running' = {Run(job, "planning", View(job))}
  BY DEF GrantPlan, Granted, LineFree, drives
<1>2. /\ Tail(line) \in Seq(Jobs) /\ Once(Tail(line)) /\ On(line, job)
      /\ \A j : On(Tail(line), j) <=> On(line, j) /\ j # job
  BY <1>1, OnTail DEF LineFree, Types, Exclusive, First
<1>3. \A j : Placed(j)' <=> Placed(j)
  BY <1>1, <1>2 DEF Placed, On, Run
<1>4. View(job) \in BOOLEAN
  <2>1. KindOf(job) \notin {"name", "acquire"} => LaneOf(job) \in Lanes
    BY DEF KindOf, LaneOf, Jobs, Named
  <2>2. CASE KindOf(job) = "name"
    BY <2>2 DEF View
  <2>3. CASE KindOf(job) = "acquire"
    <3>1. View(job) = (LaneOf(job) \in published)
      BY <2>3, Zenon DEF View
    <3>2. (LaneOf(job) \in published) \in BOOLEAN
      OBVIOUS
    <3> QED BY <3>1, <3>2, Zenon
  <2>4. CASE KindOf(job) \notin {"name", "acquire"}
    <3>1. View(job) = operation[LaneOf(job)]
      BY <2>4, Zenon DEF View
    <3> QED BY <2>1, <2>4, <3>1 DEF Types
  <2> QED BY <2>2, <2>3, <2>4
<1>5. Types'
  BY <1>1, <1>2, <1>4 DEF Types, gates, Jobs, Run
<1>6. Exclusive'
  BY <1>1, <1>2 DEF Exclusive, Run
<1>7. Placement' /\ Named' /\ Owners'
  BY <1>1, <1>3 DEF Placement, Named, Owners
<1>8. Closing'
  BY <1>1 DEF Closing, gates, LineFree, Refuses
<1>9. PlansAreCurrent'
  <2> SUFFICES ASSUME NEW r \in running' PROVE r.saw = View(r.job)'
    BY DEF PlansAreCurrent
  <2>1. r.job = job /\ r.saw = View(job)
    BY <1>1 DEF Run
  <2>2. KindOf(r.job)' = KindOf(job) /\ LaneOf(r.job)' = LaneOf(job)
    BY <1>1, <2>1 DEF KindOf, LaneOf
  <2> QED BY <1>1, <2>1, <2>2, Zenon DEF View
<1>10. Alone'
  <2>1. KindOf(job) \in LaneKinds \union {"settle"} =>
            LaneOf(job) \in Lanes /\ idleOwner[LaneOf(job)] = None
    <3>1. CASE job \in Calls
      <4>1. job \notin Lanes
        BY <3>1, CallsAssumption
      <4> QED BY <1>1, <3>1, <4>1 DEF Plans, Owned, KindOf, LaneOf, LaneKinds, Named, Types, CallRecord, Kinds
    <3>2. CASE job \in Lanes
      <4>1. pass[job] = "queued"
        BY <1>2, <3>2 DEF Placement, Placed, On
      <4> QED BY <3>2, <4>1 DEF LaneOf, Alone
    <3> QED BY <3>1, <3>2 DEF Jobs
  <2> QED BY <1>1, <2>1 DEF Alone, KindOf, LaneOf, Run
<1> QED BY <1>5, <1>6, <1>7, <1>8, <1>9, <1>10

LEMMA Holder ==
    ASSUME IInv, NEW r \in running
    PROVE  /\ running = {r} /\ r.job \in Jobs
           /\ r \in [job : Jobs, phase : {"planning", "committing"}, saw : BOOLEAN]
           /\ Placed(r.job) /\ ~On(line, r.job)
           /\ session # "closed"
           /\ r.job \in Calls => calls[r.job].pc = "queued" /\ r.job \notin Lanes
           /\ r.job \in Lanes => pass[r.job] = "queued" /\ r.job \notin Calls
           /\ KindOf(r.job) # "name" => LaneOf(r.job) \in Lanes
           /\ KindOf(r.job) \in LaneKinds \union {"settle"} => idleOwner[LaneOf(r.job)] = None
<1> USE DEF IInv
<1>1. /\ running = {r} /\ r.job \in Jobs /\ Placed(r.job) /\ ~On(line, r.job)
      /\ r \in [job : Jobs, phase : {"planning", "committing"}, saw : BOOLEAN]
  BY DEF Types, Exclusive, Placed
<1>2. session # "closed"
  BY DEF Closing
<1>3. /\ r.job \in Calls => calls[r.job].pc = "queued" /\ r.job \notin Lanes
      /\ r.job \in Lanes => pass[r.job] = "queued" /\ r.job \notin Calls
  BY <1>1, CallsAssumption DEF Placement
<1>4. KindOf(r.job) # "name" => LaneOf(r.job) \in Lanes
  BY <1>1 DEF KindOf, LaneOf, Named, Jobs
<1>5. "name" \notin LaneKinds \union {"settle"}
  BY DEF LaneKinds
<1>6. KindOf(r.job) \in LaneKinds \union {"settle"} => idleOwner[LaneOf(r.job)] = None
  BY <1>4, <1>5 DEF Alone
<1> QED BY <1>1, <1>2, <1>3, <1>4, <1>6

LEMMA HolderLeaves ==
    ASSUME IInv, NEW r \in running, running' = running \ {r}, UNCHANGED line
    PROVE  /\ running' = {} /\ Exclusive' /\ PlansAreCurrent'
           /\ \A job : Placed(job)' <=> Placed(job) /\ job # r.job
<1>1. running = {r} /\ running' = {} /\ ~On(line, r.job)
  BY Holder
<1>2. \A job : Placed(job)' <=> Placed(job) /\ job # r.job
  BY <1>1 DEF Placed, On
<1>3. Exclusive' /\ PlansAreCurrent'
  BY <1>1 DEF Exclusive, PlansAreCurrent, IInv
<1> QED BY <1>1, <1>2, <1>3

\* The holder lets go: a call is answered, a pass goes on or comes to its end.
LetsGo(r) ==
    /\ running' = running \ {r}
    /\ calls' \in [Calls -> CallRecord]
    /\ Alike(calls', calls)
    /\ \A c \in Calls : calls'[c].pc = IF c = r.job THEN "done" ELSE calls[c].pc
    /\ \E to \in {"working", "ending", "settled"} :
          pass' = IF r.job \in Lanes THEN [pass EXCEPT ![r.job] = to] ELSE pass
    /\ sealed' \in [Lanes -> {"no", "fault", "closed"}] /\ faulted' \in BOOLEAN
    /\ acquiring' \subseteq Lanes
    /\ UNCHANGED <<closed, awaited, jobs, idleOwner, session, line>>

LEMMA LetsGoKeeps ==
    ASSUME IInv, NEW r \in running, LetsGo(r),
           operation' \in [Lanes -> BOOLEAN],
           \A l \in Lanes : operation'[l] => operation[l] \/ idleOwner[l] = None,
           published \subseteq published', published' \subseteq Lanes
    PROVE  IInv'
<1> USE DEF IInv
<1>1. /\ running' = {} /\ Exclusive' /\ PlansAreCurrent'
      /\ \A job : Placed(job)' <=> Placed(job) /\ job # r.job
  BY HolderLeaves DEF LetsGo
<1>2. /\ r.job \in Jobs
      /\ r.job \in Calls => r.job \notin Lanes
      /\ r.job \in Lanes => r.job \notin Calls /\ pass[r.job] = "queued" /\ idleOwner[r.job] = None
  <2>1. r.job \in Lanes => KindOf(r.job) = "settle" /\ LaneOf(r.job) = r.job
    BY DEF KindOf, LaneOf
  <2> QED BY <2>1, Holder
<1>3. /\ pass' \in [Lanes -> Passes]
      /\ \A l \in Lanes : /\ l = r.job => pass'[l] \in {"working", "ending", "settled"}
                          /\ l # r.job => pass'[l] = pass[l]
  BY DEF LetsGo, Types, Passes
<1>4. Types'
  BY <1>1, <1>3 DEF LetsGo, Types, Jobs
<1>5. Placement'
  BY <1>1, <1>2, <1>3 DEF Placement, LetsGo
<1>6. Named' /\ Owners'
  BY <1>2, <1>3 DEF Named, Owners, LetsGo, Alike
<1>7. Closing'
  BY <1>1, Holder DEF Closing, LetsGo
<1>8. Alone'
  BY <1>1, <1>2, <1>3 DEF Alone, LetsGo, Types
<1> QED BY <1>1, <1>4, <1>5, <1>6, <1>7, <1>8

LEMMA DecideReturnKeeps == ASSUME IInv, NEW r \in running, DecideReturn(r) PROVE IInv'
<1>1. CASE r.job \in Calls
  <2>1. r.job \notin Lanes
    BY <1>1, CallsAssumption
  <2>2. Moved(r.job, "done")
    BY <1>1, ToMoved DEF DecideReturn, IInv, Pcs
  <2>3. LetsGo(r)
    BY <1>1, <2>1, <2>2 DEF LetsGo, DecideReturn, Moved, gates, IInv, Types
  <2> QED BY <2>3, LetsGoKeeps DEF DecideReturn, IInv, Types
<1>2. CASE r.job \in Lanes
  <2>1. r.job \notin Calls
    BY <1>2, CallsAssumption
  <2>2. LetsGo(r)
    BY <1>2, <2>1 DEF LetsGo, DecideReturn, Alike, gates, IInv, Types
  <2> QED BY <2>2, LetsGoKeeps DEF DecideReturn, IInv, Types
<1> QED BY <1>1, <1>2, Holder DEF Jobs

LEMMA DecideCommitKeeps == ASSUME IInv, NEW r \in running, DecideCommit(r) PROVE IInv'
<1> USE DEF IInv
<1>1. /\ UNCHANGED <<gates, published, operation, pass, jobs, idleOwner, session, line, calls>>
      /\ running = {r} /\ running' = {Run(r.job, "committing", r.saw)}
      /\ r.job \in Jobs /\ ~On(line, r.job) /\ r.saw \in BOOLEAN /\ r.saw = View(r.job)
      /\ session # "closed"
  BY Holder DEF DecideCommit, drives, PlansAreCurrent
<1>2. \A job : Placed(job)' <=> Placed(job)
  BY <1>1 DEF Placed, Run
<1>3. Types' /\ Exclusive' /\ Placement'
  BY <1>1, <1>2 DEF Types, Exclusive, Placement, gates, Jobs, Run, On
<1>4. Named' /\ Owners' /\ Closing'
  BY <1>1 DEF Named, Owners, Closing, gates
<1>5. \A q \in running' : /\ q.job = r.job /\ q.saw = r.saw
                          /\ KindOf(q.job)' = KindOf(r.job) /\ LaneOf(q.job)' = LaneOf(r.job)
  BY <1>1 DEF Run, KindOf, LaneOf
<1>6. PlansAreCurrent'
  <2> SUFFICES ASSUME NEW q \in running' PROVE q.saw = View(q.job)'
    BY DEF PlansAreCurrent
  <2> QED BY <1>1, <1>5, Zenon DEF View
<1>7. Alone'
  BY <1>1, <1>5 DEF Alone
<1> QED BY <1>3, <1>4, <1>6, <1>7

LEMMA CommitKeeps == ASSUME IInv, NEW r \in running, Commit(r) PROVE IInv'
<1> USE DEF IInv
<1> DEFINE now == IF r.job \in Calls THEN To(r.job, "done") ELSE calls
           l == LaneOf(r.job)
<1>1. /\ now \in [Calls -> CallRecord] /\ Alike(now, calls)
      /\ \A c \in Calls : now[c].pc = IF c = r.job THEN "done" ELSE calls[c].pc
  <2>1. CASE r.job \in Calls
    BY <2>1, ToMoves DEF Types, Pcs
  <2>2. CASE r.job \notin Calls
    BY <2>2 DEF Types, Alike
  <2> QED BY <2>1, <2>2
<1>2. /\ calls' \in [Calls -> CallRecord] /\ Alike(calls', now)
      /\ \A c \in Calls : calls'[c].pc = now[c].pc
  <2>1. PICK lanes : calls' = Woken(now, lanes, Change)
    BY DEF Commit
  <2> QED BY <1>1, <2>1, WokenKeeps
<1>3. LetsGo(r)
  <2>1. \E to \in {"working", "ending", "settled"} :
           pass' = IF r.job \in Lanes THEN [pass EXCEPT ![r.job] = to] ELSE pass
    BY DEF Commit, LaneOf
  <2>2. Alike(calls', calls)
    BY <1>1, <1>2 DEF Alike
  <2> QED BY <1>1, <1>2, <2>1, <2>2 DEF LetsGo, Commit, gates, Types
<1>4. KindOf(r.job) \in {"accept", "settle"} => l \in Lanes /\ idleOwner[l] = None
  BY Holder DEF LaneKinds
<1>5. /\ operation' \in [Lanes -> BOOLEAN]
      /\ \A k \in Lanes : operation'[k] => operation[k] \/ idleOwner[k] = None
  <2>1. CASE KindOf(r.job) \in {"accept", "settle"}
    <3>1. PICK ends \in {KindOf(r.job) = "settle", FALSE} :
             operation' = IF KindOf(r.job) = "accept" \/ ends
                          THEN [operation EXCEPT ![l] = ~ends] ELSE operation
      BY DEF Commit
    <3> QED BY <1>4, <3>1 DEF Types
  <2>2. CASE KindOf(r.job) \notin {"accept", "settle"}
    <3>1. operation' = operation
      BY <2>2 DEF Commit
    <3> QED BY <3>1 DEF Types
  <2> QED BY <2>1, <2>2
<1>6. published \subseteq published' /\ published' \subseteq Lanes
  BY Holder DEF Commit, Types
<1> QED BY <1>3, <1>5, <1>6, LetsGoKeeps

LEMMA FailKeeps == ASSUME IInv, NEW r \in running, Fail(r) PROVE IInv'
<1> USE DEF IInv
<1> DEFINE now == IF r.job \in Calls THEN To(r.job, "done") ELSE calls
<1>1. /\ now \in [Calls -> CallRecord] /\ Alike(now, calls)
      /\ \A c \in Calls : now[c].pc = IF c = r.job THEN "done" ELSE calls[c].pc
  <2>1. CASE r.job \in Calls
    BY <2>1, ToMoves DEF Types, Pcs
  <2>2. CASE r.job \notin Calls
    BY <2>2 DEF Types, Alike
  <2> QED BY <2>1, <2>2
<1>2. /\ calls' \in [Calls -> CallRecord] /\ Alike(calls', now)
      /\ \A c \in Calls : calls'[c].pc = now[c].pc
      /\ sealed' \in [Lanes -> {"no", "fault", "closed"}] /\ faulted' \in BOOLEAN
      /\ acquiring' \subseteq Lanes
      /\ UNCHANGED <<closed, awaited>>
  <2>1. Raise(now, running \ {r})
    BY DEF Fail
  <2> QED BY <1>1, <2>1, RaiseDoes
<1>3. LetsGo(r)
  BY <1>1, <1>2 DEF LetsGo, Fail, Alike
<1> QED BY <1>3, LetsGoKeeps DEF Fail, Types

-----------------------------------------------------------------------------
(* The theorems *)

LEMMA InitHolds == Init => IInv
<1> SUFFICES ASSUME Init PROVE IInv
  OBVIOUS
<1>1. Unused \in CallRecord /\ Unused.pc = "unused" /\ Unused.kind = "name" /\ "name" \notin LaneKinds
  BY DEF Unused, CallRecord, Kinds, LaneKinds
<1>2. line = <<>> /\ running = {} /\ line \in Seq(Jobs) /\ DOMAIN line = {}
  BY DEF Init
<1>3. \A job : ~Placed(job)
  BY <1>2 DEF Placed
<1>4. Types
  <2>1. jobs \in [Lanes -> 0..MaxJobs]
    BY JobCounts, Zenon DEF Init
  <2> QED BY <1>1, <1>2, <2>1 DEF Init, Types, Passes
<1>5. Exclusive /\ Placement
  BY <1>1, <1>2, <1>3 DEF Exclusive, Once, Placement, Init
<1>6. Named /\ Owners /\ Closing
  BY <1>1 DEF Named, Owners, Closing, Init
<1>7. PlansAreCurrent /\ Alone
  BY DEF PlansAreCurrent, Alone, Init
<1> QED BY <1>4, <1>5, <1>6, <1>7 DEF IInv

LEMMA NextKeeps == IInv /\ [Next]_vars => IInv'
<1> SUFFICES ASSUME IInv, [Next]_vars PROVE IInv'
  OBVIOUS
<1>1. ASSUME NEW c \in Calls, CallLane(c) \/ CallHarness(c) \/ GiveUp(c) PROVE IInv'
  BY <1>1, ClientKeeps, GiveUpKeeps
<1>2. CASE Close
  BY <1>2, CloseKeeps
<1>3. CASE LineStep
  <2>1. ASSUME NEW c \in Calls, GrantBlocked(c) \/ GrantDrive(c) \/ GrantIdle(c) \/ GrantKnown(c)
        PROVE  IInv'
    BY <2>1, GrantOffKeeps, GrantDriveKeeps, GrantIdleKeeps
  <2>2. ASSUME NEW r \in running, DecideReturn(r) \/ DecideCommit(r) \/ Commit(r) \/ Fail(r)
        PROVE  IInv'
    BY <2>2, DecideReturnKeeps, DecideCommitKeeps, CommitKeeps, FailKeeps
  <2> QED BY <1>3, <2>1, <2>2, GrantRefusedKeeps, GrantPlanKeeps DEF LineStep
<1>4. CASE CloseStep
  BY <1>4, CloseStepKeeps
<1>5. ASSUME NEW l \in Lanes, PassStep(l) PROVE IInv'
  BY <1>5, PassCommandKeeps, PassOffLineKeeps DEF PassStep
<1>6. ASSUME NEW c \in Calls, Retry(c) \/ Answer(c) \/ CallbackStep(c) PROVE IInv'
  BY <1>6, ClientKeeps, GiveUpKeeps, CallbackKeeps
<1>7. CASE UNCHANGED vars
  <2>1. Aside
    BY <1>7 DEF Aside, Alike, vars, IInv, Types, Passes
  <2>2. Types' /\ Owners' /\ Closing'
    BY <1>7 DEF vars, IInv, Types, Owners, Closing, Jobs
  <2> QED BY <2>1, <2>2, AsideKeeps DEF IInv
<1> QED BY <1>1, <1>2, <1>3, <1>4, <1>5, <1>6, <1>7 DEF Next, Proceed

LEMMA Invariant == Spec => []IInv
  BY InitHolds, NextKeeps, PTL DEF Spec

\* What a fault misses: the lanes that were being acquired when it came.
Escapes == faulted => /\ \A l \in published : sealed[l] = "no" => l \in acquiring
                      /\ \A r \in running : KindOf(r.job) = "acquire" => LaneOf(r.job) \in acquiring

\* While its job is placed a call stays what it is.
LEMMA QueuedStays ==
    ASSUME IInv, Next, NEW c \in Calls, calls[c].pc = "queued"
    PROVE  calls'[c].kind = calls[c].kind /\ calls'[c].lane = calls[c].lane
<1> USE DEF IInv
<1>1. CASE Alike(calls', calls)
  BY <1>1 DEF Alike
<1>2. ASSUME NEW d \in Calls, CallLane(d) \/ CallHarness(d) \/ Retry(d)
      PROVE  calls'[c] = calls[c]
  BY <1>2 DEF CallLane, CallHarness, Retry, Enter, Types
<1>3. ASSUME NEW d \in Calls, GiveUp(d) \/ Answer(d) \/ CallbackStep(d) PROVE Alike(calls', calls)
  <2>1. \/ calls' = To(d, "done") \/ calls' = To(d, "callback")
        \/ \E lanes : calls' = Woken(To(d, "done"), lanes, Change)
    BY <1>3 DEF GiveUp, Answer, CallbackStep, StartCallback, SkipCallback, EndCallback, Release, Pcs
  <2> QED BY <2>1, ToMoved, WokenMoved DEF Moved, Pcs
<1>4. ASSUME Close PROVE Alike(calls', calls)
  BY <1>4, WokenKept DEF Close, Kept
<1>5. ASSUME CloseStep PROVE Alike(calls', calls)
  BY <1>5 DEF CloseStep, CloseSession, CloseResolves, Alike
<1>6. ASSUME NEW l \in Lanes, PassStep(l) PROVE Alike(calls', calls)
  <2>1. CASE PassCommand(l) \/ PassReturns(l)
    BY <2>1 DEF PassCommand, PassReturns, Alike
  <2>2. CASE PassThrows(l)
    BY <2>2, RaiseDoes DEF PassThrows, Types
  <2>3. CASE PassEnds(l)
    BY <2>3, WokenKept DEF PassEnds, Kept
  <2> QED BY <1>6, <2>1, <2>2, <2>3 DEF PassStep
<1>7. ASSUME GrantRefused PROVE Alike(calls', calls)
  BY <1>7, ToMoved DEF GrantRefused, Moved, Alike, Pcs
<1>8. ASSUME NEW d \in Calls, GrantBlocked(d) \/ GrantDrive(d) \/ GrantIdle(d) \/ GrantKnown(d)
      PROVE  Alike(calls', calls)
  <2>1. \/ \E pc \in Pcs : \/ calls' = To(d, pc)
                           \/ \E lanes : calls' = Woken(To(d, pc), lanes, Change)
        \/ \E on \in {"change", "pass", "outcome"} :
              \/ calls' = Blocked(d, on)
              \/ \E lanes : calls' = Woken(Blocked(d, on), lanes, Change)
    BY <1>8 DEF GrantBlocked, GrantDrive, GrantIdle, GrantKnown, Pcs
  <2> QED BY <2>1, ToMoved, WokenMoved, BlockedMoved, WokenBlockedMoved DEF Moved
<1>9. ASSUME NEW job \in Jobs, GrantPlan(job) PROVE Alike(calls', calls)
  BY <1>9 DEF GrantPlan, Alike
<1>10. ASSUME NEW r \in running, DecideReturn(r) \/ DecideCommit(r) \/ Commit(r) \/ Fail(r)
       PROVE  Alike(calls', calls)
  <2> DEFINE now == IF r.job \in Calls THEN To(r.job, "done") ELSE calls
  <2>1. now \in [Calls -> CallRecord] /\ Alike(now, calls)
    <3>1. CASE r.job \in Calls
      BY <3>1, ToMoves DEF Types, Pcs
    <3>2. CASE r.job \notin Calls
      BY <3>2 DEF Types, Alike
    <3> QED BY <3>1, <3>2
  <2>2. CASE DecideReturn(r) \/ DecideCommit(r)
    BY <2>1, <2>2 DEF DecideReturn, DecideCommit, Alike
  <2>3. CASE Commit(r)
    <3>1. PICK lanes : calls' = Woken(now, lanes, Change)
      BY <2>3 DEF Commit
    <3> QED BY <2>1, <3>1, WokenKeeps DEF Alike
  <2>4. CASE Fail(r)
    <3>1. Raise(now, running \ {r})
      BY <2>4 DEF Fail
    <3> QED BY <2>1, <3>1, RaiseDoes DEF Alike
  <2> QED BY <1>10, <2>2, <2>3, <2>4
<1> QED BY <1>1, <1>2, <1>3, <1>4, <1>5, <1>6, <1>7, <1>8, <1>9, <1>10 DEF Next, Proceed, LineStep

LEMMA HolderStays ==
    ASSUME IInv, Next, NEW r \in running
    PROVE  KindOf(r.job)' = KindOf(r.job) /\ LaneOf(r.job)' = LaneOf(r.job)
<1>1. CASE r.job \in Calls
  BY <1>1, Holder, QueuedStays DEF KindOf, LaneOf
<1>2. CASE r.job \in Lanes
  BY <1>2 DEF KindOf, LaneOf
<1> QED BY <1>1, <1>2, Holder DEF Jobs

LEMMA RaiseEscapes ==
    ASSUME IInv, Escapes, Next, NEW now, Raise(now, running'), running' \subseteq running,
           UNCHANGED published
    PROVE  Escapes'
<1>1. \A r \in running' : KindOf(r.job)' = KindOf(r.job) /\ LaneOf(r.job)' = LaneOf(r.job)
  BY HolderStays
<1>2. CASE ShutHarness
  BY <1>1, <1>2 DEF Raise, gates, Escapes
<1>3. CASE ~ShutHarness
  <2>1. \A l \in published : sealed'[l] # "no"
    BY <1>3 DEF Raise, SealAll, IInv, Types
  <2>2. \A r \in running' : KindOf(r.job) = "acquire" => LaneOf(r.job) \in acquiring'
    BY <1>3 DEF Raise, AcquiredBy
  <2> QED BY <1>1, <2>1, <2>2 DEF Escapes
<1> QED BY <1>2, <1>3

LEMMA EscapesKeeps == ASSUME IInv, Escapes, Next PROVE Escapes'
<1>1. \A r \in running : KindOf(r.job)' = KindOf(r.job) /\ LaneOf(r.job)' = LaneOf(r.job)
  BY HolderStays
<1>2. CASE UNCHANGED <<gates, published>> /\ running' \subseteq running
  BY <1>1, <1>2 DEF Escapes, gates
<1>3. ASSUME NEW d \in Calls, CallLane(d) \/ CallHarness(d) \/ Retry(d) \/ Answer(d) \/ GiveUp(d)
                              \/ CallbackStep(d)
      PROVE  Escapes'
  BY <1>2, <1>3 DEF CallLane, CallHarness, Retry, Answer, GiveUp, Enter, Others, CallbackStep,
                    StartCallback, SkipCallback, EndCallback, Release
<1>4. CASE Close
  <2>1. \A l \in published : sealed'[l] # "no"
    BY <1>4 DEF Close, SealAll, IInv, Types
  <2> QED BY <1>1, <1>4, <2>1 DEF Close, Escapes
<1>5. CASE CloseStep
  BY <1>1, <1>5 DEF CloseStep, CloseSession, CloseResolves, gates, Escapes
<1>6. ASSUME NEW l \in Lanes, PassStep(l) PROVE Escapes'
  <2>1. CASE PassCommand(l) \/ PassReturns(l) \/ PassEnds(l)
    BY <1>2, <2>1 DEF PassCommand, PassReturns, PassEnds
  <2>2. CASE PassThrows(l)
    BY <2>2, RaiseEscapes DEF PassThrows
  <2> QED BY <1>6, <2>1, <2>2 DEF PassStep
<1>7. CASE GrantRefused \/ \E c \in Calls : GrantBlocked(c) \/ GrantDrive(c) \/ GrantIdle(c)
                                          \/ GrantKnown(c)
  <2>1. running' = running
    BY <1>7 DEF GrantRefused, GrantBlocked, GrantDrive, GrantIdle, GrantKnown, Others
  <2>2. UNCHANGED <<faulted, sealed, acquiring, published>>
    BY <1>7 DEF GrantRefused, GrantBlocked, GrantDrive, GrantIdle, GrantKnown, Others, gates
  <2> QED BY <1>1, <2>1, <2>2 DEF Escapes
<1>8. ASSUME NEW job \in Jobs, GrantPlan(job) PROVE Escapes'
  <2>1. /\ UNCHANGED <<gates, published, calls>> /\ running = {}
        /\ running' = {Run(job, "planning", View(job))} /\ ~Refuses(job)
    BY <1>8 DEF GrantPlan, Granted, LineFree
  <2>2. faulted => KindOf(job) # "acquire"
    BY <2>1 DEF Refuses, Shut, ShutHarness, LaneKinds
  <2>3. \A r \in running' : KindOf(r.job)' = KindOf(job)
    BY <2>1 DEF Run, KindOf
  <2> QED BY <2>1, <2>2, <2>3 DEF Escapes, gates
<1>9. ASSUME NEW r \in running, DecideReturn(r) \/ DecideCommit(r) \/ Commit(r) \/ Fail(r)
      PROVE  Escapes'
  <2>1. CASE DecideReturn(r)
    BY <1>2, <2>1 DEF DecideReturn
  <2>2. CASE DecideCommit(r)
    <3>1. /\ UNCHANGED <<gates, published>> /\ running = {r}
          /\ running' = {Run(r.job, "committing", r.saw)}
      BY <2>2, Holder DEF DecideCommit
    <3>2. \A q \in running' : q.job = r.job
      BY <3>1 DEF Run
    <3> QED BY <1>1, <3>1, <3>2 DEF Escapes, gates
  <2>3. CASE Commit(r)
    <3>1. running' = {} /\ UNCHANGED gates
      BY <2>3, Holder DEF Commit
    <3>2. published' = IF KindOf(r.job) = "acquire" THEN published \union {LaneOf(r.job)} ELSE published
      BY <2>3 DEF Commit
    <3> QED BY <3>1, <3>2 DEF Escapes, gates
  <2>4. CASE Fail(r)
    BY <2>4, RaiseEscapes DEF Fail
  <2> QED BY <1>9, <2>1, <2>2, <2>3, <2>4
<1> QED BY <1>3, <1>4, <1>5, <1>6, <1>7, <1>8, <1>9 DEF Next, Proceed, LineStep

LEMMA EscapesInvariant == Spec => []Escapes
<1>1. Init => Escapes
  BY DEF Init, Escapes
<1>2. IInv /\ Escapes /\ [Next]_vars => Escapes'
  <2> SUFFICES ASSUME IInv, Escapes, [Next]_vars PROVE Escapes'
    OBVIOUS
  <2>1. CASE Next
    BY <2>1, EscapesKeeps
  <2>2. CASE UNCHANGED vars
    BY <2>2 DEF vars, Escapes, KindOf, LaneOf
  <2> QED BY <2>1, <2>2
<1> QED BY <1>1, <1>2, Invariant, PTL DEF Spec

\* Types, and jobs in their place: no call and no pass is ever queued without a job or has two.
THEOREM TypeCorrect == Spec => []TypeOK
<1>1. IInv => TypeOK
  BY DEF IInv, Types, Passes, Placement, TypeOK
<1> QED BY <1>1, Invariant, PTL

\* Between the reads of a planner and its commit nothing changes what it has read: the commit of
\* Lane.command is never a lost update, however many lanes share the line.
THEOREM NoLostUpdate == Spec => []PlansAreCurrent
<1>1. IInv => PlansAreCurrent
  BY DEF IInv
<1> QED BY <1>1, Invariant, PTL

\* runWhenIdle excludes everything else from its lane until it has released it.
THEOREM IdleExcludes == Spec => []IdleOwnsLane
<1>1. IInv => IdleOwnsLane
  <2> SUFFICES ASSUME IInv, NEW l \in Lanes, idleOwner[l] # None
               PROVE  /\ pass[l] = "none" /\ ~operation[l]
                      /\ \A r \in running : KindOf(r.job) \in LaneKinds \union {"settle"}
                                               => LaneOf(r.job) # l
                      /\ \A c \in Calls : (calls[c].pc \in {"claimed", "callback"} /\ calls[c].lane = l)
                                               => c = idleOwner[l]
    BY DEF IdleOwnsLane
  <2> QED BY DEF IInv, Alone, Owners
<1> QED BY <1>1, Invariant, PTL

\* A close that has resolved leaves no callback and no job behind.
THEOREM ClosedIsQuiet == Spec => []QuietAfterClose
<1>1. IInv => QuietAfterClose
  <2> SUFFICES ASSUME IInv, closed = "done"
               PROVE  /\ \A c \in Calls : calls[c].pc \notin {"claimed", "callback"}
                      /\ \A l \in Lanes : idleOwner[l] = None
                      /\ running = {} /\ line = <<>>
    BY DEF QuietAfterClose
  <2>1. /\ \A l \in Lanes : idleOwner[l] = None
        /\ running = {} /\ line = <<>>
    BY DEF IInv, Closing
  <2>2. ASSUME NEW c \in Calls PROVE calls[c].pc \notin {"claimed", "callback"}
    <3>1. SUFFICES ASSUME calls[c].pc \in {"claimed", "callback"} PROVE FALSE
      OBVIOUS
    <3>2. calls[c].lane \in Lanes /\ idleOwner[calls[c].lane] = c
      BY <3>1 DEF IInv, Owners, Named
    <3> QED BY <2>1, <3>2, CallsAssumption
  <2> QED BY <2>1, <2>2
<1> QED BY <1>1, Invariant, PTL

\* The seal of a fault reaches every lane but those that were being acquired when it came, and the
\* seal of a close every lane: no job of another lane, or of the harness, starts to plan after it,
\* whoever had queued it.
THEOREM SealHolds == Spec => NothingStartsAfterSeal
<1> DEFINE MayPlan(r) == /\ closed = "no"
                         /\ KindOf(r.job) \in LaneKinds \union {"settle"}
                         /\ LaneOf(r.job) \in acquiring
<1>1. IInv /\ Escapes /\ [Next]_vars =>
        [ShutHarness => \A r \in running' \ running : r.phase = "planning" => MayPlan(r)]_vars
  <2> SUFFICES ASSUME IInv, Escapes, Next, ShutHarness, NEW r \in running' \ running, r.phase = "planning"
               PROVE  MayPlan(r)
    OBVIOUS
  <2>1. PICK job \in Jobs : GrantPlan(job)
    <3>1. CASE LineStep
      <4>1. ~GrantRefused /\ \A c \in Calls : ~(GrantBlocked(c) \/ GrantDrive(c) \/ GrantIdle(c) \/ GrantKnown(c))
        BY DEF GrantRefused, GrantBlocked, GrantDrive, GrantIdle, GrantKnown, Others
      <4>2. ASSUME NEW q \in running, DecideReturn(q) \/ DecideCommit(q) \/ Commit(q) \/ Fail(q)
            PROVE  FALSE
        BY <4>2 DEF DecideReturn, DecideCommit, Commit, Fail, Run
      <4> QED BY <3>1, <4>1, <4>2 DEF LineStep
    <3>2. ~Close /\ ~CloseStep
      BY DEF Close, CloseStep, CloseSession, CloseResolves
    <3>3. \A c \in Calls : ~(CallLane(c) \/ CallHarness(c) \/ GiveUp(c) \/ Retry(c) \/ Answer(c))
      BY DEF CallLane, CallHarness, GiveUp, Retry, Answer, Enter, Others
    <3>4. \A c \in Calls : ~CallbackStep(c)
      BY DEF CallbackStep, StartCallback, SkipCallback, EndCallback, Release, Others
    <3>5. \A l \in Lanes : ~PassStep(l)
      BY DEF PassStep, PassCommand, PassReturns, PassThrows, PassEnds
    <3> QED BY <3>1, <3>2, <3>3, <3>4, <3>5 DEF Next, Proceed
  <2>2. r.job = job /\ ~Refuses(job) /\ On(line, job)
    <3>1. line # <<>> /\ line \in Seq(Jobs) /\ Once(line) /\ job = Head(line)
      BY <2>1 DEF GrantPlan, Granted, LineFree, First, IInv, Types, Exclusive
    <3>2. On(line, job)
      BY <3>1, OnTail
    <3> QED BY <2>1, <3>2 DEF GrantPlan, Granted, Run
  <2>3. KindOf(job) \in LaneKinds \union {"settle"} /\ sealed[LaneOf(job)] = "no"
    BY <2>2 DEF Refuses, Shut
  <2>4. LaneOf(job) \in published
    <3>1. CASE job \in Lanes
      BY <2>2, <3>1 DEF LaneOf, IInv, Placement, Placed, On, Named
    <3>2. CASE job \notin Lanes
      <4>1. job \in Calls /\ KindOf(job) = calls[job].kind /\ LaneOf(job) = calls[job].lane
        BY <3>2 DEF Jobs, KindOf, LaneOf
      <4>2. calls[job].kind # "settle"
        BY <4>1 DEF IInv, Types, CallRecord, Kinds, LaneKinds
      <4> QED BY <2>3, <4>1, <4>2 DEF IInv, Named
    <3> QED BY <3>1, <3>2
  <2>5. closed = "no" /\ faulted
    BY <2>2 DEF Refuses, ShutHarness, IInv, Closing
  <2> QED BY <2>2, <2>3, <2>4, <2>5 DEF Escapes
<1> QED BY <1>1, Invariant, EscapesInvariant, PTL DEF Spec, NothingStartsAfterSeal

=============================================================================
