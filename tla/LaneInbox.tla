----------------------------- MODULE LaneInbox -----------------------------
(***************************************************************************)
(* The inbox of a lane: what users and extensions queue for the            *)
(* conversation, and the four planners that take from it - acceptance of a *)
(* run, a run's boundary (boundary.ts), the idle append and the abort.     *)
(* A run that is about to finish asks the before_run_end hook off the line *)
(* and plans again afterwards, since items keep arriving meanwhile.        *)
(*                                                                         *)
(* Each action is one job of the mutation line.  The operation is told     *)
(* apart as far as its planners treat the inbox differently; LaneDrive has *)
(* its leaves and its passes.                                              *)
(***************************************************************************)
EXTENDS Integers, Sequences, FiniteSets, Sublists

CONSTANTS
    MaxItems,       \* bound: items offered
    MaxFollowUps,   \* bound: messages the before_run_end hook adds
    QueueModes      \* steeringMode and followUpMode a run may capture

ASSUME MaxItemsAssumption == MaxItems \in Nat
ASSUME MaxFollowUpsAssumption == MaxFollowUps \in Nat
ASSUME QueueModesAssumption == QueueModes \subseteq {"all", "one-at-a-time"}

VARIABLES
    kinds,      \* the kind of every item offered so far; an item is its index
    inbox,      \* durable: queued items
    branch,     \* durable: the items placed, and the hook's messages
    withdrawn,  \* items cancelled, or returned by an abort
    leaf,       \* durable: where the lane's operation stands
    resume,     \* durable: the continuation of a checkpoint, or of a compaction
    cancelled,  \* durable: control.status is cancel_requested
    modes,      \* durable: settings captured at acceptance
    asking,     \* the before_run_end hook is running
    planned     \* the items its finish would place

op == <<leaf, resume, cancelled, modes>>
pass == <<asking, planned>>
vars == <<kinds, inbox, branch, withdrawn, leaf, resume, cancelled, modes, asking, planned>>

-----------------------------------------------------------------------------
(* "note" is a write that no entry projector turns into a message. *)

Messages == {"steer", "followUp", "nextRun"}
Writes == {"write", "note"}
Kinds == Messages \cup Writes

FollowUp == 0           \* the hook's message on the branch

\* busy: generation, tools or a suspended response; the compactions of a run;
\* structural: an operation that is itself a compaction or a navigation.
Leaves == {"none", "starting", "checkpoint", "busy", "threshold", "overflow", "structural"}

Modes == [steer: QueueModes, followUp: QueueModes]

Idle == leaf = "none"

\* Mutation: planners do not look at the cancellation marker.
RunningRegardless == ~Idle

Running == ~Idle /\ ~cancelled

OfKind(kind) == Kept(inbox, {i \in Items(inbox) : kinds[i] = kind})
QueuedWrites == {i \in Items(inbox) : kinds[i] \in Writes}

\* All of a kind, or the one at its head.
Eligible(kind, mode) ==
    LET queue == OfKind(kind) IN
    {queue[n] : n \in {m \in 1..Len(queue) : mode = "all" \/ m = 1}}

InInbox(items) == Kept(inbox, items)
Without(items) == Kept(inbox, Items(inbox) \ items)

\* Mutation: only steering and writes continue a run.
ProjectsNoFollowUp(items) == \E i \in items : kinds[i] \notin {"note", "followUp"}

Projects(items) == \E i \in items : kinds[i] # "note"

-----------------------------------------------------------------------------
Init ==
    /\ kinds = <<>>
    /\ inbox = <<>>
    /\ branch = <<>>
    /\ withdrawn = {}
    /\ leaf = "none"
    /\ resume = "need_assistant"
    /\ cancelled = FALSE
    /\ modes \in Modes
    /\ asking = FALSE
    /\ planned = <<>>

-----------------------------------------------------------------------------
(* Clients, at any time. *)

Mint(kind) == Len(kinds) < MaxItems /\ kinds' = Append(kinds, kind)

Enqueue(kind) ==
    /\ kind \in Messages
    /\ Mint(kind)
    /\ inbox' = Append(inbox, Len(kinds) + 1)
    /\ UNCHANGED <<branch, withdrawn, op, pass>>

\* append(): an idle lane places the queued writes and then the new one.
AppendEntry(kind) ==
    /\ kind \in Writes
    /\ Mint(kind)
    /\ \/ /\ Idle
          /\ branch' = Append(branch \o InInbox(QueuedWrites), Len(kinds) + 1)
          /\ inbox' = Without(QueuedWrites)
       \/ /\ ~Idle
          /\ inbox' = Append(inbox, Len(kinds) + 1)
          /\ branch' = branch
    /\ UNCHANGED <<withdrawn, op, pass>>

\* An item that is no longer queued is reported as consumed or as not found.
CancelQueued(i) ==
    /\ i \in Items(inbox)
    /\ inbox' = Without({i})
    /\ withdrawn' = withdrawn \cup {i}
    /\ UNCHANGED <<kinds, branch, op, pass>>

\* The first abort returns the conversation that was queued.
Returned ==
    IF cancelled THEN {} ELSE Items(OfKind("steer")) \cup Items(OfKind("followUp"))

RequestAbort ==
    /\ ~Idle
    /\ cancelled' = TRUE
    /\ inbox' = Without(Returned)
    /\ withdrawn' = withdrawn \cup Returned
    /\ UNCHANGED <<kinds, branch, leaf, resume, modes, pass>>

-----------------------------------------------------------------------------
(* Acceptance. *)

\* selectAcceptedInbox.
Accepted(m) ==
    QueuedWrites \cup Items(OfKind("nextRun"))
        \cup Eligible("steer", m.steer) \cup Eligible("followUp", m.followUp)

\* A run without a prompt must find a message, not only writes.
AcceptRun(m, prompt) ==
    /\ Idle
    /\ prompt \/ \E i \in Accepted(m) : kinds[i] \in Messages
    /\ leaf' = "starting"
    /\ modes' = m
    /\ branch' = branch \o InInbox(Accepted(m))
    /\ inbox' = Without(Accepted(m))
    /\ UNCHANGED <<kinds, withdrawn, resume, cancelled, pass>>

AcceptStructural ==
    /\ Idle
    /\ leaf' = "structural"
    /\ UNCHANGED <<kinds, inbox, branch, withdrawn, resume, cancelled, modes, pass>>

-----------------------------------------------------------------------------
(* Boundaries of a run: at a checkpoint, at the end of a compaction, and when
   the before_run_end hook has answered. *)

Move(next, cont) == leaf' = next /\ resume' = cont /\ UNCHANGED <<kinds, withdrawn, cancelled, modes>>

\* The operation ends; what is queued stays the lane's.
Leave ==
    /\ leaf' = "none"
    /\ resume' = "need_assistant"
    /\ cancelled' = FALSE
    /\ UNCHANGED <<kinds, withdrawn, modes>>

\* Mutation: a boundary takes everything an acceptance would.
DueAsAccepted(followUps) == Accepted(modes)

\* planBoundaryInbox: the writes and the steering that is due, and follow-ups
\* where nothing of these would continue the run.
Due(followUps) ==
    LET items == QueuedWrites \cup Eligible("steer", modes.steer) IN
    IF followUps /\ ~Projects(items) THEN items \cup Eligible("followUp", modes.followUp)
    ELSE items

\* Mutation: selected follow-ups stay behind the writes they were appended to.
PlaceUnsorted(items) ==
    LET late == {i \in items : kinds[i] = "followUp"} IN
    /\ branch' = branch \o InInbox(items \ late) \o InInbox(late)
    /\ inbox' = Without(items)

Place(items) == branch' = branch \o InInbox(items) /\ inbox' = Without(items)

Keep == UNCHANGED <<inbox, branch>>

Continue(items) == Place(items) /\ Move("busy", "need_assistant") /\ UNCHANGED pass

\* finish_pending: nothing is committed and the hook is asked.
AskRunEnd(items) ==
    /\ asking' = TRUE
    /\ planned' = InInbox(items)
    /\ UNCHANGED <<kinds, inbox, branch, withdrawn, op>>

At(stage) == Running /\ ~asking /\ leaf = stage

StartRun == At("starting") /\ Move("checkpoint", "need_assistant") /\ Keep /\ UNCHANGED pass

\* runCheckpoint; threshold: a compaction has been prepared.
Checkpoint(threshold) ==
    /\ At("checkpoint")
    /\ LET items == Due(~threshold /\ resume = "may_finish") IN
       \/ Projects(items) /\ Continue(items)
       \/ ~Projects(items) /\ threshold
          /\ Place(items) /\ Move("threshold", resume) /\ UNCHANGED pass
       \/ ~Projects(items) /\ ~threshold /\ resume = "need_assistant" /\ Continue(items)
       \/ ~Projects(items) /\ ~threshold /\ resume = "may_finish" /\ AskRunEnd(items)

\* publishStructuralOutcome at a resume_checkpoint boundary.
Summarised ==
    /\ At("threshold") \/ At("overflow")
    /\ LET items == Due(FALSE) IN
       \/ (Projects(items) \/ resume = "need_assistant") /\ Continue(items)
       \/ ~Projects(items) /\ resume = "may_finish"
          /\ Place(items) /\ Move("checkpoint", "may_finish") /\ UNCHANGED pass

Declined ==
    /\ At("threshold")
    /\ LET items == Due(resume = "may_finish") IN
       \/ (Projects(items) \/ resume = "need_assistant") /\ Continue(items)
       \/ ~Projects(items) /\ resume = "may_finish" /\ AskRunEnd(items)

\* Mutation: the plan made for the hook is carried out.
Foreseen == Items(planned) \cap Items(inbox)

Replanned == Due(TRUE)

\* Mutation: the hook's message is taken whatever has arrived meanwhile.
PlanIsAlwaysCurrent(items) == TRUE

PlanIsCurrent(items) == InInbox(items) = planned

FollowUps == Cardinality({n \in 1..Len(branch) : branch[n] = FollowUp})

Answered == asking' = FALSE /\ planned' = <<>>

\* finishRunBoundary; followUp: the hook returned a message.
HookEnds(followUp) ==
    /\ asking
    /\ Running
    /\ Answered
    /\ LET items == Replanned IN
       \/ Projects(items) /\ Place(items) /\ Move("busy", "need_assistant")
       \/ /\ ~Projects(items) /\ PlanIsCurrent(items) /\ followUp
          /\ FollowUps < MaxFollowUps
          /\ branch' = Append(branch \o InInbox(items), FollowUp)
          /\ inbox' = Without(items)
          /\ Move("busy", "need_assistant")
       \/ ~Projects(items) /\ ~(PlanIsCurrent(items) /\ followUp) /\ Place(items) /\ Leave

\* The pass goes on without the hook, or a new harness does.
HookDropped == asking /\ Answered /\ UNCHANGED <<kinds, inbox, branch, withdrawn, op>>

-----------------------------------------------------------------------------
(* The rest of the operation, which leaves the inbox alone. *)

\* Responses and tool results are settled although the run is cancelled.
Settle(cont) == leaf = "busy" /\ Move("checkpoint", cont) /\ Keep /\ UNCHANGED pass

Overflow == At("busy") /\ Move("overflow", "need_assistant") /\ Keep /\ UNCHANGED pass

\* A failure ends a run at once, whatever is queued; so does any outcome of a
\* structural operation.
Ends ==
    /\ At("busy") \/ At("threshold") \/ At("overflow") \/ At("structural")
    /\ Leave /\ Keep /\ UNCHANGED pass

Aborted == cancelled /\ ~asking /\ Leave /\ Keep /\ UNCHANGED pass

-----------------------------------------------------------------------------
Client ==
    \/ \E kind \in Kinds : Enqueue(kind) \/ AppendEntry(kind)
    \/ \E i \in Items(inbox) : CancelQueued(i)
    \/ RequestAbort
    \/ \E m \in Modes, prompt \in BOOLEAN : AcceptRun(m, prompt)
    \/ AcceptStructural

Drive ==
    \/ StartRun
    \/ \E threshold \in BOOLEAN : Checkpoint(threshold)
    \/ Summarised \/ Declined
    \/ \E followUp \in BOOLEAN : HookEnds(followUp)
    \/ HookDropped
    \/ \E cont \in {"need_assistant", "may_finish"} : Settle(cont)
    \/ Overflow \/ Ends \/ Aborted

Next == Client \/ Drive

Spec == Init /\ [][Next]_vars

-----------------------------------------------------------------------------
(* Properties. *)

\* The hook is asked only where a run may finish, with nothing planned but
\* notes: anything else would have continued the run.
TypeOK ==
    /\ kinds \in Seq(Kinds)
    /\ inbox \in Seq(1..Len(kinds))
    /\ branch \in Seq(0..Len(kinds))
    /\ withdrawn \subseteq 1..Len(kinds)
    /\ leaf \in Leaves
    /\ resume \in {"need_assistant", "may_finish"}
    /\ cancelled \in BOOLEAN
    /\ modes \in Modes
    /\ asking \in BOOLEAN
    /\ planned \in Seq({i \in 1..Len(kinds) : kinds[i] = "note"})
    /\ asking => leaf \in {"checkpoint", "threshold"} /\ resume = "may_finish"

Enters(entry) == \E n \in Len(branch) + 1..Len(branch') : branch'[n] = entry

\* A run that decides its own end - it finishes, or goes on with the message of
\* before_run_end - leaves nothing queued but for the next run, although items
\* kept arriving while the hook was asked (finishRunBoundary plans again).
NothingLeftBehind ==
    [][asking /\ (leaf' = "none" \/ Enters(FollowUp))
         => \A i \in Items(inbox') : kinds[i] = "nextRun"]_vars

\* The hook's message follows exactly what the hook was asked about: an answer
\* that something overtook is not used (hookPlanIsCurrent).
HookAnswersWhatItSaw ==
    [][Enters(FollowUp) => branch' = Append(branch \o planned, FollowUp)]_vars

\* A cancelled operation consumes no input: what arrives after the abort has
\* emptied the queues stays for a later run.
CancelledPlacesNothing == [][cancelled => branch' = branch]_vars

\* In the middle of a run a message for the next run never enters, and a
\* follow-up only when nothing queued would continue the run without it.
PlacedInTurn ==
    [][~Idle => \A i \in Items(inbox) : Enters(i) =>
          /\ kinds[i] # "nextRun"
          /\ kinds[i] = "followUp" =>
                resume = "may_finish" /\ ~\E j \in Items(inbox) : kinds[j] \in {"steer", "write"}]_vars

Mailbox ==
    INSTANCE OrderedMailbox WITH
        queued <- Items(inbox),
        placed <- Kept(branch, Nat \ {FollowUp})

\* Nothing is lost, doubled or overtaken between arrival and the conversation.
RefinesMailbox == Mailbox!Spec

=============================================================================
