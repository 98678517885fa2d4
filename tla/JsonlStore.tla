---------------------------- MODULE JsonlStore -----------------------------
(***************************************************************************)
(* One session kept in a JSONL file: harness/session/jsonl/storage.ts with *)
(* the repository calls of repo.ts that create, open, fork and delete it.  *)
(* The file is a header and one line for each transaction. Memory holds    *)
(* what replaying the file gives. Commits are applied one at a time: the   *)
(* line is appended first and memory follows, so that a process which dies *)
(* leaves at worst an unterminated last line. Opening drops that line by   *)
(* publishing a repaired file; a legacy file is replaced by its new form   *)
(* with the first transaction in it. Both write a temporary file and       *)
(* rename it. The legacy entries get new ids at each opening until then;   *)
(* here they have one. Commits of no writes, which change nothing, reads   *)
(* and the file that a fork creates (Create and OpenIntact at a path of    *)
(* its own) are left out.                                                  *)
(***************************************************************************)
EXTENDS Integers, Sequences, SequencesExt

CONSTANTS Ids,              \* ids of entries
          None,             \* no id: of a value write, or as the parent of a root entry
          LegacyId,         \* the entry of the legacy file
          UsageId,          \* the usage row that the upgrade inserts
          AppendFailures,   \* what a failing append may leave: see FailAppend
          QueueCap,         \* bound: commits waiting at a time
          MaxSeq,           \* bound: sequence numbers
          MaxLines,         \* bound: lines of the file
          MaxStops          \* bound: deaths of the process

ASSUME IdsAssumption == /\ None \notin Ids /\ LegacyId \notin Ids /\ UsageId \notin Ids
                        /\ LegacyId # None /\ UsageId # None /\ LegacyId # UsageId
ASSUME FailuresAssumption == AppendFailures \subseteq {"nothing", "part", "whole"}
ASSUME StoreBoundsAssumption == QueueCap \in Nat /\ MaxSeq \in Nat /\ MaxLines \in Nat
                                /\ MaxStops \in Nat
ASSUME LegacyFits == MaxSeq \in Nat /\ MaxSeq >= 2     \* the numbers in the legacy file

VARIABLES
    file,      \* the session file, or NoFile
    tmp,       \* the file "<path>.tmp", or NoFile
    status,    \* of the storage instance: "absent", "open" or "closing"
    backing,   \* "v3" while the file has not been upgraded, else "v4"
    mem,       \* the transactions that memory has been built from
    next,      \* nextSeq
    queue,     \* the commit queue; its head is being applied
    stage,     \* of the head: "waiting", "appending", "staged", "written"
    loading,   \* the call of the repository that is under way
    acked,     \* history: the transactions reported as committed
    trace,     \* history: what failed appends of this storage left, see Left
    stops      \* history: deaths so far

vars == <<file, tmp, status, backing, mem, next, queue, stage, loading, acked, trace, stops>>
memory == <<status, backing, mem, next, queue, stage>>

-----------------------------------------------------------------------------
(* Transactions and files *)

AllIds == Ids \union {LegacyId, UsageId}
Write == [id : AllIds \union {None}, parent : AllIds \union {None}]
Stamped == [id : AllIds \union {None}, parent : AllIds \union {None}, seq : 1..MaxSeq]
IsEntry(write) == write.id \notin {None, UsageId}

\* What callers commit: an entry, an entry and its child, two writes of one id, or a value.
Entry(id, parent) == [id |-> id, parent |-> parent]
ValueWrite == Entry(None, None)
CallerWrites ==
    { <<Entry(i, p)>> : i \in Ids, p \in Ids \union {None, LegacyId} }
    \union { <<Entry(i, None), Entry(j, i)>> : i, j \in Ids }
    \union { <<ValueWrite>> }

\* prepareStorageCommit: consecutive sequence numbers from nextSeq on.
Prepared(writes, first) ==
    [i \in DOMAIN writes |->
        [id |-> writes[i].id, parent |-> writes[i].parent, seq |-> first + i - 1]]

Written(log) == UNION { { tx[i] : i \in DOMAIN tx } : tx \in ToSet(log) }
HighestSeq(log) == IF log = <<>> THEN 0 ELSE log[Len(log)][Len(log[Len(log)])].seq

\* validateCommittedWrites: rising sequence numbers from `first` on, ids that are new, and a
\* parent among the entries stored before or earlier in the transaction.
Accepts(log, first, tx) ==
    LET stored == Written(log)
    IN  /\ tx # <<>>
        /\ \A i \in DOMAIN tx :
              /\ tx[i].seq >= first
              /\ \A j \in 1..(i - 1) : tx[j].seq < tx[i].seq
              /\ tx[i].id # None =>
                    /\ \A w \in stored : w.id # tx[i].id
                    /\ \A j \in 1..(i - 1) : tx[j].id # tx[i].id
              /\ (IsEntry(tx[i]) /\ tx[i].parent # None) =>
                    \/ \E w \in stored : IsEntry(w) /\ w.id = tx[i].parent
                    \/ \E j \in 1..(i - 1) : IsEntry(tx[j]) /\ tx[j].id = tx[i].parent

\* A complete line that is no transaction: an append to an unterminated line.
Garbled == <<>>

NoFile == [format |-> "none", high |-> 0, lines |-> <<>>, torn |-> FALSE]
NewFile == [format |-> "v4", high |-> 0, lines |-> <<>>, torn |-> FALSE]
LegacyFile == [format |-> "v3", high |-> 0, torn |-> FALSE,
               lines |-> << <<[id |-> LegacyId, parent |-> None, seq |-> 1]>>,
                            <<[id |-> None, parent |-> None, seq |-> 2]>> >>]

\* appendFile with a terminated line. On top of an unterminated one it completes garbage.
Appended(f, tx) ==
    [f EXCEPT !.lines = Append(@, IF f.torn THEN Garbled ELSE tx), !.torn = FALSE]

\* open: each complete line is a transaction, and accepted after those before it.
Replays(f) ==
    /\ \A k \in DOMAIN f.lines : f.lines[k] # Garbled
    /\ \A k \in DOMAIN f.lines :
          LET before == SubSeq(f.lines, 1, k - 1)
          IN  Accepts(before, HighestSeq(before) + 1, f.lines[k])
NextSeqOf(f) == IF f.high > HighestSeq(f.lines) THEN f.high ELSE HighestSeq(f.lines) + 1

\* Opening publishes a file again if its last line is torn. A legacy file is left alone.
\* Mutation: a torn last line is skipped in memory and left in the file.
SkipsTornLine(f) == FALSE
NeedsRepair(f) == f.torn /\ f.format = "v4"
Repaired(f) == [f EXCEPT !.torn = FALSE]

\* upgradeLegacyV3ToV4: the usage of the legacy session precedes what the caller writes.
Adjusted(writes) == <<Entry(UsageId, None)>> \o writes
\* Mutation: the new file starts with the transaction that caused the upgrade.
DropsBaseline(log, tx) ==
    [format |-> "v4", high |-> HighestSeq(<<tx>>) + 1, lines |-> <<tx>>, torn |-> FALSE]
Upgraded(log, tx) ==
    [format |-> "v4", high |-> HighestSeq(<<tx>>) + 1, lines |-> Append(log, tx), torn |-> FALSE]

-----------------------------------------------------------------------------
(* Memory *)

\* Whoever opens the file next starts from what is in it.
Nobody == /\ status' = "absent"
          /\ backing' = "v4"
          /\ mem' = <<>>
          /\ next' = 1
          /\ queue' = <<>>
          /\ stage' = "waiting"
          /\ trace' = IF trace = "buried" THEN "buried" ELSE "none"

\* publishOpenSession of a storage that replayed this file.
Register(f) == /\ status' = "open"
               /\ backing' = f.format
               /\ mem' = f.lines
               /\ next' = NextSeqOf(f)
               /\ queue' = <<>>
               /\ stage' = "waiting"

Init == /\ file \in {NoFile, LegacyFile}
        /\ tmp = NoFile
        /\ status = "absent" /\ backing = "v4" /\ mem = <<>> /\ next = 1
        /\ queue = <<>> /\ stage = "waiting"
        /\ loading = "none"
        /\ acked = {}
        /\ trace = "none"
        /\ stops = 0

-----------------------------------------------------------------------------
(* The repository. One owner makes these calls, one after another. *)

Idle == status = "absent" /\ loading = "none"

\* create: the first version of the file is staged, renamed, and looked at.
Create == /\ Idle
          /\ file = NoFile
          /\ tmp' = NewFile
          /\ loading' = "creating"
          /\ UNCHANGED <<file, memory, acked, trace, stops>>

PublishNew == /\ loading = "creating"
              /\ file' = tmp
              /\ tmp' = NoFile
              /\ loading' = "created"
              /\ UNCHANGED <<memory, acked, trace, stops>>

FinishCreate == /\ loading = "created"
                /\ Register(file)
                /\ loading' = "none"
                /\ UNCHANGED <<file, tmp, acked, trace, stops>>

\* A failing step of create asks for the removal of whatever is at the path, and ignores whether
\* it was removed: with an aborted context it is not.
FailCreate == /\ loading \in {"creating", "created"}
              /\ file' \in {file, NoFile}
              /\ tmp' \in {tmp, NoFile}
              /\ loading' = "none"
              /\ UNCHANGED <<memory, acked, trace, stops>>

\* open of a file that needs no repair.
OpenIntact == /\ Idle
              /\ file # NoFile /\ ~NeedsRepair(file) /\ Replays(file)
              /\ Register(file)
              /\ UNCHANGED <<file, tmp, loading, acked, trace, stops>>

\* open, and fork of a session that is not open, stage the repaired file. A fork captures what
\* it has read and closes: it leaves nothing but the repair behind.
StageRepair(call) == /\ Idle
                     /\ file # NoFile /\ NeedsRepair(file) /\ Replays(file)
                     /\ tmp' = Repaired(file)
                     /\ loading' = call
                     /\ UNCHANGED <<file, memory, acked, trace, stops>>

PublishRepair == /\ loading \in {"open", "fork"}
                 /\ file' = tmp
                 /\ tmp' = NoFile
                 /\ IF loading = "open" THEN Register(tmp) ELSE UNCHANGED memory
                 /\ loading' = "none"
                 /\ UNCHANGED <<acked, trace, stops>>

FailRepair == /\ loading \in {"open", "fork"}
              /\ tmp' \in {tmp, NoFile}
              /\ loading' = "none"
              /\ UNCHANGED <<file, memory, acked, trace, stops>>

Delete == /\ Idle
          /\ file # NoFile
          /\ file' = NoFile
          /\ acked' = {}
          /\ trace' = "none"
          /\ UNCHANGED <<tmp, memory, loading, stops>>

-----------------------------------------------------------------------------
(* The commit queue *)

\* Mutation: commits are admitted while the storage closes, and after it.
CommitsAfterClose(writes) == /\ Len(queue) < QueueCap
                             /\ next + 3 * (Len(queue) + 1) <= MaxSeq + 1
                             /\ Len(file.lines) + Len(queue) < MaxLines
                             /\ queue' = Append(queue, writes)
                             /\ UNCHANGED <<file, tmp, status, backing, mem, next, stage,
                                            loading, acked, trace, stops>>
Commit(writes) == /\ status = "open"
                  /\ Len(queue) < QueueCap
                  /\ next + 3 * (Len(queue) + 1) <= MaxSeq + 1
                  /\ Len(file.lines) + Len(queue) < MaxLines
                  /\ queue' = Append(queue, writes)
                  /\ UNCHANGED <<file, tmp, status, backing, mem, next, stage, loading,
                                 acked, trace, stops>>

\* The transaction that the head of the queue becomes.
HeadTx == Prepared(IF backing = "v3" THEN Adjusted(Head(queue)) ELSE Head(queue), next)
Dequeue == queue' = Tail(queue) /\ stage' = "waiting"

Ready == queue # <<>> /\ stage = "waiting"

\* prepareCommit throws: the caller is told, nothing has changed.
Refuse == /\ Ready
          /\ ~Accepts(mem, next, HeadTx)
          /\ Dequeue
          /\ UNCHANGED <<file, tmp, status, backing, mem, next, loading, acked, trace, stops>>

StartAppend == /\ Ready
               /\ backing = "v4"
               /\ Accepts(mem, next, HeadTx)
               /\ stage' = "appending"
               /\ UNCHANGED <<file, tmp, status, backing, mem, next, queue, loading, acked, trace,
                              stops>>

\* What the file holds of failed appends after one more that left "nothing", a "part" of its line
\* or the "whole" line: something at the end ("trailing"), or a line behind that ("buried").
Left(what) == CASE what = "nothing" -> trace
                [] what = "part"    -> IF trace = "none" THEN "trailing" ELSE trace
                [] what = "whole"   -> IF trace = "none" THEN "trailing" ELSE "buried"

AppendLands == /\ stage = "appending"
               /\ file' = Appended(file, HeadTx)
               /\ stage' = "written"
               /\ trace' = IF trace = "none" THEN "none" ELSE "buried"
               /\ UNCHANGED <<tmp, status, backing, mem, next, queue, loading, acked, stops>>

\* appendFile reports a failure: it has written nothing, a part of the line, or the whole line,
\* after which it found its caller's signal aborted. The next commit appends behind that.
FailAppend == /\ stage = "appending"
              /\ \E what \in AppendFailures :
                    /\ file' = CASE what = "nothing" -> file
                                 [] what = "part"    -> [file EXCEPT !.torn = TRUE]
                                 [] what = "whole"   -> Appended(file, HeadTx)
                    /\ trace' = Left(what)
              /\ Dequeue
              /\ UNCHANGED <<tmp, status, backing, mem, next, loading, acked, stops>>

\* upgradeLegacyV3ToV4: baseline, usage and writes in a new file.
StageUpgrade == /\ Ready
                /\ backing = "v3"
                /\ Accepts(mem, next, HeadTx)
                /\ tmp' = Upgraded(mem, HeadTx)
                /\ stage' = "staged"
                /\ UNCHANGED <<file, status, backing, mem, next, queue, loading, acked, trace, stops>>

PublishUpgrade == /\ stage = "staged"
                  /\ file' = tmp
                  /\ tmp' = NoFile
                  /\ stage' = "written"
                  /\ UNCHANGED <<status, backing, mem, next, queue, loading, acked, trace, stops>>

FailUpgrade == /\ stage = "staged"
               /\ tmp' \in {tmp, NoFile}
               /\ Dequeue
               /\ UNCHANGED <<file, status, backing, mem, next, loading, acked, trace, stops>>

\* applyValidated, and the caller's commit resolves.
\* Mutation: the write that an upgrade adds is not counted.
ForgetsUsage == /\ stage = "written"
                /\ mem' = Append(mem, HeadTx)
                /\ next' = next + Len(Head(queue))
                /\ backing' = "v4"
                /\ acked' = acked \union {HeadTx}
                /\ Dequeue
                /\ UNCHANGED <<file, tmp, status, loading, trace, stops>>
Apply == /\ stage = "written"
         /\ mem' = Append(mem, HeadTx)
         /\ next' = next + Len(HeadTx)
         /\ backing' = "v4"
         /\ acked' = acked \union {HeadTx}
         /\ Dequeue
         /\ UNCHANGED <<file, tmp, status, loading, trace, stops>>

\* close refuses new commits and resolves when those queued have settled; the repository then
\* forgets the storage.
Close == /\ status = "open"
         /\ status' = "closing"
         /\ UNCHANGED <<file, tmp, backing, mem, next, queue, stage, loading, acked, trace, stops>>

CloseDone == /\ status = "closing"
             /\ queue = <<>>
             /\ Nobody
             /\ UNCHANGED <<file, tmp, loading, acked, stops>>

\* The process dies. An append that was under way may have written a part of its line.
Crash == /\ stops < MaxStops
         /\ stops' = stops + 1
         /\ \/ file' = file
            \/ stage = "appending" /\ file' = [file EXCEPT !.torn = TRUE]
         /\ Nobody
         /\ loading' = "none"
         /\ UNCHANGED <<tmp, acked>>

Next == \/ Create \/ PublishNew \/ FinishCreate \/ FailCreate
        \/ OpenIntact \/ PublishRepair \/ FailRepair \/ Delete
        \/ \E call \in {"open", "fork"} : StageRepair(call)
        \/ \E writes \in CallerWrites : Commit(writes)
        \/ Refuse \/ StartAppend \/ AppendLands \/ FailAppend
        \/ StageUpgrade \/ PublishUpgrade \/ FailUpgrade
        \/ Apply \/ Close \/ CloseDone \/ Crash

Spec == Init /\ [][Next]_vars

-----------------------------------------------------------------------------
(* Properties *)

Transactions == Seq(Stamped)
Files == [format : {"none", "v3", "v4"}, high : 0..(MaxSeq + 1), lines : Seq(Seq(Stamped)),
          torn : BOOLEAN]

\* Types, and what goes together: jobs wait only in a storage that is registered, whoever closes
\* it (close resolves behind the queue), and a call of the repository has none registered.
TypeOK ==
    /\ file \in Files /\ tmp \in Files
    /\ status \in {"absent", "open", "closing"} /\ backing \in {"v3", "v4"}
    /\ mem \in Seq(Transactions) /\ next \in 1..(MaxSeq + 1)
    /\ queue \in Seq(CallerWrites) /\ Len(queue) <= QueueCap
    /\ stage \in {"waiting", "appending", "staged", "written"}
    /\ loading \in {"none", "creating", "created", "open", "fork"}
    /\ acked \subseteq Transactions /\ trace \in {"none", "trailing", "buried"}
    /\ stops \in 0..MaxStops
    /\ queue # <<>> => status # "absent"
    /\ stage # "waiting" => queue # <<>>
    /\ loading # "none" => status = "absent"

\* Memory is what a new open of the file would build, entries, parents and next sequence number,
\* at every moment between a job's effect on the file and the next job's: a commit that memory
\* accepts (applyCommit validates against memory alone) can always be replayed. This holds of a
\* storage none of whose appends has failed with something left in the file: memory learns
\* nothing of that, and from then on the two differ (see AcknowledgedKept for what follows).
ReopenAgrees ==
    (status # "absent" /\ stage # "written" /\ trace = "none") =>
        /\ ~NeedsRepair(file)
        /\ mem = file.lines
        /\ next = NextSeqOf(file)
        /\ backing = file.format

\* A session file that exists can be opened, whatever died or failed on the way, up to one case,
\* in which it cannot: an append failed and left something in the file, and the same storage has
\* appended a whole line behind it. JsonlStorage.open then throws "Invalid JSONL storage", for the
\* line that was completed or for a sequence number that was used twice. Deaths, repairs, failed
\* upgrades, and a failed append that is the last of its storage do no harm.
AlwaysOpens == Replays(file) <=> trace # "buried"

\* The transactions whose callers were told they are committed are among those that an open of
\* the file recovers: "a resolved commit() survives process death" (docs/harness.md).
Recovered == IF Replays(file) THEN ToSet(file.lines) ELSE {}
AcknowledgedKept == acked \subseteq Recovered

Durable == INSTANCE AtomicStore WITH log <- file.lines, Imported <- LegacyFile.lines,
                                     doubt <- trace

\* The file, through torn lines, repairs, upgrades and deaths, is the atomic log of transactions
\* that the rest of the harness takes its storage for, as long as no storage goes on appending
\* after an append that failed and left something; even then it loses no transaction of before.
RefinesAtomicStore == Durable!Spec
=============================================================================
