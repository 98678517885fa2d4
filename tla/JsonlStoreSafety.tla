-------------------------- MODULE JsonlStoreSafety --------------------------
(***************************************************************************)
(* Theorems about JsonlStore for any ids, queue, number of transactions,   *)
(* deaths of the process and failures of an append, whatever they leave in *)
(* the file. Memory is validated against, the file is replayed: the proofs *)
(* rest on the two being the same between jobs as long as no append has    *)
(* left a trace, and on what the file holds once one has.                  *)
(***************************************************************************)
EXTENDS JsonlStore, SequenceTheorems, TLAPS

-----------------------------------------------------------------------------
(* The inductive invariant *)

Stamp == [id : AllIds \union {None}, parent : AllIds \union {None}, seq : Nat]
Log == Seq(Seq(Stamp))
Doc == [format : {"none", "v3", "v4"}, high : Nat, lines : Log, torn : BOOLEAN]

Types == /\ file \in Doc /\ tmp \in Doc
         /\ status \in {"absent", "open", "closing"} /\ backing \in {"v3", "v4"}
         /\ mem \in Log /\ next \in Nat \ {0}
         /\ queue \in Seq(CallerWrites)
         /\ stage \in {"waiting", "appending", "staged", "written"}
         /\ loading \in {"none", "creating", "created", "open", "fork"}
         /\ trace \in {"none", "trailing", "buried"}

\* What a call of the repository has staged.
Loading == /\ loading # "none" => status = "absent"
           /\ loading = "creating" => file = NoFile /\ tmp = NewFile
           /\ loading = "created" => file = NewFile
           /\ loading \in {"open", "fork"} => tmp = Repaired(file) /\ file.format = "v4"

\* Only files of the new form are appended to.
Formats == /\ file.format = "none" => file = NoFile
           /\ file.format = "v3" => ~file.torn

\* How far the job at the head of the queue has come.
Progress ==
    /\ status = "absent" => queue = <<>>
    /\ stage # "waiting" => queue # <<>>
    /\ stage # "waiting" => Accepts(mem, next, HeadTx)
    /\ stage = "appending" => backing = "v4"
    /\ stage = "staged" => backing = "v3" /\ tmp = Upgraded(mem, HeadTx)
    /\ (stage = "written" /\ trace = "none") => /\ file.lines = Append(mem, HeadTx)
                                                /\ file.format = "v4" /\ ~file.torn
                                                /\ NextSeqOf(file) = next + Len(HeadTx)

\* The trace of a failed append: an unterminated line, or a line with the numbers that the storage
\* will use again. A storage that replays the file has none.
Traces ==
    /\ trace # "none" => backing = "v4" /\ file.format = "v4" /\ loading = "none"
    /\ trace = "trailing" => /\ status # "absent" /\ stage \in {"waiting", "appending"}
                             /\ file.torn \/ HighestSeq(file.lines) >= next

\* The bounds leave room for the sequence numbers of all that is queued.
Room == queue # <<>> => next + 3 * Len(queue) <= MaxSeq + 1

SInv == /\ Types /\ Loading /\ Formats /\ Progress /\ Traces /\ Room
        /\ ReopenAgrees /\ AlwaysOpens

-----------------------------------------------------------------------------
(* Transactions and files *)

LEMMA PreparedShape ==
    ASSUME NEW writes \in Seq(Write), NEW first \in Nat \ {0}
    PROVE  /\ Prepared(writes, first) \in Seq(Stamp)
           /\ Len(Prepared(writes, first)) = Len(writes)
           /\ \A i \in 1..Len(writes) : Prepared(writes, first)[i].seq = first + i - 1
<1>1. Len(writes) \in Nat /\ DOMAIN writes = 1..Len(writes)
  OBVIOUS
<1>2. Prepared(writes, first) =
        [i \in 1..Len(writes) |->
            [id |-> writes[i].id, parent |-> writes[i].parent, seq |-> first + i - 1]]
  BY <1>1 DEF Prepared
<1>3. ASSUME NEW i \in 1..Len(writes)
      PROVE  [id |-> writes[i].id, parent |-> writes[i].parent, seq |-> first + i - 1] \in Stamp
  <2>1. writes[i] \in Write
    BY <1>1
  <2>2. first + i - 1 \in Nat
    BY <1>1
  <2> QED BY <2>1, <2>2 DEF Write, Stamp
<1>4. Prepared(writes, first) \in [1..Len(writes) -> Stamp]
  BY <1>2, <1>3
<1>5. Prepared(writes, first) \in Seq(Stamp)
  BY <1>1, <1>4, SeqDef
<1>6. Len(Prepared(writes, first)) = Len(writes)
  BY <1>1, <1>2, <1>5
<1> QED BY <1>2, <1>5, <1>6

LEMMA CallerWritesShape == ASSUME NEW w \in CallerWrites
                           PROVE  w \in Seq(Write) /\ Len(w) \in 1..2
<1>1. \A i \in Ids \union {None}, p \in Ids \union {None, LegacyId} : Entry(i, p) \in Write
  BY DEF Entry, Write, AllIds
<1>2. ValueWrite \in Write
  BY <1>1 DEF ValueWrite
<1>3. CASE \E i \in Ids, p \in Ids \union {None, LegacyId} : w = <<Entry(i, p)>>
  BY <1>1, <1>3
<1>4. CASE \E i \in Ids, j \in Ids : w = <<Entry(i, None), Entry(j, i)>>
  BY <1>1, <1>4
<1>5. CASE w = <<ValueWrite>>
  BY <1>2, <1>5
<1> QED BY <1>3, <1>4, <1>5 DEF CallerWrites

LEMMA HeadTxShape ==
    ASSUME Types, queue # <<>>
    PROVE  /\ HeadTx \in Seq(Stamp) /\ Len(HeadTx) \in 1..3
           /\ \A i \in 1..Len(HeadTx) : HeadTx[i].seq = next + i - 1
<1>1. Head(queue) \in Seq(Write) /\ Len(Head(queue)) \in 1..2
  BY CallerWritesShape DEF Types
<1>2. /\ Adjusted(Head(queue)) \in Seq(Write)
      /\ Len(Adjusted(Head(queue))) = Len(Head(queue)) + 1
  <2>1. Entry(UsageId, None) \in Write
    BY DEF Entry, Write, AllIds
  <2> QED BY <1>1, <2>1 DEF Adjusted
<1>3. CASE backing = "v3"
  <2>1. HeadTx = Prepared(Adjusted(Head(queue)), next)
    BY <1>3 DEF HeadTx
  <2>2. /\ next \in Nat \ {0} /\ Adjusted(Head(queue)) \in Seq(Write)
        /\ Len(Adjusted(Head(queue))) \in 2..3
    <3>1. next \in Nat \ {0}
      BY DEF Types
    <3>2. Len(Adjusted(Head(queue))) \in 2..3
      <4>1. \A m, n : m \in 1..2 /\ n = m + 1 => n \in 2..3
        OBVIOUS
      <4> QED BY <1>1, <1>2, <4>1, Zenon
    <3> QED BY <1>2, <3>1, <3>2
  <2>3. /\ Prepared(Adjusted(Head(queue)), next) \in Seq(Stamp)
        /\ Len(Prepared(Adjusted(Head(queue)), next)) = Len(Adjusted(Head(queue)))
        /\ \A i \in 1..Len(Adjusted(Head(queue))) :
              Prepared(Adjusted(Head(queue)), next)[i].seq = next + i - 1
    BY <2>2, PreparedShape
  <2> QED BY <2>1, <2>2, <2>3
<1>4. CASE backing # "v3"
  <2>1. HeadTx = Prepared(Head(queue), next)
    BY <1>4 DEF HeadTx
  <2> QED BY <1>1, <2>1, PreparedShape DEF Types
<1> QED BY <1>3, <1>4

LEMMA AppendLog ==
    ASSUME NEW log \in Log, NEW tx \in Seq(Stamp), Len(tx) >= 1
    PROVE  /\ Append(log, tx) \in Log
           /\ HighestSeq(Append(log, tx)) = tx[Len(tx)].seq
<1>1. /\ Append(log, tx) \in Log /\ Len(Append(log, tx)) = Len(log) + 1
      /\ Len(log) \in Nat /\ Append(log, tx)[Len(log) + 1] = tx
  BY DEF Log
<1>2. Append(log, tx) # <<>>
  BY AppendProperties DEF Log
<1> QED BY <1>1, <1>2 DEF HighestSeq

\* Only a commit that is no shorter than what the file holds is accepted later with less.
LEMMA AcceptsEarlier ==
    ASSUME NEW log, NEW tx \in Seq(Stamp), NEW first \in Nat, NEW lower \in Nat, lower <= first,
           Accepts(log, first, tx)
    PROVE  Accepts(log, lower, tx)
<1>1. ASSUME NEW i \in DOMAIN tx PROVE tx[i].seq \in Nat
  <2>1. tx[i] \in Stamp
    BY LenProperties, ElementOfSeq
  <2> QED BY <2>1 DEF Stamp
<1>2. \A i \in DOMAIN tx : tx[i].seq >= lower
  BY <1>1 DEF Accepts
<1> QED BY <1>2, Zenon DEF Accepts

LEMMA ReplaysHighest ==
    ASSUME NEW f \in Doc, Replays(f)
    PROVE  /\ HighestSeq(f.lines) \in Nat
           /\ NextSeqOf(f) \in Nat \ {0} /\ HighestSeq(f.lines) + 1 <= NextSeqOf(f)
<1>1. f.lines \in Log /\ f.high \in Nat
  BY DEF Doc
<1>2. HighestSeq(f.lines) \in Nat
  <2>1. CASE f.lines = <<>>
    BY <2>1 DEF HighestSeq
  <2>2. CASE f.lines # <<>>
    <3>1. Len(f.lines) \in DOMAIN f.lines
      BY <1>1, <2>2 DEF Log
    <3>2. f.lines[Len(f.lines)] \in Seq(Stamp) /\ f.lines[Len(f.lines)] # <<>>
      <4>1. f.lines[Len(f.lines)] \in Seq(Stamp)
        BY <1>1, <3>1 DEF Log
      <4> QED BY <3>1, <4>1 DEF Replays, Accepts
    <3> DEFINE last == f.lines[Len(f.lines)]
    <3>3. last[Len(last)] \in Stamp
      BY <3>2, EmptySeq, ElementOfSeq
    <3> QED BY <2>2, <3>3 DEF HighestSeq, Stamp
  <2> QED BY <2>1, <2>2
<1> QED BY <1>1, <1>2 DEF NextSeqOf

LEMMA ReplaysAppend ==
    ASSUME NEW f \in Doc, NEW g \in Doc, NEW tx \in Seq(Stamp), g.lines = Append(f.lines, tx),
           Replays(f), Accepts(f.lines, HighestSeq(f.lines) + 1, tx)
    PROVE  Replays(g)
<1> DEFINE n == Len(f.lines)
<1>1. /\ f.lines \in Log /\ n \in Nat /\ DOMAIN f.lines = 1..n
      /\ DOMAIN g.lines = 1..(n + 1) /\ g.lines[n + 1] = tx
      /\ \A k \in 1..n : g.lines[k] = f.lines[k]
  BY DEF Doc, Log
<1>2. ASSUME NEW k \in 1..(n + 1)
      PROVE  SubSeq(g.lines, 1, k - 1) = SubSeq(f.lines, 1, k - 1)
  BY <1>1 DEF Doc, Log
<1>3. SubSeq(f.lines, 1, (n + 1) - 1) = f.lines
  BY <1>1 DEF Log
<1>4. ASSUME NEW k \in 1..(n + 1)
      PROVE  Accepts(SubSeq(g.lines, 1, k - 1), HighestSeq(SubSeq(g.lines, 1, k - 1)) + 1, g.lines[k])
  <2>1. CASE k = n + 1
    BY <1>1, <1>2, <1>3, <2>1
  <2>2. CASE k \in 1..n
    BY <1>1, <1>2, <2>2 DEF Replays
  <2> QED BY <1>1, <2>1, <2>2
<1>5. ASSUME NEW k \in 1..(n + 1) PROVE g.lines[k] # Garbled
  BY <1>4 DEF Accepts, Garbled
<1> QED BY <1>1, <1>4, <1>5 DEF Replays

\* A line that is not accepted makes the file unreadable, and nothing behind it mends that.
LEMMA Unreadable ==
    ASSUME NEW f \in Doc, NEW g \in Doc, NEW tx, g.lines = Append(f.lines, tx),
           Replays(f) => ~Accepts(f.lines, HighestSeq(f.lines) + 1, tx)
    PROVE  ~Replays(g)
<1> DEFINE n == Len(f.lines)
<1> SUFFICES ASSUME Replays(g) PROVE FALSE
  OBVIOUS
<1>1. /\ f.lines \in Log /\ n \in Nat /\ DOMAIN f.lines = 1..n
      /\ DOMAIN g.lines = 1..(n + 1) /\ g.lines[n + 1] = tx
      /\ \A k \in 1..n : g.lines[k] = f.lines[k]
  BY DEF Doc, Log
<1>2. ASSUME NEW k \in 1..(n + 1)
      PROVE  SubSeq(g.lines, 1, k - 1) = SubSeq(f.lines, 1, k - 1)
  BY <1>1 DEF Doc, Log
<1>3. SubSeq(f.lines, 1, (n + 1) - 1) = f.lines
  BY <1>1 DEF Log
<1>4. ASSUME NEW k \in 1..(n + 1)
      PROVE  /\ g.lines[k] # Garbled
             /\ Accepts(SubSeq(f.lines, 1, k - 1), HighestSeq(SubSeq(f.lines, 1, k - 1)) + 1, g.lines[k])
  BY <1>1, <1>2 DEF Replays
<1>5. Replays(f)
  BY <1>1, <1>4 DEF Replays
<1>6. Accepts(f.lines, HighestSeq(f.lines) + 1, tx)
  <2>1. n + 1 \in 1..(n + 1)
    BY <1>1
  <2> QED BY <1>1, <1>3, <1>4, <2>1
<1> QED BY <1>5, <1>6

-----------------------------------------------------------------------------
(* Each action keeps the invariant *)

\* The documents that the repository and the storage write.
LEMMA WrittenDocs ==
    /\ NoFile \in Doc /\ NewFile \in Doc /\ LegacyFile \in Doc
    /\ Replays(NoFile) /\ Replays(NewFile)
    /\ \A f \in Doc : /\ Repaired(f) \in Doc
                      /\ Repaired(f).lines = f.lines /\ Repaired(f).format = f.format
                      /\ Repaired(f).high = f.high /\ Repaired(f).torn = FALSE
    /\ \A f \in Doc, tx \in Seq(Stamp) :
          /\ Appended(f, tx) \in Doc
          /\ Appended(f, tx).lines = Append(f.lines, IF f.torn THEN Garbled ELSE tx)
          /\ Appended(f, tx).format = f.format
          /\ Appended(f, tx).high = f.high /\ Appended(f, tx).torn = FALSE
<1>1. NoFile \in Doc /\ NewFile \in Doc
  BY DEF NoFile, NewFile, Doc, Log
<1>2. LegacyFile \in Doc
  <2>1. [id |-> LegacyId, parent |-> None, seq |-> 1] \in Stamp
    BY DEF Stamp, AllIds
  <2>2. [id |-> None, parent |-> None, seq |-> 2] \in Stamp
    BY DEF Stamp, AllIds
  <2>3. LegacyFile.lines \in Log
    BY <2>1, <2>2 DEF LegacyFile, Log
  <2> QED BY <2>3 DEF LegacyFile, Doc
<1>3. Replays(NoFile) /\ Replays(NewFile)
  BY DEF Replays, NoFile, NewFile
<1>4. ASSUME NEW f \in Doc
      PROVE  /\ Repaired(f) \in Doc
             /\ Repaired(f).lines = f.lines /\ Repaired(f).format = f.format
             /\ Repaired(f).high = f.high /\ Repaired(f).torn = FALSE
  BY DEF Repaired, Doc
<1>5. ASSUME NEW f \in Doc, NEW tx \in Seq(Stamp)
      PROVE  /\ Appended(f, tx) \in Doc
             /\ Appended(f, tx).lines = Append(f.lines, IF f.torn THEN Garbled ELSE tx)
             /\ Appended(f, tx).format = f.format
             /\ Appended(f, tx).high = f.high /\ Appended(f, tx).torn = FALSE
  <2> DEFINE line == IF f.torn THEN Garbled ELSE tx
  <2>1. line \in Seq(Stamp)
    BY DEF Garbled
  <2>2. Appended(f, tx) = [f EXCEPT !.lines = Append(f.lines, line), !.torn = FALSE]
    BY DEF Appended
  <2> HIDE DEF line
  <2>3. Append(f.lines, line) \in Log
    BY <2>1, AppendProperties DEF Doc, Log
  <2>4. /\ Appended(f, tx) \in Doc /\ Appended(f, tx).lines = Append(f.lines, line)
        /\ Appended(f, tx).format = f.format
        /\ Appended(f, tx).high = f.high /\ Appended(f, tx).torn = FALSE
    BY <2>2, <2>3 DEF Doc
  <2> QED BY <2>4 DEF line
<1> QED BY <1>1, <1>2, <1>3, <1>4, <1>5

\* A legacy session that can be imported can be opened.
LEMMA LegacyReplays == Replays(LegacyFile)
<1> DEFINE tx1 == <<[id |-> LegacyId, parent |-> None, seq |-> 1]>>
           tx2 == <<[id |-> None, parent |-> None, seq |-> 2]>>
<1>1. LegacyFile.lines = <<tx1, tx2>>
  BY DEF LegacyFile
<1>2. Accepts(<<>>, 1, tx1)
  <2>1. Written(<<>>) = {}
    BY DEF Written, ToSet
  <2> QED BY <2>1, IdsAssumption DEF Accepts, IsEntry
<1>3. Accepts(<<tx1>>, 2, tx2)
  BY DEF Accepts, IsEntry
<1>4. SubSeq(<<tx1, tx2>>, 1, 0) = <<>> /\ SubSeq(<<tx1, tx2>>, 1, 1) = <<tx1>>
  <2> HIDE DEF tx1, tx2
  <2>1. SubSeq(<<tx1, tx2>>, 1, 0) = <<>>
    BY SubSeqEmpty
  <2>2. \A i \in 1..1 : <<tx1, tx2>>[i] \in {tx1}
    OBVIOUS
  <2>3. /\ SubSeq(<<tx1, tx2>>, 1, 1) \in Seq({tx1})
        /\ Len(SubSeq(<<tx1, tx2>>, 1, 1)) = 1
    BY <2>2, SubSeqProperties
  <2>4. SubSeq(<<tx1, tx2>>, 1, 1)[1] = tx1
    BY <2>3
  <2>5. <<tx1>> \in Seq({tx1}) /\ Len(<<tx1>>) = 1 /\ <<tx1>>[1] = tx1
    OBVIOUS
  <2>6. SubSeq(<<tx1, tx2>>, 1, 1) = <<tx1>>
    <3>1. /\ Len(SubSeq(<<tx1, tx2>>, 1, 1)) = Len(<<tx1>>)
          /\ \A i \in 1..Len(SubSeq(<<tx1, tx2>>, 1, 1)) :
                SubSeq(<<tx1, tx2>>, 1, 1)[i] = <<tx1>>[i]
      BY <2>3, <2>4, <2>5
    <3> QED BY <2>3, <2>5, <3>1, SeqEqual, Zenon
  <2> QED BY <2>1, <2>6
<1>5. HighestSeq(<<>>) = 0 /\ HighestSeq(<<tx1>>) = 1
  BY DEF HighestSeq
<1>6. ASSUME NEW k \in 1..2
      PROVE  LET before == SubSeq(<<tx1, tx2>>, 1, k - 1)
             IN  Accepts(before, HighestSeq(before) + 1, <<tx1, tx2>>[k])
  <2> HIDE DEF tx1, tx2
  <2>1. CASE k = 1
    <3>1. k - 1 = 0 /\ HighestSeq(<<>>) + 1 = 1 /\ <<tx1, tx2>>[k] = tx1
      BY <1>5, <2>1
    <3> QED BY <1>2, <1>4, <3>1, Zenon
  <2>2. CASE k = 2
    <3>1. k - 1 = 1 /\ HighestSeq(<<tx1>>) + 1 = 2 /\ <<tx1, tx2>>[k] = tx2
      BY <1>5, <2>2
    <3> QED BY <1>3, <1>4, <3>1, Zenon
  <2> QED BY <2>1, <2>2
<1>7. DOMAIN LegacyFile.lines = 1..2
  BY <1>1
<1>8. \A k \in DOMAIN LegacyFile.lines : LegacyFile.lines[k] # Garbled
  BY <1>1, <1>7 DEF Garbled
<1> QED BY <1>1, <1>6, <1>7, <1>8, Zenon DEF Replays

LEMMA InitHolds == Init => SInv
<1> SUFFICES ASSUME Init PROVE SInv
  OBVIOUS
<1>1. Types
  BY WrittenDocs DEF Init, Types, Log
<1>2. Loading /\ Progress /\ Traces /\ Room /\ ReopenAgrees
  BY DEF Init, Loading, Progress, Traces, Room, ReopenAgrees
<1>3. Formats
  BY DEF Init, Formats, NoFile, LegacyFile
<1>4. AlwaysOpens
  BY WrittenDocs, LegacyReplays DEF Init, AlwaysOpens
<1> QED BY <1>1, <1>2, <1>3, <1>4 DEF SInv

\* The storage is registered with what a file replays to.
LEMMA RegisterKeeps ==
    ASSUME SInv, Register(file'), file' \in Doc, tmp' \in Doc, Replays(file'),
           file'.format \in {"v3", "v4"}, ~NeedsRepair(file'), ~file'.torn, loading' = "none",
           trace' = "none"
    PROVE  SInv'
<1>1. NextSeqOf(file') \in Nat \ {0}
  BY ReplaysHighest
<1>2. Types'
  BY <1>1 DEF SInv, Types, Register, Doc
<1>3. Loading' /\ Progress' /\ Traces' /\ Room'
  BY DEF Loading, Progress, Traces, Room, Register
<1>4. Formats'
  BY DEF Formats
<1>5. ReopenAgrees' /\ AlwaysOpens'
  BY DEF ReopenAgrees, AlwaysOpens, Register
<1> QED BY <1>2, <1>3, <1>4, <1>5 DEF SInv

\* Steps of the repository while no storage is registered.
LEMMA UnregisteredKeeps ==
    ASSUME SInv, status' = "absent", queue' = <<>>, stage' = "waiting",
           backing' \in {"v3", "v4"}, mem' \in Log, next' \in Nat \ {0},
           file' \in Doc, tmp' \in Doc, Replays(file') <=> trace' # "buried", Formats', Loading',
           loading' \in {"none", "creating", "created", "open", "fork"},
           trace' \in {"none", "buried"},
           trace' # "none" => backing' = "v4" /\ file'.format = "v4" /\ loading' = "none"
    PROVE  SInv'
<1>1. Types'
  BY DEF SInv, Types
<1>2. Progress' /\ Traces' /\ Room' /\ ReopenAgrees' /\ AlwaysOpens'
  BY DEF Progress, Traces, Room, ReopenAgrees, AlwaysOpens
<1> QED BY <1>1, <1>2 DEF SInv

LEMMA RepositoryKeeps ==
    ASSUME SInv,
           \/ Create \/ PublishNew \/ FinishCreate \/ FailCreate \/ OpenIntact
           \/ (\E call \in {"open", "fork"} : StageRepair(call)) \/ PublishRepair \/ FailRepair
           \/ Delete
    PROVE  SInv'
<1> USE DEF SInv
<1>0. /\ file \in Doc /\ tmp \in Doc /\ backing \in {"v3", "v4"} /\ mem \in Log
      /\ next \in Nat \ {0} /\ (Replays(file) <=> trace # "buried")
      /\ status = "absent" => queue = <<>> /\ stage = "waiting"
      /\ loading # "none" => status = "absent" /\ trace = "none"
      /\ status = "absent" => trace \in {"none", "buried"}
      /\ trace # "none" => backing = "v4" /\ file.format = "v4" /\ loading = "none"
  BY DEF Types, AlwaysOpens, Progress, Loading, Traces
<1>1. CASE Create
  BY <1>0, <1>1, WrittenDocs, UnregisteredKeeps DEF Create, Idle, memory, Formats, Loading
<1>2. CASE PublishNew
  <2>1. file' = NewFile /\ Formats'
    BY <1>2 DEF PublishNew, Loading, Formats, NewFile
  <2> QED BY <1>0, <1>2, <2>1, WrittenDocs, UnregisteredKeeps DEF PublishNew, memory, Loading
<1>3. CASE FinishCreate
  <2>1. file = NewFile /\ NewFile.format = "v4" /\ ~NewFile.torn
    BY <1>3 DEF FinishCreate, Loading, NewFile
  <2> QED BY <1>0, <1>3, <2>1, RegisterKeeps DEF FinishCreate, NeedsRepair
<1>4. CASE FailCreate
  <2>1. Formats' /\ Loading'
    BY <1>4 DEF FailCreate, Formats, Loading, NoFile
  <2> QED BY <1>0, <1>4, <2>1, WrittenDocs, UnregisteredKeeps DEF FailCreate, memory
<1>5. CASE OpenIntact
  <2>1. file.format \in {"v3", "v4"} /\ ~file.torn
    BY <1>0, <1>5 DEF OpenIntact, Formats, NeedsRepair, Doc
  <2>2. /\ UNCHANGED <<file, tmp, loading, trace>> /\ loading = "none" /\ trace = "none"
        /\ ~NeedsRepair(file) /\ Register(file) /\ Replays(file)
    BY <1>0, <1>5 DEF OpenIntact, Idle
  <2> QED BY <1>0, <2>1, <2>2, RegisterKeeps
<1>6. ASSUME NEW call \in {"open", "fork"}, StageRepair(call) PROVE SInv'
  <2>1. Formats' /\ Loading'
    BY <1>6 DEF StageRepair, Idle, memory, Formats, Loading, NeedsRepair
  <2> QED BY <1>0, <1>6, <2>1, WrittenDocs, UnregisteredKeeps DEF StageRepair, Idle, memory
<1>7. CASE PublishRepair
  <2>1. /\ file' = Repaired(file) /\ tmp' = NoFile /\ loading' = "none" /\ file.format = "v4"
        /\ tmp = Repaired(file) /\ status = "absent" /\ trace = "none" /\ trace' = trace
    BY <1>0, <1>7 DEF PublishRepair, Loading
  <2>2. file' \in Doc /\ file'.lines = file.lines /\ file'.format = "v4" /\ ~file'.torn
    BY <1>0, <2>1, WrittenDocs
  <2>3. Replays(file')
    BY <1>0, <2>1, <2>2 DEF Replays
  <2>4. Formats' /\ Loading'
    BY <2>1, <2>2 DEF Formats, Loading
  <2>5. CASE loading = "open"
    BY <1>7, <2>1, <2>2, <2>3, <2>5, WrittenDocs, RegisterKeeps DEF PublishRepair, NeedsRepair
  <2>6. CASE loading # "open"
    BY <1>0, <1>7, <2>1, <2>2, <2>3, <2>4, <2>6, WrittenDocs, UnregisteredKeeps
    DEF PublishRepair, memory
  <2> QED BY <2>5, <2>6
<1>8. CASE FailRepair
  <2>1. Formats' /\ Loading'
    BY <1>8 DEF FailRepair, Formats, Loading
  <2> QED BY <1>0, <1>8, <2>1, WrittenDocs, UnregisteredKeeps DEF FailRepair, memory
<1>9. CASE Delete
  <2>1. Formats' /\ Loading'
    BY <1>9 DEF Delete, Idle, Formats, Loading, NoFile
  <2> QED BY <1>0, <1>9, <2>1, WrittenDocs, UnregisteredKeeps DEF Delete, Idle, memory
<1> QED BY <1>1, <1>2, <1>3, <1>4, <1>5, <1>6, <1>7, <1>8, <1>9

LEMMA EndsKeep == ASSUME SInv, CloseDone \/ Crash PROVE SInv'
<1> USE DEF SInv
<1>1. /\ file \in Doc /\ tmp \in Doc /\ (Replays(file) <=> trace # "buried")
      /\ loading # "none" => status = "absent"
      /\ trace # "none" => file.format = "v4"
      /\ trace \in {"none", "trailing", "buried"}
  BY DEF Types, AlwaysOpens, Loading, Traces
<1>2. CASE CloseDone
  <2>1. loading = "none"
    BY <1>1, <1>2 DEF CloseDone
  <2>2. Formats' /\ Loading'
    BY <1>2, <2>1 DEF CloseDone, Nobody, Formats, Loading
  <2> QED BY <1>1, <1>2, <2>1, <2>2, UnregisteredKeeps DEF CloseDone, Nobody, Log
<1>3. CASE Crash
  <2>1. /\ file' \in Doc /\ file'.lines = file.lines /\ file'.format = file.format
        /\ \/ file' = file
           \/ stage = "appending" /\ file' = [file EXCEPT !.torn = TRUE]
    BY <1>1, <1>3 DEF Crash, Doc
  <2>2. Replays(file') <=> trace' # "buried"
    <3>1. Replays(file') <=> Replays(file)
      BY <2>1 DEF Replays
    <3> QED BY <1>1, <1>3, <3>1 DEF Crash, Nobody
  <2>3. stage = "appending" => file.format = "v4"
    BY DEF Progress, ReopenAgrees, Traces
  <2>4. Formats' /\ Loading'
    BY <1>3, <2>1, <2>3 DEF Crash, Formats, Loading, NoFile
  <2> QED BY <1>1, <1>3, <2>1, <2>2, <2>4, UnregisteredKeeps DEF Crash, Nobody, Log
<1> QED BY <1>2, <1>3

\* A job leaves the queue, and nothing is under way.
LEMMA DequeueKeeps ==
    ASSUME SInv, queue # <<>>, Dequeue, UNCHANGED <<status, loading>>,
           file' \in Doc, tmp' \in Doc, backing' \in {"v3", "v4"}, mem' \in Log,
           next' \in Nat \ {0}, next' <= next + 3,
           trace' \in {"none", "trailing", "buried"},
           trace' # "none" => backing' = "v4" /\ file'.format = "v4",
           trace' = "trailing" => file'.torn \/ HighestSeq(file'.lines) >= next',
           Replays(file') <=> trace' # "buried", Formats', ReopenAgrees'
    PROVE  SInv'
<1> USE DEF SInv
<1>1. /\ queue \in Seq(CallerWrites) /\ Tail(queue) \in Seq(CallerWrites)
      /\ Len(queue) \in Nat \ {0} /\ Len(Tail(queue)) = Len(queue) - 1
      /\ status # "absent" /\ loading = "none"
  BY DEF Types, Progress, Loading
<1>2. Types'
  BY <1>1 DEF Types, Dequeue
<1>3. Loading' /\ Progress' /\ Traces' /\ AlwaysOpens'
  BY <1>1 DEF Loading, Progress, Traces, AlwaysOpens, Dequeue
<1>4. Room'
  <2>1. next \in Nat /\ MaxSeq \in Nat /\ next + 3 * Len(queue) <= MaxSeq + 1
    BY StoreBoundsAssumption DEF Types, Room
  <2> QED BY <1>1, <2>1 DEF Room, Dequeue
<1> QED BY <1>2, <1>3, <1>4

LEMMA CommitKeeps == ASSUME SInv, NEW writes \in CallerWrites, Commit(writes) PROVE SInv'
<1> USE DEF SInv
<1>1. /\ UNCHANGED <<file, tmp, status, backing, mem, next, stage, loading, trace>>
      /\ status = "open" /\ queue' = Append(queue, writes)
      /\ queue \in Seq(CallerWrites) /\ Len(queue) \in Nat
  BY DEF Commit, Types
<1>2. /\ queue' \in Seq(CallerWrites) /\ Len(queue') = Len(queue) + 1 /\ queue' # <<>>
      /\ queue # <<>> => Head(queue') = Head(queue)
  BY <1>1, AppendProperties
<1>3. Types' /\ Loading' /\ Formats' /\ Traces' /\ ReopenAgrees' /\ AlwaysOpens'
  BY <1>1, <1>2 DEF Types, Loading, Formats, Traces, ReopenAgrees, AlwaysOpens
<1>4. queue # <<>> => HeadTx' = HeadTx
  BY <1>1, <1>2 DEF HeadTx
<1>5. Progress'
  BY <1>1, <1>2, <1>4 DEF Progress
<1>6. Room'
  BY <1>1, <1>2 DEF Room, Commit
<1> QED BY <1>3, <1>5, <1>6

LEMMA CloseKeeps == ASSUME SInv, Close PROVE SInv'
<1>1. HeadTx' = HeadTx
  BY DEF Close, HeadTx
<1> QED BY <1>1 DEF SInv, Close, Types, Loading, Formats, Progress, Traces, Room, ReopenAgrees,
                    AlwaysOpens

LEMMA RefuseKeeps == ASSUME SInv, Refuse \/ FailUpgrade PROVE SInv'
<1> USE DEF SInv
<1>1. /\ queue # <<>> /\ Dequeue /\ UNCHANGED <<file, status, backing, mem, next, loading, trace>>
      /\ tmp' \in Doc /\ stage # "written"
  <2>1. CASE Refuse
    BY <2>1 DEF Refuse, Ready, Types
  <2>2. CASE FailUpgrade
    BY <2>2, WrittenDocs DEF FailUpgrade, Progress, Types
  <2> QED BY <2>1, <2>2
<1>2. Formats' /\ ReopenAgrees'
  BY <1>1 DEF Formats, ReopenAgrees
<1>3. /\ file \in Doc /\ backing \in {"v3", "v4"} /\ mem \in Log /\ next \in Nat \ {0}
      /\ next <= next + 3 /\ (Replays(file) <=> trace # "buried")
      /\ trace \in {"none", "trailing", "buried"}
      /\ trace # "none" => backing = "v4" /\ file.format = "v4"
      /\ trace = "trailing" => file.torn \/ HighestSeq(file.lines) >= next
  BY DEF Types, AlwaysOpens, Traces
<1> QED BY <1>1, <1>2, <1>3, DequeueKeeps

LEMMA StartAppendKeeps == ASSUME SInv, StartAppend PROVE SInv'
<1>1. HeadTx' = HeadTx
  BY DEF StartAppend, HeadTx
<1>2. (SInv /\ stage = "waiting" /\ status # "absent") => ReopenAgrees'
  BY DEF SInv, StartAppend, ReopenAgrees
<1>3. Types' /\ Loading' /\ Formats' /\ Traces' /\ Room' /\ AlwaysOpens'
  BY DEF SInv, StartAppend, Types, Loading, Formats, Traces, Room, AlwaysOpens
<1>4. Progress' /\ ReopenAgrees'
  BY <1>1, <1>2 DEF SInv, StartAppend, Ready, Progress
<1> QED BY <1>3, <1>4 DEF SInv

\* What the file holds after the head of the queue has been written: memory and its transaction.
LEMMA LandedDoc ==
    ASSUME SInv, stage \in {"appending", "staged"}, trace = "none", NEW g \in Doc,
           g.lines = Append(mem, HeadTx),
           g.high <= next + Len(HeadTx), g.format = "v4", ~g.torn
    PROVE  Replays(g) /\ NextSeqOf(g) = next + Len(HeadTx)
<1> USE DEF SInv
<1>1. /\ queue # <<>> /\ status # "absent" /\ Accepts(mem, next, HeadTx)
      /\ file \in Doc /\ mem \in Log /\ next \in Nat \ {0}
      /\ mem = file.lines /\ next = NextSeqOf(file) /\ Replays(file)
  BY DEF Progress, Types, ReopenAgrees, AlwaysOpens
<1>2. /\ HeadTx \in Seq(Stamp) /\ Len(HeadTx) \in 1..3
      /\ HeadTx[Len(HeadTx)].seq = next + Len(HeadTx) - 1
  <2>1. /\ HeadTx \in Seq(Stamp) /\ Len(HeadTx) \in 1..3
        /\ \A i \in 1..Len(HeadTx) : HeadTx[i].seq = next + i - 1
    BY <1>1, HeadTxShape
  <2>2. \A n \in 1..3 : n \in 1..n
    OBVIOUS
  <2> QED BY <2>1, <2>2, Zenon
<1>3. HighestSeq(file.lines) \in Nat /\ HighestSeq(file.lines) + 1 <= next
  BY <1>1, ReplaysHighest
<1>4. Accepts(file.lines, HighestSeq(file.lines) + 1, HeadTx)
  BY <1>1, <1>2, <1>3, AcceptsEarlier
<1>5. Replays(g)
  BY <1>1, <1>2, <1>4, ReplaysAppend
<1>6. HighestSeq(g.lines) = next + Len(HeadTx) - 1
  <2>1. Len(HeadTx) >= 1
    <3>1. \A n \in 1..3 : n >= 1
      OBVIOUS
    <3> QED BY <1>2, <3>1, Zenon
  <2>2. HighestSeq(Append(mem, HeadTx)) = HeadTx[Len(HeadTx)].seq
    BY <1>1, <1>2, <2>1, AppendLog
  <2> QED BY <1>2, <2>2, Zenon
<1>7. NextSeqOf(g) = next + Len(HeadTx)
  <2>1. next \in Nat /\ Len(HeadTx) \in Nat /\ g.high \in Nat
    BY <1>1, <1>2 DEF Doc
  <2> QED BY <1>6, <2>1 DEF NextSeqOf
<1> QED BY <1>5, <1>7

LEMMA HeadTxLast ==
    ASSUME Types, queue # <<>>
    PROVE  /\ HeadTx \in Seq(Stamp) /\ Len(HeadTx) >= 1 /\ next + Len(HeadTx) \in Nat \ {0}
           /\ next + Len(HeadTx) <= next + 3
           /\ HeadTx[Len(HeadTx)].seq = (next + Len(HeadTx)) - 1
<1>1. /\ HeadTx \in Seq(Stamp) /\ Len(HeadTx) \in 1..3
      /\ \A i \in 1..Len(HeadTx) : HeadTx[i].seq = next + i - 1
  BY HeadTxShape
<1>2. next \in Nat \ {0}
  BY DEF Types
<1>3. \A m \in Nat \ {0}, n \in 1..3 : /\ n >= 1 /\ m + n \in Nat \ {0} /\ m + n <= m + 3
                                       /\ n \in 1..n /\ m + n - 1 = (m + n) - 1
  OBVIOUS
<1> QED BY <1>1, <1>2, <1>3, Zenon

\* The whole line of the head of the queue has reached the file, whatever the caller is told.
LEMMA LineInFile ==
    ASSUME SInv, stage = "appending", file' = Appended(file, HeadTx)
    PROVE  /\ queue # <<>> /\ file' \in Doc /\ file'.format = "v4" /\ ~file'.torn
           /\ trace = "none" => /\ file'.lines = Append(mem, HeadTx) /\ Replays(file')
                                /\ NextSeqOf(file') = next + Len(HeadTx)
                                /\ HighestSeq(file'.lines) >= next
           /\ trace # "none" => ~Replays(file')
<1> USE DEF SInv
<1>1. /\ queue # <<>> /\ status # "absent" /\ backing = "v4" /\ file \in Doc /\ mem \in Log
      /\ next \in Nat \ {0} /\ file.format = "v4" /\ (Replays(file) <=> trace # "buried")
      /\ trace \in {"none", "trailing", "buried"}
  BY DEF Progress, Types, ReopenAgrees, Traces, AlwaysOpens
<1>2. /\ HeadTx \in Seq(Stamp) /\ Len(HeadTx) >= 1 /\ next + Len(HeadTx) \in Nat \ {0}
      /\ HeadTx[Len(HeadTx)].seq = (next + Len(HeadTx)) - 1
  BY <1>1, HeadTxLast
<1>3. /\ file' \in Doc /\ file'.format = "v4" /\ ~file'.torn /\ file'.high = file.high
      /\ file'.lines = Append(file.lines, IF file.torn THEN Garbled ELSE HeadTx)
  BY <1>1, <1>2, WrittenDocs
<1>4. ASSUME trace = "none"
      PROVE  /\ file'.lines = Append(mem, HeadTx) /\ Replays(file')
             /\ NextSeqOf(file') = next + Len(HeadTx)
             /\ HighestSeq(file'.lines) >= next
  <2>1. mem = file.lines /\ next = NextSeqOf(file) /\ ~file.torn /\ Replays(file)
    BY <1>1, <1>4 DEF ReopenAgrees, NeedsRepair
  <2>2. file'.lines = Append(mem, HeadTx)
    BY <1>3, <2>1
  <2>3. file.high <= next + Len(HeadTx)
    <3>1. file.high \in Nat /\ HighestSeq(file.lines) \in Nat
      BY <1>1, <2>1, ReplaysHighest DEF Doc
    <3> QED BY <1>1, <1>2, <2>1, <3>1 DEF NextSeqOf
  <2>4. Replays(file') /\ NextSeqOf(file') = next + Len(HeadTx)
    BY <1>1, <1>3, <1>4, <2>2, <2>3, LandedDoc
  <2>5. HighestSeq(file'.lines) = (next + Len(HeadTx)) - 1
    <3>1. HighestSeq(Append(mem, HeadTx)) = HeadTx[Len(HeadTx)].seq
      BY <1>1, <1>2, AppendLog
    <3> QED BY <1>2, <2>2, <3>1
  <2>6. HighestSeq(file'.lines) >= next
    <3>1. next \in Nat /\ Len(HeadTx) \in Nat
      BY <1>1, <1>2
    <3> QED BY <1>2, <2>5, <3>1
  <2> QED BY <2>2, <2>4, <2>6
<1>5. ASSUME trace # "none" PROVE ~Replays(file')
  <2>1. CASE file.torn
    BY <1>1, <1>3, <2>1, Unreadable DEF Accepts, Garbled
  <2>2. CASE ~file.torn
    <3>1. ASSUME Replays(file), Accepts(file.lines, HighestSeq(file.lines) + 1, HeadTx) PROVE FALSE
      <4>1. HighestSeq(file.lines) >= next /\ HighestSeq(file.lines) \in Nat
        BY <1>1, <1>5, <2>2, <3>1, ReplaysHighest DEF Traces
      <4>2. 1 \in DOMAIN HeadTx /\ HeadTx[1].seq = next
        <5>1. /\ Len(HeadTx) \in 1..3
              /\ \A i \in 1..Len(HeadTx) : HeadTx[i].seq = next + i - 1
          BY <1>1, HeadTxShape
        <5>2. 1 \in 1..Len(HeadTx) /\ 1 \in DOMAIN HeadTx
          BY <1>2, <5>1
        <5> QED BY <1>1, <5>1, <5>2
      <4>3. HeadTx[1].seq >= HighestSeq(file.lines) + 1
        BY <3>1, <4>2 DEF Accepts
      <4> QED BY <1>1, <4>1, <4>2, <4>3
    <3> QED BY <1>1, <1>3, <2>2, <3>1, Unreadable
  <2> QED BY <2>1, <2>2
<1> QED BY <1>1, <1>3, <1>4, <1>5

LEMMA AppendLandsKeeps == ASSUME SInv, AppendLands PROVE SInv'
<1> USE DEF SInv
<1>1. /\ stage = "appending" /\ status # "absent" /\ backing = "v4"
      /\ file' = Appended(file, HeadTx) /\ stage' = "written"
      /\ trace \in {"none", "trailing", "buried"}
      /\ trace' = IF trace = "none" THEN "none" ELSE "buried"
      /\ UNCHANGED <<tmp, status, backing, mem, next, queue, loading>>
  BY DEF AppendLands, Progress, Types
<1>2. /\ queue # <<>> /\ file' \in Doc /\ file'.format = "v4" /\ ~file'.torn
      /\ trace = "none" => /\ file'.lines = Append(mem, HeadTx) /\ Replays(file')
                           /\ NextSeqOf(file') = next + Len(HeadTx)
      /\ trace # "none" => ~Replays(file')
  BY <1>1, LineInFile
<1>3. HeadTx' = HeadTx /\ loading = "none"
  BY <1>1 DEF HeadTx, Loading
<1>4. Types' /\ Loading' /\ Formats' /\ Room'
  BY <1>1, <1>2, <1>3 DEF Types, Loading, Formats, Room
<1>5. Progress'
  BY <1>1, <1>2, <1>3 DEF Progress
<1>6. Traces' /\ ReopenAgrees' /\ AlwaysOpens'
  BY <1>1, <1>2, <1>3 DEF Traces, ReopenAgrees, AlwaysOpens
<1> QED BY <1>4, <1>5, <1>6

\* An append that reports a failure, whatever it has left in the file.
LEMMA FailAppendKeeps == ASSUME SInv, FailAppend PROVE SInv'
<1> USE DEF SInv
<1>1. /\ stage = "appending" /\ status # "absent" /\ backing = "v4" /\ queue # <<>> /\ Dequeue
      /\ UNCHANGED <<tmp, status, backing, mem, next, loading>>
      /\ file \in Doc /\ tmp \in Doc /\ mem \in Log /\ next \in Nat \ {0} /\ next <= next + 3
      /\ file.format = "v4" /\ (Replays(file) <=> trace # "buried")
      /\ trace \in {"none", "trailing", "buried"}
      /\ trace = "trailing" => file.torn \/ HighestSeq(file.lines) >= next
  BY DEF FailAppend, Progress, Types, ReopenAgrees, Traces, AlwaysOpens
<1>2. PICK what \in AppendFailures :
         /\ file' = CASE what = "nothing" -> file
                      [] what = "part"    -> [file EXCEPT !.torn = TRUE]
                      [] what = "whole"   -> Appended(file, HeadTx)
         /\ trace' = Left(what)
  BY DEF FailAppend
<1>3. what \in {"nothing", "part", "whole"}
  BY FailuresAssumption
<1>4. CASE what = "nothing"
  <2>1. file' = file /\ trace' = trace
    BY <1>2, <1>4 DEF Left
  <2>2. Formats' /\ ReopenAgrees'
    BY <1>1, <2>1 DEF Formats, ReopenAgrees
  <2> QED BY <1>1, <2>1, <2>2, DequeueKeeps
<1>5. CASE what = "part"
  <2>1. file' = [file EXCEPT !.torn = TRUE]
    BY <1>2, <1>5
  <2>2. trace' = IF trace = "none" THEN "trailing" ELSE trace
    BY <1>2, <1>5 DEF Left
  <2>3. file' \in Doc /\ file'.lines = file.lines /\ file'.format = "v4" /\ file'.torn
    BY <1>1, <2>1 DEF Doc
  <2>4. Replays(file') <=> Replays(file)
    BY <2>3 DEF Replays
  <2>5. trace' \in {"trailing", "buried"} /\ (Replays(file') <=> trace' # "buried")
    BY <1>1, <2>2, <2>4
  <2>6. Formats' /\ ReopenAgrees'
    BY <2>3, <2>5 DEF Formats, ReopenAgrees
  <2> QED BY <1>1, <2>3, <2>5, <2>6, DequeueKeeps
<1>6. CASE what = "whole"
  <2>1. file' = Appended(file, HeadTx)
    BY <1>2, <1>6
  <2>2. trace' = IF trace = "none" THEN "trailing" ELSE "buried"
    BY <1>2, <1>6 DEF Left
  <2>3. /\ file' \in Doc /\ file'.format = "v4" /\ ~file'.torn
        /\ trace = "none" => Replays(file') /\ HighestSeq(file'.lines) >= next
        /\ trace # "none" => ~Replays(file')
    BY <1>1, <2>1, LineInFile
  <2>4. trace' \in {"trailing", "buried"} /\ (Replays(file') <=> trace' # "buried")
    BY <2>2, <2>3
  <2>5. Formats' /\ ReopenAgrees'
    BY <2>3, <2>4 DEF Formats, ReopenAgrees
  <2> QED BY <1>1, <2>2, <2>3, <2>4, <2>5, DequeueKeeps
<1> QED BY <1>3, <1>4, <1>5, <1>6

LEMMA UpgradedDoc ==
    ASSUME NEW log \in Log, NEW tx \in Seq(Stamp), Len(tx) >= 1, NEW n \in Nat,
           tx[Len(tx)].seq = n - 1
    PROVE  LET g == Upgraded(log, tx)
           IN  g \in Doc /\ g.lines = Append(log, tx) /\ g.high = n /\ g.format = "v4" /\ ~g.torn
<1>1. <<tx>> = Append(<<>>, tx) /\ <<>> \in Log
  BY DEF Log
<1>2. HighestSeq(<<tx>>) + 1 = n
  <2>1. HighestSeq(<<tx>>) = n - 1
    BY <1>1, AppendLog
  <2> QED BY <2>1
<1>3. Append(log, tx) \in Log
  BY AppendLog
<1>4. Upgraded(log, tx) = [format |-> "v4", high |-> n, lines |-> Append(log, tx), torn |-> FALSE]
  BY <1>2, Zenon DEF Upgraded
<1> QED BY <1>3, <1>4 DEF Doc

LEMMA StageUpgradeKeeps == ASSUME SInv, StageUpgrade PROVE SInv'
<1> USE DEF SInv
<1>1. /\ queue # <<>> /\ stage = "waiting" /\ status # "absent" /\ backing = "v3" /\ mem \in Log
      /\ Accepts(mem, next, HeadTx) /\ tmp' = Upgraded(mem, HeadTx) /\ stage' = "staged"
      /\ UNCHANGED <<file, status, backing, mem, next, queue, loading, trace>> /\ trace = "none"
  BY DEF StageUpgrade, Ready, Progress, Types, Traces
<1>2. tmp' \in Doc
  BY <1>1, HeadTxLast, UpgradedDoc
<1>3. HeadTx' = HeadTx /\ loading = "none"
  BY <1>1 DEF HeadTx, Loading
<1>4. Types' /\ Loading' /\ Formats' /\ Traces' /\ Room' /\ ReopenAgrees' /\ AlwaysOpens'
  BY <1>1, <1>2, <1>3 DEF Types, Loading, Formats, Traces, Room, ReopenAgrees, AlwaysOpens
<1>5. Progress'
  BY <1>1, <1>3 DEF Progress
<1> QED BY <1>4, <1>5

LEMMA PublishUpgradeKeeps == ASSUME SInv, PublishUpgrade PROVE SInv'
<1> USE DEF SInv
<1>1. /\ stage = "staged" /\ queue # <<>> /\ status # "absent" /\ backing = "v3" /\ mem \in Log
      /\ Accepts(mem, next, HeadTx) /\ file' = Upgraded(mem, HeadTx) /\ stage' = "written"
      /\ tmp' = NoFile /\ UNCHANGED <<status, backing, mem, next, queue, loading, trace>>
      /\ trace = "none"
  BY DEF PublishUpgrade, Progress, Types, Traces
<1>2. /\ file' \in Doc /\ file'.lines = Append(mem, HeadTx)
      /\ file'.high = next + Len(HeadTx) /\ file'.format = "v4" /\ ~file'.torn
  BY <1>1, HeadTxLast, UpgradedDoc
<1>3. file'.high <= next + Len(HeadTx)
  BY <1>1, <1>2, HeadTxLast
<1>4. Replays(file') /\ NextSeqOf(file') = next + Len(HeadTx)
  BY <1>1, <1>2, <1>3, LandedDoc
<1>5. HeadTx' = HeadTx /\ loading = "none"
  BY <1>1 DEF HeadTx, Loading
<1>6. Types' /\ Loading' /\ Formats' /\ Room'
  BY <1>1, <1>2, <1>5, WrittenDocs DEF Types, Loading, Formats, Room
<1>7. Progress'
  BY <1>1, <1>2, <1>4, <1>5 DEF Progress
<1>8. Traces' /\ ReopenAgrees' /\ AlwaysOpens'
  BY <1>1, <1>4 DEF Traces, ReopenAgrees, AlwaysOpens
<1> QED BY <1>6, <1>7, <1>8

LEMMA ApplyKeeps == ASSUME SInv, Apply PROVE SInv'
<1> USE DEF SInv
<1>1. /\ stage = "written" /\ queue # <<>> /\ mem \in Log /\ Dequeue
      /\ trace = "none" => /\ file.lines = Append(mem, HeadTx)
                           /\ file.format = "v4" /\ ~file.torn
                           /\ NextSeqOf(file) = next + Len(HeadTx)
      /\ UNCHANGED <<file, tmp, status, loading, trace>>
      /\ mem' = Append(mem, HeadTx) /\ next' = next + Len(HeadTx) /\ backing' = "v4"
      /\ file \in Doc /\ tmp \in Doc /\ (Replays(file) <=> trace # "buried")
      /\ trace \in {"none", "buried"} /\ (trace # "none" => file.format = "v4")
  BY DEF Apply, Progress, Types, Traces, AlwaysOpens
<1>2. mem' \in Log /\ next' \in Nat \ {0} /\ next' <= next + 3
  BY <1>1, HeadTxLast, AppendLog
<1>3. Formats'
  BY <1>1 DEF Formats
<1>4. ReopenAgrees'
  BY <1>1 DEF ReopenAgrees, NeedsRepair
<1> QED BY <1>1, <1>2, <1>3, <1>4, DequeueKeeps

LEMMA NextKeeps == SInv /\ [Next]_vars => SInv'
<1> SUFFICES ASSUME SInv, [Next]_vars PROVE SInv'
  OBVIOUS
<1>1. CASE UNCHANGED vars
  <2>1. HeadTx' = HeadTx
    BY <1>1 DEF vars, HeadTx
  <2> QED BY <1>1, <2>1 DEF vars, SInv, Types, Loading, Formats, Progress, Traces, Room,
                            ReopenAgrees, AlwaysOpens
<1>2. ASSUME NEW writes \in CallerWrites, Commit(writes) PROVE SInv'
  BY <1>2, CommitKeeps
<1>3. CASE Refuse \/ StartAppend \/ AppendLands \/ FailAppend
  BY <1>3, RefuseKeeps, StartAppendKeeps, AppendLandsKeeps, FailAppendKeeps
<1>4. CASE StageUpgrade \/ PublishUpgrade \/ FailUpgrade \/ Apply
  BY <1>4, StageUpgradeKeeps, PublishUpgradeKeeps, RefuseKeeps, ApplyKeeps
<1>5. CASE Close \/ CloseDone \/ Crash
  BY <1>5, CloseKeeps, EndsKeep
<1> QED BY <1>1, <1>2, <1>3, <1>4, <1>5, RepositoryKeeps DEF Next

LEMMA Invariant == Spec => []SInv
<1>1. SInv /\ [Next]_vars => SInv'
  BY NextKeeps
<1> QED BY <1>1, InitHolds, PTL DEF Spec

-----------------------------------------------------------------------------
(* The theorems *)

\* A session file can always be opened again, however many processes have died over it, whatever
\* they were doing and whichever appends have failed, unless a storage has appended a whole line
\* behind what an append of its own left when it failed. Then it cannot: JsonlStorage.open throws.
THEOREM SessionAlwaysOpens == Spec => []AlwaysOpens
<1>1. SInv => AlwaysOpens
  BY DEF SInv
<1> QED BY <1>1, Invariant, PTL

\* Between two commits memory, sequence numbers and backing of an open storage are those that a
\* new open of its file would have, until an append of it fails and leaves something in the file.
THEOREM MemoryIsTheFile == Spec => []ReopenAgrees
<1>1. SInv => ReopenAgrees
  BY DEF SInv
<1> QED BY <1>1, Invariant, PTL

-----------------------------------------------------------------------------
(* Refinement *)

LEMMA HeadTxIsTransaction == ASSUME SInv, queue # <<>> PROVE HeadTx \in Transactions
<1>1. /\ HeadTx \in Seq(Stamp) /\ Len(HeadTx) \in 1..3
      /\ \A i \in 1..Len(HeadTx) : HeadTx[i].seq = next + i - 1
  BY HeadTxShape DEF SInv
<1>2. next \in Nat \ {0} /\ MaxSeq \in Nat /\ next + 3 <= MaxSeq + 1
  <2>1. queue \in Seq(CallerWrites) /\ next \in Nat \ {0} /\ next + 3 * Len(queue) <= MaxSeq + 1
    BY DEF SInv, Types, Room
  <2>2. Len(queue) \in Nat /\ Len(queue) >= 1
    BY <2>1
  <2> QED BY <2>1, <2>2, StoreBoundsAssumption
<1>3. ASSUME NEW i \in 1..Len(HeadTx) PROVE HeadTx[i] \in Stamped
  <2>1. HeadTx[i] \in Stamp
    BY <1>1, ElementOfSeq
  <2>2. HeadTx[i].seq \in 1..MaxSeq
    <3>1. HeadTx[i].seq = next + i - 1 /\ i \in 1..3
      <4>1. \A n \in 1..3 : \A j \in 1..n : j \in 1..3
        OBVIOUS
      <4> QED BY <1>1, <4>1, Zenon
    <3>2. next + i - 1 \in 1..MaxSeq
      BY <1>2, <3>1
    <3> QED BY <3>1, <3>2, Zenon
  <2> QED BY <2>1, <2>2 DEF Stamp, Stamped
<1>4. HeadTx \in [1..Len(HeadTx) -> Stamped]
  BY <1>1, <1>3, LenProperties
<1>5. Len(HeadTx) \in Nat
  BY <1>1, LenProperties
<1> QED BY <1>4, <1>5, SeqDef DEF Transactions

\* A line is added to the file, a transaction or what completes an unterminated one.
LEMMA LineAdded ==
    ASSUME SInv, NEW line \in Seq(Stamp), file'.lines = Append(file.lines, line)
    PROVE  /\ Durable!Grows
           /\ line \in Transactions => Durable!OneMore
<1>1. file.lines \in Log
  BY DEF SInv, Types, Doc
<1>2. /\ Len(file'.lines) = Len(file.lines) + 1 /\ Len(file.lines) \in Nat
      /\ \A i \in 1..Len(file.lines) : file'.lines[i] = file.lines[i]
      /\ file'.lines[Len(file.lines) + 1] = line
      /\ DOMAIN file.lines = 1..Len(file.lines)
  BY <1>1, AppendProperties, LenProperties DEF Log
<1>3. Durable!Grows
  BY <1>2 DEF Durable!Grows
<1> QED BY <1>2, <1>3 DEF Durable!OneMore

LEMMA NothingAdded == ASSUME SInv, file'.lines = file.lines PROVE Durable!Grows
<1>1. Len(file.lines) \in Nat
  BY DEF SInv, Types, Doc, Log
<1> QED BY <1>1 DEF Durable!Grows

\* The whole line of the head of the queue: durable after a storage without a trace, else in the
\* way of every later opening.
LEMMA LineRefines ==
    ASSUME SInv, stage = "appending", file' = Appended(file, HeadTx), UNCHANGED acked
    PROVE  /\ trace = "none" => Durable!OneMore
           /\ trace # "none" /\ trace' = "buried" => Durable!Bury
<1>1. queue # <<>> /\ file \in Doc /\ Types /\ trace \in {"none", "trailing", "buried"}
  BY DEF SInv, Progress, Types
<1>2. HeadTx \in Seq(Stamp) /\ HeadTx \in Transactions
  BY <1>1, HeadTxShape, HeadTxIsTransaction
<1>3. file'.lines = Append(file.lines, IF file.torn THEN Garbled ELSE HeadTx)
  BY <1>1, <1>2, WrittenDocs
<1>4. CASE trace = "none"
  <2>1. ~file.torn
    BY <1>1, <1>4 DEF SInv, Progress, Traces, ReopenAgrees, NeedsRepair
  <2> QED BY <1>2, <1>3, <1>4, <2>1, LineAdded
<1>5. CASE trace # "none"
  <2>1. Garbled \in Seq(Stamp)
    BY DEF Garbled
  <2>2. Durable!Grows
    BY <1>2, <1>3, <2>1, LineAdded
  <2> QED BY <1>1, <1>5, <2>2 DEF Durable!Bury
<1> QED BY <1>4, <1>5

LEMMA StepRefines == ASSUME SInv, [Next]_vars PROVE [Durable!Next]_(Durable!vars)
<1> USE DEF SInv
<1>1. file \in Doc /\ trace \in {"none", "trailing", "buried"}
  BY DEF Types
<1>2. CASE AppendLands
  <2>1. /\ stage = "appending" /\ file' = Appended(file, HeadTx) /\ UNCHANGED acked
        /\ trace' = IF trace = "none" THEN "none" ELSE "buried"
    BY <1>2 DEF AppendLands
  <2>2. CASE trace = "none"
    BY <2>1, <2>2, LineRefines DEF Durable!Next, Durable!Persist
  <2>3. CASE trace # "none"
    BY <2>1, <2>3, LineRefines DEF Durable!Next
  <2> QED BY <2>2, <2>3
<1>3. CASE PublishUpgrade
  <2>1. /\ queue # <<>> /\ mem = file.lines /\ file' = Upgraded(mem, HeadTx) /\ UNCHANGED acked
        /\ trace = "none" /\ trace' = trace
    BY <1>3 DEF PublishUpgrade, Progress, Traces, ReopenAgrees
  <2>2. file'.lines = Append(file.lines, HeadTx)
    BY <2>1 DEF Upgraded
  <2>3. HeadTx \in Seq(Stamp) /\ HeadTx \in Transactions
    BY <2>1, HeadTxShape, HeadTxIsTransaction
  <2>4. Durable!OneMore
    BY <2>2, <2>3, LineAdded
  <2> QED BY <2>1, <2>4 DEF Durable!Next, Durable!Persist
<1>4. CASE Apply
  <2>1. /\ queue # <<>> /\ mem \in Log /\ HeadTx \in Seq(Stamp)
        /\ file' = file /\ acked' = acked \union {HeadTx} /\ trace' = trace
        /\ trace = "none" => file.lines = Append(mem, HeadTx)
        /\ trace \in {"none", "buried"}
    BY <1>4, HeadTxShape DEF Apply, Progress, Types, Traces
  <2>2. CASE trace = "none"
    <3>1. HeadTx \in Durable!Logged
      <4>1. /\ file.lines[Len(mem) + 1] = HeadTx
            /\ Len(mem) + 1 \in DOMAIN file.lines
        BY <2>1, <2>2, AppendProperties, LenProperties DEF Log
      <4> QED BY <4>1 DEF Durable!Logged
    <3>2. CASE HeadTx \in acked
      BY <2>1, <3>2 DEF Durable!vars
    <3>3. CASE HeadTx \notin acked
      BY <2>1, <2>2, <3>1, <3>3 DEF Durable!Next, Durable!Acknowledge
    <3> QED BY <3>2, <3>3
  <2>3. CASE trace = "buried"
    BY <2>1, <2>3, NothingAdded DEF Durable!Next, Durable!Bury
  <2> QED BY <2>1, <2>2, <2>3
<1>5. CASE Delete
  BY <1>5 DEF Delete, NoFile, Durable!Next, Durable!Discard
<1>6. CASE \/ Create \/ FinishCreate \/ OpenIntact \/ FailRepair
           \/ (\E call \in {"open", "fork"} : StageRepair(call))
           \/ (\E writes \in CallerWrites : Commit(writes))
           \/ Refuse \/ StartAppend \/ StageUpgrade \/ FailUpgrade \/ Close
           \/ UNCHANGED vars
  BY <1>6 DEF Create, FinishCreate, OpenIntact, FailRepair, StageRepair, Commit, Refuse,
              StartAppend, StageUpgrade, FailUpgrade, Close, vars, Durable!vars
<1>7. CASE FailAppend
  <2>1. stage = "appending" /\ UNCHANGED acked
    BY <1>7 DEF FailAppend
  <2>2. PICK what \in AppendFailures :
           /\ file' = CASE what = "nothing" -> file
                        [] what = "part"    -> [file EXCEPT !.torn = TRUE]
                        [] what = "whole"   -> Appended(file, HeadTx)
           /\ trace' = Left(what)
    BY <1>7 DEF FailAppend
  <2>3. what \in {"nothing", "part", "whole"}
    BY FailuresAssumption
  <2>4. CASE what = "nothing"
    BY <2>1, <2>2, <2>4 DEF Left, Durable!vars
  <2>5. CASE what = "part"
    <3>1. file'.lines = file.lines /\ trace' = IF trace = "none" THEN "trailing" ELSE trace
      BY <1>1, <2>2, <2>5 DEF Left, Doc
    <3> QED BY <2>1, <3>1 DEF Durable!vars, Durable!Next, Durable!Doubt
  <2>6. CASE what = "whole"
    <3>1. /\ file' = Appended(file, HeadTx)
          /\ trace' = IF trace = "none" THEN "trailing" ELSE "buried"
      BY <2>2, <2>6 DEF Left
    <3>2. CASE trace = "none"
      BY <2>1, <3>1, <3>2, LineRefines DEF Durable!Next, Durable!Doubt
    <3>3. CASE trace # "none"
      BY <2>1, <3>1, <3>3, LineRefines DEF Durable!Next
    <3> QED BY <3>2, <3>3
  <2> QED BY <2>3, <2>4, <2>5, <2>6
<1>8. CASE PublishNew \/ FailCreate
  BY <1>8 DEF PublishNew, FailCreate, Loading, NoFile, NewFile, Durable!vars
<1>9. CASE PublishRepair
  <2>1. file' = Repaired(file) /\ UNCHANGED <<acked, trace>>
    BY <1>9 DEF PublishRepair, Loading
  <2> QED BY <1>1, <2>1, WrittenDocs DEF Durable!vars
<1>10. CASE CloseDone \/ Crash
  <2>1. /\ file'.lines = file.lines /\ UNCHANGED acked
        /\ trace' = IF trace = "buried" THEN "buried" ELSE "none"
    BY <1>1, <1>10 DEF CloseDone, Crash, Nobody, Doc
  <2>2. CASE trace = "trailing"
    BY <2>1, <2>2 DEF Durable!Next, Durable!Settle
  <2>3. CASE trace # "trailing"
    BY <1>1, <2>1, <2>3 DEF Durable!vars
  <2> QED BY <2>2, <2>3
<1> QED BY <1>2, <1>3, <1>4, <1>5, <1>6, <1>7, <1>8, <1>9, <1>10 DEF Next

\* Through torn lines, repairs, upgrades and deaths the file is the atomic log of transactions that
\* the harness takes its storage for: none is lost, changed or acknowledged without being there. A
\* commit that fails leaves it open whether it is there, until the session is opened again; only
\* a storage that goes on committing before that can acknowledge what will not be found.
THEOREM ImplementsAtomicStore == Spec => RefinesAtomicStore
<1>1. Init => Durable!Init
  BY DEF Init, Durable!Init, NoFile
<1>2. SInv /\ [Next]_vars => [Durable!Next]_(Durable!vars)
  BY StepRefines
<1> QED BY <1>1, <1>2, Invariant, PTL DEF Spec, RefinesAtomicStore, Durable!Spec

-----------------------------------------------------------------------------
(* Bounds *)

\* What TypeOK says beyond SInv: every number that is stored or handed out is one of 1..MaxSeq, so
\* that the bounds of the model cut nothing off inside a commit, an upgrade or an opening.
Bounded == /\ file \in Files /\ tmp \in Files /\ mem \in Seq(Transactions)
           /\ next <= MaxSeq + 1
           /\ Len(queue) <= QueueCap
           /\ acked \subseteq Transactions
           /\ stops \in 0..MaxStops

LEMMA BoundedInit == Init => Bounded
<1> SUFFICES ASSUME Init PROVE Bounded
  OBVIOUS
<1>1. MaxSeq \in Nat /\ MaxSeq >= 2 /\ QueueCap \in Nat /\ MaxStops \in Nat
  BY StoreBoundsAssumption, LegacyFits
<1>2. NoFile \in Files
  BY <1>1 DEF NoFile, Files
<1>3. LegacyFile \in Files
  <2>1. 1 \in 1..MaxSeq /\ 2 \in 1..MaxSeq /\ 0 \in 0..(MaxSeq + 1)
    BY <1>1
  <2>2. /\ [id |-> LegacyId, parent |-> None, seq |-> 1] \in Stamped
        /\ [id |-> None, parent |-> None, seq |-> 2] \in Stamped
    BY <2>1 DEF Stamped, AllIds
  <2>3. LegacyFile.lines \in Seq(Seq(Stamped))
    BY <2>2 DEF LegacyFile
  <2> QED BY <2>1, <2>3 DEF LegacyFile, Files
<1>4. 1 <= MaxSeq + 1 /\ 0 <= QueueCap /\ 0 \in 0..MaxStops
  BY <1>1
<1> QED BY <1>2, <1>3, <1>4 DEF Init, Bounded

\* Where an opened file goes on.
LEMMA NextSeqBounded == ASSUME NEW f \in Files, Replays(f) PROVE NextSeqOf(f) <= MaxSeq + 1
<1>1. /\ f.lines \in Seq(Seq(Stamped)) /\ f.high \in 0..(MaxSeq + 1) /\ MaxSeq \in Nat
  BY StoreBoundsAssumption DEF Files
<1>2. HighestSeq(f.lines) \in 0..MaxSeq
  <2>1. CASE f.lines = <<>>
    BY <1>1, <2>1 DEF HighestSeq
  <2>2. CASE f.lines # <<>>
    <3> DEFINE last == f.lines[Len(f.lines)]
    <3>1. Len(f.lines) \in DOMAIN f.lines /\ last \in Seq(Stamped)
      BY <1>1, <2>2
    <3>2. last # <<>>
      BY <3>1 DEF Replays, Accepts
    <3>3. last[Len(last)] \in Stamped
      BY <3>1, <3>2, EmptySeq, ElementOfSeq
    <3>4. HighestSeq(f.lines) = last[Len(last)].seq
      BY <2>2 DEF HighestSeq
    <3>5. last[Len(last)].seq \in 1..MaxSeq
      BY <3>3 DEF Stamped
    <3> QED BY <1>1, <3>4, <3>5
  <2> QED BY <2>1, <2>2
<1> QED BY <1>1, <1>2 DEF NextSeqOf

\* There is a number for every write of the transaction at the head of the queue.
LEMMA HeadTxFits == ASSUME SInv, queue # <<>> PROVE next + Len(HeadTx) \in 0..(MaxSeq + 1)
<1>1. /\ HeadTx \in Seq(Stamp) /\ Len(HeadTx) >= 1 /\ next + Len(HeadTx) \in Nat \ {0}
      /\ next + Len(HeadTx) <= next + 3
  BY HeadTxLast DEF SInv
<1>2. /\ queue \in Seq(CallerWrites) /\ next \in Nat /\ MaxSeq \in Nat
      /\ next + 3 * Len(queue) <= MaxSeq + 1
  BY StoreBoundsAssumption DEF SInv, Types, Room
<1>3. Len(queue) \in Nat /\ Len(queue) >= 1
  BY <1>2
<1>4. next + 3 <= MaxSeq + 1
  BY <1>2, <1>3
<1> QED BY <1>1, <1>2, <1>4

\* The documents that are written stay within the bounds.
LEMMA BoundedDocs ==
    /\ NoFile \in Files /\ NewFile \in Files
    /\ \A f \in Files : /\ Repaired(f) \in Files
                        /\ [f EXCEPT !.torn = TRUE] \in Files
    /\ \A f \in Files, tx \in Transactions : Appended(f, tx) \in Files
<1>1. MaxSeq \in Nat
  BY StoreBoundsAssumption
<1>2. NoFile \in Files /\ NewFile \in Files
  BY <1>1 DEF NoFile, NewFile, Files
<1>3. ASSUME NEW f \in Files
      PROVE  Repaired(f) \in Files /\ [f EXCEPT !.torn = TRUE] \in Files
  BY DEF Repaired, Files
<1>4. ASSUME NEW f \in Files, NEW tx \in Transactions PROVE Appended(f, tx) \in Files
  <2> DEFINE line == IF f.torn THEN Garbled ELSE tx
  <2>1. line \in Seq(Stamped)
    BY DEF Garbled, Transactions
  <2>2. Appended(f, tx) = [f EXCEPT !.lines = Append(f.lines, line), !.torn = FALSE]
    BY DEF Appended
  <2> HIDE DEF line
  <2>3. Append(f.lines, line) \in Seq(Seq(Stamped))
    BY <2>1, AppendProperties DEF Files
  <2> QED BY <2>2, <2>3 DEF Files
<1> QED BY <1>2, <1>3, <1>4

LEMMA BoundedRegister ==
    ASSUME Bounded, Register(file'), file' \in Files, tmp' \in Files, Replays(file'),
           UNCHANGED <<acked, stops>>
    PROVE  Bounded'
<1>1. next' <= MaxSeq + 1
  BY NextSeqBounded DEF Register
<1>2. mem' \in Seq(Transactions)
  BY DEF Register, Files, Transactions
<1>3. Len(queue') <= QueueCap
  BY StoreBoundsAssumption DEF Register
<1> QED BY <1>1, <1>2, <1>3 DEF Bounded

LEMMA BoundedDequeue ==
    ASSUME SInv, Bounded, queue # <<>>, Dequeue,
           file' \in Files, tmp' \in Files, mem' \in Seq(Transactions), next' <= MaxSeq + 1,
           acked' \subseteq Transactions, stops' = stops
    PROVE  Bounded'
<1>1. /\ queue \in Seq(CallerWrites) /\ Len(queue) \in Nat /\ Len(Tail(queue)) = Len(queue) - 1
      /\ queue' = Tail(queue) /\ Len(queue) <= QueueCap /\ QueueCap \in Nat
  BY StoreBoundsAssumption DEF SInv, Types, Bounded, Dequeue
<1>2. Len(queue') <= QueueCap
  BY <1>1
<1> QED BY <1>2 DEF Bounded

LEMMA RepositoryBounded ==
    ASSUME SInv, Bounded,
           \/ Create \/ PublishNew \/ FinishCreate \/ FailCreate \/ OpenIntact
           \/ (\E call \in {"open", "fork"} : StageRepair(call)) \/ PublishRepair \/ FailRepair
           \/ Delete
    PROVE  Bounded'
<1>1. CASE Create \/ FailCreate \/ FailRepair \/ Delete \/ PublishNew
  BY <1>1, BoundedDocs
  DEF Create, FailCreate, FailRepair, Delete, PublishNew, memory, Bounded
<1>2. CASE FinishCreate \/ OpenIntact
  <2>1. Replays(file)
    BY <1>2 DEF FinishCreate, OpenIntact, SInv, Traces, AlwaysOpens
  <2> QED BY <1>2, <2>1, BoundedRegister DEF FinishCreate, OpenIntact, Bounded
<1>3. ASSUME NEW call \in {"open", "fork"}, StageRepair(call) PROVE Bounded'
  BY <1>3, BoundedDocs DEF StageRepair, memory, Bounded
<1>4. CASE PublishRepair
  <2>1. /\ file' = tmp /\ tmp = Repaired(file) /\ tmp' = NoFile /\ UNCHANGED <<acked, stops>>
        /\ file \in Doc /\ Replays(file)
    BY <1>4 DEF PublishRepair, SInv, Loading, Traces, Types, AlwaysOpens
  <2>2. file'.lines = file.lines
    BY <2>1, WrittenDocs
  <2>3. Replays(file')
    BY <2>1, <2>2 DEF Replays
  <2>4. CASE loading = "open"
    <3>1. Register(file')
      BY <1>4, <2>1, <2>4 DEF PublishRepair
    <3> QED BY <2>1, <2>3, <3>1, BoundedDocs, BoundedRegister DEF Bounded
  <2>5. CASE loading # "open"
    BY <1>4, <2>1, <2>5, BoundedDocs DEF PublishRepair, memory, Bounded
  <2> QED BY <2>4, <2>5
<1> QED BY <1>1, <1>2, <1>3, <1>4

LEMMA QueueBounded ==
    ASSUME SInv, Bounded,
           \/ Refuse \/ StartAppend \/ AppendLands \/ StageUpgrade \/ PublishUpgrade \/ FailUpgrade
           \/ Apply \/ FailAppend
    PROVE  Bounded'
<1>1. /\ file \in Files /\ tmp \in Files /\ mem \in Seq(Transactions) /\ next <= MaxSeq + 1
      /\ acked \subseteq Transactions /\ next \in Nat /\ Log = Seq(Seq(Stamp))
  BY DEF Bounded, SInv, Types, Log
<1>2. CASE Refuse \/ FailUpgrade
  <2>1. queue # <<>>
    BY <1>2 DEF Refuse, Ready, FailUpgrade, SInv, Progress
  <2> QED BY <1>1, <1>2, <2>1, BoundedDocs, BoundedDequeue DEF Refuse, FailUpgrade
<1>3. CASE FailAppend
  <2>1. queue # <<>> /\ Dequeue /\ UNCHANGED <<tmp, mem, next, acked, stops>>
    BY <1>3 DEF FailAppend, SInv, Progress
  <2>2. file' \in Files
    <3>1. PICK what \in AppendFailures :
             file' = CASE what = "nothing" -> file
                       [] what = "part"    -> [file EXCEPT !.torn = TRUE]
                       [] what = "whole"   -> Appended(file, HeadTx)
      BY <1>3 DEF FailAppend
    <3>2. what \in {"nothing", "part", "whole"}
      BY FailuresAssumption
    <3> QED BY <1>1, <2>1, <3>1, <3>2, HeadTxIsTransaction, BoundedDocs
  <2> QED BY <1>1, <2>1, <2>2, BoundedDequeue
<1>4. CASE StartAppend
  BY <1>4 DEF StartAppend, Bounded
<1>5. CASE AppendLands
  <2>1. queue # <<>> /\ file' = Appended(file, HeadTx)
    BY <1>5 DEF AppendLands, SInv, Progress
  <2>2. file' \in Files
    BY <1>1, <2>1, HeadTxIsTransaction, BoundedDocs
  <2> QED BY <1>5, <2>2 DEF AppendLands, Bounded
<1>6. CASE StageUpgrade
  <2>1. queue # <<>> /\ mem \in Log /\ tmp' = Upgraded(mem, HeadTx)
    BY <1>6 DEF StageUpgrade, Ready, SInv, Types
  <2>2. tmp' \in Doc /\ tmp'.lines = Append(mem, HeadTx) /\ tmp'.high = next + Len(HeadTx)
    BY <2>1, HeadTxLast, UpgradedDoc DEF SInv
  <2>3. tmp'.lines \in Seq(Seq(Stamped))
    BY <1>1, <2>1, <2>2, HeadTxIsTransaction, AppendProperties DEF Transactions
  <2>4. tmp'.high \in 0..(MaxSeq + 1)
    BY <2>1, <2>2, HeadTxFits
  <2>5. tmp' \in Files
    BY <2>2, <2>3, <2>4 DEF Doc, Files
  <2> QED BY <1>6, <2>5 DEF StageUpgrade, Bounded
<1>7. CASE PublishUpgrade
  BY <1>1, <1>7, BoundedDocs DEF PublishUpgrade, Bounded
<1>8. CASE Apply
  <2>1. queue # <<>> /\ HeadTx \in Transactions
    BY <1>8, HeadTxIsTransaction DEF Apply, SInv, Progress
  <2>2. mem' \in Seq(Transactions)
    BY <1>1, <1>8, <2>1, AppendProperties DEF Apply
  <2>3. next' <= MaxSeq + 1
    <3>1. next' = next + Len(HeadTx) /\ MaxSeq \in Nat
      BY <1>8, StoreBoundsAssumption DEF Apply
    <3> QED BY <2>1, <3>1, HeadTxFits
  <2> QED BY <1>1, <1>8, <2>1, <2>2, <2>3, BoundedDequeue DEF Apply
<1> QED BY <1>2, <1>3, <1>4, <1>5, <1>6, <1>7, <1>8

LEMMA NextBounded ==
    SInv /\ Bounded /\ [Next]_vars => Bounded'
<1> SUFFICES ASSUME SInv, Bounded, [Next]_vars PROVE Bounded'
  OBVIOUS
<1>1. CASE UNCHANGED vars
  BY <1>1 DEF vars, Bounded
<1>2. ASSUME NEW writes \in CallerWrites, Commit(writes) PROVE Bounded'
  <2>1. Len(queue') = Len(queue) + 1 /\ Len(queue) \in Nat /\ QueueCap \in Nat
    BY <1>2, AppendProperties, StoreBoundsAssumption DEF Commit, SInv, Types
  <2>2. Len(queue') <= QueueCap
    BY <1>2, <2>1 DEF Commit
  <2> QED BY <1>2, <2>2 DEF Commit, Bounded
<1>3. CASE Close
  BY <1>3 DEF Close, Bounded
<1>4. CASE CloseDone \/ Crash
  <2>1. /\ MaxSeq \in Nat /\ QueueCap \in Nat /\ MaxStops \in Nat
        /\ file \in Files /\ tmp \in Files /\ acked \subseteq Transactions
        /\ stops \in 0..MaxStops
    BY StoreBoundsAssumption DEF Bounded
  <2>2. file' \in Files /\ tmp' = tmp /\ acked' = acked
    BY <1>4, <2>1, BoundedDocs DEF CloseDone, Crash
  <2>3. stops' \in 0..MaxStops
    BY <1>4, <2>1 DEF CloseDone, Crash
  <2>4. mem' = <<>> /\ next' <= MaxSeq + 1 /\ Len(queue') <= QueueCap
    BY <1>4, <2>1 DEF CloseDone, Crash, Nobody
  <2> QED BY <2>1, <2>2, <2>3, <2>4 DEF Bounded
<1> QED BY <1>1, <1>2, <1>3, <1>4, RepositoryBounded, QueueBounded DEF Next

\* Types, and what goes together: jobs wait only in a storage that is registered, the head of the
\* queue is under way only while there is one, and a repository call has nothing registered. No
\* transaction is numbered past the bound, so that MaxSeq only limits which commits are made.
THEOREM TypeCorrect == Spec => []TypeOK
<1>1. SInv /\ Bounded /\ [Next]_vars => Bounded'
  BY NextBounded
<1>2. SInv /\ Bounded => TypeOK
  <2> SUFFICES ASSUME SInv, Bounded PROVE TypeOK
    OBVIOUS
  <2>1. next \in 1..(MaxSeq + 1)
    <3>1. next \in Nat \ {0} /\ MaxSeq \in Nat /\ next <= MaxSeq + 1
      BY StoreBoundsAssumption DEF SInv, Types, Bounded
    <3> QED BY <3>1
  <2> QED BY <2>1 DEF SInv, Types, Progress, Loading, Bounded, TypeOK
<1> QED BY <1>1, <1>2, BoundedInit, Invariant, PTL DEF Spec

=============================================================================
