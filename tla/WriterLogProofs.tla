--------------------------- MODULE WriterLogProofs ---------------------------
(***************************************************************************)
(* Writer implements RecordLog: the rows of a table pass its stages in     *)
(* their order, and each is in exactly one of them.  Its byte counters     *)
(* agree with those rows.                                                  *)
(***************************************************************************)
EXTENDS WriterLog, WriterProofs, ListFacts, FiniteSetTheorems

-----------------------------------------------------------------------------
(* The rows in a stage of the record path.                                 *)

OfJob(m, t) == [j \in Job |-> JobRows(j, m, t)]
OfCommand(m, t) ==
    [c \in EncodeCommand |-> IF c.type = "write" THEN JobRows(c.job, m, t) ELSE <<>>]
OfRecords == [c \in Command |-> Rows(c)]
Only(t) == [r \in Records |-> IF TableOf[r] = t THEN <<r>> ELSE <<>>]

LEMMA OfJobType == ASSUME NEW m, NEW t PROVE OfJob(m, t) \in [Job -> Seq(Records)]
<1>1. ASSUME NEW j \in Job PROVE JobRows(j, m, t) \in Seq(Records)
  BY JobRecords DEF JobRows
<1>2. QED
  BY <1>1 DEF OfJob

LEMMA OfCommandType ==
    ASSUME NEW m, NEW t
    PROVE  OfCommand(m, t) \in [EncodeCommand -> Seq(Records)]
<1>1. ASSUME NEW c \in EncodeCommand, c.type = "write" PROVE JobRows(c.job, m, t) \in Seq(Records)
  BY <1>1, EncodeCommandTypes, JobRecords DEF JobRows
<1>2. <<>> \in Seq(Records)
  OBVIOUS
<1>3. QED
  BY <1>1, <1>2 DEF OfCommand

LEMMA RowsType == ASSUME NEW c \in Command PROVE Rows(c) \in Seq(Records)
  BY CommandTypes DEF Rows

LEMMA OfRecordsType == OfRecords \in [Command -> Seq(Records)]
  BY RowsType DEF OfRecords

LEMMA OnlyType == ASSUME NEW t PROVE Only(t) \in [Records -> Seq(Records)]
  BY DEF Only

\* Each stage is a concatenation over a sequence.
LEMMA EncodingMap ==
    ASSUME NEW s \in Seq(Job), NEW m, NEW t
    PROVE  Encoding(s, m, t) = FlatMap(OfJob(m, t), s)
<1>1. \A i \in DOMAIN s : OfJob(m, t)[s[i]] = JobRows(s[i], m, t)
  BY DEF OfJob
<1>2. [i \in DOMAIN s |-> JobRows(s[i], m, t)] = Mapped(OfJob(m, t), s)
  BY <1>1 DEF Mapped
<1>3. QED
  BY <1>2 DEF Encoding, FlatMap

LEMMA QueuedMap ==
    ASSUME NEW s \in Seq(EncodeCommand), NEW m, NEW t
    PROVE  Queued(s, m, t) = FlatMap(OfCommand(m, t), s)
<1>1. \A i \in DOMAIN s : OfCommand(m, t)[s[i]] =
          IF s[i].type = "write" THEN JobRows(s[i].job, m, t) ELSE <<>>
  BY DEF OfCommand
<1>2. [i \in DOMAIN s |-> IF s[i].type = "write" THEN JobRows(s[i].job, m, t) ELSE <<>>]
        = Mapped(OfCommand(m, t), s)
  BY <1>1 DEF Mapped
<1>3. QED
  BY <1>2 DEF Queued, FlatMap

LEMMA WaitingMap ==
    ASSUME NEW s \in Seq(Command)
    PROVE  Waiting(s) = FlatMap(OfRecords, s)
<1>1. \A i \in DOMAIN s : OfRecords[s[i]] = Rows(s[i])
  BY DEF OfRecords
<1>2. [i \in DOMAIN s |-> Rows(s[i])] = Mapped(OfRecords, s)
  BY <1>1 DEF Mapped
<1>3. QED
  BY <1>2 DEF Waiting, FlatMap

LEMMA OfTableMap ==
    ASSUME NEW s \in Seq(Records), NEW t
    PROVE  OfTable(s, t) = FlatMap(Only(t), s)
<1>1. \A i \in DOMAIN s : Only(t)[s[i]] = IF TableOf[s[i]] = t THEN <<s[i]>> ELSE <<>>
  BY DEF Only
<1>2. [i \in DOMAIN s |-> IF TableOf[s[i]] = t THEN <<s[i]>> ELSE <<>>] = Mapped(Only(t), s)
  BY <1>1 DEF Mapped
<1>3. QED
  BY <1>2 DEF OfTable, FlatMap

LEMMA StageTypes ==
    /\ \A s \in Seq(Job) : \A m, t : Encoding(s, m, t) \in Seq(Records)
    /\ \A s \in Seq(EncodeCommand) : \A m, t : Queued(s, m, t) \in Seq(Records)
    /\ \A s \in Seq(Command) : Waiting(s) \in Seq(Records)
    /\ \A s \in Seq(Records) : \A t : OfTable(s, t) \in Seq(Records)
<1>1. ASSUME NEW s \in Seq(Job), NEW m, NEW t PROVE Encoding(s, m, t) \in Seq(Records)
  BY EncodingMap, OfJobType, FlatMapType
<1>2. ASSUME NEW s \in Seq(EncodeCommand), NEW m, NEW t PROVE Queued(s, m, t) \in Seq(Records)
  BY QueuedMap, OfCommandType, FlatMapType
<1>3. ASSUME NEW s \in Seq(Command) PROVE Waiting(s) \in Seq(Records)
  BY WaitingMap, OfRecordsType, FlatMapType
<1>4. ASSUME NEW s \in Seq(Records), NEW t PROVE OfTable(s, t) \in Seq(Records)
  BY OfTableMap, OnlyType, FlatMapType
<1>5. QED
  BY <1>1, <1>2, <1>3, <1>4

LEMMA EmptySequences ==
    /\ <<>> \in Seq(Job) /\ <<>> \in Seq(EncodeCommand) /\ <<>> \in Seq(Command) /\ <<>> \in Seq(Records)
  OBVIOUS

LEMMA StageEmpty ==
    /\ \A m, t : Encoding(<<>>, m, t) = <<>> /\ Queued(<<>>, m, t) = <<>>
    /\ Waiting(<<>>) = <<>>
    /\ \A t : OfTable(<<>>, t) = <<>>
<1>1. ASSUME NEW m, NEW t PROVE Encoding(<<>>, m, t) = <<>>
  BY EmptySequences, EncodingMap, FlatMapEmpty, Zenon
<1>2. ASSUME NEW m, NEW t PROVE Queued(<<>>, m, t) = <<>>
  BY EmptySequences, QueuedMap, FlatMapEmpty, Zenon
<1>3. Waiting(<<>>) = <<>>
  BY EmptySequences, WaitingMap, FlatMapEmpty, Zenon
<1>4. ASSUME NEW t PROVE OfTable(<<>>, t) = <<>>
  BY EmptySequences, OfTableMap, FlatMapEmpty, Zenon
<1>5. QED
  BY <1>1, <1>2, <1>3, <1>4

LEMMA EncodingOne ==
    ASSUME NEW j \in Job, NEW m, NEW t
    PROVE  Encoding(<<j>>, m, t) = JobRows(j, m, t)
<1>1. <<j>> \in Seq(Job)
  OBVIOUS
<1>2. FlatMap(OfJob(m, t), <<j>>) = OfJob(m, t)[j]
  BY OfJobType, FlatMapOne
<1>3. OfJob(m, t)[j] = JobRows(j, m, t)
  BY DEF OfJob
<1>4. QED
  BY <1>1, <1>2, <1>3, EncodingMap

\* A stage with one command more, and without its first one.
QueuedMore(s, c, m, t) == Queued(Append(s, c), m, t) = Queued(s, m, t) \o OfCommand(m, t)[c]
QueuedFirst(s, m, t) == Queued(s, m, t) = OfCommand(m, t)[Head(s)] \o Queued(Tail(s), m, t)
WaitingMore(s, c) == Waiting(Append(s, c)) = Waiting(s) \o Rows(c)
WaitingFirst(s) == Waiting(s) = Rows(Head(s)) \o Waiting(Tail(s))
OfTableBoth(a, b, t) == OfTable(a \o b, t) = OfTable(a, t) \o OfTable(b, t)
OfTableMore(s, r, t) == OfTable(Append(s, r), t) = OfTable(s, t) \o Only(t)[r]
OfTableFirst(s, t) == OfTable(s, t) = Only(t)[Head(s)] \o OfTable(Tail(s), t)

LEMMA QueuedParts ==
    ASSUME NEW s \in Seq(EncodeCommand), NEW m, NEW t
    PROVE  /\ \A c \in EncodeCommand : QueuedMore(s, c, m, t)
           /\ s # <<>> => QueuedFirst(s, m, t)
<1>1. PICK F \in [EncodeCommand -> Seq(Records)] : F = OfCommand(m, t)
  BY OfCommandType
<1>2. \A q \in Seq(EncodeCommand) : Queued(q, m, t) = FlatMap(F, q)
  BY <1>1, QueuedMap
<1>3. ASSUME NEW c \in EncodeCommand PROVE QueuedMore(s, c, m, t)
  <2>1. FlatMap(F, Append(s, c)) = FlatMap(F, s) \o F[c]
    BY FlatMapAppend
  <2>2. Append(s, c) \in Seq(EncodeCommand)
    OBVIOUS
  <2>3. Queued(Append(s, c), m, t) = FlatMap(F, Append(s, c)) /\ Queued(s, m, t) = FlatMap(F, s)
    BY <1>2, <2>2, Zenon
  <2>4. QED
    BY <1>1, <2>1, <2>3, Zenon DEF QueuedMore
<1>4. ASSUME s # <<>> PROVE QueuedFirst(s, m, t)
  <2>1. Unfolds(F, s)
    BY <1>4, FlatMapHead
  <2>2. Tail(s) \in Seq(EncodeCommand)
    BY <1>4
  <2>3. Queued(Tail(s), m, t) = FlatMap(F, Tail(s)) /\ Queued(s, m, t) = FlatMap(F, s)
    BY <1>2, <2>2, Zenon
  <2>4. QED
    BY <1>1, <2>1, <2>3, Zenon DEF QueuedFirst, Unfolds
<1>5. QED
  BY <1>3, <1>4

LEMMA WaitingParts ==
    ASSUME NEW s \in Seq(Command)
    PROVE  /\ \A c \in Command : WaitingMore(s, c)
           /\ s # <<>> => WaitingFirst(s)
<1>1. PICK F \in [Command -> Seq(Records)] : F = OfRecords
  BY OfRecordsType
<1>2. (\A q \in Seq(Command) : Waiting(q) = FlatMap(F, q)) /\ \A c \in Command : F[c] = Rows(c)
  BY <1>1, WaitingMap DEF OfRecords
<1>3. ASSUME NEW c \in Command PROVE WaitingMore(s, c)
  <2>1. FlatMap(F, Append(s, c)) = FlatMap(F, s) \o F[c]
    BY FlatMapAppend
  <2>2. Append(s, c) \in Seq(Command)
    OBVIOUS
  <2>3. Waiting(Append(s, c)) = FlatMap(F, Append(s, c)) /\ Waiting(s) = FlatMap(F, s) /\ F[c] = Rows(c)
    BY <1>2, <2>2, Zenon
  <2>4. QED
    BY <2>1, <2>3, Zenon DEF WaitingMore
<1>4. ASSUME s # <<>> PROVE WaitingFirst(s)
  <2>1. Unfolds(F, s)
    BY <1>4, FlatMapHead
  <2>2. Tail(s) \in Seq(Command) /\ Head(s) \in Command
    BY <1>4
  <2>3. Waiting(Tail(s)) = FlatMap(F, Tail(s)) /\ Waiting(s) = FlatMap(F, s) /\ F[Head(s)] = Rows(Head(s))
    BY <1>2, <2>2, Zenon
  <2>4. QED
    BY <2>1, <2>3, Zenon DEF WaitingFirst, Unfolds
<1>5. QED
  BY <1>3, <1>4

LEMMA OfTableParts ==
    ASSUME NEW s \in Seq(Records), NEW t
    PROVE  /\ \A b \in Seq(Records) : OfTableBoth(s, b, t)
           /\ \A r \in Records : OfTableMore(s, r, t)
           /\ s # <<>> => OfTableFirst(s, t)
<1>1. PICK F \in [Records -> Seq(Records)] : F = Only(t)
  BY OnlyType
<1>2. \A q \in Seq(Records) : OfTable(q, t) = FlatMap(F, q)
  BY <1>1, OfTableMap
<1>3. ASSUME NEW b \in Seq(Records) PROVE OfTableBoth(s, b, t)
  <2>1. Distributes(F, s, b)
    BY FlatMapConcat
  <2>2. s \o b \in Seq(Records)
    OBVIOUS
  <2>3. OfTable(s \o b, t) = FlatMap(F, s \o b) /\ OfTable(s, t) = FlatMap(F, s) /\ OfTable(b, t) = FlatMap(F, b)
    BY <1>2, <2>2, Zenon
  <2>4. QED
    BY <2>1, <2>3, Zenon DEF OfTableBoth, Distributes
<1>4. ASSUME NEW r \in Records PROVE OfTableMore(s, r, t)
  <2>1. FlatMap(F, Append(s, r)) = FlatMap(F, s) \o F[r]
    BY FlatMapAppend
  <2>2. Append(s, r) \in Seq(Records)
    OBVIOUS
  <2>3. OfTable(Append(s, r), t) = FlatMap(F, Append(s, r)) /\ OfTable(s, t) = FlatMap(F, s)
    BY <1>2, <2>2, Zenon
  <2>4. QED
    BY <1>1, <2>1, <2>3, Zenon DEF OfTableMore
<1>5. ASSUME s # <<>> PROVE OfTableFirst(s, t)
  <2>1. Unfolds(F, s)
    BY <1>5, FlatMapHead
  <2>2. Tail(s) \in Seq(Records)
    BY <1>5
  <2>3. OfTable(Tail(s), t) = FlatMap(F, Tail(s)) /\ OfTable(s, t) = FlatMap(F, s)
    BY <1>2, <2>2, Zenon
  <2>4. QED
    BY <1>1, <2>1, <2>3, Zenon DEF OfTableFirst, Unfolds
<1>6. QED
  BY <1>3, <1>4, <1>5

-----------------------------------------------------------------------------
(* The invariant.                                                          *)

\* A flush loop visits tables that hold rows, and the drain leaves the others empty.
Visited ==
    /\ \A m \in Markets : todo[m] \subseteq Held(m)
    /\ \A m \in Markets : pc[m] = "drain" =>
          closed /\ queue[m] = <<>> /\ \A t \in Tables \ todo[m] : tables[m][t] = <<>>
\* A segment has rows, and nothing is on its way to an encoder that is gone.
JobsFull ==
    /\ \A i \in 1..Len(jobs) : jobs[i].type = "write" => jobs[i].job.records # <<>>
    /\ \A i \in 1..Len(encoding) : encoding[i].records # <<>>
    /\ ~alive => jobs = <<>> /\ encoding = <<>>
PathInv == Visited /\ JobsFull /\ IsFiniteSet(disk)

\* An accepted row is in its line's part of the memory, once, or on disk or dropped.
Distinct(rows) == \A i, j \in 1..Len(rows) : rows[i] = rows[j] => i = j
InLine(m, t, r) == r \in Accepted /\ MarketOf[r] = m /\ TableOf[r] = t /\ ~OnDisk(r) /\ r \notin lost
LineKept(m, t) ==
    Distinct(InMemory(m, t)) /\ \A r \in Range(InMemory(m, t)) : InLine(m, t, r)
Remembered(r) == r \in Range(InMemory(MarketOf[r], TableOf[r])) \/ OnDisk(r) \/ r \in lost
RowsInv ==
    /\ \A m \in Markets, t \in Tables : LineKept(m, t)
    /\ \A r \in Accepted : Remembered(r)
    /\ \A r \in lost : r \in Accepted /\ ~OnDisk(r)
    /\ \A r \in Records : OnDisk(r) => r \in Accepted

LEMMA JobsFullStep == ASSUME TypeOK, PathInv, [Next]_vars PROVE JobsFull'
<1>0. JobsFull /\ \A m \in Markets : todo[m] \subseteq Held(m)
  BY DEF PathInv, Visited
<1>1. ASSUME UNCHANGED <<jobs, encoding, alive>> PROVE JobsFull'
  BY <1>0, <1>1 DEF JobsFull
<1>2. ASSUME NEW m \in Markets, NEW t \in Tables, flush_table(m, t) PROVE JobsFull'
  <2>1. tables[m][t] # <<>> /\ TableJob(m, t).records = tables[m][t]
    BY <1>0, <1>2 DEF flush_table, Held, TableJob
  <2>2. jobs'[Len(jobs) + 1].job.records # <<>>
    BY <1>2, <2>1, FlushTableMoves, WrittenTypes
  <2>3. QED
    BY <1>0, <1>2, <2>2, FlushTableMoves DEF JobsFull
<1>3. ASSUME NEW m \in Markets, SendBarrier(m) PROVE JobsFull'
  <2>1. jobs'[Len(jobs) + 1].type # "write"
    BY <1>3, SendBarrierMoves, WrittenTypes
  <2>2. QED
    BY <1>0, <1>3, <2>1, SendBarrierMoves DEF JobsFull
<1>4. CASE EncodeRecv
  <2>1. encoding'[1].records # <<>> /\ alive'
    BY <1>0, <1>4, EncodeRecvMoves DEF JobsFull
  <2>2. \A i \in 1..Len(encoding') : i = 1
    <3>1. Len(encoding') = 1
      BY <1>4, EncodeRecvMoves
    <3>2. QED
      BY <3>1
  <2>3. \A i \in 1..Len(jobs') : jobs'[i].type = "write" => jobs'[i].job.records # <<>>
    BY <1>0, <1>4, EncodeRecvMoves DEF JobsFull
  <2>4. QED
    BY <2>1, <2>2, <2>3 DEF JobsFull
<1>5. CASE EncodeBarrier
  BY <1>0, <1>5, EncodeBarrierMoves DEF JobsFull
<1>6. CASE Encoded \/ EncodeFailed
  <2>1. 1..Len(encoding') = {} /\ encoding' = <<>>
    BY <1>6, EncodedMoves
  <2>2. QED
    BY <1>0, <1>6, <2>1, EncodedMoves DEF JobsFull
<1>7. ASSUME jobs' = <<>>, encoding' = <<>> PROVE JobsFull'
  <2>1. 1..Len(jobs') = {} /\ 1..Len(encoding') = {}
    BY <1>7
  <2>2. QED
    BY <1>7, <2>1 DEF JobsFull
<1>8. CASE EncoderPanics \/ Crash
  BY <1>7, <1>8 DEF EncoderPanics, Crash
<1>9. QED
  BY <1>1, <1>2, <1>3, <1>4, <1>5, <1>6, <1>8
  DEF Next, Producer, Worker, Encoder, Caller, Done, vars, encoder, records, SendTick, Elapse, HourRolls,
      Close, flush, FlushSend, FlushResult, FlushStopped, FlushCancelled, Recv, Dispatch, Push, Pushed,
      flush_largest, Finish, Respond, Drain, Stop

LEMMA FiniteStep == ASSUME TypeOK, IsFiniteSet(disk), [Next]_vars PROVE IsFiniteSet(disk')
<1>1. \A s : IsFiniteSet(Publish(s))
  <2>1. TAKE s
  <2>2. IsFiniteSet({d \in disk : Path(d) # Path(s)})
    BY FS_Subset
  <2>3. IsFiniteSet({d \in disk : Path(d) # Path(s)} \cup {s})
    BY <2>2, FS_AddElement
  <2>4. QED
    BY <2>3 DEF Publish
<1>2. CASE UNCHANGED <<disk, lost>> \/ EncoderPanics \/ \E m \in Markets : Stop(m)
  BY <1>2 DEF EncoderPanics, Stop, encoder
<1>3. CASE Encoded \/ EncodeFailed \/ Crash
  BY <1>1, <1>3 DEF Encoded, EncodeFailed, Crash
<1>4. QED
  BY <1>2, <1>3, DiskMoves

VisitedBy(m) ==
    /\ todo[m] \subseteq Held(m)
    /\ pc[m] = "drain" => closed /\ queue[m] = <<>> /\ \A t \in Tables \ todo[m] : tables[m][t] = <<>>

LEMMA VisitedStep == ASSUME TypeOK, Visited, [Next]_vars PROVE Visited'
<1>0. /\ pc \in [Markets -> WorkerPc] /\ todo \in [Markets -> SUBSET Tables] /\ queue \in [Markets -> Seq(Command)]
      /\ tables \in [Markets -> [Tables -> Seq(Records)]]
      /\ \A m \in Markets : VisitedBy(m)
  BY DEF TypeOK, InputTypes, WorkerTypes, BufferTypes, Visited, VisitedBy
<1>1. SUFFICES ASSUME NEW n \in Markets PROVE VisitedBy(n)'
  BY DEF Visited, VisitedBy
<1>2. ASSUME UNCHANGED <<pc[n], todo[n], tables[n], queue[n]>>, closed => closed' PROVE VisitedBy(n)'
  BY <1>0, <1>2 DEF VisitedBy, Held
<1>3. ASSUME NEW m \in Markets, NEW c \in Command, CanSend(m), queue' = [queue EXCEPT ![m] = Append(@, c)],
             UNCHANGED <<pc, todo, tables, closed>>
      PROVE  VisitedBy(n)'
  <2>1. ~closed
    BY <1>3 DEF CanSend
  <2>2. QED
    BY <1>0, <1>3, <2>1 DEF VisitedBy, Held
<1>4. ASSUME NEW m \in Markets, NEW batch \in Batches, records(m, batch) PROVE VisitedBy(n)'
  <2>1. [type |-> "records", records |-> batch] \in Command
    BY BatchType, CommandTypes
  <2>2. QED
    BY <1>3, <1>4, <2>1 DEF records, worker
<1>5. ASSUME NEW m \in Markets, SendTick(m) PROVE VisitedBy(n)'
  BY <1>3, <1>5, CommandTypes DEF SendTick, worker
<1>6. ASSUME NEW f \in Calls, FlushSend(f) PROVE VisitedBy(n)'
  <2>1. Order[call[f].at] \in Markets /\ [type |-> "flush", response |-> f] \in Command
    BY CommandTypes, MarketAssumption DEF TypeOK, CallTypes
  <2>2. QED
    BY <1>3, <1>6, <2>1 DEF FlushSend, worker
<1>7. ASSUME NEW m \in Markets, UNCHANGED tables, \A k \in Markets \ {m} : UNCHANGED <<pc[k], todo[k], queue[k]>>,
             closed' = closed, pc'[m] # "drain", todo'[m] \subseteq Held(m)
      PROVE  VisitedBy(n)'
  BY <1>0, <1>7 DEF VisitedBy, Held
<1>8. ASSUME NEW m \in Markets, Recv(m) \/ Dispatch(m) \/ Pushed(m) \/ flush_largest(m) \/ Finish(m)
             \/ SendBarrier(m) \/ Respond(m)
      PROVE  VisitedBy(n)'
  <2>1. UNCHANGED tables /\ closed' = closed
    BY <1>8 DEF Recv, Dispatch, Pushed, flush_largest, Finish, SendBarrier, Respond, inputs
  <2>2. \A k \in Markets \ {m} : UNCHANGED <<pc[k], todo[k], queue[k]>>
    BY <1>0, <1>8 DEF Recv, Dispatch, Pushed, flush_largest, Finish, SendBarrier, Respond, inputs
  <2>3. pc'[m] # "drain"
    BY <1>0, <1>8 DEF Recv, Dispatch, Pushed, flush_largest, Finish, SendBarrier, Respond
  <2>4. todo'[m] \subseteq Held(m)
    <3>1. todo[m] \subseteq Held(m) /\ RolloverTables(m) \subseteq Held(m) /\ Expired(m) \subseteq Held(m)
          /\ Full(m) \subseteq Held(m) /\ Largest(m) \subseteq Held(m)
      BY <1>0 DEF VisitedBy, RolloverTables, Expired, Full, Largest
    <3>2. todo'[m] = todo[m] \/ todo'[m] = RolloverTables(m) \/ todo'[m] = Expired(m) \/ todo'[m] = Held(m)
          \/ todo'[m] = Full(m) \/ \E t \in Largest(m) : todo'[m] = {t}
      BY <1>0, <1>8 DEF Recv, Dispatch, Pushed, flush_largest, Finish, SendBarrier, Respond
    <3>3. QED
      BY <3>1, <3>2
  <2>5. QED
    BY <1>7, <2>1, <2>2, <2>3, <2>4
<1>9. ASSUME NEW m \in Markets, Push(m) PROVE VisitedBy(n)'
  <2>1. pc[m] = "push" /\ UNCHANGED <<pc, todo, queue, closed>> /\ \A k \in Markets \ {m} : tables'[k] = tables[k]
    BY <1>9, PushMoves DEF Push, inputs
  <2>2. ASSUME NEW t \in Held(m) PROVE tables'[m][t] # <<>>
    <3>1. t \in Tables /\ tables[m][t] # <<>>
      BY DEF Held
    <3>2. CASE t # TableOf[Head(command[m].records)]
      BY <1>9, <3>1, <3>2, PushMoves
    <3>3. CASE t = TableOf[Head(command[m].records)]
      <4>1. Range(tables'[m][t]) # {}
        BY <1>9, <3>3, PushMoves
      <4>2. QED
        BY <4>1, RangeOfEmpty
    <3>4. QED
      BY <3>2, <3>3
  <2>3. todo'[m] \subseteq Held(m)' /\ pc'[m] # "drain"
    BY <1>0, <2>1, <2>2 DEF VisitedBy, Held
  <2>4. QED
    BY <1>2, <2>1, <2>3 DEF VisitedBy
<1>10. ASSUME NEW m \in Markets, NEW t \in Tables, flush_table(m, t) PROVE VisitedBy(n)'
  <2>1. UNCHANGED <<pc, queue, closed>>
    BY <1>10 DEF flush_table, inputs
  <2>2. VisitedBy(m)'
    BY <1>0, <1>10, <2>1, FlushTableMoves DEF VisitedBy, Held
  <2>3. n # m => VisitedBy(n)'
    BY <1>2, <1>10, <2>1, FlushTableMoves
  <2>4. QED
    BY <2>2, <2>3
<1>11. ASSUME NEW m \in Markets, Drain(m) PROVE VisitedBy(n)'
  <2>1. /\ closed /\ queue[m] = <<>> /\ UNCHANGED <<closed, queue, tables>> /\ todo'[m] = Held(m)
        /\ \A k \in Markets \ {m} : UNCHANGED <<pc[k], todo[k]>>
    BY <1>0, <1>11 DEF Drain, inputs
  <2>2. VisitedBy(m)'
    BY <2>1 DEF VisitedBy, Held
  <2>3. QED
    BY <1>2, <2>1, <2>2
<1>12. ASSUME NEW m \in Markets, Stop(m) PROVE VisitedBy(n)'
  <2>1. todo'[m] = {} /\ pc'[m] = "stopped" /\ closed' = closed /\ \A k \in Markets \ {m} : todo'[k] = todo[k]
    BY <1>0, <1>12 DEF Stop
  <2>2. VisitedBy(m)'
    BY <2>1 DEF VisitedBy
  <2>3. QED
    BY <1>2, <1>12, <2>1, <2>2, StopMoves
<1>13. CASE Crash
  BY <1>13 DEF Crash, VisitedBy
<1>14. CASE \/ UNCHANGED vars \/ Elapse \/ HourRolls \/ Close \/ Done \/ EncoderPanics \/ Encoder
            \/ \E f \in Calls : flush(f) \/ FlushResult(f) \/ FlushStopped(f) \/ FlushCancelled(f)
  <2>1. UNCHANGED <<pc, todo, tables, queue>> /\ (closed => closed')
    BY <1>14 DEF vars, inputs, worker, Elapse, HourRolls, Close, Done, EncoderPanics, Encoder, EncodeRecv,
                 EncodeBarrier, Encoded, EncodeFailed, flush, FlushResult, FlushStopped, FlushCancelled
  <2>2. QED
    BY <1>2, <2>1
<1>15. QED
  BY <1>4, <1>5, <1>6, <1>8, <1>9, <1>10, <1>11, <1>12, <1>13, <1>14
  DEF Next, Producer, Worker, Caller

LEMMA PathStep == ASSUME TypeOK, PathInv, [Next]_vars PROVE PathInv'
  BY JobsFullStep, FiniteStep, VisitedStep DEF PathInv

-----------------------------------------------------------------------------
(* A line of the memory: the concatenation of its five stages.             *)

Five(e, j, t, h, q) == e \o (j \o (t \o (h \o q)))

LEMMA FiveType ==
    ASSUME NEW S, NEW e \in Seq(S), NEW j \in Seq(S), NEW t \in Seq(S), NEW h \in Seq(S), NEW q \in Seq(S)
    PROVE  Five(e, j, t, h, q) \in Seq(S)
<1>1. \A a, b \in Seq(S) : a \o b \in Seq(S)
  OBVIOUS
<1>2. QED
  BY <1>1, Zenon DEF Five

LEMMA Associative ==
    ASSUME NEW S
    PROVE  /\ \A a, b, c \in Seq(S) : Associates(a, b, c)
           /\ \A a, b \in Seq(S) : a \o b \in Seq(S)
           /\ <<>> \in Seq(S) /\ \A a \in Seq(S) : a \o <<>> = a /\ <<>> \o a = a
<1>1. ASSUME NEW a \in Seq(S), NEW b \in Seq(S), NEW c \in Seq(S) PROVE Associates(a, b, c)
  BY ConcatThree, Zenon
<1>2. \A a, b \in Seq(S) : a \o b \in Seq(S)
  OBVIOUS
<1>3. <<>> \in Seq(S) /\ \A a \in Seq(S) : a \o <<>> = a /\ <<>> \o a = a
  BY ConcatEmpty
<1>4. QED
  BY <1>1, <1>2, <1>3

\* What a step does to the stages, and what to the line.
IsLonger(e, j, t, h, q, b) == Five(e, j, t, h, q \o b) = Five(e, j, t, h, q) \o b
IsTaken(e, j, t, x, q) == Five(e, j, t, <<>>, x \o q) = Five(e, j, t, x, q)
IsPushed(e, j, t, x, h, q) == Five(e, j, t \o x, h, q) = Five(e, j, t, x \o h, q)
IsFlushed(e, j, t, h, q) == Five(e, j \o t, <<>>, h, q) = Five(e, j, t, h, q)
IsWritten(x, j, t, h, q) == Five(x, j, t, h, q) = Five(<<>>, x \o j, t, h, q)
IsShorter(e, j, t, h, q) ==
    /\ Five(e, j, t, h, q) = e \o Five(<<>>, j, t, h, q)
    /\ Five(e, j, t, h, q) = (e \o j) \o Five(<<>>, <<>>, t, h, q)
FiveMoves(e, j, t, h, q) ==
    /\ IsTaken(e, j, t, h, q) /\ IsFlushed(e, j, t, h, q) /\ IsWritten(e, j, t, h, q)
    /\ IsShorter(e, j, t, h, q)

LEMMA FiveSteps ==
    ASSUME NEW S, NEW e \in Seq(S), NEW j \in Seq(S), NEW t \in Seq(S), NEW h \in Seq(S), NEW q \in Seq(S)
    PROVE  FiveMoves(e, j, t, h, q)
<1>0. /\ \A a, b, c \in Seq(S) : Associates(a, b, c)
      /\ \A a, b \in Seq(S) : a \o b \in Seq(S)
      /\ <<>> \in Seq(S) /\ \A a \in Seq(S) : a \o <<>> = a /\ <<>> \o a = a
  BY Associative, Zenon
<1>1. h \o q \in Seq(S) /\ t \o (h \o q) \in Seq(S) /\ j \o (t \o (h \o q)) \in Seq(S)
  BY <1>0, Zenon
<1>2. IsTaken(e, j, t, h, q)
  BY <1>0, <1>1, Zenon DEF IsTaken, Five
<1>3. IsFlushed(e, j, t, h, q)
  <2>1. <<>> \o (h \o q) = h \o q /\ Associates(j, t, h \o q)
    BY <1>0, <1>1, Zenon
  <2>2. QED
    BY <2>1, Zenon DEF IsFlushed, Five, Associates
<1>4. IsWritten(e, j, t, h, q)
  <2>1. Associates(e, j, t \o (h \o q))
    BY <1>0, <1>1, Zenon
  <2>2. e \o (j \o (t \o (h \o q))) \in Seq(S)
    BY <1>0, <1>1, Zenon
  <2>3. <<>> \o (e \o (j \o (t \o (h \o q)))) = e \o (j \o (t \o (h \o q)))
    BY <1>0, <2>2, Zenon
  <2>4. QED
    BY <2>1, <2>3, Zenon DEF IsWritten, Five, Associates
<1>5. IsShorter(e, j, t, h, q)
  <2>1. Associates(e, j, t \o (h \o q))
    BY <1>0, <1>1, Zenon
  <2>2. <<>> \o (j \o (t \o (h \o q))) = j \o (t \o (h \o q)) /\ <<>> \o (t \o (h \o q)) = t \o (h \o q)
    BY <1>0, <1>1, Zenon
  <2>3. QED
    BY <2>1, <2>2, Zenon DEF IsShorter, Five, Associates
<1>6. QED
  BY <1>2, <1>3, <1>4, <1>5 DEF FiveMoves

LEMMA FiveLonger ==
    ASSUME NEW S, NEW e \in Seq(S), NEW j \in Seq(S), NEW t \in Seq(S), NEW h \in Seq(S), NEW q \in Seq(S),
           NEW b \in Seq(S)
    PROVE  IsLonger(e, j, t, h, q, b)
<1>0. /\ \A x, y, z \in Seq(S) : Associates(x, y, z)
      /\ \A x, y \in Seq(S) : x \o y \in Seq(S)
  BY Associative, Zenon
<1>1. Associates(h, q, b) /\ h \o q \in Seq(S)
  BY <1>0, Zenon
<1>2. Associates(t, h \o q, b) /\ t \o (h \o q) \in Seq(S)
  BY <1>0, <1>1, Zenon
<1>3. Associates(j, t \o (h \o q), b) /\ j \o (t \o (h \o q)) \in Seq(S)
  BY <1>0, <1>2, Zenon
<1>4. Associates(e, j \o (t \o (h \o q)), b)
  BY <1>0, <1>3, Zenon
<1>5. QED
  BY <1>1, <1>2, <1>3, <1>4, Zenon DEF IsLonger, Five, Associates

LEMMA FivePushed ==
    ASSUME NEW S, NEW e \in Seq(S), NEW j \in Seq(S), NEW t \in Seq(S), NEW h \in Seq(S), NEW q \in Seq(S),
           NEW x \in Seq(S)
    PROVE  IsPushed(e, j, t, x, h, q)
<1>0. /\ \A u, v, w \in Seq(S) : Associates(u, v, w)
      /\ \A u, v \in Seq(S) : u \o v \in Seq(S)
  BY Associative, Zenon
<1>1. Associates(x, h, q) /\ h \o q \in Seq(S)
  BY <1>0, Zenon
<1>2. Associates(t, x, h \o q)
  BY <1>0, <1>1, Zenon
<1>3. QED
  BY <1>1, <1>2, Zenon DEF IsPushed, Five, Associates

LEMMA FiveEmpty == Five(<<>>, <<>>, <<>>, <<>>, <<>>) = <<>>
  BY DEF Five

Staged(m, t) == Five(Encoding(encoding, m, t), Queued(jobs, m, t), tables[m][t],
                     OfTable(Rows(command[m]), t), OfTable(Waiting(queue[m]), t))
StagesTyped(m, t) ==
    /\ encoding \in Seq(Job) /\ jobs \in Seq(EncodeCommand) /\ queue[m] \in Seq(Command)
    /\ command[m] \in Command /\ Rows(command[m]) \in Seq(Records) /\ Waiting(queue[m]) \in Seq(Records)
    /\ Encoding(encoding, m, t) \in Seq(Records) /\ Queued(jobs, m, t) \in Seq(Records)
    /\ tables[m][t] \in Seq(Records) /\ OfTable(Rows(command[m]), t) \in Seq(Records)
    /\ OfTable(Waiting(queue[m]), t) \in Seq(Records)
    /\ InMemory(m, t) \in Seq(Records) /\ InMemory(m, t) = Staged(m, t)

LEMMA StageParts ==
    ASSUME TypeOK, NEW m \in Markets, NEW t \in Tables
    PROVE  StagesTyped(m, t)
<1>1. /\ encoding \in Seq(Job) /\ jobs \in Seq(EncodeCommand) /\ queue[m] \in Seq(Command)
      /\ command[m] \in Command /\ tables[m][t] \in Seq(Records)
  BY DEF TypeOK, InputTypes, WorkerTypes, BufferTypes, EncoderTypes
<1>2. Rows(command[m]) \in Seq(Records) /\ Waiting(queue[m]) \in Seq(Records)
  BY <1>1, RowsType, StageTypes
<1>3. /\ Encoding(encoding, m, t) \in Seq(Records) /\ Queued(jobs, m, t) \in Seq(Records)
      /\ OfTable(Rows(command[m]), t) \in Seq(Records) /\ OfTable(Waiting(queue[m]), t) \in Seq(Records)
  BY <1>1, <1>2, StageTypes, Zenon
<1>4. InMemory(m, t) = Staged(m, t)
  BY DEF InMemory, Staged, Five
<1>5. Staged(m, t) \in Seq(Records)
  BY <1>1, <1>3, FiveType, Zenon DEF Staged
<1>6. QED
  BY <1>1, <1>2, <1>3, <1>4, <1>5 DEF StagesTyped

-----------------------------------------------------------------------------
(* Most steps move rows from a stage to the next one.                      *)

LineSame(m, t) == InMemory(m, t)' = InMemory(m, t)

LEMMA StagesNext == ASSUME NEW m, NEW t
    PROVE  InMemory(m, t)' = Five(Encoding(encoding', m, t), Queued(jobs', m, t), tables'[m][t],
                                  OfTable(Rows(command'[m]), t), OfTable(Waiting(queue'[m]), t))
  BY DEF InMemory, Five

LEMMA LineFrame ==
    ASSUME NEW m, NEW t, encoding' = encoding, jobs' = jobs, tables'[m] = tables[m],
           command'[m] = command[m], queue'[m] = queue[m]
    PROVE  LineSame(m, t)
  BY StagesNext DEF LineSame, InMemory, Five

LEMMA NoRows == ASSUME NEW c \in Command, Carried(c) = {} PROVE Rows(c) = <<>>
<1>1. \A s \in Seq(Records) : Range(s) = {} => s = <<>>
  BY DEF Range
<1>2. QED
  BY <1>1, CommandTypes DEF Carried, Rows

\* A command without rows enters a worker's queue.
LEMMA SentKeeps ==
    ASSUME TypeOK, NEW m \in Markets, NEW c \in Command, Rows(c) = <<>>,
           queue' = [queue EXCEPT ![m] = Append(@, c)], UNCHANGED <<command, tables, jobs, encoding>>,
           NEW k \in Markets, NEW t \in Tables
    PROVE  LineSame(k, t)
<1>1. CASE k # m
  BY <1>1, LineFrame, QueueAppended
<1>2. CASE k = m
  <2>1. StagesTyped(m, t)
    BY StageParts
  <2>2. queue'[m] = Append(queue[m], c)
    BY DEF TypeOK, InputTypes
  <2>3. WaitingMore(queue[m], c)
    BY <2>1, WaitingParts, Zenon DEF StagesTyped
  <2>4. Waiting(queue[m]) \o <<>> = Waiting(queue[m])
    BY <2>1, Associative, Zenon DEF StagesTyped
  <2>5. Waiting(queue'[m]) = Waiting(queue[m])
    BY <2>2, <2>3, <2>4, Zenon DEF WaitingMore
  <2>6. QED
    BY <1>2, <2>5, StagesNext DEF LineSame, InMemory, Five
<1>3. QED
  BY <1>1, <1>2

LEMMA RecvKeeps ==
    ASSUME TypeOK, Emptied, NEW m \in Markets, Recv(m), NEW k \in Markets, NEW t \in Tables
    PROVE  LineSame(k, t)
<1>1. CASE k # m
  BY <1>1, LineFrame, RecvMoves
<1>2. CASE k = m
  <2>1. StagesTyped(m, t)
    BY StageParts
  <2>2. queue[m] # <<>> /\ queue'[m] = Tail(queue[m]) /\ command'[m] = Head(queue[m])
    BY DEF Recv, TypeOK, InputTypes, WorkerTypes
  <2>3. Head(queue[m]) \in Command /\ Tail(queue[m]) \in Seq(Command)
    BY <2>1, <2>2 DEF StagesTyped
  <2>4. Rows(command[m]) = <<>>
    <3>1. Carried(command[m]) = {}
      BY DEF Recv, Emptied, WorkDone
    <3>2. QED
      BY <2>1, <3>1, NoRows DEF StagesTyped
  <2>5. PICK h \in Seq(Records) : h = Rows(command'[m])
    BY <2>2, <2>3, RowsType
  <2>6. PICK w \in Seq(Records) : w = Waiting(queue'[m])
    BY <2>2, <2>3, StageTypes, Zenon
  <2>7. Waiting(queue[m]) = h \o w
    <3>1. WaitingFirst(queue[m])
      BY <2>1, <2>2, WaitingParts, Zenon DEF StagesTyped
    <3>2. QED
      BY <2>2, <2>5, <2>6, <3>1, Zenon DEF WaitingFirst
  <2>8. OfTable(h \o w, t) = OfTable(h, t) \o OfTable(w, t)
    <3>1. OfTableBoth(h, w, t)
      BY OfTableParts, Zenon
    <3>2. QED
      BY <3>1, Zenon DEF OfTableBoth
  <2>9. OfTable(h, t) \in Seq(Records) /\ OfTable(w, t) \in Seq(Records)
    BY StageTypes, Zenon
  <2>10. IsTaken(Encoding(encoding, m, t), Queued(jobs, m, t), tables[m][t], OfTable(h, t), OfTable(w, t))
    <3>1. FiveMoves(Encoding(encoding, m, t), Queued(jobs, m, t), tables[m][t], OfTable(h, t), OfTable(w, t))
      BY <2>1, <2>9, FiveSteps, Zenon DEF StagesTyped
    <3>2. QED
      BY <3>1, Zenon DEF FiveMoves
  <2>11. OfTable(<<>>, t) = <<>>
    BY StageEmpty, Zenon
  <2>12. InMemory(m, t) = Five(Encoding(encoding, m, t), Queued(jobs, m, t), tables[m][t],
                               <<>>, OfTable(h, t) \o OfTable(w, t))
    BY <2>4, <2>7, <2>8, <2>11, Zenon DEF InMemory, Five
  <2>13. encoding' = encoding /\ jobs' = jobs /\ tables' = tables
    BY RecvMoves
  <2>14. InMemory(m, t)' = Five(Encoding(encoding, m, t), Queued(jobs, m, t), tables[m][t],
                               OfTable(h, t), OfTable(w, t))
    BY <2>5, <2>6, <2>13, StagesNext, Zenon
  <2>15. QED
    BY <1>2, <2>10, <2>12, <2>14, Zenon DEF IsTaken, LineSame
<1>3. QED
  BY <1>1, <1>2

LEMMA PushKeeps ==
    ASSUME TypeOK, NEW m \in Markets, Push(m), NEW k \in Markets, NEW t \in Tables
    PROVE  LineSame(k, t)
<1>0. UNCHANGED <<queue, jobs, encoding>> /\ \A n \in Markets \ {m} : command'[n] = command[n] /\ tables'[n] = tables[n]
  BY PushMoves
<1>1. CASE k # m
  BY <1>0, <1>1, LineFrame
<1>2. CASE k = m
  <2>1. StagesTyped(m, t)
    BY StageParts
  <2>2. PICK b \in Seq(Records) : b = command[m].records
    BY CommandTypes DEF Push, TypeOK, WorkerTypes
  <2>3. b # <<>> /\ Rows(command[m]) = b /\ command[m].type = "records"
    BY <2>2, PushMoves DEF Push, Rows
  <2>4. Rows(command'[m]) = Tail(b)
    <3>1. command'[m] = [command[m] EXCEPT !.records = Tail(b)] /\ command'[m].type = "records"
      BY <2>2, PushMoves DEF Push, TypeOK, WorkerTypes
    <3>2. command'[m].records = Tail(b)
      BY <2>1, <2>3, <3>1 DEF StagesTyped, Command
    <3>3. QED
      BY <3>1, <3>2 DEF Rows
  <2>5. PICK r \in Records : r = Head(b)
    BY <2>3
  <2>6. PICK u \in Seq(Records) : u = Tail(b)
    <3>1. Tail(b) \in Seq(Records)
      BY <2>3
    <3>2. QED
      BY <3>1, Zenon
  <2>7. OfTable(b, t) = Only(t)[r] \o OfTable(u, t)
    <3>1. OfTableFirst(b, t)
      BY <2>3, OfTableParts, Zenon
    <3>2. QED
      BY <2>5, <2>6, <3>1, Zenon DEF OfTableFirst
  <2>8. Only(t)[r] \in Seq(Records) /\ OfTable(u, t) \in Seq(Records)
    BY OnlyType, StageTypes
  <2>9. tables'[m][t] = tables[m][t] \o Only(t)[r]
    <3>1. CASE t # TableOf[r]
      <4>1. Only(t)[r] = <<>> /\ tables'[m][t] = tables[m][t]
        BY <2>2, <2>5, <3>1, PushMoves DEF Only
      <4>2. QED
        BY <2>1, <4>1, Associative, Zenon DEF StagesTyped
    <3>2. CASE t = TableOf[r]
      <4>1. Only(t)[r] = <<r>>
        BY <3>2 DEF Only
      <4>2. tables'[m][t] = Append(tables[m][t], r)
        BY <2>2, <2>5, <3>2 DEF Push, TypeOK, BufferTypes
      <4>3. \A s \in Seq(Records) : Append(s, r) = s \o <<r>>
        OBVIOUS
      <4>4. QED
        BY <2>1, <4>1, <4>2, <4>3, Zenon DEF StagesTyped
    <3>3. QED
      BY <3>1, <3>2
  <2>10. IsPushed(Encoding(encoding, m, t), Queued(jobs, m, t), tables[m][t], Only(t)[r], OfTable(u, t),
                 OfTable(Waiting(queue[m]), t))
    BY <2>1, <2>8, FivePushed, Zenon DEF StagesTyped
  <2>11. InMemory(m, t) = Five(Encoding(encoding, m, t), Queued(jobs, m, t), tables[m][t],
                               Only(t)[r] \o OfTable(u, t), OfTable(Waiting(queue[m]), t))
    BY <2>3, <2>7, Zenon DEF InMemory, Five
  <2>12. InMemory(m, t)' = Five(Encoding(encoding, m, t), Queued(jobs, m, t), tables[m][t] \o Only(t)[r],
                               OfTable(u, t), OfTable(Waiting(queue[m]), t))
    BY <1>0, <2>4, <2>6, <2>9, StagesNext, Zenon
  <2>13. QED
    BY <1>2, <2>10, <2>11, <2>12, Zenon DEF IsPushed, LineSame
<1>3. QED
  BY <1>1, <1>2

LEMMA FlushTableKeeps ==
    ASSUME TypeOK, NEW m \in Markets, NEW u \in Tables, flush_table(m, u), NEW k \in Markets, NEW t \in Tables
    PROVE  LineSame(k, t)
<1>0. StagesTyped(k, t)
  BY StageParts
<1>1. UNCHANGED <<queue, command, encoding>> /\ \A n \in Markets \ {m} : tables'[n] = tables[n]
  BY FlushTableMoves
<1>2. PICK j \in Job : j = TableJob(m, u)
  BY FlushTableMoves
<1>3. j.records = tables[m][u] /\ j.market = m /\ j.table = u
  BY <1>2 DEF TableJob
<1>4. Queued(jobs', k, t) = Queued(jobs, k, t) \o JobRows(j, k, t)
  <2>1. jobs' = Append(jobs, Write(j)) /\ Write(j) \in EncodeCommand
    BY <1>2, EncodeCommandTypes DEF flush_table
  <2>2. QueuedMore(jobs, Write(j), k, t)
    BY <1>0, <2>1, QueuedParts, Zenon DEF StagesTyped
  <2>3. OfCommand(k, t)[Write(j)] = JobRows(j, k, t)
    BY <2>1 DEF OfCommand, Write
  <2>4. QED
    BY <2>1, <2>2, <2>3, Zenon DEF QueuedMore
<1>5. CASE k = m /\ t = u
  <2>1. JobRows(j, k, t) = tables[k][t]
    BY <1>3, <1>5 DEF JobRows
  <2>2. tables'[k][t] = <<>>
    BY <1>5, FlushTableMoves
  <2>3. IsFlushed(Encoding(encoding, k, t), Queued(jobs, k, t), tables[k][t], OfTable(Rows(command[k]), t),
                  OfTable(Waiting(queue[k]), t))
    <3>1. FiveMoves(Encoding(encoding, k, t), Queued(jobs, k, t), tables[k][t], OfTable(Rows(command[k]), t),
                    OfTable(Waiting(queue[k]), t))
      BY <1>0, FiveSteps, Zenon DEF StagesTyped
    <3>2. QED
      BY <3>1, Zenon DEF FiveMoves
  <2>4. InMemory(k, t)' = Five(Encoding(encoding, k, t), Queued(jobs, k, t) \o tables[k][t], <<>>,
                               OfTable(Rows(command[k]), t), OfTable(Waiting(queue[k]), t))
    BY <1>1, <1>4, <2>1, <2>2, StagesNext, Zenon
  <2>5. QED
    BY <2>3, <2>4, Zenon DEF IsFlushed, LineSame, InMemory, Five
<1>6. CASE ~(k = m /\ t = u)
  <2>1. JobRows(j, k, t) = <<>>
    BY <1>3, <1>6 DEF JobRows
  <2>2. Queued(jobs', k, t) = Queued(jobs, k, t)
    <3>1. Queued(jobs, k, t) \o <<>> = Queued(jobs, k, t)
      BY <1>0, Associative, Zenon DEF StagesTyped
    <3>2. QED
      BY <1>4, <2>1, <3>1, Zenon
  <2>3. tables'[k][t] = tables[k][t]
    BY <1>6, FlushTableMoves
  <2>4. QED
    BY <1>1, <2>2, <2>3, StagesNext, Zenon DEF LineSame, InMemory, Five
<1>7. QED
  BY <1>5, <1>6

LEMMA HandKeeps ==
    ASSUME TypeOK, Emptied, NEW m \in Markets, Finish(m) \/ Respond(m), NEW k \in Markets, NEW t \in Tables
    PROVE  LineSame(k, t)
<1>1. /\ \A n \in Markets \ {m} : command'[n] = command[n]
      /\ command'[m] = command[m] \/ command'[m] = Tick
      /\ UNCHANGED <<queue, tables, jobs, encoding>>
  BY HandEmptied
<1>2. Rows(command[m]) = <<>>
  <2>1. Carried(command[m]) = {} /\ command[m] \in Command
    BY DEF Finish, Respond, Emptied, WorkDone, TypeOK, WorkerTypes
  <2>2. QED
    BY <2>1, NoRows
<1>3. Rows(command'[m]) = <<>>
  BY <1>1, <1>2 DEF Rows, Tick
<1>4. Rows(command'[k]) = Rows(command[k])
  BY <1>1, <1>2, <1>3
<1>5. QED
  BY <1>1, <1>4, StagesNext, Zenon DEF LineSame, InMemory, Five

LEMMA SendBarrierKeeps ==
    ASSUME TypeOK, NEW m \in Markets, SendBarrier(m), NEW k \in Markets, NEW t \in Tables
    PROVE  LineSame(k, t)
<1>0. StagesTyped(k, t)
  BY StageParts
<1>1. UNCHANGED <<queue, command, tables, encoding>>
  BY SendBarrierMoves
<1>2. jobs' = Append(jobs, Barrier(m)) /\ Barrier(m) \in EncodeCommand
  BY EncodeCommandTypes DEF SendBarrier
<1>3. QueuedMore(jobs, Barrier(m), k, t)
  BY <1>0, <1>2, QueuedParts, Zenon DEF StagesTyped
<1>4. OfCommand(k, t)[Barrier(m)] = <<>>
  BY <1>2 DEF OfCommand, Barrier
<1>5. Queued(jobs, k, t) \o <<>> = Queued(jobs, k, t)
  BY <1>0, Associative, Zenon DEF StagesTyped
<1>6. Queued(jobs', k, t) = Queued(jobs, k, t)
  BY <1>2, <1>3, <1>4, <1>5, Zenon DEF QueuedMore
<1>7. QED
  BY <1>1, <1>6, StagesNext, Zenon DEF LineSame, InMemory, Five

LEMMA EncodeRecvKeeps ==
    ASSUME TypeOK, EncodeRecv, NEW k \in Markets, NEW t \in Tables
    PROVE  LineSame(k, t)
<1>0. StagesTyped(k, t)
  BY StageParts
<1>1. UNCHANGED <<queue, command, tables>>
  BY EncodeRecvMoves
<1>2. jobs # <<>> /\ jobs' = Tail(jobs) /\ Head(jobs).type = "write" /\ encoding = <<>>
      /\ encoding' = <<Head(jobs).job>>
  BY DEF EncodeRecv
<1>3. Head(jobs) \in EncodeCommand /\ Tail(jobs) \in Seq(EncodeCommand)
  BY <1>0, <1>2 DEF StagesTyped
<1>4. PICK j \in Job : j = Head(jobs).job
  BY <1>2, <1>3, EncodeCommandTypes
<1>5. PICK q \in Seq(Records) : q = Queued(jobs', k, t)
  BY <1>2, <1>3, StageTypes, Zenon
<1>6. PICK x \in Seq(Records) : x = JobRows(j, k, t)
  <2>1. JobRows(j, k, t) \in Seq(Records)
    BY JobRecords DEF JobRows
  <2>2. QED
    BY <2>1, Zenon
<1>7. Queued(jobs, k, t) = x \o q
  <2>1. QueuedFirst(jobs, k, t)
    BY <1>0, <1>2, QueuedParts, Zenon DEF StagesTyped
  <2>2. OfCommand(k, t)[Head(jobs)] = x
    BY <1>2, <1>3, <1>4, <1>6 DEF OfCommand
  <2>3. QED
    BY <1>2, <1>5, <2>1, <2>2, Zenon DEF QueuedFirst
<1>8. Encoding(encoding', k, t) = x /\ Encoding(encoding, k, t) = <<>>
  <2>1. Encoding(<<j>>, k, t) = JobRows(j, k, t) /\ Encoding(<<>>, k, t) = <<>>
    BY EncodingOne, StageEmpty, Zenon
  <2>2. QED
    BY <1>2, <1>4, <1>6, <2>1, Zenon
<1>9. IsWritten(x, q, tables[k][t], OfTable(Rows(command[k]), t), OfTable(Waiting(queue[k]), t))
  <2>1. FiveMoves(x, q, tables[k][t], OfTable(Rows(command[k]), t), OfTable(Waiting(queue[k]), t))
    BY <1>0, FiveSteps, Zenon DEF StagesTyped
  <2>2. QED
    BY <2>1, Zenon DEF FiveMoves
<1>10. InMemory(k, t) = Five(<<>>, x \o q, tables[k][t], OfTable(Rows(command[k]), t),
                             OfTable(Waiting(queue[k]), t))
  BY <1>7, <1>8, Zenon DEF InMemory, Five
<1>11. InMemory(k, t)' = Five(x, q, tables[k][t], OfTable(Rows(command[k]), t), OfTable(Waiting(queue[k]), t))
  BY <1>1, <1>5, <1>8, StagesNext, Zenon
<1>12. QED
  BY <1>9, <1>10, <1>11, Zenon DEF IsWritten, LineSame

LEMMA EncodeBarrierKeeps ==
    ASSUME TypeOK, EncodeBarrier, NEW k \in Markets, NEW t \in Tables
    PROVE  LineSame(k, t)
<1>0. StagesTyped(k, t)
  BY StageParts
<1>1. UNCHANGED <<queue, command, tables, encoding>>
  BY EncodeBarrierMoves
<1>2. jobs # <<>> /\ jobs' = Tail(jobs) /\ Head(jobs).type = "barrier"
  BY DEF EncodeBarrier
<1>3. Head(jobs) \in EncodeCommand /\ Tail(jobs) \in Seq(EncodeCommand)
  BY <1>0, <1>2 DEF StagesTyped
<1>4. QueuedFirst(jobs, k, t)
  BY <1>0, <1>2, QueuedParts, Zenon DEF StagesTyped
<1>5. OfCommand(k, t)[Head(jobs)] = <<>>
  BY <1>2, <1>3 DEF OfCommand
<1>6. PICK q \in Seq(Records) : q = Queued(jobs', k, t)
  BY <1>2, <1>3, StageTypes, Zenon
<1>7. Queued(jobs, k, t) = q
  BY <1>2, <1>4, <1>5, <1>6, Associative, Zenon DEF QueuedFirst
<1>8. QED
  BY <1>1, <1>6, <1>7, StagesNext, Zenon DEF LineSame, InMemory, Five

-----------------------------------------------------------------------------
(* The rows in a stage, as a set.                                          *)

InEncodingOf(s, m, t, r) ==
    \E i \in 1..Len(s) : s[i].market = m /\ s[i].table = t /\ r \in Range(s[i].records)
InQueuedOf(s, m, t, r) == \E i \in 1..Len(s) :
    s[i].type = "write" /\ s[i].job.market = m /\ s[i].job.table = t /\ r \in Range(s[i].job.records)
InWaitingOf(s, r) == \E i \in 1..Len(s) : r \in Carried(s[i])

LEMMA EncodingRange ==
    ASSUME NEW s \in Seq(Job), NEW m, NEW t, NEW r
    PROVE  r \in Range(Encoding(s, m, t)) <=> InEncodingOf(s, m, t, r)
<1>1. PICK F \in [Job -> Seq(Records)] : F = OfJob(m, t)
  BY OfJobType
<1>2. Encoding(s, m, t) = FlatMap(F, s)
  BY <1>1, EncodingMap
<1>3. Gathers(F, s)
  BY FlatMapRange
<1>4. r \in Range(Encoding(s, m, t)) <=> Yields(F, s, r)
  BY <1>2, <1>3, Zenon DEF Gathers
<1>5. \A j \in Job : r \in Range(F[j]) <=> j.market = m /\ j.table = t /\ r \in Range(j.records)
  BY <1>1, RangeOfEmpty DEF OfJob, JobRows
<1>6. \A i \in 1..Len(s) : s[i] \in Job
  OBVIOUS
<1>7. QED
  BY <1>4, <1>5, <1>6 DEF Yields, InEncodingOf

LEMMA QueuedRange ==
    ASSUME NEW s \in Seq(EncodeCommand), NEW m, NEW t, NEW r
    PROVE  r \in Range(Queued(s, m, t)) <=> InQueuedOf(s, m, t, r)
<1>1. PICK F \in [EncodeCommand -> Seq(Records)] : F = OfCommand(m, t)
  BY OfCommandType
<1>2. Queued(s, m, t) = FlatMap(F, s)
  BY <1>1, QueuedMap
<1>3. Gathers(F, s)
  BY FlatMapRange
<1>4. r \in Range(Queued(s, m, t)) <=> Yields(F, s, r)
  BY <1>2, <1>3, Zenon DEF Gathers
<1>5. \A c \in EncodeCommand : r \in Range(F[c]) <=>
          c.type = "write" /\ c.job.market = m /\ c.job.table = t /\ r \in Range(c.job.records)
  BY <1>1, RangeOfEmpty DEF OfCommand, JobRows
<1>6. \A i \in 1..Len(s) : s[i] \in EncodeCommand
  OBVIOUS
<1>7. QED
  BY <1>4, <1>5, <1>6 DEF Yields, InQueuedOf

LEMMA WaitingRange ==
    ASSUME NEW s \in Seq(Command), NEW r
    PROVE  r \in Range(Waiting(s)) <=> InWaitingOf(s, r)
<1>1. PICK F \in [Command -> Seq(Records)] : F = OfRecords
  BY OfRecordsType
<1>2. Waiting(s) = FlatMap(F, s)
  BY <1>1, WaitingMap
<1>3. Gathers(F, s)
  BY FlatMapRange
<1>4. r \in Range(Waiting(s)) <=> Yields(F, s, r)
  BY <1>2, <1>3, Zenon DEF Gathers
<1>5. \A c \in Command : r \in Range(F[c]) <=> r \in Carried(c)
  BY <1>1, RangeOfEmpty DEF OfRecords, Rows, Carried
<1>6. \A i \in 1..Len(s) : s[i] \in Command
  OBVIOUS
<1>7. QED
  BY <1>4, <1>5, <1>6 DEF Yields, InWaitingOf

LEMMA OfTableRange ==
    ASSUME NEW s \in Seq(Records), NEW t, NEW r
    PROVE  r \in Range(OfTable(s, t)) <=> r \in Range(s) /\ TableOf[r] = t
<1>1. PICK F \in [Records -> Seq(Records)] : F = Only(t)
  BY OnlyType
<1>2. OfTable(s, t) = FlatMap(F, s)
  BY <1>1, OfTableMap
<1>3. Gathers(F, s)
  BY FlatMapRange
<1>4. r \in Range(OfTable(s, t)) <=> Yields(F, s, r)
  BY <1>2, <1>3, Zenon DEF Gathers
<1>5. \A x : Range(<<x>>) = {x}
  BY DEF Range
<1>6. \A x \in Records : r \in Range(F[x]) <=> r = x /\ TableOf[x] = t
  BY <1>1, <1>5, RangeOfEmpty DEF Only
<1>7. (\A i \in 1..Len(s) : s[i] \in Records) /\ Range(s) = {s[i] : i \in 1..Len(s)}
  BY RangeIndex
<1>8. QED
  BY <1>4, <1>6, <1>7 DEF Yields

\* The rows of a line are those of its stages.
LEMMA MemoryRange ==
    ASSUME TypeOK, NEW m \in Markets, NEW t \in Tables, NEW r
    PROVE  r \in Range(InMemory(m, t)) <=>
             \/ InEncodingOf(encoding, m, t, r) \/ InQueuedOf(jobs, m, t, r) \/ r \in Range(tables[m][t])
             \/ TableOf[r] = t /\ (r \in Carried(command[m]) \/ InWaitingOf(queue[m], r))
<1>1. StagesTyped(m, t)
  BY StageParts
<1>2. PICK e \in Seq(Records) : e = Encoding(encoding, m, t)
  BY <1>1, Zenon DEF StagesTyped
<1>3. PICK j \in Seq(Records) : j = Queued(jobs, m, t)
  BY <1>1, Zenon DEF StagesTyped
<1>4. PICK b \in Seq(Records) : b = tables[m][t]
  BY <1>1, Zenon DEF StagesTyped
<1>5. PICK h \in Seq(Records) : h = OfTable(Rows(command[m]), t)
  BY <1>1, Zenon DEF StagesTyped
<1>6. PICK q \in Seq(Records) : q = OfTable(Waiting(queue[m]), t)
  BY <1>1, Zenon DEF StagesTyped
<1>7. InMemory(m, t) = e \o (j \o (b \o (h \o q)))
  BY <1>2, <1>3, <1>4, <1>5, <1>6, Zenon DEF InMemory
<1>8. Range(e \o (j \o (b \o (h \o q)))) = Range(e) \cup (Range(j) \cup (Range(b) \cup (Range(h) \cup Range(q))))
  <2>1. \A x, y \in Seq(Records) : Range(x \o y) = Range(x) \cup Range(y) /\ x \o y \in Seq(Records)
    BY RangeOfBoth
  <2>2. h \o q \in Seq(Records) /\ b \o (h \o q) \in Seq(Records) /\ j \o (b \o (h \o q)) \in Seq(Records)
    BY <2>1, Zenon
  <2>3. /\ Range(h \o q) = Range(h) \cup Range(q)
        /\ Range(b \o (h \o q)) = Range(b) \cup Range(h \o q)
        /\ Range(j \o (b \o (h \o q))) = Range(j) \cup Range(b \o (h \o q))
        /\ Range(e \o (j \o (b \o (h \o q)))) = Range(e) \cup Range(j \o (b \o (h \o q)))
    BY <2>1, <2>2, Zenon
  <2>4. QED
    BY <2>3, Zenon
<1>9. r \in Range(e) <=> InEncodingOf(encoding, m, t, r)
  BY <1>1, <1>2, EncodingRange, Zenon DEF StagesTyped
<1>10. r \in Range(j) <=> InQueuedOf(jobs, m, t, r)
  BY <1>1, <1>3, QueuedRange, Zenon DEF StagesTyped
<1>11. r \in Range(h) <=> r \in Carried(command[m]) /\ TableOf[r] = t
  <2>1. Range(Rows(command[m])) = Carried(command[m])
    BY RangeOfEmpty DEF Rows, Carried
  <2>2. r \in Range(h) <=> r \in Range(Rows(command[m])) /\ TableOf[r] = t
    BY <1>1, <1>5, OfTableRange, Zenon DEF StagesTyped
  <2>3. QED
    BY <2>1, <2>2
<1>12. r \in Range(q) <=> InWaitingOf(queue[m], r) /\ TableOf[r] = t
  <2>1. r \in Range(q) <=> r \in Range(Waiting(queue[m])) /\ TableOf[r] = t
    BY <1>1, <1>6, OfTableRange, Zenon DEF StagesTyped
  <2>2. r \in Range(Waiting(queue[m])) <=> InWaitingOf(queue[m], r)
    BY <1>1, WaitingRange, Zenon DEF StagesTyped
  <2>3. QED
    BY <2>1, <2>2
<1>13. QED
  BY <1>4, <1>7, <1>8, <1>9, <1>10, <1>11, <1>12

-----------------------------------------------------------------------------
(* The steps at which rows enter and leave the memory.                     *)

\* Rows d leave line t of market m at its front.
Leaves(m, t, d) == d \in Seq(Records) /\ InMemory(m, t) = d \o InMemory(m, t)'

LEMMA StagesTypedNext ==
    ASSUME TypeOK', NEW m \in Markets, NEW t \in Tables
    PROVE  InMemory(m, t)' \in Seq(Records)
<1>1. /\ encoding' \in Seq(Job) /\ jobs' \in Seq(EncodeCommand) /\ queue'[m] \in Seq(Command)
      /\ command'[m] \in Command /\ tables'[m][t] \in Seq(Records)
  BY DEF TypeOK, InputTypes, WorkerTypes, BufferTypes, EncoderTypes
<1>2. Rows(command'[m]) \in Seq(Records) /\ Waiting(queue'[m]) \in Seq(Records)
  BY <1>1, RowsType, StageTypes
<1>3. /\ Encoding(encoding', m, t) \in Seq(Records) /\ Queued(jobs', m, t) \in Seq(Records)
      /\ OfTable(Rows(command'[m]), t) \in Seq(Records) /\ OfTable(Waiting(queue'[m]), t) \in Seq(Records)
  BY <1>1, <1>2, StageTypes, Zenon
<1>4. QED
  BY <1>1, <1>3, StagesNext, FiveType, Zenon

LEMMA AcceptAppends ==
    ASSUME TypeOK, NEW m \in Markets, NEW batch \in Batches, records(m, batch),
           NEW k \in Markets, NEW t \in Tables
    PROVE  InMemory(k, t)' = InMemory(k, t) \o (IF k = m THEN OfTable(batch, t) ELSE <<>>)
<1>0. StagesTyped(k, t)
  BY StageParts
<1>1. UNCHANGED <<command, tables, jobs, encoding>>
  BY DEF records, worker, encoder
<1>2. PICK c \in Command : c = [type |-> "records", records |-> batch]
  BY BatchType, CommandTypes
<1>3. queue' = [queue EXCEPT ![m] = Append(@, c)] /\ Rows(c) = batch /\ batch \in Seq(Records)
  BY <1>2, BatchType DEF records, Rows
<1>4. CASE k # m
  <2>1. LineSame(k, t)
    BY <1>1, <1>3, <1>4, LineFrame, QueueAppended
  <2>2. InMemory(k, t) \o <<>> = InMemory(k, t)
    BY <1>0, Associative, Zenon DEF StagesTyped
  <2>3. QED
    BY <1>4, <2>1, <2>2 DEF LineSame
<1>5. CASE k = m
  <2>1. queue'[m] = Append(queue[m], c)
    BY <1>3 DEF TypeOK, InputTypes
  <2>2. PICK w \in Seq(Records) : w = Waiting(queue[m])
    BY <1>0, <1>5, Zenon DEF StagesTyped
  <2>3. Waiting(queue'[m]) = w \o batch
    <3>1. WaitingMore(queue[m], c)
      BY <1>0, <1>5, WaitingParts, Zenon DEF StagesTyped
    <3>2. QED
      BY <1>3, <2>1, <2>2, <3>1, Zenon DEF WaitingMore
  <2>4. OfTable(w \o batch, t) = OfTable(w, t) \o OfTable(batch, t)
    <3>1. OfTableBoth(w, batch, t)
      BY <1>3, OfTableParts, Zenon
    <3>2. QED
      BY <3>1, Zenon DEF OfTableBoth
  <2>5. OfTable(batch, t) \in Seq(Records) /\ OfTable(w, t) \in Seq(Records)
    BY <1>3, StageTypes, Zenon
  <2>6. IsLonger(Encoding(encoding, k, t), Queued(jobs, k, t), tables[k][t], OfTable(Rows(command[k]), t),
                 OfTable(w, t), OfTable(batch, t))
    BY <1>0, <2>5, FiveLonger, Zenon DEF StagesTyped
  <2>7. InMemory(k, t) = Five(Encoding(encoding, k, t), Queued(jobs, k, t), tables[k][t],
                              OfTable(Rows(command[k]), t), OfTable(w, t))
    BY <1>5, <2>2, Zenon DEF InMemory, Five
  <2>8. InMemory(k, t)' = Five(Encoding(encoding, k, t), Queued(jobs, k, t), tables[k][t],
                              OfTable(Rows(command[k]), t), OfTable(w, t) \o OfTable(batch, t))
    BY <1>1, <1>5, <2>3, <2>4, StagesNext, Zenon
  <2>9. InMemory(k, t)' = InMemory(k, t) \o OfTable(batch, t)
    BY <2>6, <2>7, <2>8, Zenon DEF IsLonger
  <2>10. QED
    BY <1>5, <2>9
<1>6. QED
  BY <1>4, <1>5

LEMMA EncodedLeaves ==
    ASSUME TypeOK, Encoded \/ EncodeFailed, NEW k \in Markets, NEW t \in Tables
    PROVE  Leaves(k, t, JobRows(encoding[1], k, t))
<1>0. StagesTyped(k, t)
  BY StageParts
<1>1. UNCHANGED <<queue, command, tables, jobs>> /\ encoding' = <<>>
  BY EncodedMoves
<1>2. PICK j \in Job : j = encoding[1]
  BY EncodedMoves
<1>3. encoding = <<j>>
  BY <1>0, <1>2, EncodedMoves DEF StagesTyped
<1>4. Encoding(encoding, k, t) = JobRows(j, k, t) /\ Encoding(encoding', k, t) = <<>>
  BY <1>1, <1>3, EncodingOne, StageEmpty, Zenon
<1>5. IsShorter(Encoding(encoding, k, t), Queued(jobs, k, t), tables[k][t], OfTable(Rows(command[k]), t),
                OfTable(Waiting(queue[k]), t))
  <2>1. FiveMoves(Encoding(encoding, k, t), Queued(jobs, k, t), tables[k][t], OfTable(Rows(command[k]), t),
                  OfTable(Waiting(queue[k]), t))
    BY <1>0, FiveSteps, Zenon DEF StagesTyped
  <2>2. QED
    BY <2>1, Zenon DEF FiveMoves
<1>6. InMemory(k, t)' = Five(<<>>, Queued(jobs, k, t), tables[k][t], OfTable(Rows(command[k]), t),
                             OfTable(Waiting(queue[k]), t))
  BY <1>1, <1>4, StagesNext, Zenon
<1>7. InMemory(k, t) = Five(Encoding(encoding, k, t), Queued(jobs, k, t), tables[k][t],
                            OfTable(Rows(command[k]), t), OfTable(Waiting(queue[k]), t))
  BY Zenon DEF InMemory, Five
<1>8. JobRows(j, k, t) \in Seq(Records)
  BY <1>0, <1>4, Zenon DEF StagesTyped
<1>9. QED
  BY <1>2, <1>4, <1>5, <1>6, <1>7, <1>8, Zenon DEF IsShorter, Leaves

LEMMA PanicLeaves ==
    ASSUME TypeOK, EncoderPanics, NEW k \in Markets, NEW t \in Tables
    PROVE  Leaves(k, t, Encoding(encoding, k, t) \o Queued(jobs, k, t))
<1>0. StagesTyped(k, t)
  BY StageParts
<1>1. UNCHANGED <<queue, command, tables>> /\ encoding' = <<>> /\ jobs' = <<>>
  BY DEF EncoderPanics, inputs, worker
<1>2. Encoding(encoding', k, t) = <<>> /\ Queued(jobs', k, t) = <<>>
  BY <1>1, StageEmpty, Zenon
<1>3. IsShorter(Encoding(encoding, k, t), Queued(jobs, k, t), tables[k][t], OfTable(Rows(command[k]), t),
                OfTable(Waiting(queue[k]), t))
  <2>1. FiveMoves(Encoding(encoding, k, t), Queued(jobs, k, t), tables[k][t], OfTable(Rows(command[k]), t),
                  OfTable(Waiting(queue[k]), t))
    BY <1>0, FiveSteps, Zenon DEF StagesTyped
  <2>2. QED
    BY <2>1, Zenon DEF FiveMoves
<1>4. InMemory(k, t)' = Five(<<>>, <<>>, tables[k][t], OfTable(Rows(command[k]), t),
                             OfTable(Waiting(queue[k]), t))
  BY <1>1, <1>2, StagesNext, Zenon
<1>5. InMemory(k, t) = Five(Encoding(encoding, k, t), Queued(jobs, k, t), tables[k][t],
                            OfTable(Rows(command[k]), t), OfTable(Waiting(queue[k]), t))
  BY Zenon DEF InMemory, Five
<1>6. Encoding(encoding, k, t) \o Queued(jobs, k, t) \in Seq(Records)
  BY <1>0, Associative, Zenon DEF StagesTyped
<1>7. QED
  BY <1>3, <1>4, <1>5, <1>6, Zenon DEF IsShorter, Leaves

\* Nothing is left of a market whose worker and the encoder are gone.
LEMMA MemoryEmptied ==
    ASSUME NEW m, NEW t, encoding' = <<>>, jobs' = <<>>, tables'[m][t] = <<>>, command'[m] = Tick,
           queue'[m] = <<>>
    PROVE  InMemory(m, t)' = <<>>
<1>1. Encoding(<<>>, m, t) = <<>> /\ Queued(<<>>, m, t) = <<>> /\ Waiting(<<>>) = <<>> /\ OfTable(<<>>, t) = <<>>
  BY StageEmpty, Zenon
<1>2. Rows(Tick) = <<>>
  BY DEF Rows, Tick
<1>3. InMemory(m, t)' = Five(<<>>, <<>>, <<>>, <<>>, <<>>)
  BY <1>1, <1>2, StagesNext, Zenon
<1>4. QED
  BY <1>3, FiveEmpty

LEMMA StopLeaves ==
    ASSUME TypeOK, Emptied, PathInv, NEW m \in Markets, Stop(m), NEW k \in Markets, NEW t \in Tables
    PROVE  /\ k # m => LineSame(k, t)
           /\ alive => LineSame(k, t)
           /\ k = m /\ ~alive => InMemory(k, t)' = <<>>
<1>0. UNCHANGED <<jobs, encoding>>
  BY StopMoves
<1>1. ASSUME k # m PROVE LineSame(k, t)
  BY <1>0, <1>1, StopMoves, LineFrame
<1>2. ASSUME k = m, ~alive PROVE InMemory(k, t)' = <<>>
  <2>1. jobs = <<>> /\ encoding = <<>>
    BY <1>2 DEF PathInv, JobsFull
  <2>2. QED
    BY <1>0, <1>2, <2>1, StopMoves, MemoryEmptied
<1>3. ASSUME k = m, alive PROVE LineSame(k, t)
  <2>1. pc[m] = "drain" /\ todo[m] = {}
    BY <1>3 DEF Stop, EncoderGone
  <2>2. queue[m] = <<>> /\ tables[m][t] = <<>>
    BY <2>1 DEF PathInv, Visited
  <2>3. Rows(command[m]) = <<>>
    <3>1. Carried(command[m]) = {} /\ command[m] \in Command
      BY <2>1 DEF Emptied, WorkDone, TypeOK, WorkerTypes
    <3>2. QED
      BY <3>1, NoRows
  <2>4. Rows(command'[m]) = <<>>
    BY StopMoves DEF Rows, Tick
  <2>5. queue'[m] = <<>> /\ tables'[m][t] = <<>>
    BY StopMoves
  <2>6. QED
    BY <1>0, <1>3, <2>2, <2>3, <2>4, <2>5, StagesNext, Zenon DEF LineSame, InMemory, Five
<1>4. QED
  BY <1>1, <1>2, <1>3

LEMMA CrashLeaves ==
    ASSUME TypeOK, Crash, NEW k \in Markets, NEW t \in Tables PROVE InMemory(k, t)' = <<>>
  BY CrashMoves, MemoryEmptied

\* Every other step leaves the memory as it is.
Quiet == ~\/ \E m \in Markets, batch \in Batches : records(m, batch)
          \/ Encoded \/ EncodeFailed \/ EncoderPanics \/ Crash \/ \E m \in Markets : Stop(m)

LEMMA QuietKeeps ==
    ASSUME TypeOK, Emptied, [Next]_vars, Quiet, NEW k \in Markets, NEW t \in Tables
    PROVE  LineSame(k, t)
<1>1. ASSUME UNCHANGED <<queue, command, tables, jobs, encoding>> PROVE LineSame(k, t)
  BY <1>1, LineFrame
<1>2. ASSUME NEW m \in Markets, SendTick(m) PROVE LineSame(k, t)
  <2>1. Tick \in Command /\ Rows(Tick) = <<>>
    BY CommandTypes DEF Rows
  <2>2. QED
    BY <1>2, <2>1, SentKeeps DEF SendTick, worker, encoder
<1>3. ASSUME NEW f \in Calls, FlushSend(f) PROVE LineSame(k, t)
  <2>1. Order[call[f].at] \in Markets
    BY MarketAssumption DEF TypeOK, CallTypes
  <2>2. PICK c \in Command : c = [type |-> "flush", response |-> f]
    BY CommandTypes
  <2>3. Rows(c) = <<>>
    BY <2>2 DEF Rows
  <2>4. QED
    BY <1>3, <2>1, <2>2, <2>3, SentKeeps DEF FlushSend, worker, encoder
<1>4. ASSUME NEW m \in Markets, Dispatch(m) \/ Pushed(m) \/ flush_largest(m) \/ Drain(m)
       PROVE  UNCHANGED <<queue, command, tables, jobs, encoding>>
  BY <1>4 DEF Dispatch, Pushed, flush_largest, Drain, inputs, encoder
<1>5. ASSUME \/ Elapse \/ HourRolls \/ Close \/ Done \/ UNCHANGED vars
              \/ \E f \in Calls : flush(f) \/ FlushResult(f) \/ FlushStopped(f) \/ FlushCancelled(f)
       PROVE  UNCHANGED <<queue, command, tables, jobs, encoding>>
  BY <1>5 DEF Elapse, HourRolls, Close, Done, vars, flush, FlushResult, FlushStopped,
              FlushCancelled, encoder, inputs, worker
<1>6. QED
  BY <1>1, <1>2, <1>3, <1>4, <1>5, RecvKeeps, PushKeeps, FlushTableKeeps, HandKeeps, SendBarrierKeeps,
     EncodeRecvKeeps, EncodeBarrierKeeps
  DEF Next, Producer, Worker, Encoder, Caller, Quiet

LEMMA QuietFrame == ASSUME TypeOK, [Next]_vars, Quiet PROVE UNCHANGED <<disk, lost, accepted>>
  BY DiskMoves, AcceptedStep DEF Quiet

-----------------------------------------------------------------------------
(* No row is in two places.                                                *)

LEMMA DistinctBoth ==
    ASSUME NEW T, NEW a \in Seq(T), NEW b \in Seq(T)
    PROVE  Distinct(a \o b) <=> Distinct(a) /\ Distinct(b) /\ Range(a) \cap Range(b) = {}
<1>1. PICK c \in Seq(T) : c = a \o b
  <2>1. a \o b \in Seq(T)
    OBVIOUS
  <2>2. QED
    BY <2>1, Zenon
<1>2. PICK n \in Nat : n = Len(a)
  OBVIOUS
<1>3. PICK k \in Nat : k = Len(b)
  OBVIOUS
<1>4. /\ Len(c) = n + k /\ (\A i \in 1..n : c[i] = a[i]) /\ \A i \in 1..k : c[i + n] = b[i]
      /\ Range(a) = {a[i] : i \in 1..n} /\ Range(b) = {b[i] : i \in 1..k}
  <2>1. \A i \in 1..n : c[i] = a[i]
    BY <1>1, <1>2
  <2>2. \A i \in 1..k : c[i + n] = b[i]
    BY <1>1, <1>2, <1>3
  <2>3. QED
    BY <1>1, <1>2, <1>3, <2>1, <2>2, RangeIndex
<1>5. \A i \in 1..n, j \in 1..k : i \in 1..(n + k) /\ j + n \in 1..(n + k) /\ i # j + n
  OBVIOUS
<1>6. ASSUME Distinct(c) PROVE Distinct(a) /\ Distinct(b) /\ Range(a) \cap Range(b) = {}
  <2>1. Distinct(a)
    <3>1. SUFFICES ASSUME NEW i \in 1..n, NEW j \in 1..n, a[i] = a[j] PROVE i = j
      BY <1>2 DEF Distinct
    <3>2. i \in 1..(n + k) /\ j \in 1..(n + k) /\ c[i] = c[j]
      BY <1>4, <3>1
    <3>3. QED
      BY <1>4, <1>6, <3>2 DEF Distinct
  <2>2. Distinct(b)
    <3>1. SUFFICES ASSUME NEW i \in 1..k, NEW j \in 1..k, b[i] = b[j] PROVE i = j
      BY <1>3 DEF Distinct
    <3>2. i + n \in 1..(n + k) /\ j + n \in 1..(n + k) /\ c[i + n] = c[j + n]
      BY <1>4, <3>1
    <3>3. i + n = j + n
      BY <1>4, <1>6, <3>2 DEF Distinct
    <3>4. QED
      BY <3>3
  <2>3. ASSUME NEW i \in 1..n, NEW j \in 1..k, a[i] = b[j] PROVE FALSE
    BY <1>4, <1>5, <1>6, <2>3 DEF Distinct
  <2>4. QED
    BY <1>4, <2>1, <2>2, <2>3
<1>7. ASSUME Distinct(a), Distinct(b), Range(a) \cap Range(b) = {} PROVE Distinct(c)
  <2>1. SUFFICES ASSUME NEW i \in 1..(n + k), NEW j \in 1..(n + k), c[i] = c[j] PROVE i = j
    BY <1>4 DEF Distinct
  <2>2. \A p \in 1..(n + k) : p \in 1..n \/ (p - n \in 1..k /\ (p - n) + n = p)
    OBVIOUS
  <2>3. \A p \in 1..(n + k) : p \notin 1..n => c[p] = b[p - n] /\ p - n \in 1..k
    BY <1>4, <2>2
  <2>4. CASE i \in 1..n /\ j \in 1..n
    BY <1>2, <1>4, <1>7, <2>1, <2>4 DEF Distinct
  <2>5. CASE i \notin 1..n /\ j \notin 1..n
    <3>1. b[i - n] = b[j - n] /\ i - n \in 1..k /\ j - n \in 1..k
      BY <2>1, <2>3, <2>5
    <3>2. i - n = j - n
      BY <1>3, <1>7, <3>1 DEF Distinct
    <3>3. QED
      BY <3>2
  <2>6. CASE i \in 1..n /\ j \notin 1..n
    BY <1>4, <1>7, <2>1, <2>3, <2>6
  <2>7. CASE i \notin 1..n /\ j \in 1..n
    BY <1>4, <1>7, <2>1, <2>3, <2>7
  <2>8. QED
    BY <2>4, <2>5, <2>6, <2>7
<1>8. QED
  BY <1>1, <1>6, <1>7

LEMMA DistinctOne == \A x : Distinct(<<x>>) /\ Range(<<x>>) = {x}
<1>1. TAKE x
<1>2. Len(<<x>>) = 1 /\ \A i \in 1..1 : i = 1
  OBVIOUS
<1>3. Distinct(<<x>>)
  BY <1>2 DEF Distinct
<1>4. QED
  BY <1>3 DEF Range

LEMMA DistinctEmpty == Distinct(<<>>)
  BY DEF Distinct

LEMMA DistinctOfTable ==
    ASSUME NEW s \in Seq(Records), NEW t, Distinct(s)
    PROVE  Distinct(OfTable(s, t))
<1> DEFINE A == {q \in Seq(Records) : Distinct(q) => Distinct(OfTable(q, t))}
<1>1. <<>> \in A
  BY StageEmpty, DistinctEmpty
<1>2. ASSUME NEW q \in Seq(Records), NEW x \in Records, q \in A PROVE Append(q, x) \in A
  <2>1. SUFFICES ASSUME Distinct(Append(q, x)) PROVE Distinct(OfTable(Append(q, x), t))
    OBVIOUS
  <2>2. PICK b \in Seq(Records) : b = <<x>>
    <3>1. <<x>> \in Seq(Records)
      OBVIOUS
    <3>2. QED
      BY <3>1, Zenon
  <2>3. Distinct(q) /\ x \notin Range(q) /\ Range(b) = {x} /\ Distinct(b)
    <3>1. Append(q, x) = q \o b
      BY <2>2
    <3>2. Distinct(q \o b)
      BY <2>1, <3>1, Zenon
    <3>3. Distinct(b) /\ Range(b) = {x}
      BY <2>2, DistinctOne, Zenon
    <3>4. Distinct(q) /\ Range(q) \cap Range(b) = {}
      BY <3>2, DistinctBoth, Zenon
    <3>5. QED
      BY <3>3, <3>4
  <2>4. PICK a \in Seq(Records) : a = OfTable(q, t)
    BY StageTypes, Zenon
  <2>5. Distinct(a) /\ x \notin Range(a)
    BY <1>2, <2>3, <2>4, OfTableRange
  <2>6. OfTable(Append(q, x), t) = a \o Only(t)[x]
    <3>1. OfTableMore(q, x, t)
      BY OfTableParts, Zenon
    <3>2. QED
      BY <2>4, <3>1, Zenon DEF OfTableMore
  <2>7. CASE TableOf[x] = t
    <3>1. Only(t)[x] = <<x>>
      BY <2>7 DEF Only
    <3>2. Range(a) \cap Range(b) = {}
      BY <2>3, <2>5
    <3>3. Distinct(a \o b)
      BY <2>3, <2>5, <3>2, DistinctBoth, Zenon
    <3>4. QED
      BY <2>2, <2>6, <3>1, <3>3, Zenon
  <2>8. CASE TableOf[x] # t
    <3>1. Only(t)[x] = <<>> /\ a \o <<>> = a
      BY <2>8 DEF Only
    <3>2. QED
      BY <2>5, <2>6, <3>1
  <2>9. QED
    BY <2>7, <2>8
<1>3. \A q \in Seq(Records) : q \in A
  <2> HIDE DEF A
  <2>1. QED
    BY <1>1, <1>2, EverySequence
<1>4. QED
  BY <1>3

\* Some rows leave their lines for the disk or for good, and the others stay.
LEMMA RowsLeave ==
    ASSUME TypeOK, TypeOK', RowsInv, accepted' = accepted, NEW D,
           \A m \in Markets, t \in Tables : Leaves(m, t, D[<<m, t>>]),
           \A r \in Records : OnDisk(r)' \/ r \in lost' <=>
               OnDisk(r) \/ r \in lost \/ \E m \in Markets, t \in Tables : r \in Range(D[<<m, t>>]),
           \A r \in Records : ~(OnDisk(r)' /\ r \in lost')
    PROVE  RowsInv'
<1>0. /\ Accepted' = Accepted /\ Accepted \subseteq Records /\ lost' \subseteq Records
      /\ \A r \in Accepted : MarketOf[r] \in Markets /\ TableOf[r] \in Tables
  BY RangeType, RecordAssumption DEF Accepted, TypeOK, InputTypes, CallTypes
<1>1. ASSUME NEW m \in Markets, NEW t \in Tables
      PROVE  /\ LineKept(m, t)'
             /\ Range(InMemory(m, t)) = Range(D[<<m, t>>]) \cup Range(InMemory(m, t)')
  <2>1. PICK d \in Seq(Records) : d = D[<<m, t>>]
    <3>1. D[<<m, t>>] \in Seq(Records)
      BY DEF Leaves
    <3>2. QED
      BY <3>1, Zenon
  <2>2. PICK b \in Seq(Records) : b = InMemory(m, t)'
    BY StagesTypedNext, Zenon
  <2>3. InMemory(m, t) = d \o b
    BY <2>1, <2>2 DEF Leaves
  <2>4. Range(d \o b) = Range(d) \cup Range(b)
    BY RangeOfBoth
  <2>5. LineKept(m, t)
    BY DEF RowsInv
  <2>6. Distinct(d \o b)
    BY <2>3, <2>5, Zenon DEF LineKept
  <2>7. Distinct(b) /\ Range(d) \cap Range(b) = {}
    BY <2>6, DistinctBoth
  <2>8. ASSUME NEW r \in Range(b) PROVE InLine(m, t, r)'
    <3>1. InLine(m, t, r)
      BY <2>3, <2>4, <2>5 DEF LineKept
    <3>2. r \in Records /\ r \in Accepted' /\ MarketOf[r] = m /\ TableOf[r] = t
      BY <1>0, <3>1 DEF InLine
    <3>3. ASSUME NEW n \in Markets, NEW u \in Tables, r \in Range(D[<<n, u>>]) PROVE FALSE
      <4>1. n # m \/ u # t
        BY <2>1, <2>7, <3>3
      <4>2. r \in Range(InMemory(n, u))
        <5>1. D[<<n, u>>] \in Seq(Records) /\ InMemory(n, u) = D[<<n, u>>] \o InMemory(n, u)'
          BY DEF Leaves
        <5>2. InMemory(n, u)' \in Seq(Records)
          BY StagesTypedNext
        <5>3. Range(InMemory(n, u)) = Range(D[<<n, u>>]) \cup Range(InMemory(n, u)')
          BY <5>1, <5>2, RangeOfBoth
        <5>4. QED
          BY <3>3, <5>3
      <4>3. InLine(n, u, r)
        BY <4>2 DEF RowsInv, LineKept
      <4>4. QED
        BY <3>2, <4>1, <4>3 DEF InLine
    <3>4. ~OnDisk(r)' /\ r \notin lost'
      BY <3>1, <3>2, <3>3 DEF InLine
    <3>5. QED
      BY <3>2, <3>4 DEF InLine
  <2>9. LineKept(m, t)'
    BY <2>2, <2>7, <2>8 DEF LineKept
  <2>10. QED
    BY <2>1, <2>2, <2>3, <2>4, <2>9
<1>2. ASSUME NEW r \in Accepted PROVE Remembered(r)'
  <2>1. Remembered(r) /\ MarketOf[r] \in Markets /\ TableOf[r] \in Tables /\ r \in Records
    BY <1>0 DEF RowsInv
  <2>2. CASE r \in Range(InMemory(MarketOf[r], TableOf[r]))
    BY <1>1, <2>1, <2>2 DEF Remembered
  <2>3. CASE OnDisk(r) \/ r \in lost
    BY <2>1, <2>3 DEF Remembered
  <2>4. QED
    BY <2>1, <2>2, <2>3 DEF Remembered
<1>3. ASSUME NEW r \in Records, OnDisk(r)' \/ r \in lost' PROVE r \in Accepted
  <2>1. CASE OnDisk(r) \/ r \in lost
    BY <2>1 DEF RowsInv
  <2>2. ASSUME NEW m \in Markets, NEW t \in Tables, r \in Range(D[<<m, t>>]) PROVE r \in Accepted
    <3>1. r \in Range(InMemory(m, t))
      BY <1>1, <2>2
    <3>2. QED
      BY <3>1 DEF RowsInv, LineKept, InLine
  <2>3. QED
    BY <1>3, <2>1, <2>2
<1>4. QED
  BY <1>0, <1>1, <1>2, <1>3 DEF RowsInv

LEMMA RowsEnter ==
    ASSUME TypeOK, TypeOK', RowsInv, NEW m \in Markets, NEW batch \in Batches, records(m, batch)
    PROVE  RowsInv'
<1>0. /\ Accepted' = Accepted \cup Range(batch) /\ UNCHANGED <<disk, lost>> /\ batch \in Seq(Records)
      /\ Accepted \subseteq Records /\ Range(batch) \subseteq Records
      /\ \A r \in Records : MarketOf[r] \in Markets /\ TableOf[r] \in Tables
  <2>1. UNCHANGED <<disk, lost>>
    BY DEF records, encoder
  <2>2. Accepted \subseteq Records
    BY RangeType DEF Accepted, TypeOK, InputTypes
  <2>3. QED
    BY <2>1, <2>2, AcceptedBatch, BatchType, RangeType, RecordAssumption
<1>1. Distinct(batch) /\ \A r \in Range(batch) : r \notin Accepted /\ MarketOf[r] = m
  BY <1>0 DEF records, Distinct
<1>2. ASSUME NEW k \in Markets, NEW t \in Tables
      PROVE  /\ LineKept(k, t)'
             /\ \A r : r \in Range(InMemory(k, t)') <=>
                          r \in Range(InMemory(k, t)) \/ (k = m /\ r \in Range(batch) /\ TableOf[r] = t)
  <2>1. PICK a \in Seq(Records) : a = InMemory(k, t)
    <3>1. InMemory(k, t) \in Seq(Records)
      BY StageParts DEF StagesTyped
    <3>2. QED
      BY <3>1, Zenon
  <2>2. PICK b \in Seq(Records) : b = IF k = m THEN OfTable(batch, t) ELSE <<>>
    <3>1. OfTable(batch, t) \in Seq(Records) /\ <<>> \in Seq(Records)
      BY <1>0, StageTypes
    <3>2. QED
      BY <3>1, Zenon
  <2>3. InMemory(k, t)' = a \o b
    BY <2>1, <2>2, AcceptAppends, Zenon
  <2>4. Range(a \o b) = Range(a) \cup Range(b)
    BY RangeOfBoth
  <2>5. Distinct(b)
    BY <1>0, <1>1, <2>2, DistinctOfTable, DistinctEmpty
  <2>6. ASSUME NEW r PROVE r \in Range(b) <=> k = m /\ r \in Range(batch) /\ TableOf[r] = t
    BY <1>0, <2>2, OfTableRange, RangeOfEmpty
  <2>7. Distinct(a) /\ \A r \in Range(a) : InLine(k, t, r)
    BY <2>1 DEF RowsInv, LineKept
  <2>8. Range(a) \cap Range(b) = {}
    BY <1>1, <2>6, <2>7 DEF InLine
  <2>9. Distinct(a \o b)
    BY <2>5, <2>7, <2>8, DistinctBoth, Zenon
  <2>10. ASSUME NEW r \in Range(a \o b) PROVE InLine(k, t, r)'
    <3>1. OnDisk(r)' = OnDisk(r)
      BY <1>0 DEF OnDisk
    <3>2. CASE r \in Range(a)
      BY <1>0, <2>7, <3>1, <3>2 DEF InLine
    <3>3. CASE r \in Range(b)
      <4>1. r \in Accepted' /\ MarketOf[r] = k /\ TableOf[r] = t /\ r \notin Accepted /\ r \in Records
        BY <1>0, <1>1, <2>6, <3>3
      <4>2. ~OnDisk(r) /\ r \notin lost
        BY <4>1 DEF RowsInv
      <4>3. QED
        BY <1>0, <3>1, <4>1, <4>2 DEF InLine
    <3>4. QED
      BY <2>4, <3>2, <3>3
  <2>11. LineKept(k, t)'
    BY <2>3, <2>9, <2>10 DEF LineKept
  <2>12. Range(InMemory(k, t)') = Range(InMemory(k, t)) \cup Range(b)
    BY <2>1, <2>3, <2>4, Zenon
  <2>13. QED
    BY <2>6, <2>11, <2>12
<1>3. \A r \in Records : OnDisk(r)' = OnDisk(r)
  BY <1>0 DEF OnDisk
<1>4. ASSUME NEW r \in Accepted' PROVE Remembered(r)'
  <2>1. r \in Records /\ MarketOf[r] \in Markets /\ TableOf[r] \in Tables
    BY <1>0
  <2>2. CASE r \in Accepted
    <3>1. Remembered(r)
      BY <2>2 DEF RowsInv
    <3>2. CASE r \in Range(InMemory(MarketOf[r], TableOf[r]))
      <4>1. r \in Range(InMemory(MarketOf[r], TableOf[r])')
        BY <1>2, <2>1, <3>2
      <4>2. QED
        BY <4>1 DEF Remembered
    <3>3. CASE OnDisk(r) \/ r \in lost
      BY <1>0, <1>3, <2>1, <3>3 DEF Remembered
    <3>4. QED
      BY <3>1, <3>2, <3>3 DEF Remembered
  <2>3. CASE r \in Range(batch)
    BY <1>1, <1>2, <2>1, <2>3 DEF Remembered
  <2>4. QED
    BY <1>0, <2>2, <2>3
<1>5. QED
  BY <1>0, <1>2, <1>3, <1>4 DEF RowsInv

\* The process ends.
LEMMA RowsCrash ==
    ASSUME TypeOK, TypeOK', RowsInv, Crash
    PROVE  RowsInv'
<1>0. /\ Accepted' = Accepted /\ lost' = Accepted \ RecordsOf(disk') /\ Accepted \subseteq Records
      /\ \A r : OnDisk(r)' <=> r \in RecordsOf(disk')
  BY RangeType DEF Crash, Accepted, TypeOK, InputTypes, OnDisk, RecordsOf
<1>1. ASSUME NEW r \in Records, OnDisk(r)' PROVE r \in Accepted
  <2>1. CASE OnDisk(r)
    BY <2>1 DEF RowsInv
  <2>2. ASSUME NEW i \in 1..Len(encoding), r \in Range(encoding[i].records) PROVE r \in Accepted
    <3>0. encoding[i] \in Job
      BY DEF TypeOK, EncoderTypes
    <3>1. encoding[i].market \in Markets /\ encoding[i].table \in Tables
      BY <3>0 DEF Job
    <3>2. r \in Range(InMemory(encoding[i].market, encoding[i].table))
      BY <2>2, <3>1, MemoryRange DEF InEncodingOf
    <3>3. QED
      BY <3>1, <3>2 DEF RowsInv, LineKept, InLine
  <2>3. QED
    BY <1>1, <2>1, <2>2, CrashMoves DEF OnDisk
<1>2. ASSUME NEW m \in Markets, NEW t \in Tables PROVE LineKept(m, t)'
  BY CrashLeaves, DistinctEmpty, RangeOfEmpty DEF LineKept
<1>3. QED
  BY <1>0, <1>1, <1>2 DEF RowsInv, Remembered

-----------------------------------------------------------------------------
(* What a step does to the lines.                                          *)

\* The rows D[l] of every line l are dropped, or those of segment s are published.
Dropped(D) ==
    /\ \A m \in Markets, t \in Tables : Leaves(m, t, D[<<m, t>>])
    /\ \A r \in Records :
          r \in lost' <=> r \in lost \/ \E m \in Markets, t \in Tables : r \in Range(D[<<m, t>>])
    /\ UNCHANGED <<disk, accepted>>
Published(s) ==
    /\ s \in Job /\ encoding = <<s>> /\ disk' = disk \cup {s}
    /\ \A m \in Markets, t \in Tables : Leaves(m, t, JobRows(s, m, t))
    /\ UNCHANGED <<lost, accepted>>

LEMMA FailedDrops ==
    ASSUME TypeOK, EncodeFailed, lost' = lost \cup Range(encoding[1].records), disk' = disk
    PROVE  \E D : Dropped(D)
<1>1. PICK j \in Job : j = encoding[1]
  BY EncodedMoves
<1>2. PICK D : D = [l \in Lines |-> JobRows(j, l[1], l[2])]
  OBVIOUS
<1>3. ASSUME NEW m \in Markets, NEW t \in Tables PROVE D[<<m, t>>] = JobRows(j, m, t)
  BY <1>2 DEF Lines
<1>4. ASSUME NEW m \in Markets, NEW t \in Tables PROVE Leaves(m, t, D[<<m, t>>])
  <2>1. Leaves(m, t, JobRows(encoding[1], m, t))
    BY EncodedLeaves
  <2>2. QED
    BY <1>1, <1>3, <2>1
<1>5. j.market \in Markets /\ j.table \in Tables
  BY DEF Job
<1>6. ASSUME NEW r
      PROVE  r \in Range(j.records) <=> \E m \in Markets, t \in Tables : r \in Range(D[<<m, t>>])
  BY <1>3, <1>5, RangeOfEmpty DEF JobRows
<1>7. accepted' = accepted
  BY EncodedMoves
<1>8. Dropped(D)
  BY <1>1, <1>4, <1>6, <1>7 DEF Dropped
<1>9. QED
  BY <1>8

LEMMA PanicDropped == ASSUME TypeOK, EncoderPanics PROVE \E D : Dropped(D)
<1>0. /\ encoding \in Seq(Job) /\ jobs \in Seq(EncodeCommand)
      /\ Range(encoding) = {encoding[i] : i \in 1..Len(encoding)} /\ Range(jobs) = {jobs[i] : i \in 1..Len(jobs)}
  BY RangeIndex DEF TypeOK, EncoderTypes
<1>1. PICK e \in Seq(Job) : e = encoding
  BY <1>0, Zenon
<1>2. PICK q \in Seq(EncodeCommand) : q = jobs
  BY <1>0, Zenon
<1>3. PICK D : D = [l \in Lines |-> Encoding(e, l[1], l[2]) \o Queued(q, l[1], l[2])]
  OBVIOUS
<1>4. ASSUME NEW m \in Markets, NEW t \in Tables
      PROVE  D[<<m, t>>] = Encoding(e, m, t) \o Queued(q, m, t)
  BY <1>3 DEF Lines
<1>5. ASSUME NEW m \in Markets, NEW t \in Tables PROVE Leaves(m, t, D[<<m, t>>])
  <2>1. Leaves(m, t, Encoding(encoding, m, t) \o Queued(jobs, m, t))
    BY PanicLeaves
  <2>2. QED
    BY <1>1, <1>2, <1>4, <2>1
<1>6. ASSUME NEW m \in Markets, NEW t \in Tables, NEW r
      PROVE  r \in Range(D[<<m, t>>]) <=> InEncodingOf(e, m, t, r) \/ InQueuedOf(q, m, t, r)
  <2>1. Encoding(e, m, t) \in Seq(Records) /\ Queued(q, m, t) \in Seq(Records)
    BY StageTypes
  <2>2. Range(D[<<m, t>>]) = Range(Encoding(e, m, t)) \cup Range(Queued(q, m, t))
    BY <1>4, <2>1, RangeOfBoth
  <2>3. QED
    BY <2>2, EncodingRange, QueuedRange
<1>7. ASSUME NEW r \in RecordsOf(Range(encoding)) \cup RecordsOfJobs(jobs)
      PROVE  \E m \in Markets, t \in Tables : r \in Range(D[<<m, t>>])
  <2>1. CASE r \in RecordsOf(Range(encoding))
    <3>1. PICK i \in 1..Len(e) : r \in Range(e[i].records)
      BY <1>0, <1>1, <2>1 DEF RecordsOf
    <3>2. e[i] \in Job
      OBVIOUS
    <3>3. e[i].market \in Markets /\ e[i].table \in Tables
      BY <3>2 DEF Job
    <3>4. QED
      BY <1>6, <3>1, <3>3 DEF InEncodingOf
  <2>2. CASE r \in RecordsOfJobs(jobs)
    <3>1. PICK i \in 1..Len(q) : q[i].type = "write" /\ r \in Range(q[i].job.records)
      BY <1>0, <1>2, <2>2 DEF RecordsOfJobs
    <3>2. q[i] \in EncodeCommand
      OBVIOUS
    <3>3. q[i].job \in Job
      BY <3>1, <3>2, EncodeCommandTypes
    <3>4. q[i].job.market \in Markets /\ q[i].job.table \in Tables
      BY <3>3 DEF Job
    <3>5. InQueuedOf(q, q[i].job.market, q[i].job.table, r)
      BY <3>1 DEF InQueuedOf
    <3>6. QED
      BY <1>6, <3>4, <3>5
  <2>3. QED
    BY <2>1, <2>2
<1>8. ASSUME NEW m \in Markets, NEW t \in Tables, NEW r \in Range(D[<<m, t>>])
      PROVE  r \in RecordsOf(Range(encoding)) \cup RecordsOfJobs(jobs)
  <2>1. CASE InEncodingOf(e, m, t, r)
    BY <1>0, <1>1, <2>1 DEF InEncodingOf, RecordsOf
  <2>2. CASE InQueuedOf(q, m, t, r)
    BY <1>0, <1>2, <2>2 DEF InQueuedOf, RecordsOfJobs
  <2>3. QED
    BY <1>6, <2>1, <2>2
<1>9. /\ lost' = lost \cup RecordsOf(Range(encoding)) \cup RecordsOfJobs(jobs)
      /\ UNCHANGED <<disk, accepted>>
  BY DEF EncoderPanics, inputs
<1>10. Dropped(D)
  BY <1>5, <1>7, <1>8, <1>9 DEF Dropped
<1>11. QED
  BY <1>10

LEMMA StopDropped ==
    ASSUME TypeOK, Emptied, PathInv, NEW m \in Markets, Stop(m) PROVE \E D : Dropped(D)
<1>0. /\ queue[m] \in Seq(Command) /\ Range(queue[m]) = {queue[m][i] : i \in 1..Len(queue[m])}
      /\ tables \in [Markets -> [Tables -> Seq(Records)]] /\ command[m] \in Command
  BY RangeIndex DEF TypeOK, InputTypes, WorkerTypes, BufferTypes
<1>1. /\ lost' = lost \cup RecordsIn(queue[m]) \cup InHand(m) \cup Buffered(m)
      /\ UNCHANGED <<disk, accepted>>
  BY DEF Stop, encoder
<1>2. ASSUME NEW r
      PROVE  r \in RecordsIn(queue[m]) \cup InHand(m) \cup Buffered(m) <=>
               InWaitingOf(queue[m], r) \/ r \in Carried(command[m]) \/ \E t \in Tables : r \in Range(tables[m][t])
  BY <1>0 DEF RecordsIn, InHand, Buffered, InWaitingOf, Carried
<1>3. CASE alive
  <2>1. PICK D : D = [l \in Lines |-> <<>>]
    OBVIOUS
  <2>2. ASSUME NEW k \in Markets, NEW t \in Tables PROVE Leaves(k, t, D[<<k, t>>]) /\ Range(D[<<k, t>>]) = {}
    <3>1. D[<<k, t>>] = <<>>
      BY <2>1 DEF Lines
    <3>2. LineSame(k, t) /\ InMemory(k, t) \in Seq(Records)
      BY <1>3, StopLeaves, StageParts DEF StagesTyped
    <3>3. <<>> \in Seq(Records) /\ <<>> \o InMemory(k, t) = InMemory(k, t)
      BY <3>2, Associative, Zenon
    <3>4. QED
      BY <3>1, <3>2, <3>3, RangeOfEmpty DEF Leaves, LineSame
  <2>3. pc[m] = "drain" /\ todo[m] = {}
    BY <1>3 DEF Stop, EncoderGone
  <2>4. queue[m] = <<>> /\ \A t \in Tables : tables[m][t] = <<>>
    BY <2>3 DEF PathInv, Visited
  <2>5. Carried(command[m]) = {}
    BY <2>3 DEF Emptied, WorkDone
  <2>6. lost' = lost
    BY <1>1, <1>2, <2>4, <2>5, RangeOfEmpty DEF InWaitingOf
  <2>7. Dropped(D)
    BY <1>1, <2>2, <2>6 DEF Dropped
  <2>8. QED
    BY <2>7
<1>4. CASE ~alive
  <2>1. PICK G : G = [t \in Tables |-> InMemory(m, t)]
    OBVIOUS
  <2>2. PICK D : D = [l \in Lines |-> IF l[1] = m THEN G[l[2]] ELSE <<>>]
    OBVIOUS
  <2>3. ASSUME NEW t \in Tables
        PROVE  D[<<m, t>>] = InMemory(m, t) /\ \A k \in Markets \ {m} : D[<<k, t>>] = <<>>
    BY <2>1, <2>2 DEF Lines
  <2>4. ASSUME NEW k \in Markets, NEW t \in Tables PROVE Leaves(k, t, D[<<k, t>>])
    <3>1. InMemory(k, t) \in Seq(Records)
      BY StageParts DEF StagesTyped
    <3>2. <<>> \in Seq(Records) /\ <<>> \o InMemory(k, t) = InMemory(k, t) /\ InMemory(k, t) \o <<>> = InMemory(k, t)
      BY <3>1, Associative, Zenon
    <3>3. k # m => LineSame(k, t)
      BY StopLeaves
    <3>4. k = m => InMemory(k, t)' = <<>>
      BY <1>4, StopLeaves
    <3>5. QED
      BY <2>3, <3>1, <3>2, <3>3, <3>4 DEF Leaves, LineSame
  <2>5. jobs = <<>> /\ encoding = <<>>
    BY <1>4 DEF PathInv, JobsFull
  <2>6. ASSUME NEW t \in Tables, NEW r
        PROVE  r \in Range(D[<<m, t>>]) <=>
                 \/ r \in Range(tables[m][t])
                 \/ TableOf[r] = t /\ (r \in Carried(command[m]) \/ InWaitingOf(queue[m], r))
    BY <2>3, <2>5, MemoryRange DEF InEncodingOf, InQueuedOf
  <2>7. ASSUME NEW r \in Records
        PROVE  (\E k \in Markets, t \in Tables : r \in Range(D[<<k, t>>])) <=>
                 InWaitingOf(queue[m], r) \/ r \in Carried(command[m]) \/ \E t \in Tables : r \in Range(tables[m][t])
    <3>1. TableOf[r] \in Tables
      BY RecordAssumption
    <3>2. ASSUME NEW k \in Markets, NEW t \in Tables, r \in Range(D[<<k, t>>]) PROVE k = m
      BY <2>3, <3>2, RangeOfEmpty
    <3>3. QED
      BY <2>6, <3>1, <3>2
  <2>8. Dropped(D)
    BY <1>1, <1>2, <2>4, <2>7 DEF Dropped
  <2>9. QED
    BY <2>8
<1>5. QED
  BY <1>3, <1>4

\* A segment the encoder has finished is on disk; an encoding that failed either way.
LEMMA WrittenLeaves ==
    ASSUME TypeOK, NoOverwrite, Encoded \/ EncodeFailed
    PROVE  (\E s : Published(s)) \/ \E D : Dropped(D)
<1>1. PICK s \in Job : s = encoding[1]
  BY EncodedMoves
<1>2. encoding = <<s>>
  BY <1>1, EncodedMoves DEF TypeOK, EncoderTypes
<1>3. Publish(s) = disk \cup {s}
  <2>1. s \in Range(encoding)
    BY <1>2 DEF Range
  <2>2. QED
    BY <2>1 DEF NoOverwrite, Publish
<1>4. ASSUME disk' = Publish(s), lost' = lost PROVE Published(s)
  <2>1. accepted' = accepted
    BY EncodedMoves
  <2>2. \A m \in Markets, t \in Tables : Leaves(m, t, JobRows(s, m, t))
    BY <1>1, EncodedLeaves
  <2>3. QED
    BY <1>2, <1>3, <1>4, <2>1, <2>2 DEF Published
<1>5. \/ disk' = Publish(s) /\ lost' = lost
      \/ EncodeFailed /\ lost' = lost \cup Range(encoding[1].records) /\ disk' = disk
  BY <1>1 DEF Encoded, EncodeFailed
<1>6. QED
  BY <1>4, <1>5, FailedDrops

LEMMA LineSteps ==
    ASSUME TypeOK, Emptied, PathInv, NoOverwrite, [Next]_vars
    PROVE  \/ Quiet \/ (\E m \in Markets, batch \in Batches : records(m, batch)) \/ Crash
           \/ (\E s : Published(s)) \/ \E D : Dropped(D)
<1>1. CASE Encoded \/ EncodeFailed
  BY <1>1, WrittenLeaves
<1>2. CASE EncoderPanics
  BY <1>2, PanicDropped
<1>3. CASE \E m \in Markets : Stop(m)
  BY <1>3, StopDropped
<1>4. QED
  BY <1>1, <1>2, <1>3 DEF Quiet

-----------------------------------------------------------------------------
(* Every accepted row is in one place.                                     *)

\* What leaves a line was in its memory.
LEMMA LeftMemory ==
    ASSUME TypeOK', NEW m \in Markets, NEW t \in Tables, NEW d, Leaves(m, t, d), NEW r \in Range(d)
    PROVE  r \in Range(InMemory(m, t))
<1>1. PICK b \in Seq(Records) : b = InMemory(m, t)'
  BY StagesTypedNext, Zenon
<1>2. d \in Seq(Records) /\ InMemory(m, t) = d \o b
  BY <1>1 DEF Leaves
<1>3. Range(d \o b) = Range(d) \cup Range(b)
  BY <1>2, RangeOfBoth
<1>4. QED
  BY <1>2, <1>3

LEMMA DroppedRows ==
    ASSUME TypeOK, TypeOK', RowsInv, NEW D, Dropped(D) PROVE RowsInv'
<1>1. \A r : OnDisk(r)' <=> OnDisk(r)
  BY DEF Dropped, OnDisk
<1>2. ASSUME NEW m \in Markets, NEW t \in Tables, NEW r \in Range(D[<<m, t>>]) PROVE ~OnDisk(r)
  <2>1. r \in Range(InMemory(m, t))
    BY LeftMemory DEF Dropped
  <2>2. QED
    BY <2>1 DEF RowsInv, LineKept, InLine
<1>3. \A r \in Records : ~(OnDisk(r)' /\ r \in lost')
  BY <1>1, <1>2 DEF Dropped, RowsInv
<1>4. \A r \in Records : OnDisk(r)' \/ r \in lost' <=>
        OnDisk(r) \/ r \in lost \/ \E m \in Markets, t \in Tables : r \in Range(D[<<m, t>>])
  BY <1>1 DEF Dropped
<1>5. accepted' = accepted /\ \A m \in Markets, t \in Tables : Leaves(m, t, D[<<m, t>>])
  BY DEF Dropped
<1>6. QED
  BY <1>3, <1>4, <1>5, RowsLeave

LEMMA PublishedRows ==
    ASSUME TypeOK, TypeOK', RowsInv, NEW s, Published(s) PROVE RowsInv'
<1>1. PICK D : D = [l \in Lines |-> JobRows(s, l[1], l[2])]
  OBVIOUS
<1>2. ASSUME NEW m \in Markets, NEW t \in Tables
      PROVE  D[<<m, t>>] = JobRows(s, m, t) /\ Leaves(m, t, D[<<m, t>>])
  BY <1>1 DEF Lines, Published
<1>3. s.market \in Markets /\ s.table \in Tables
  BY DEF Published, Job
<1>4. ASSUME NEW r
      PROVE  r \in Range(s.records) <=> \E m \in Markets, t \in Tables : r \in Range(D[<<m, t>>])
  BY <1>2, <1>3, RangeOfEmpty DEF JobRows
<1>5. \A r : OnDisk(r)' <=> OnDisk(r) \/ r \in Range(s.records)
  BY DEF Published, OnDisk
<1>6. ASSUME NEW r \in Range(s.records) PROVE r \notin lost
  <2>1. PICK m \in Markets, t \in Tables : r \in Range(D[<<m, t>>])
    BY <1>4
  <2>2. r \in Range(InMemory(m, t))
    BY <1>2, <2>1, LeftMemory
  <2>3. QED
    BY <2>2 DEF RowsInv, LineKept, InLine
<1>7. \A r \in Records : ~(OnDisk(r)' /\ r \in lost')
  BY <1>5, <1>6 DEF Published, RowsInv
<1>8. \A r \in Records : OnDisk(r)' \/ r \in lost' <=>
        OnDisk(r) \/ r \in lost \/ \E m \in Markets, t \in Tables : r \in Range(D[<<m, t>>])
  BY <1>4, <1>5 DEF Published
<1>9. accepted' = accepted
  BY DEF Published
<1>10. QED
  BY <1>2, <1>7, <1>8, <1>9, RowsLeave

LEMMA RowsStep ==
    ASSUME TypeOK, TypeOK', Emptied, PathInv, NoOverwrite, RowsInv, [Next]_vars PROVE RowsInv'
<1>1. CASE Quiet
  <2>1. UNCHANGED <<disk, lost, accepted>>
    BY <1>1, QuietFrame
  <2>2. ASSUME NEW m \in Markets, NEW t \in Tables PROVE InMemory(m, t)' = InMemory(m, t)
    BY <1>1, QuietKeeps DEF LineSame
  <2>3. /\ Accepted' = Accepted /\ \A r \in Accepted : MarketOf[r] \in Markets /\ TableOf[r] \in Tables
        /\ \A r : OnDisk(r)' <=> OnDisk(r)
    BY <2>1, RangeType, RecordAssumption DEF Accepted, TypeOK, InputTypes, OnDisk
  <2>4. ASSUME NEW m \in Markets, NEW t \in Tables PROVE LineKept(m, t)'
    <3>1. LineKept(m, t)
      BY DEF RowsInv
    <3>2. QED
      BY <2>1, <2>2, <2>3, <3>1 DEF LineKept, InLine
  <2>5. ASSUME NEW r \in Accepted PROVE Remembered(r)'
    <3>1. Remembered(r)
      BY DEF RowsInv
    <3>2. InMemory(MarketOf[r], TableOf[r])' = InMemory(MarketOf[r], TableOf[r])
      BY <2>2, <2>3
    <3>3. QED
      BY <2>1, <2>3, <3>1, <3>2 DEF Remembered
  <2>6. QED
    BY <2>1, <2>3, <2>4, <2>5 DEF RowsInv
<1>2. QED
  BY <1>1, LineSteps, RowsEnter, RowsCrash, PublishedRows, DroppedRows

-----------------------------------------------------------------------------
(* The refinement.                                                         *)

\* Taking the front off a concatenation.
Fronted(a, b) ==
    /\ SubSeq(a \o b, Len(a) + 1, Len(a \o b)) = b
    /\ SubSeq(a \o b, 1, Len(a)) = a
    /\ Len(a) \in 0..Len(a \o b)
    /\ {(a \o b)[i] : i \in 1..Len(a)} = Range(a)
LEMMA FrontTaken == ASSUME NEW T, NEW a \in Seq(T), NEW b \in Seq(T) PROVE Fronted(a, b)
<1>1. a \o b \in Seq(T) /\ Len(a \o b) = Len(a) + Len(b) /\ Len(a) \in Nat /\ Len(b) \in Nat
  OBVIOUS
<1>2. \A i \in 1..Len(a) : (a \o b)[i] = a[i]
  OBVIOUS
<1>3. SubSeq(a \o b, Len(a) + 1, Len(a \o b)) = b
  OBVIOUS
<1>4. SubSeq(a \o b, 1, Len(a)) = a
  OBVIOUS
<1>5. {(a \o b)[i] : i \in 1..Len(a)} = Range(a)
  BY <1>2 DEF Range
<1>6. QED
  BY <1>1, <1>3, <1>4, <1>5 DEF Fronted

LEMMA FlattenSame == ASSUME NEW s PROVE AbstractLog!FlattenSeq(s) = FlattenSeq(s)
  BY DEF AbstractLog!FlattenSeq, FlattenSeq
LEMMA RangeSame == ASSUME NEW s PROVE AbstractLog!Range(s) = Range(s)
  BY DEF AbstractLog!Range, Range

Behind(segments, s) == {u \in segments : u.sequence < s.sequence}

\* A segment newer than all the others of its table is its last file.
LEMMA NewestFile ==
    ASSUME NEW S \in SUBSET Job, IsFiniteSet(S), NEW x \in Job, \A s \in S : s.sequence < x.sequence
    PROVE  FilesOf(S \cup {x}) = Append(FilesOf(S), x.records)
<1>a. PICK N : N = Cardinality(S)
  OBVIOUS
<1>b. \A Q, n : Nth(Q, n) = {s \in Q : Cardinality(Behind(Q, s)) = n - 1}
  BY DEF Nth, Behind
<1>0. \A s \in S \cup {x} : s.sequence \in Nat
  BY DEF Job
<1>1. N \in Nat /\ x \notin S /\ Cardinality(S \cup {x}) = N + 1
  <2>1. x \notin S
    BY <1>0
  <2>2. QED
    BY <1>a, <2>1, FS_AddElement, FS_CardinalityType
<1>2. Behind(S \cup {x}, x) = S
  BY <1>0 DEF Behind
<1>3. ASSUME NEW s \in S
      PROVE  /\ Behind(S \cup {x}, s) = Behind(S, s)
             /\ Cardinality(Behind(S, s)) \in Nat /\ Cardinality(Behind(S, s)) < N
  <2>1. Behind(S \cup {x}, s) = Behind(S, s)
    BY <1>0 DEF Behind
  <2>2. Behind(S, s) \subseteq S \ {s}
    BY <1>0 DEF Behind
  <2>3. IsFiniteSet(S \ {s}) /\ Cardinality(S \ {s}) = N - 1
    BY <1>a, FS_RemoveElement
  <2>4. IsFiniteSet(Behind(S, s)) /\ Cardinality(Behind(S, s)) <= N - 1
    BY <2>2, <2>3, FS_Subset
  <2>5. Cardinality(Behind(S, s)) \in Nat
    BY <2>4, FS_CardinalityType
  <2>6. QED
    BY <1>1, <2>1, <2>4, <2>5
<1>4. ASSUME NEW n \in 1..N PROVE Nth(S \cup {x}, n) = Nth(S, n)
  <2>1. Cardinality(Behind(S \cup {x}, x)) # n - 1
    BY <1>a, <1>1, <1>2
  <2>2. \A s \in S : Cardinality(Behind(S \cup {x}, s)) = Cardinality(Behind(S, s))
    BY <1>3
  <2>3. QED
    BY <1>b, <2>1, <2>2
<1>5. Nth(S \cup {x}, N + 1) = {x}
  <2>1. Cardinality(Behind(S \cup {x}, x)) = (N + 1) - 1
    BY <1>a, <1>1, <1>2
  <2>2. ASSUME NEW s \in S PROVE Cardinality(Behind(S \cup {x}, s)) # (N + 1) - 1
    BY <1>1, <1>3
  <2>3. Nth(S \cup {x}, N + 1) = {s \in S \cup {x} : Cardinality(Behind(S \cup {x}, s)) = (N + 1) - 1}
    BY DEF Nth, Behind
  <2>4. \A s \in S \cup {x} : Cardinality(Behind(S \cup {x}, s)) = (N + 1) - 1 <=> s = x
    BY <1>1, <2>1, <2>2
  <2>5. QED
    BY <2>3, <2>4
<1>6. The({x}) = x
  BY DEF The
<1>7. PICK g : g = [n \in 1..N |-> The(Nth(S, n)).records]
  OBVIOUS
<1>8. g = FilesOf(S)
  BY <1>a, <1>7, Zenon DEF FilesOf
<1>9. PICK h : h = [n \in 1..N + 1 |-> The(Nth(S \cup {x}, n)).records]
  OBVIOUS
<1>10. h = FilesOf(S \cup {x})
  BY <1>1, <1>9, Zenon DEF FilesOf
<1>11. ASSUME NEW n \in 1..N PROVE h[n] = g[n]
  <2>1. n \in 1..N + 1
    BY <1>1
  <2>2. h[n] = The(Nth(S \cup {x}, n)).records
    BY <1>9, <2>1
  <2>3. g[n] = The(Nth(S, n)).records
    BY <1>7
  <2>4. QED
    BY <1>4, <2>2, <2>3, Zenon
<1>12. h[N + 1] = x.records
  <2>1. N + 1 \in 1..N + 1
    BY <1>1
  <2>2. h[N + 1] = The(Nth(S \cup {x}, N + 1)).records
    BY <1>9, <2>1
  <2>3. QED
    BY <1>5, <1>6, <2>2, Zenon
<1>13. PICK T : T = {g[n] : n \in 1..N} \cup {x.records}
  OBVIOUS
<1>14. g \in Seq(T) /\ Len(g) = N
  BY <1>1, <1>7, <1>13
<1>15. h = Append(g, x.records)
  <2>1. x.records \in T /\ Append(g, x.records) \in Seq(T) /\ Len(Append(g, x.records)) = N + 1
    BY <1>1, <1>13, <1>14
  <2>2. ASSUME NEW n \in 1..N + 1 PROVE h[n] = Append(g, x.records)[n]
    BY <1>1, <1>11, <1>12, <1>14, <2>1
  <2>3. h \in Seq(T) /\ Len(h) = N + 1
    <3>1. \A n \in 1..N + 1 : h[n] \in T
      BY <1>1, <1>11, <1>12, <1>13
    <3>2. h \in [1..N + 1 -> T]
      BY <1>9, <3>1
    <3>3. QED
      BY <1>1, <3>2
  <2>4. QED
    BY <1>1, <2>1, <2>2, <2>3
<1>16. QED
  BY <1>8, <1>10, <1>15

LEMMA NoFiles == FilesOf({}) = <<>>
  BY FS_EmptySet DEF FilesOf

\* Two functions on the lines that agree on every table of every market.
OnLines(f) == f = [l \in Lines |-> f[l]]
LEMMA SameLines ==
    ASSUME NEW f, NEW g, OnLines(f), OnLines(g), \A m \in Markets, t \in Tables : f[<<m, t>>] = g[<<m, t>>]
    PROVE  f = g
<1>1. ASSUME NEW l \in Lines PROVE f[l] = g[l]
  <2>1. PICK m \in Markets, t \in Tables : l = <<m, t>>
    BY DEF Lines
  <2>2. QED
    BY <2>1
<1>2. [l \in Lines |-> f[l]] = [l \in Lines |-> g[l]]
  BY <1>1
<1>3. QED
  BY <1>2 DEF OnLines

LEMMA LogOnLines ==
    /\ OnLines(Log) /\ OnLines(Log') /\ OnLines(Files) /\ OnLines(Files')
    /\ \A m \in Markets, t \in Tables :
          /\ Log[<<m, t>>] = InMemory(m, t) /\ Log'[<<m, t>>] = InMemory(m, t)'
          /\ Files[<<m, t>>] = FilesOf(Segments(m, t)) /\ Files'[<<m, t>>] = FilesOf(Segments(m, t)')
<1>1. OnLines(Log) /\ OnLines(Log') /\ OnLines(Files) /\ OnLines(Files')
  BY DEF OnLines, Log, Files
<1>2. ASSUME NEW m \in Markets, NEW t \in Tables
      PROVE  /\ Log[<<m, t>>] = InMemory(m, t) /\ Log'[<<m, t>>] = InMemory(m, t)'
             /\ Files[<<m, t>>] = FilesOf(Segments(m, t)) /\ Files'[<<m, t>>] = FilesOf(Segments(m, t)')
  BY DEF Lines, Log, Files
<1>3. QED
  BY <1>1, <1>2

LEMMA LineFiles ==
    ASSUME disk' = disk PROVE Files' = Files
<1>1. \A m \in Markets, t \in Tables : Segments(m, t)' = Segments(m, t)
  BY DEF Segments
<1>2. \A m \in Markets, t \in Tables : Files'[<<m, t>>] = Files[<<m, t>>]
  BY <1>1, LogOnLines
<1>3. QED
  BY <1>2, LogOnLines, SameLines

LEMMA QuietStutters ==
    ASSUME TypeOK, Emptied, [Next]_vars, Quiet PROVE UNCHANGED AbstractLog!vars
<1>1. UNCHANGED <<disk, lost, accepted>>
  BY QuietFrame
<1>2. \A m \in Markets, t \in Tables : Log'[<<m, t>>] = Log[<<m, t>>]
  BY QuietKeeps, LogOnLines DEF LineSame
<1>3. Log' = Log
  BY <1>2, LogOnLines, SameLines
<1>4. Files' = Files
  BY <1>1, LineFiles
<1>5. Accepted' = Accepted
  BY <1>1 DEF Accepted
<1>6. QED
  BY <1>1, <1>3, <1>4, <1>5 DEF AbstractLog!vars

LEMMA InitMaps == Init => AbstractLog!Init
<1> SUFFICES ASSUME Init PROVE AbstractLog!Init
  OBVIOUS
<1>1. Accepted = {} /\ lost = {} /\ disk = {}
  BY RangeOfEmpty DEF Init, Accepted
<1>2. ASSUME NEW m \in Markets, NEW t \in Tables PROVE InMemory(m, t) = <<>> /\ FilesOf(Segments(m, t)) = <<>>
  <2>1. Encoding(<<>>, m, t) = <<>> /\ Queued(<<>>, m, t) = <<>> /\ Waiting(<<>>) = <<>> /\ OfTable(<<>>, t) = <<>>
    BY StageEmpty, Zenon
  <2>2. encoding = <<>> /\ jobs = <<>> /\ tables[m][t] = <<>> /\ command[m] = Tick /\ queue[m] = <<>>
    BY DEF Init
  <2>3. Rows(Tick) = <<>>
    BY DEF Rows, Tick
  <2>4. InMemory(m, t) = Five(<<>>, <<>>, <<>>, <<>>, <<>>)
    BY <2>1, <2>2, <2>3, Zenon DEF InMemory, Five
  <2>5. Segments(m, t) = {}
    BY <1>1 DEF Segments
  <2>6. QED
    BY <2>4, <2>5, FiveEmpty, NoFiles
<1>3. PICK e : e = [l \in Lines |-> <<>>]
  OBVIOUS
<1>4. OnLines(e) /\ \A m \in Markets, t \in Tables : e[<<m, t>>] = <<>>
  BY <1>3 DEF OnLines, Lines
<1>5. Log = e
  <2>1. \A m \in Markets, t \in Tables : Log[<<m, t>>] = e[<<m, t>>]
    BY <1>2, <1>4, LogOnLines
  <2>2. QED
    BY <1>4, <2>1, LogOnLines, SameLines
<1>6. Files = e
  <2>1. \A m \in Markets, t \in Tables : Files[<<m, t>>] = e[<<m, t>>]
    BY <1>2, <1>4, LogOnLines
  <2>2. QED
    BY <1>4, <2>1, LogOnLines, SameLines
<1>7. QED
  BY <1>1, <1>3, <1>5, <1>6 DEF AbstractLog!Init

LEMMA EmptyRange == ASSUME NEW T, NEW s \in Seq(T), Range(s) = {} PROVE s = <<>>
<1>1. SUFFICES ASSUME Len(s) # 0 PROVE FALSE
  BY LengthZero
<1>2. 1 \in DOMAIN s
  BY <1>1
<1>3. QED
  BY <1>2 DEF Range

\* An accepted batch.
LEMMA BatchOnLine ==
    ASSUME NEW m \in Markets, NEW batch \in Seq(Records), \A r \in Range(batch) : MarketOf[r] = m,
           NEW k \in Markets, NEW t \in Tables
    PROVE  AbstractLog!OnLine(batch, <<k, t>>) = IF k = m THEN OfTable(batch, t) ELSE <<>>
<1>1. ASSUME NEW i \in DOMAIN batch PROVE batch[i] \in Records /\ MarketOf[batch[i]] = m
  BY DEF Range
<1>2. PICK g : g = [i \in DOMAIN batch |->
                       IF <<MarketOf[batch[i]], TableOf[batch[i]]>> = <<k, t>> THEN <<batch[i]>> ELSE <<>>]
  OBVIOUS
<1>3. PICK h : h = [i \in DOMAIN batch |->
                       IF [r \in Records |-> <<MarketOf[r], TableOf[r]>>][batch[i]] = <<k, t>>
                       THEN <<batch[i]>> ELSE <<>>]
  OBVIOUS
<1>4. h = g
  BY <1>1, <1>2, <1>3
<1>5. AbstractLog!OnLine(batch, <<k, t>>) = FlattenSeq(h)
  BY <1>3, FlattenSame, Zenon DEF AbstractLog!OnLine
<1>6. CASE k = m
  <2>1. g = [i \in DOMAIN batch |-> IF TableOf[batch[i]] = t THEN <<batch[i]>> ELSE <<>>]
    BY <1>1, <1>2, <1>6
  <2>2. FlattenSeq(g) = OfTable(batch, t)
    BY <2>1, Zenon DEF OfTable
  <2>3. QED
    BY <1>4, <1>5, <1>6, <2>2
<1>7. CASE k # m
  <2>1. PICK F : F = [r \in Records |-> <<>>]
    OBVIOUS
  <2>2. F \in [Records -> Seq(Records)]
    BY <2>1
  <2>3. g = [i \in DOMAIN batch |-> F[batch[i]]]
    BY <1>1, <1>2, <1>7, <2>1
  <2>4. FlattenSeq(g) = FlatMap(F, batch)
    BY <2>3 DEF FlatMap, Mapped
  <2>5. FlatMap(F, batch) \in Seq(Records) /\ Gathers(F, batch)
    BY <2>2, FlatMapType, FlatMapRange
  <2>6. ASSUME NEW r PROVE r \notin Range(FlatMap(F, batch))
    BY <2>1, <2>5, RangeOfEmpty DEF Gathers, Yields
  <2>7. FlatMap(F, batch) = <<>>
    BY <2>5, <2>6, EmptyRange
  <2>8. QED
    BY <1>4, <1>5, <1>7, <2>4, <2>7
<1>8. QED
  BY <1>6, <1>7

LEMMA AcceptMaps ==
    ASSUME TypeOK, NEW m \in Markets, NEW batch \in Batches, records(m, batch)
    PROVE  AbstractLog!Next
<1>1. /\ Accepted' = Accepted \cup Range(batch) /\ UNCHANGED <<disk, lost>> /\ batch \in Seq(Records)
      /\ Range(batch) \cap Accepted = {} /\ \A r \in Range(batch) : MarketOf[r] = m
      /\ \A i, j \in DOMAIN batch : batch[i] = batch[j] => i = j
  BY AcceptedBatch, BatchType DEF records, encoder
<1>2. PICK A : A = [l \in Lines |-> Log[l] \o AbstractLog!OnLine(batch, l)]
  OBVIOUS
<1>3. Log' = A
  <2>1. OnLines(A) /\ \A k \in Markets, t \in Tables :
             A[<<k, t>>] = Log[<<k, t>>] \o AbstractLog!OnLine(batch, <<k, t>>)
    BY <1>2 DEF OnLines, Lines
  <2>2. ASSUME NEW k \in Markets, NEW t \in Tables PROVE Log'[<<k, t>>] = A[<<k, t>>]
    <3>1. InMemory(k, t)' = InMemory(k, t) \o (IF k = m THEN OfTable(batch, t) ELSE <<>>)
      BY AcceptAppends
    <3>2. AbstractLog!OnLine(batch, <<k, t>>) = IF k = m THEN OfTable(batch, t) ELSE <<>>
      BY <1>1, BatchOnLine
    <3>3. Log[<<k, t>>] = InMemory(k, t) /\ Log'[<<k, t>>] = InMemory(k, t)'
      BY LogOnLines
    <3>4. QED
      BY <2>1, <3>1, <3>2, <3>3
  <2>3. QED
    BY <2>1, <2>2, LogOnLines, SameLines
<1>4. Files' = Files
  BY <1>1, LineFiles
<1>5. AbstractLog!Range(batch) = Range(batch)
  BY RangeSame
<1>6. AbstractLog!Accept(batch)
  BY <1>1, <1>2, <1>3, <1>4, <1>5 DEF AbstractLog!Accept
<1>7. \E k \in 1..MaxBatch : batch \in [1..k -> Records]
  BY DEF Batches
<1>8. QED
  BY <1>6, <1>7 DEF AbstractLog!Next

\* Dropped rows: they are the oldest of their lines.
LEMMA DropMaps ==
    ASSUME TypeOK, TypeOK', RowsInv, NEW D, Dropped(D)
    PROVE  [AbstractLog!Next]_AbstractLog!vars
<1>1. ASSUME NEW m \in Markets, NEW t \in Tables
      PROVE  /\ D[<<m, t>>] \in Seq(Records) /\ Log'[<<m, t>>] \in Seq(Records)
             /\ Log[<<m, t>>] = D[<<m, t>>] \o Log'[<<m, t>>]
  BY LogOnLines, StagesTypedNext DEF Dropped, Leaves
<1>2. PICK A : A = Log
  OBVIOUS
<1>3. PICK B : B = Log'
  OBVIOUS
<1>4. ASSUME NEW l \in Lines
      PROVE  /\ D[l] \in Seq(Records) /\ B[l] \in Seq(Records) /\ A[l] = D[l] \o B[l]
             /\ SubSeq(A[l], Len(D[l]) + 1, Len(A[l])) = B[l] /\ Len(D[l]) \in 0..Len(A[l])
             /\ {A[l][i] : i \in 1..Len(D[l])} = Range(D[l])
  <2>1. PICK m \in Markets, t \in Tables : l = <<m, t>>
    BY DEF Lines
  <2>2. D[l] \in Seq(Records) /\ B[l] \in Seq(Records) /\ A[l] = D[l] \o B[l]
    BY <1>1, <1>2, <1>3, <2>1
  <2>3. PICK a \in Seq(Records), b \in Seq(Records) : a = D[l] /\ b = B[l]
    BY <2>2, Zenon
  <2>4. A[l] = a \o b
    BY <2>2, <2>3
  <2>5. Fronted(a, b)
    BY FrontTaken, Zenon
  <2>6. QED
    BY <2>2, <2>3, <2>4, <2>5, Zenon DEF Fronted
<1>5. PICK cut : cut = [l \in Lines |-> Len(D[l])]
  OBVIOUS
<1>6. cut \in AbstractLog!Cuts
  <2>1. \A l \in Lines : cut[l] = Len(D[l]) /\ cut[l] \in 0..Len(A[l])
    BY <1>4, <1>5
  <2>2. cut \in [Lines -> UNION {0..Len(A[l]) : l \in Lines}] /\ \A l \in Lines : cut[l] <= Len(A[l])
    BY <1>5, <2>1
  <2>3. QED
    BY <1>2, <2>2 DEF AbstractLog!Cuts
<1>7. Log' = AbstractLog!Without(cut)
  <2>1. PICK W : W = [l \in Lines |-> SubSeq(A[l], cut[l] + 1, Len(A[l]))]
    OBVIOUS
  <2>2. \A l \in Lines : W[l] = B[l]
    BY <1>4, <1>5, <2>1
  <2>3. OnLines(W) /\ OnLines(B)
    BY <1>3, <2>1, LogOnLines DEF OnLines
  <2>4. W = B
    BY <2>2, <2>3, SameLines DEF Lines
  <2>5. QED
    BY <1>2, <1>3, <2>1, <2>4, Zenon DEF AbstractLog!Without
<1>8. AbstractLog!Oldest(cut) = UNION {Range(D[l]) : l \in Lines}
  <2>1. \A l \in Lines : {A[l][i] : i \in 1..cut[l]} = Range(D[l])
    BY <1>4, <1>5
  <2>2. AbstractLog!Oldest(cut) = UNION {{A[l][i] : i \in 1..cut[l]} : l \in Lines}
    BY <1>2 DEF AbstractLog!Oldest
  <2>3. {{A[l][i] : i \in 1..cut[l]} : l \in Lines} = {Range(D[l]) : l \in Lines}
    BY <2>1
  <2>4. QED
    BY <2>2, <2>3
<1>9. lost' = lost \cup AbstractLog!Oldest(cut)
  <2>1. lost \subseteq Records /\ lost' \subseteq Records
    BY DEF TypeOK, CallTypes
  <2>2. \A l \in Lines : Range(D[l]) \subseteq Records
    BY <1>4, RangeType
  <2>3. ASSUME NEW r
        PROVE  r \in UNION {Range(D[l]) : l \in Lines} <=> \E m \in Markets, t \in Tables : r \in Range(D[<<m, t>>])
    <3>1. r \in UNION {Range(D[l]) : l \in Lines} <=> \E l \in Lines : r \in Range(D[l])
      OBVIOUS
    <3>2. ASSUME NEW l \in Lines PROVE \E m \in Markets, t \in Tables : l = <<m, t>>
      BY DEF Lines
    <3>3. ASSUME NEW m \in Markets, NEW t \in Tables PROVE <<m, t>> \in Lines
      BY DEF Lines
    <3>4. QED
      BY <3>1, <3>2, <3>3, Zenon
  <2>4. QED
    BY <1>8, <2>1, <2>2, <2>3 DEF Dropped
<1>10. Accepted' = Accepted /\ Files' = Files
  BY LineFiles DEF Dropped, Accepted
<1>11. CASE lost' # lost
  BY <1>6, <1>7, <1>9, <1>10, <1>11 DEF AbstractLog!Lose, AbstractLog!Next
<1>12. CASE lost' = lost
  <2>1. ASSUME NEW m \in Markets, NEW t \in Tables PROVE Log'[<<m, t>>] = Log[<<m, t>>]
    <3>1. ASSUME NEW r \in Range(D[<<m, t>>]) PROVE FALSE
      <4>1. r \in Range(InMemory(m, t))
        BY LeftMemory DEF Dropped
      <4>2. r \in Records /\ r \notin lost
        BY <4>1, RangeType, <1>1 DEF RowsInv, LineKept, InLine
      <4>3. QED
        BY <1>12, <4>2 DEF Dropped
    <3>2. D[<<m, t>>] = <<>>
      <4>1. D[<<m, t>>] \in Seq(Records)
        BY <1>1
      <4>2. QED
        BY <3>1, <4>1, EmptyRange
    <3>3. <<>> \o Log'[<<m, t>>] = Log'[<<m, t>>]
      BY <1>1, ConcatEmpty
    <3>4. QED
      BY <1>1, <3>2, <3>3
  <2>2. Log' = Log
    BY <2>1, LogOnLines, SameLines
  <2>3. QED
    BY <1>10, <1>12, <2>2 DEF AbstractLog!vars
<1>13. QED
  BY <1>11, <1>12

\* The encoder's segment is the front of its line, and no other line has rows in it.
LEMMA SegmentFirst ==
    ASSUME TypeOK, NEW s \in Job, encoding = <<s>>
    PROVE  \E b \in Seq(Records) : InMemory(s.market, s.table) = s.records \o b
<1>0. s.market \in Markets /\ s.table \in Tables /\ s.records \in Seq(Records)
  BY DEF Job
<1>1. PICK m \in Markets, t \in Tables : m = s.market /\ t = s.table
  BY <1>0
<1>2. StagesTyped(m, t)
  BY StageParts
<1>3. Encoding(encoding, m, t) = s.records
  BY <1>1, EncodingOne DEF JobRows
<1>4. FiveMoves(Encoding(encoding, m, t), Queued(jobs, m, t), tables[m][t], OfTable(Rows(command[m]), t),
                OfTable(Waiting(queue[m]), t))
  BY <1>2, FiveSteps, Zenon DEF StagesTyped
<1>5. InMemory(m, t) = s.records \o Five(<<>>, Queued(jobs, m, t), tables[m][t], OfTable(Rows(command[m]), t),
                                         OfTable(Waiting(queue[m]), t))
  BY <1>3, <1>4, Zenon DEF FiveMoves, IsShorter, InMemory, Five
<1>6. Five(<<>>, Queued(jobs, m, t), tables[m][t], OfTable(Rows(command[m]), t),
           OfTable(Waiting(queue[m]), t)) \in Seq(Records)
  BY <1>2, FiveType, EmptySequences, Zenon DEF StagesTyped
<1>7. QED
  BY <1>1, <1>5, <1>6

\* A segment with rows becomes the newest file of its line.
LEMMA NewFile ==
    ASSUME TypeOK, PathInv, SequenceInv, NEW s \in Job, encoding = <<s>>, disk' = disk \cup {s}
    PROVE  /\ Len(s.records) \in 1..Len(Log[<<s.market, s.table>>])
           /\ SubSeq(Log[<<s.market, s.table>>], 1, Len(s.records)) = s.records
           /\ {Log[<<s.market, s.table>>][i] : i \in 1..Len(s.records)} = Range(s.records)
           /\ Files' = AbstractLog!WithFile(<<s.market, s.table>>, Len(s.records))
<1>0. s.market \in Markets /\ s.table \in Tables /\ s.records \in Seq(Records)
  BY DEF Job
<1>1. PICK b \in Seq(Records) : InMemory(s.market, s.table) = s.records \o b
  BY SegmentFirst
<1>2. PICK m \in Markets, t \in Tables, a \in Seq(Records) : m = s.market /\ t = s.table /\ a = s.records
  BY <1>0
<1>3. Log[<<m, t>>] = a \o b
  BY <1>1, <1>2, LogOnLines
<1>4. /\ SubSeq(a \o b, 1, Len(a)) = a
      /\ Len(a) \in 0..Len(a \o b)
      /\ {(a \o b)[i] : i \in 1..Len(a)} = Range(a)
  <2>1. Fronted(a, b)
    BY FrontTaken, Zenon
  <2>2. QED
    BY <2>1, Zenon DEF Fronted
<1>5. Len(a) # 0
  <2>1. encoding[1].records # <<>> /\ encoding[1] = s
    BY DEF PathInv, JobsFull
  <2>2. QED
    BY <1>2, <2>1, LengthZero
<1>6. PICK W : W = [Files EXCEPT ![<<m, t>>] = Append(@, a)]
  OBVIOUS
<1>7. OnLines(W)
  BY <1>6, LogOnLines DEF OnLines
<1>8. W[<<m, t>>] = Append(Files[<<m, t>>], a)
  <2>1. <<m, t>> \in DOMAIN Files
    BY DEF Files, Lines
  <2>2. QED
    BY <1>6, <2>1
<1>9. ASSUME NEW k \in Markets, NEW u \in Tables, k # m \/ u # t PROVE W[<<k, u>>] = Files[<<k, u>>]
  <2>1. <<k, u>> \in DOMAIN Files /\ <<k, u>> # <<m, t>>
    BY <1>9 DEF Files, Lines
  <2>2. QED
    BY <1>6, <2>1
<1>10. ASSUME NEW k \in Markets, NEW u \in Tables PROVE Files'[<<k, u>>] = W[<<k, u>>]
  <2>1. CASE k # m \/ u # t
    <3>1. Segments(k, u)' = Segments(k, u)
      BY <1>2, <2>1 DEF Segments
    <3>2. QED
      BY <1>9, <2>1, <3>1, LogOnLines
  <2>2. CASE k = m /\ u = t
    <3>1. Segments(m, t)' = Segments(m, t) \cup {s}
      BY <1>2 DEF Segments
    <3>2. IsFiniteSet(Segments(m, t)) /\ Segments(m, t) \in SUBSET Job
      <4>1. Segments(m, t) \in SUBSET disk /\ disk \in SUBSET Job /\ IsFiniteSet(disk)
        BY DEF Segments, TypeOK, EncoderTypes, PathInv
      <4>2. QED
        BY <4>1, FS_Subset
    <3>3. \A v \in Segments(m, t) : v.sequence < s.sequence
      <4>1. s \in Range(encoding)
        BY DEF Range
      <4>2. QED
        BY <1>2, <4>1 DEF Segments, SequenceInv, DiskOlder, Older
    <3>4. FilesOf(Segments(m, t) \cup {s}) = Append(FilesOf(Segments(m, t)), s.records)
      BY <3>2, <3>3, NewestFile
    <3>5. QED
      BY <1>2, <1>8, <2>2, <3>1, <3>4, LogOnLines
  <2>3. QED
    BY <2>1, <2>2
<1>11. Files' = W
  BY <1>7, <1>10, LogOnLines, SameLines
<1>12. W = AbstractLog!WithFile(<<m, t>>, Len(a))
  <2>1. SubSeq(Log[<<m, t>>], 1, Len(a)) = a
    BY <1>3, <1>4
  <2>2. QED
    BY <1>6, <2>1 DEF AbstractLog!WithFile
<1>13. QED
  BY <1>2, <1>3, <1>4, <1>5, <1>11, <1>12

LEMMA PublishMaps ==
    ASSUME TypeOK, TypeOK', PathInv, SequenceInv, NEW s, Published(s)
    PROVE  AbstractLog!Next
<1>0. s \in Job /\ encoding = <<s>> /\ disk' = disk \cup {s} /\ UNCHANGED <<lost, accepted>>
  BY DEF Published
<1>1. s.market \in Markets /\ s.table \in Tables /\ s.records \in Seq(Records)
  BY <1>0 DEF Job
<1>2a. PICK l \in Lines : l = <<s.market, s.table>>
  BY <1>1 DEF Lines
<1>2b. PICK n \in Nat : n = Len(s.records)
  BY <1>1
<1>2. /\ l = <<s.market, s.table>> /\ n = Len(s.records) /\ n \in 1..Len(Log[l])
      /\ Files' = AbstractLog!WithFile(l, n)
  BY <1>0, <1>2a, <1>2b, NewFile
<1>3. PICK W : W = [Log EXCEPT ![l] = SubSeq(@, n + 1, Len(@))]
  OBVIOUS
<1>4. OnLines(W) /\ W[l] = SubSeq(Log[l], n + 1, Len(Log[l]))
  BY <1>3, LogOnLines DEF OnLines
<1>5. ASSUME NEW k \in Markets, NEW t \in Tables PROVE Log'[<<k, t>>] = W[<<k, t>>]
  <2>1. Leaves(k, t, JobRows(s, k, t))
    BY DEF Published
  <2>2. PICK b \in Seq(Records) : b = InMemory(k, t)'
    BY StagesTypedNext, Zenon
  <2>3. InMemory(k, t) = JobRows(s, k, t) \o b
    BY <2>1, <2>2 DEF Leaves
  <2>4. CASE <<k, t>> = l
    <3>1. JobRows(s, k, t) = s.records
      BY <1>2, <2>4 DEF JobRows
    <3>2. SubSeq(s.records \o b, n + 1, Len(s.records \o b)) = b
      <4>1. PICK a \in Seq(Records) : a = s.records
        BY <1>1
      <4>2. Fronted(a, b)
        BY FrontTaken, Zenon
      <4>3. QED
        BY <1>2, <4>1, <4>2, Zenon DEF Fronted
    <3>3. Log[l] = s.records \o b
      BY <2>3, <2>4, <3>1, LogOnLines
    <3>4. QED
      BY <1>4, <2>2, <2>4, <3>2, <3>3, LogOnLines
  <2>5. CASE <<k, t>> # l
    <3>1. JobRows(s, k, t) = <<>>
      BY <1>2, <2>5 DEF JobRows
    <3>2. InMemory(k, t) = b
      BY <2>3, <3>1, ConcatEmpty
    <3>3. <<k, t>> \in Lines /\ W[<<k, t>>] = Log[<<k, t>>]
      BY <1>3, <2>5 DEF Lines, Log
    <3>4. QED
      BY <2>2, <3>2, <3>3, LogOnLines
  <2>6. QED
    BY <2>4, <2>5
<1>6. Log' = W
  BY <1>4, <1>5, LogOnLines, SameLines
<1>7. Accepted' = Accepted
  BY <1>0 DEF Accepted
<1>8. AbstractLog!Publish(l, n)
  BY <1>0, <1>2, <1>3, <1>6, <1>7 DEF AbstractLog!Publish
<1>9. QED
  BY <1>2, <1>8 DEF AbstractLog!Next

\* The process ends.
LEMMA CrashMaps ==
    ASSUME TypeOK, PathInv, SequenceInv, NoOverwrite, RowsInv, Crash
    PROVE  AbstractLog!Next
<1>0. /\ Accepted' = Accepted /\ lost' = Accepted \ RecordsOf(disk') /\ lost \subseteq Records
      /\ \A r \in Accepted : MarketOf[r] \in Markets /\ TableOf[r] \in Tables /\ r \in Records
  BY RangeType, RecordAssumption DEF Crash, Accepted, TypeOK, InputTypes, CallTypes
<1>1. PICK e : e = [l \in Lines |-> <<>>]
  OBVIOUS
<1>2. Log' = e
  <2>1. OnLines(e) /\ \A m \in Markets, t \in Tables : e[<<m, t>>] = <<>>
    BY <1>1 DEF OnLines, Lines
  <2>2. \A m \in Markets, t \in Tables : Log'[<<m, t>>] = e[<<m, t>>]
    BY <2>1, CrashLeaves, LogOnLines
  <2>3. QED
    BY <2>1, <2>2, LogOnLines, SameLines
\* The rows in memory are those that are neither on disk nor dropped.
<1>3. ASSUME NEW r
      PROVE  r \in AbstractLog!Logged <=> r \in Accepted /\ ~OnDisk(r) /\ r \notin lost
  <2>1. r \in AbstractLog!Logged <=> \E l \in Lines : r \in Range(Log[l])
    BY RangeSame DEF AbstractLog!Logged
  <2>2. ASSUME NEW l \in Lines, r \in Range(Log[l]) PROVE r \in Accepted /\ ~OnDisk(r) /\ r \notin lost
    <3>1. PICK m \in Markets, t \in Tables : l = <<m, t>>
      BY DEF Lines
    <3>2. r \in Range(InMemory(m, t))
      BY <2>2, <3>1, LogOnLines
    <3>3. QED
      BY <3>2 DEF RowsInv, LineKept, InLine
  <2>3. ASSUME r \in Accepted, ~OnDisk(r), r \notin lost PROVE \E l \in Lines : r \in Range(Log[l])
    <3>1. r \in Range(InMemory(MarketOf[r], TableOf[r]))
      BY <2>3 DEF RowsInv, Remembered
    <3>2. <<MarketOf[r], TableOf[r]>> \in Lines
      BY <1>0, <2>3 DEF Lines
    <3>3. Log[<<MarketOf[r], TableOf[r]>>] = InMemory(MarketOf[r], TableOf[r])
      BY <1>0, <2>3, LogOnLines
    <3>4. QED
      BY <3>1, <3>2, <3>3
  <2>4. QED
    BY <2>1, <2>2, <2>3
<1>4. \A r : OnDisk(r) <=> r \in RecordsOf(disk)
  BY DEF OnDisk, RecordsOf
<1>5. \A r \in lost : r \in Accepted /\ ~OnDisk(r)
  BY DEF RowsInv
<1>6. CASE disk' = disk
  <2>1. lost' = lost \cup AbstractLog!Logged
    BY <1>0, <1>3, <1>4, <1>5, <1>6
  <2>2. Files' = Files
    BY <1>6, LineFiles
  <2>3. AbstractLog!End
    BY <1>0, <1>1, <1>2, <2>1, <2>2 DEF AbstractLog!End
  <2>4. QED
    BY <2>3 DEF AbstractLog!Next
<1>7. ASSUME NEW s \in Range(encoding), disk' = Publish(s) PROVE AbstractLog!Next
  <2>1. s \in Job /\ encoding = <<s>>
    <3>1. encoding \in Seq(Job) /\ Len(encoding) <= 1
      BY DEF TypeOK, EncoderTypes
    <3>2. PICK i \in 1..Len(encoding) : s = encoding[i]
      BY <3>1, RangeIndex
    <3>3. Len(encoding) = 1 /\ s = encoding[1]
      <4>1. Len(encoding) \in Nat
        BY <3>1
      <4>2. Len(encoding) = 1 /\ i = 1
        BY <3>1, <3>2, <4>1
      <4>3. QED
        BY <3>2, <4>2
    <3>4. QED
      BY <3>1, <3>3
  <2>2. disk' = disk \cup {s}
    BY <1>7 DEF NoOverwrite, Publish
  <2>3. PICK l \in Lines : l = <<s.market, s.table>>
    BY <2>1 DEF Lines, Job
  <2>4. PICK n \in Nat : n = Len(s.records)
    BY <2>1 DEF Job
  <2>5. /\ n \in 1..Len(Log[l])
        /\ {Log[l][i] : i \in 1..n} = Range(s.records)
        /\ Files' = AbstractLog!WithFile(l, n)
    BY <2>1, <2>2, <2>3, <2>4, NewFile
  <2>6. RecordsOf(disk') = RecordsOf(disk) \cup Range(s.records)
    BY <2>2 DEF RecordsOf
  <2>7. ASSUME NEW r \in Range(s.records) PROVE r \notin lost
    <3>1. r \in {Log[l][i] : i \in 1..n}
      BY <2>5
    <3>2. PICK m \in Markets, t \in Tables : l = <<m, t>>
      BY DEF Lines
    <3>3. Log[l] = InMemory(m, t) /\ InMemory(m, t) \in Seq(Records)
      BY <3>2, LogOnLines, StageParts DEF StagesTyped
    <3>4. r \in Range(InMemory(m, t))
      BY <2>5, <3>1, <3>3 DEF Range
    <3>5. QED
      BY <3>4 DEF RowsInv, LineKept, InLine
  <2>8. lost' = lost \cup (AbstractLog!Logged \ {Log[l][i] : i \in 1..n})
    BY <1>0, <1>3, <1>4, <1>5, <2>5, <2>6, <2>7
  <2>9. AbstractLog!End
    BY <1>0, <1>1, <1>2, <2>5, <2>8 DEF AbstractLog!End
  <2>10. QED
    BY <2>9 DEF AbstractLog!Next
<1>8. QED
  BY <1>6, <1>7 DEF Crash

LEMMA StepMaps ==
    ASSUME TypeOK, TypeOK', Emptied, PathInv, SequenceInv, NoOverwrite, RowsInv, [Next]_vars
    PROVE  [AbstractLog!Next]_AbstractLog!vars
  BY LineSteps, QuietStutters, AcceptMaps, CrashMaps, PublishMaps, DropMaps

-----------------------------------------------------------------------------
(* The theorems.                                                           *)

LEMMA SequenceStart == Init => SequenceInv
  BY DEF Init, SequenceInv, JobsCounted, JobsOrdered, WrittenCounted, WrittenOlder, DiskOlder, Range

LEMMA EmptiedStart == Init => Emptied
  BY WaitInit DEF WaitInv

LEMMA PathStart == Init => PathInv
  BY FS_EmptySet DEF Init, PathInv, Visited, JobsFull, Held

LEMMA RowsStart == Init => RowsInv
<1>1. SUFFICES ASSUME Init PROVE RowsInv
  OBVIOUS
<1>2. Accepted = {} /\ lost = {} /\ \A r : ~OnDisk(r)
  BY <1>1, RangeOfEmpty DEF Init, Accepted, OnDisk
<1>3. ASSUME NEW m \in Markets, NEW t \in Tables PROVE LineKept(m, t)
  <2>1. Log = [l \in Lines |-> <<>>]
    BY <1>1, InitMaps DEF AbstractLog!Init
  <2>2. InMemory(m, t) = <<>>
    BY <2>1, LogOnLines DEF Lines
  <2>3. QED
    BY <2>2, DistinctEmpty, RangeOfEmpty DEF LineKept
<1>4. QED
  BY <1>2, <1>3 DEF RowsInv

LinesInv == Emptied /\ PathInv /\ SequenceInv /\ RowsInv
LEMMA LinesStart == Init => LinesInv
  BY SequenceStart, EmptiedStart, PathStart, RowsStart DEF LinesInv
LEMMA LinesStep ==
    TypeOK /\ TypeOK' /\ NoOverwrite /\ LinesInv /\ [Next]_vars
    => LinesInv' /\ [AbstractLog!Next]_AbstractLog!vars
<1>1. SUFFICES ASSUME TypeOK, TypeOK', NoOverwrite, LinesInv, [Next]_vars
               PROVE  LinesInv' /\ [AbstractLog!Next]_AbstractLog!vars
  OBVIOUS
<1>2. Emptied /\ PathInv /\ SequenceInv /\ RowsInv
  BY <1>1 DEF LinesInv
<1>3. Emptied' /\ PathInv' /\ SequenceInv' /\ RowsInv'
  BY <1>1, <1>2, EmptiedStep, PathStep, SequenceStep, RowsStep
<1>4. [AbstractLog!Next]_AbstractLog!vars
  BY <1>1, <1>2, StepMaps
<1>5. QED
  BY <1>3, <1>4 DEF LinesInv

\* A row that was accepted is always in one place: once among the rows in memory of its own
\* table, or in a published segment, or dropped; and nothing else is in any of them.
THEOREM RowsAccountedFor == Spec => []RowsInv
<1>1. Spec => []LinesInv
  BY LinesStart, LinesStep, TypeCorrect, PathsNeverReused, PTL DEF Spec
<1>2. LinesInv => RowsInv
  BY DEF LinesInv
<1>3. QED
  BY <1>1, <1>2, PTL

\* The workers, the encoder and their queues implement one log of rows per table: nothing between
\* Writer::records and the disk loses, duplicates or reorders a row.
THEOREM WriterImplementsLog == Spec => ImplementsLog
<1>1. Spec => AbstractLog!Init /\ [][AbstractLog!Next]_AbstractLog!vars
  BY LinesStart, LinesStep, InitMaps, TypeCorrect, PathsNeverReused, PTL DEF Spec
<1>2. QED
  BY <1>1, PTL DEF ImplementsLog, AbstractLog!Spec

-----------------------------------------------------------------------------
(* The byte counters.                                                      *)

JobSize == [j \in Job |-> j.bytes]
CommandSize == [c \in EncodeCommand |-> IF c.type = "write" THEN c.job.bytes ELSE 0]
MarketBytes == [m \in Markets |-> TableBytes(m)]
\* What the gauge counts: the tables, the segment being written and the jobs before it.
InTablesBytes == Total(MarketBytes)
EncodingBytes(s) == Total(Mapped(JobSize, s))
QueuedBytes(s) == Total(Mapped(CommandSize, s))
Counted ==
    /\ \A m \in Markets : buffered[m] = TableBytes(m)
    /\ gauge = InTablesBytes + EncodingBytes(encoding) + QueuedBytes(jobs)

\* A table without rows counts no bytes, and neither does one the last flush_all has visited.
EmptyCounts(m) ==
    \A t \in Tables : \/ tables[m][t] = <<>>
                      \/ pc[m] = "drain" /\ t \notin todo[m]
                      => bytes[m][t] = 0
BytesInv == (alive => Counted) /\ \A m \in Markets : EmptyCounts(m)

LEMMA SizeTypes == JobSize \in [Job -> Nat] /\ CommandSize \in [EncodeCommand -> Nat]
<1>1. JobSize \in [Job -> Nat]
  BY DEF JobSize, Job
<1>2. ASSUME NEW c \in EncodeCommand PROVE (IF c.type = "write" THEN c.job.bytes ELSE 0) \in Nat
  <2>1. c.type = "write" => c.job.bytes \in Nat
    BY EncodeCommandTypes DEF Job
  <2>2. QED
    BY <2>1
<1>3. QED
  BY <1>1, <1>2 DEF CommandSize

LEMMA CountedAgrees == TypeOK => (CountersAgree <=> (alive => Counted))
<1>1. SUFFICES ASSUME TypeOK PROVE CountersAgree <=> (alive => Counted)
  OBVIOUS
<1>2. encoding \in Seq(Job) /\ jobs \in Seq(EncodeCommand)
  BY <1>1 DEF TypeOK, EncoderTypes
<1>3. [i \in DOMAIN encoding |-> encoding[i].bytes] = Mapped(JobSize, encoding)
  <2>1. \A i \in DOMAIN encoding : JobSize[encoding[i]] = encoding[i].bytes
    BY <1>2 DEF JobSize
  <2>2. QED
    BY <2>1 DEF Mapped
<1>4. [i \in DOMAIN jobs |-> IF jobs[i].type = "write" THEN jobs[i].job.bytes ELSE 0] = Mapped(CommandSize, jobs)
  <2>1. \A i \in DOMAIN jobs : CommandSize[jobs[i]] = IF jobs[i].type = "write" THEN jobs[i].job.bytes ELSE 0
    BY <1>2 DEF CommandSize
  <2>2. QED
    BY <2>1 DEF Mapped
<1>5. Counted <=>
        /\ \A m \in Markets : buffered[m] = TableBytes(m)
        /\ gauge = Total([m \in Markets |-> TableBytes(m)])
                   + Total([i \in DOMAIN encoding |-> encoding[i].bytes])
                   + Total([i \in DOMAIN jobs |->
                        IF jobs[i].type = "write" THEN jobs[i].job.bytes ELSE 0])
  BY <1>3, <1>4, Zenon DEF Counted, InTablesBytes, EncodingBytes, QueuedBytes, MarketBytes
<1>6. QED
  BY <1>5, Zenon DEF CountersAgree, Total

\* What a queue of the encoder holds, when it grows and when it shrinks.
QueuedGrows(s, c) == QueuedBytes(Append(s, c)) = QueuedBytes(s) + CommandSize[c]
QueuedShrinks(s) == QueuedBytes(s) = CommandSize[Head(s)] + QueuedBytes(Tail(s))

LEMMA QueuedBytesType == ASSUME NEW s \in Seq(EncodeCommand) PROVE QueuedBytes(s) \in Nat
<1>1. Mapped(CommandSize, s) \in Seq(Nat)
  BY SizeTypes, MappedType DEF IsMapped
<1>2. QED
  BY <1>1, TotalOfNumbers DEF QueuedBytes

LEMMA QueuedBytesGrow ==
    ASSUME NEW s \in Seq(EncodeCommand), NEW c \in EncodeCommand
    PROVE  QueuedGrows(s, c)
<1>1. Mapped(CommandSize, s) \in Seq(Nat) /\ CommandSize[c] \in Nat
  BY SizeTypes, MappedType DEF IsMapped
<1>2. Mapped(CommandSize, Append(s, c)) = Append(Mapped(CommandSize, s), CommandSize[c])
  BY SizeTypes, MappedAppend
<1>3. QED
  BY <1>1, <1>2, TotalAppend DEF QueuedGrows, QueuedBytes

LEMMA QueuedBytesShrink ==
    ASSUME NEW s \in Seq(EncodeCommand), s # <<>>
    PROVE  QueuedShrinks(s)
<1>1. PICK a : a = Mapped(CommandSize, s)
  OBVIOUS
<1>2. PICK b : b = Mapped(CommandSize, Tail(s))
  OBVIOUS
<1>3. Head(s) \in EncodeCommand /\ Tail(s) \in Seq(EncodeCommand) /\ Len(Tail(s)) = Len(s) - 1
      /\ Len(s) \in Nat \ {0} /\ s[1] = Head(s) /\ \A i \in 1..Len(Tail(s)) : Tail(s)[i] = s[i + 1]
  OBVIOUS
<1>4. a \in Seq(Nat) /\ Len(a) = Len(s) /\ \A i \in 1..Len(s) : a[i] = CommandSize[s[i]]
  <2>1. IsMapped(CommandSize, s, Nat)
    BY SizeTypes, MappedType
  <2>2. QED
    BY <1>1, <2>1 DEF IsMapped
<1>5. b \in Seq(Nat) /\ Len(b) = Len(Tail(s)) /\ \A i \in 1..Len(Tail(s)) : b[i] = CommandSize[Tail(s)[i]]
  <2>1. IsMapped(CommandSize, Tail(s), Nat)
    BY <1>3, SizeTypes, MappedType
  <2>2. QED
    BY <1>2, <2>1 DEF IsMapped
<1>6. Head(a) = CommandSize[Head(s)]
  BY <1>3, <1>4
<1>7. Tail(a) = b
  <2>1. Len(b) = Len(a) - 1 /\ Len(b) \in Nat /\ Len(a) \in Nat \ {0}
    BY <1>3, <1>4, <1>5
  <2>2. \A i \in 1..Len(b) : b[i] = a[i + 1]
    <3>1. ASSUME NEW i \in 1..Len(b) PROVE b[i] = a[i + 1]
      <4>1. i \in 1..Len(Tail(s)) /\ i + 1 \in 1..Len(s)
        BY <1>3, <1>5
      <4>2. b[i] = CommandSize[Tail(s)[i]] /\ Tail(s)[i] = s[i + 1] /\ a[i + 1] = CommandSize[s[i + 1]]
        BY <1>3, <1>4, <1>5, <4>1
      <4>3. QED
        BY <4>2
    <3>2. QED
      BY <3>1
  <2>3. Tail(a) \in Seq(Nat) /\ Len(Tail(a)) = Len(a) - 1 /\ \A i \in 1..Len(Tail(a)) : Tail(a)[i] = a[i + 1]
    BY <1>4, <2>1
  <2>4. PICK d \in Seq(Nat) : d = Tail(a)
    BY <2>3
  <2>5. Len(d) = Len(b) /\ \A i \in 1..Len(d) : d[i] = b[i]
    BY <2>1, <2>2, <2>3, <2>4
  <2>6. d = b
    <3>1. PICK n \in Nat : n = Len(b)
      BY <2>1
    <3>2. d \in [1..n -> Nat] /\ b \in [1..n -> Nat] /\ \A i \in 1..n : d[i] = b[i]
      BY <1>5, <2>5, <3>1
    <3>3. QED
      BY <3>2
  <2>7. QED
    BY <2>4, <2>6
<1>8. a # <<>>
  BY <1>3, <1>4
<1>9. Total(a) = Head(a) + Total(Tail(a))
  BY <1>4, <1>8, TotalTail DEF TotalOfHeadAndTail
<1>10. QED
  BY <1>1, <1>2, <1>6, <1>7, <1>9 DEF QueuedShrinks, QueuedBytes

LEMMA NothingCounted == EncodingBytes(<<>>) = 0 /\ QueuedBytes(<<>>) = 0
<1>1. \A F : Mapped(F, <<>>) = <<>>
  BY DEF Mapped
<1>2. QED
  BY <1>1, TotalEmpty DEF EncodingBytes, QueuedBytes

LEMMA OneCounted == ASSUME NEW j \in Job PROVE EncodingBytes(<<j>>) = j.bytes /\ j.bytes \in Nat
<1>1. <<>> \in Seq(Job) /\ <<>> \in Seq(Nat) /\ Append(<<>>, j) = <<j>> /\ JobSize[j] = j.bytes /\ j.bytes \in Nat
  BY DEF JobSize, Job
<1>2. Mapped(JobSize, <<>>) = <<>>
  BY DEF Mapped
<1>3. Mapped(JobSize, <<j>>) = Append(<<>>, j.bytes)
  <2>1. Mapped(JobSize, Append(<<>>, j)) = Append(Mapped(JobSize, <<>>), JobSize[j])
    BY <1>1, SizeTypes, MappedAppend
  <2>2. QED
    BY <1>1, <1>2, <2>1
<1>4. Total(Append(<<>>, j.bytes)) = 0 + j.bytes
  BY <1>1, TotalAppend, TotalEmpty
<1>5. QED
  BY <1>1, <1>3, <1>4 DEF EncodingBytes

LEMMA MarketsFinite == IsFiniteSet(Markets)
<1>1. Order \in [1..Len(Order) -> Markets] /\ Len(Order) \in Nat
  BY MarketAssumption
<1>2. \A m \in Markets : \E i \in 1..Len(Order) : Order[i] = m
  BY <1>1, MarketAssumption DEF Range
<1>3. Order \in Surjection(1..Len(Order), Markets)
  BY <1>1, <1>2 DEF Surjection
<1>4. QED
  BY <1>1, <1>3, FS_NatSurjection DEF ExistsSurjection

LEMMA TableTotal == \A m \in Markets : TableBytes(m) = Total(bytes[m])
  BY DEF TableBytes, Total
LEMMA TableTotalNext == \A m \in Markets : TableBytes(m)' = Total(bytes'[m])
<1>1. (\A m \in Markets : TableBytes(m) = Total(bytes[m]))'
  BY TableTotal, PTL
<1>2. QED
  BY <1>1

LEMMA BytesTypes ==
    ASSUME TypeOK
    PROVE  /\ \A m \in Markets : bytes[m] \in [Tables -> Nat] /\ TableBytes(m) = Total(bytes[m])
           /\ \A m \in Markets : TableBytes(m) \in Nat
           /\ \A m \in Markets, t \in Tables : bytes[m][t] <= TableBytes(m)
           /\ MarketBytes \in [Markets -> Nat] /\ InTablesBytes \in Nat
<1>1. ASSUME NEW m \in Markets PROVE bytes[m] \in [Tables -> Nat]
  BY DEF TypeOK, BufferTypes
<1>2. \A m \in Markets : TableBytes(m) = Total(bytes[m])
  BY DEF TableBytes, Total
<1>3. \A m \in Markets : TableBytes(m) \in Nat /\ \A t \in Tables : bytes[m][t] <= TableBytes(m)
  BY <1>1, <1>2, TableAssumption, TotalType
<1>4. MarketBytes \in [Markets -> Nat]
  BY <1>3 DEF MarketBytes
<1>5. InTablesBytes \in Nat
  BY <1>4, MarketsFinite, TotalType DEF InTablesBytes
<1>6. QED
  BY <1>1, <1>2, <1>3, <1>4, <1>5

\* When the bytes of one table change, so do its market's and those of all markets.
Changed(m, n) ==
    /\ TableBytes(m)' = TableBytes(m) + n
    /\ \A k \in Markets \ {m} : TableBytes(k)' = TableBytes(k)
    /\ InTablesBytes' = InTablesBytes + n

LEMMA BytesChange ==
    ASSUME TypeOK, TypeOK', NEW m \in Markets, NEW t \in Tables, NEW v \in Nat,
           bytes' = [bytes EXCEPT ![m][t] = v]
    PROVE  Changed(m, v - bytes[m][t])
<1>1. PICK f \in [Tables -> Nat] : f = bytes[m]
  BY BytesTypes
<1>2. PICK e \in [Tables -> Nat] : e = bytes'[m]
  BY DEF TypeOK, BufferTypes
<1>3. bytes \in [Markets -> [Tables -> Nat]]
  BY DEF TypeOK, BufferTypes
<1>4. (\A y \in Tables \ {t} : f[y] = e[y]) /\ e[t] = v /\ f[t] = bytes[m][t]
  BY <1>1, <1>2, <1>3
<1>5. Total(e) = Total(f) - f[t] + e[t]
  BY <1>4, TableAssumption, TotalChanges
<1>6. Total(f) = TableBytes(m) /\ Total(e) = TableBytes(m)'
  <2>1. TableBytes(m) = Total(bytes[m])
    BY DEF TableBytes, Total
  <2>2. TableBytes(m)' = Total(bytes'[m])
    BY TableTotalNext
  <2>3. QED
    BY <1>1, <1>2, <2>1, <2>2
<1>7. \A k \in Markets \ {m} : TableBytes(k)' = TableBytes(k)
  <2>1. \A k \in Markets \ {m} : bytes'[k] = bytes[k]
    BY <1>3
  <2>2. ASSUME NEW k \in Markets \ {m} PROVE TableBytes(k)' = TableBytes(k)
    <3>1. TableBytes(k) = Total(bytes[k])
      BY DEF TableBytes, Total
    <3>2. TableBytes(k)' = Total(bytes'[k])
      BY TableTotalNext
    <3>3. QED
      BY <2>1, <3>1, <3>2
  <2>3. QED
    BY <2>2
<1>8. TableBytes(m) \in Nat /\ TableBytes(m)' \in Nat /\ MarketBytes \in [Markets -> Nat] /\ InTablesBytes \in Nat
  <2>1. Total(f) \in Nat /\ Total(e) \in Nat
    BY TableAssumption, TotalType
  <2>2. QED
    BY <1>6, <2>1, BytesTypes
<1>9. TableBytes(m)' = TableBytes(m) + (v - bytes[m][t])
  BY <1>4, <1>5, <1>6, <1>8
<1>10. InTablesBytes' = InTablesBytes + (v - bytes[m][t])
  <2>1. PICK a : a = MarketBytes
    OBVIOUS
  <2>2. PICK b : b = MarketBytes'
    OBVIOUS
  <2>3. \A k \in Markets : TableBytes(k)' \in Nat
    BY <1>7, <1>8, BytesTypes
  <2>4. a \in [Markets -> Nat] /\ b \in [Markets -> Nat] /\ a[m] = TableBytes(m) /\ b[m] = TableBytes(m)'
        /\ \A k \in Markets \ {m} : a[k] = b[k]
    BY <1>7, <2>1, <2>2, <2>3, <1>8 DEF MarketBytes
  <2>5. Total(b) = Total(a) - a[m] + b[m]
    BY <2>4, MarketsFinite, TotalChanges
  <2>6. Total(a) = InTablesBytes /\ Total(b) = InTablesBytes'
    BY <2>1, <2>2 DEF InTablesBytes
  <2>7. QED
    BY <1>8, <1>9, <2>4, <2>5, <2>6, <1>4
<1>11. QED
  BY <1>7, <1>9, <1>10 DEF Changed

LEMMA BytesZero ==
    ASSUME TypeOK, \A m \in Markets : \A t \in Tables : bytes[m][t] = 0
    PROVE  InTablesBytes = 0 /\ \A m \in Markets : TableBytes(m) = 0
<1>1. ASSUME NEW m \in Markets PROVE TableBytes(m) = 0
  <2>1. TableBytes(m) = Total(bytes[m]) /\ bytes[m] \in [Tables -> Nat]
    BY BytesTypes
  <2>2. QED
    BY <2>1, TableAssumption, TotalZero
<1>2. MarketBytes \in [Markets -> Nat] /\ \A m \in Markets : MarketBytes[m] = 0
  BY <1>1, BytesTypes DEF MarketBytes
<1>3. QED
  BY <1>1, <1>2, MarketsFinite, TotalZero DEF InTablesBytes

LEMMA SameBytes ==
    ASSUME TypeOK, bytes' = bytes
    PROVE  InTablesBytes' = InTablesBytes /\ \A m \in Markets : TableBytes(m)' = TableBytes(m)
<1>1. \A m \in Markets : TableBytes(m)' = TableBytes(m)
  BY TableTotal, TableTotalNext
<1>2. MarketBytes' = MarketBytes
  BY <1>1 DEF MarketBytes
<1>3. QED
  BY <1>1, <1>2 DEF InTablesBytes

LEMMA CountTypes ==
    ASSUME TypeOK
    PROVE  /\ buffered \in [Markets -> Nat] /\ gauge \in Int /\ jobs \in Seq(EncodeCommand)
           /\ encoding = <<>> \/ \E j \in Job : encoding = <<j>>
           /\ EncodingBytes(encoding) \in Nat /\ QueuedBytes(jobs) \in Nat
           /\ InTablesBytes \in Nat /\ \A m \in Markets : TableBytes(m) \in Nat
<1>1. /\ buffered \in [Markets -> Nat] /\ gauge \in Int /\ jobs \in Seq(EncodeCommand)
      /\ encoding \in Seq(Job) /\ Len(encoding) <= 1
  BY DEF TypeOK, BufferTypes, EncoderTypes
<1>2. encoding = <<>> \/ \E j \in Job : encoding = <<j>>
  <2>1. CASE Len(encoding) = 1
    BY <1>1, <2>1
  <2>2. CASE Len(encoding) # 1
    <3>1. Len(encoding) = 0
      <4>1. PICK n \in Nat : n = Len(encoding)
        BY <1>1
      <4>2. QED
        BY <1>1, <2>2, <4>1
    <3>2. QED
      BY <1>1, <3>1
  <2>3. QED
    BY <2>1, <2>2
<1>3. EncodingBytes(encoding) \in Nat
  BY <1>2, NothingCounted, OneCounted
<1>4. QED
  BY <1>1, <1>2, <1>3, QueuedBytesType, BytesTypes

LEMMA PushCounts == ASSUME TypeOK, TypeOK', Counted, NEW m \in Markets, Push(m) PROVE Counted'
<1>1. PICK r \in Records, t \in Tables, b \in Nat :
          r = Head(command[m].records) /\ t = TableOf[r] /\ b = BytesOf[r]
  BY PushedRecord
<1>2. /\ bytes' = [bytes EXCEPT ![m][t] = @ + b] /\ buffered' = [buffered EXCEPT ![m] = @ + b]
      /\ gauge' = gauge + b /\ jobs' = jobs /\ encoding' = encoding
  BY <1>1 DEF Push, encoder
<1>3. PICK v \in Nat : v = bytes[m][t] + b /\ bytes[m][t] \in Nat
  BY DEF TypeOK, BufferTypes
<1>4. bytes' = [bytes EXCEPT ![m][t] = v]
  BY <1>2, <1>3
<1>5. Changed(m, v - bytes[m][t])
  BY <1>4, BytesChange
<1>6. v - bytes[m][t] = b
  BY <1>3
<1>7. TableBytes(m)' = TableBytes(m) + b /\ InTablesBytes' = InTablesBytes + b
      /\ \A k \in Markets \ {m} : TableBytes(k)' = TableBytes(k)
  BY <1>5, <1>6 DEF Changed
<1>8. \A k \in Markets : buffered'[k] = TableBytes(k)'
  BY <1>2, <1>7, CountTypes DEF Counted
<1>9. gauge' = InTablesBytes' + EncodingBytes(encoding)' + QueuedBytes(jobs)'
  <2>1. gauge = InTablesBytes + EncodingBytes(encoding) + QueuedBytes(jobs)
    BY DEF Counted
  <2>2. EncodingBytes(encoding') = EncodingBytes(encoding) /\ QueuedBytes(jobs') = QueuedBytes(jobs)
    BY <1>2
  <2>3. QED
    BY <1>2, <1>7, <2>1, <2>2, CountTypes
<1>10. QED
  BY <1>8, <1>9 DEF Counted

LEMMA FlushCounts ==
    ASSUME TypeOK, TypeOK', Counted, NEW m \in Markets, NEW t \in Tables, flush_table(m, t)
    PROVE  Counted'
<1>1. PICK job \in Job : job = TableJob(m, t) /\ job.bytes = bytes[m][t]
  <2>1. TableJob(m, t) \in Job
    BY DEF TableJob, NextSequence, Job, TypeOK, WorkerTypes, BufferTypes
  <2>2. TableJob(m, t).bytes = bytes[m][t]
    BY DEF TableJob
  <2>3. QED
    BY <2>1, <2>2
<1>2. PICK c \in EncodeCommand : c = Write(job) /\ CommandSize[c] = bytes[m][t]
  <2>1. Write(job) \in EncodeCommand /\ Write(job).type = "write" /\ Write(job).job = job
    BY EncodeCommandTypes DEF Write
  <2>2. QED
    BY <1>1, <2>1 DEF CommandSize
<1>3. /\ bytes' = [bytes EXCEPT ![m][t] = 0] /\ gauge' = gauge /\ encoding' = encoding
      /\ jobs' = Append(jobs, c)
      /\ buffered' = [buffered EXCEPT ![m] = IF bytes[m][t] <= @ THEN @ - bytes[m][t] ELSE 0]
  BY <1>1, <1>2 DEF flush_table, encoder
<1>4. bytes[m][t] \in Nat /\ bytes[m][t] <= TableBytes(m)
  BY BytesTypes DEF TypeOK, BufferTypes
<1>5. Changed(m, 0 - bytes[m][t])
  BY <1>3, BytesChange
<1>6. TableBytes(m)' = TableBytes(m) - bytes[m][t] /\ InTablesBytes' = InTablesBytes - bytes[m][t]
      /\ \A k \in Markets \ {m} : TableBytes(k)' = TableBytes(k)
  BY <1>4, <1>5, CountTypes DEF Changed
<1>7. \A k \in Markets : buffered'[k] = TableBytes(k)'
  BY <1>3, <1>4, <1>6, CountTypes DEF Counted
<1>8. gauge' = InTablesBytes' + EncodingBytes(encoding)' + QueuedBytes(jobs)'
  <2>1. gauge = InTablesBytes + EncodingBytes(encoding) + QueuedBytes(jobs)
    BY DEF Counted
  <2>2. EncodingBytes(encoding') = EncodingBytes(encoding)
    BY <1>3
  <2>3. QueuedBytes(jobs') = QueuedBytes(jobs) + bytes[m][t]
    BY <1>2, <1>3, QueuedBytesGrow, CountTypes DEF QueuedGrows
  <2>4. QED
    BY <1>3, <1>4, <1>6, <2>1, <2>2, <2>3, CountTypes
<1>9. QED
  BY <1>7, <1>8 DEF Counted

\* The steps of the queue and of the encoder leave the tables alone.
LEMMA QueueCounts ==
    ASSUME TypeOK, Counted, bytes' = bytes, buffered' = buffered,
           gauge' - EncodingBytes(encoding') - QueuedBytes(jobs')
             = gauge - EncodingBytes(encoding) - QueuedBytes(jobs),
           gauge' \in Int, EncodingBytes(encoding') \in Nat, QueuedBytes(jobs') \in Nat
    PROVE  Counted'
<1>1. InTablesBytes' = InTablesBytes /\ \A m \in Markets : TableBytes(m)' = TableBytes(m)
  BY SameBytes
<1>2. gauge = InTablesBytes + EncodingBytes(encoding) + QueuedBytes(jobs)
  BY DEF Counted
<1>3. gauge' = InTablesBytes' + EncodingBytes(encoding') + QueuedBytes(jobs')
  <2>1. gauge \in Int /\ InTablesBytes \in Nat /\ EncodingBytes(encoding) \in Nat /\ QueuedBytes(jobs) \in Nat
    BY CountTypes
  <2>2. gauge' - EncodingBytes(encoding') - QueuedBytes(jobs') = InTablesBytes
    <3>1. gauge - EncodingBytes(encoding) - QueuedBytes(jobs) = InTablesBytes
      BY <1>2, <2>1
    <3>2. QED
      BY <3>1
  <2>3. QED
    BY <1>1, <2>1, <2>2
<1>4. QED
  BY <1>1, <1>3 DEF Counted

LEMMA SendBarrierCounts ==
    ASSUME TypeOK, Counted, NEW m \in Markets, SendBarrier(m) PROVE Counted'
<1>1. PICK c \in EncodeCommand : c = Barrier(m) /\ CommandSize[c] = 0
  <2>1. Barrier(m) \in EncodeCommand /\ Barrier(m).type # "write"
    BY EncodeCommandTypes DEF Barrier
  <2>2. QED
    BY <2>1 DEF CommandSize
<1>2. jobs' = Append(jobs, c) /\ UNCHANGED <<bytes, buffered, gauge, encoding>>
  BY <1>1 DEF SendBarrier, encoder
<1>3. QueuedBytes(jobs') = QueuedBytes(jobs)
  BY <1>1, <1>2, QueuedBytesGrow, CountTypes DEF QueuedGrows
<1>4. QED
  BY <1>2, <1>3, CountTypes, QueueCounts

LEMMA EncodeRecvCounts == ASSUME TypeOK, Counted, EncodeRecv PROVE Counted'
<1>1. PICK c \in EncodeCommand : c = Head(jobs) /\ c.type = "write" /\ c.job \in Job /\ jobs # <<>>
  BY EncodeCommandTypes, CountTypes DEF EncodeRecv
<1>2. CommandSize[c] = c.job.bytes
  BY <1>1 DEF CommandSize
<1>3. encoding = <<>> /\ encoding' = <<c.job>> /\ jobs' = Tail(jobs) /\ UNCHANGED <<bytes, buffered, gauge>>
  BY <1>1 DEF EncodeRecv, worker
<1>4. QueuedBytes(jobs) = c.job.bytes + QueuedBytes(jobs')
  BY <1>1, <1>2, <1>3, QueuedBytesShrink, CountTypes DEF QueuedShrinks
<1>5. EncodingBytes(encoding) = 0 /\ EncodingBytes(encoding') = c.job.bytes /\ c.job.bytes \in Nat
  BY <1>1, <1>3, NothingCounted, OneCounted
<1>6. QueuedBytes(jobs') \in Nat
  <2>1. Tail(jobs) \in Seq(EncodeCommand)
    BY <1>1, CountTypes
  <2>2. QED
    BY <1>3, <2>1, QueuedBytesType
<1>7. QED
  BY <1>3, <1>4, <1>5, <1>6, CountTypes, QueueCounts

LEMMA EncodeBarrierCounts == ASSUME TypeOK, Counted, EncodeBarrier PROVE Counted'
<1>1. PICK c \in EncodeCommand : c = Head(jobs) /\ c.type = "barrier" /\ jobs # <<>>
  BY CountTypes DEF EncodeBarrier
<1>2. CommandSize[c] = 0
  BY <1>1 DEF CommandSize
<1>3. jobs' = Tail(jobs) /\ UNCHANGED <<bytes, buffered, gauge, encoding>>
  BY DEF EncodeBarrier, worker
<1>4. QueuedBytes(jobs') \in Nat
  <2>1. Tail(jobs) \in Seq(EncodeCommand)
    BY <1>1, CountTypes
  <2>2. QED
    BY <1>3, <2>1, QueuedBytesType
<1>5. QueuedBytes(jobs') = QueuedBytes(jobs)
  BY <1>1, <1>2, <1>3, <1>4, QueuedBytesShrink, CountTypes DEF QueuedShrinks
<1>6. QED
  BY <1>3, <1>4, <1>5, CountTypes, QueueCounts

LEMMA WrittenCounts == ASSUME TypeOK, Counted, Encoded \/ EncodeFailed PROVE Counted'
<1>1. /\ encoding # <<>> /\ encoding' = <<>> /\ gauge' = gauge - encoding[1].bytes
      /\ UNCHANGED <<bytes, buffered, jobs>>
  BY DEF Encoded, EncodeFailed, worker
<1>2. PICK j \in Job : encoding = <<j>>
  BY <1>1, CountTypes
<1>3. encoding[1] = j
  BY <1>2
<1>4. EncodingBytes(encoding) = j.bytes /\ j.bytes \in Nat /\ EncodingBytes(encoding') = 0
  BY <1>1, <1>2, OneCounted, NothingCounted
<1>5. gauge' = gauge - j.bytes
  BY <1>1, <1>3
<1>6. gauge' \in Int /\ EncodingBytes(encoding') \in Nat /\ QueuedBytes(jobs') = QueuedBytes(jobs)
  BY <1>1, <1>4, <1>5, CountTypes
<1>7. QED
  BY <1>1, <1>4, <1>5, <1>6, CountTypes, QueueCounts

\* A worker that ends while the encoder runs has emptied its tables.
LEMMA StopCounts ==
    ASSUME TypeOK, TypeOK', Counted, NEW m \in Markets, EmptyCounts(m), alive, Stop(m)
    PROVE  Counted'
<1>1. pc[m] = "drain" /\ todo[m] = {}
  BY DEF Stop, EncoderGone
<1>2. \A t \in Tables : bytes[m][t] = 0
  BY <1>1 DEF EmptyCounts
<1>3. /\ bytes' = [bytes EXCEPT ![m] = [t \in Tables |-> 0]] /\ buffered' = [buffered EXCEPT ![m] = 0]
      /\ UNCHANGED <<gauge, jobs, encoding>>
  BY DEF Stop, encoder
<1>4. bytes' = bytes
  BY <1>2, <1>3 DEF TypeOK, BufferTypes
<1>5. TableBytes(m) = 0
  <2>1. TableBytes(m) = Total(bytes[m]) /\ bytes[m] \in [Tables -> Nat]
    BY BytesTypes
  <2>2. QED
    BY <1>2, <2>1, TableAssumption, TotalZero
<1>6. buffered' = buffered
  <2>1. buffered[m] = 0
    BY <1>5 DEF Counted
  <2>2. QED
    BY <1>3, <2>1, CountTypes
<1>7. QED
  BY <1>3, <1>4, <1>6, CountTypes, QueueCounts

LEMMA NoBytes ==
    ASSUME TypeOK, \A m \in Markets : \A t \in Tables : bytes[m][t] = 0,
           \A m \in Markets : buffered[m] = 0, gauge = 0, jobs = <<>>, encoding = <<>>
    PROVE  Counted
  BY BytesZero, NothingCounted DEF Counted

LEMMA EmptyCountsStep ==
    ASSUME TypeOK, NEW m \in Markets, EmptyCounts(m), [Next]_vars
    PROVE  EmptyCounts(m)'
<1>0. tables \in [Markets -> [Tables -> Seq(Records)]] /\ bytes \in [Markets -> [Tables -> Nat]]
      /\ todo \in [Markets -> SUBSET Tables] /\ pc \in [Markets -> WorkerPc]
  BY DEF TypeOK, WorkerTypes, BufferTypes
<1>1. ASSUME tables'[m] = tables[m], bytes'[m] = bytes[m],
             pc'[m] = "drain" => pc[m] = "drain" /\ todo'[m] = todo[m]
      PROVE  EmptyCounts(m)'
  BY <1>1 DEF EmptyCounts
<1>2. ASSUME NEW k \in Markets, Recv(k) \/ Dispatch(k) \/ Pushed(k) \/ flush_largest(k) \/ Finish(k)
                                \/ SendBarrier(k) \/ Respond(k)
      PROVE  EmptyCounts(m)'
  <2>1. UNCHANGED <<tables, bytes>>
    BY <1>2 DEF Recv, Dispatch, Pushed, flush_largest, Finish, SendBarrier, Respond
  <2>2. m # k => pc'[m] = pc[m] /\ todo'[m] = todo[m]
    BY <1>0, <1>2 DEF Recv, Dispatch, Pushed, flush_largest, Finish, SendBarrier, Respond
  <2>3. m = k => pc'[m] # "drain"
    BY <1>0, <1>2 DEF Recv, Dispatch, Pushed, flush_largest, Finish, SendBarrier, Respond
  <2>4. QED
    BY <1>1, <2>1, <2>2, <2>3
<1>3. ASSUME NEW k \in Markets, Push(k) PROVE EmptyCounts(m)'
  <2>1. PICK r \in Records, u \in Tables : r = Head(command[k].records) /\ u = TableOf[r]
    BY <1>3, PushedRecord
  <2>2. /\ tables' = [tables EXCEPT ![k][u] = Append(@, r)]
        /\ bytes' = [bytes EXCEPT ![k][u] = @ + BytesOf[r]]
        /\ UNCHANGED <<pc, todo>> /\ pc[k] = "push"
    BY <1>3, <2>1 DEF Push
  <2>3. CASE m # k
    BY <1>0, <1>1, <2>2, <2>3
  <2>4. CASE m = k
    <3>1. pc'[m] # "drain"
      BY <2>2, <2>4
    <3>2. tables'[m][u] # <<>>
      <4>1. PICK s \in Seq(Records) : s = tables[m][u]
        BY <1>0
      <4>2. tables'[m][u] = Append(s, r)
        BY <1>0, <2>2, <2>4, <4>1
      <4>3. Len(Append(s, r)) = Len(s) + 1 /\ Len(s) \in Nat
        OBVIOUS
      <4>4. Len(<<>>) = 0
        OBVIOUS
      <4>5. QED
        BY <4>2, <4>3, <4>4
    <3>3. \A t \in Tables \ {u} : tables'[m][t] = tables[m][t] /\ bytes'[m][t] = bytes[m][t]
      BY <1>0, <2>2, <2>4
    <3>4. QED
      BY <3>1, <3>2, <3>3 DEF EmptyCounts
  <2>5. QED
    BY <2>3, <2>4
<1>4. ASSUME NEW k \in Markets, NEW u \in Tables, flush_table(k, u) PROVE EmptyCounts(m)'
  <2>1. /\ tables' = [tables EXCEPT ![k][u] = <<>>] /\ bytes' = [bytes EXCEPT ![k][u] = 0]
        /\ todo' = [todo EXCEPT ![k] = @ \ {u}] /\ pc' = pc
    BY <1>4 DEF flush_table
  <2>2. CASE m # k
    BY <1>0, <1>1, <2>1, <2>2
  <2>3. CASE m = k
    <3>1. bytes'[m][u] = 0
      BY <1>0, <2>1, <2>3
    <3>2. \A t \in Tables \ {u} : tables'[m][t] = tables[m][t] /\ bytes'[m][t] = bytes[m][t]
      BY <1>0, <2>1, <2>3
    <3>3. \A t \in Tables \ {u} : t \notin todo'[m] => t \notin todo[m]
      BY <1>0, <2>1, <2>3
    <3>4. QED
      BY <2>1, <3>1, <3>2, <3>3 DEF EmptyCounts
  <2>4. QED
    BY <2>2, <2>3
<1>5. ASSUME NEW k \in Markets, Drain(k) PROVE EmptyCounts(m)'
  <2>1. UNCHANGED <<tables, bytes>> /\ pc' = [pc EXCEPT ![k] = "drain"] /\ todo' = [todo EXCEPT ![k] = Held(k)]
    BY <1>5 DEF Drain
  <2>2. CASE m # k
    BY <1>0, <1>1, <2>1, <2>2
  <2>3. CASE m = k
    <3>1. todo'[m] = Held(m)
      BY <1>0, <2>1, <2>3
    <3>2. \A t \in Tables : t \notin todo'[m] => tables[m][t] = <<>>
      BY <3>1 DEF Held
    <3>3. QED
      BY <2>1, <3>2 DEF EmptyCounts
  <2>4. QED
    BY <2>2, <2>3
<1>6. ASSUME NEW k \in Markets, Stop(k) PROVE EmptyCounts(m)'
  <2>1. /\ tables' = [tables EXCEPT ![k] = [t \in Tables |-> <<>>]]
        /\ bytes' = [bytes EXCEPT ![k] = [t \in Tables |-> 0]]
        /\ todo' = [todo EXCEPT ![k] = {}] /\ pc' = [pc EXCEPT ![k] = "stopped"]
    BY <1>6 DEF Stop
  <2>2. CASE m # k
    BY <1>0, <1>1, <2>1, <2>2
  <2>3. CASE m = k
    <3>1. \A t \in Tables : bytes'[m][t] = 0
      BY <1>0, <2>1, <2>3
    <3>2. QED
      BY <3>1 DEF EmptyCounts
  <2>4. QED
    BY <2>2, <2>3
<1>7. CASE Crash
  <2>1. \A t \in Tables : bytes'[m][t] = 0
    BY <1>7 DEF Crash
  <2>2. QED
    BY <2>1 DEF EmptyCounts
<1>8. CASE UNCHANGED <<pc, todo, tables, bytes>>
  BY <1>1, <1>8
<1>9. QED
  <2>1. ASSUME NEW k \in Markets, Worker(k) PROVE EmptyCounts(m)'
    BY <2>1, <1>2, <1>3, <1>4, <1>5, <1>6 DEF Worker
  <2>2. ASSUME NEW k \in Markets, Producer(k) \/ SendTick(k) PROVE EmptyCounts(m)'
    <3>1. UNCHANGED worker
      BY <2>2 DEF Producer, records, SendTick
    <3>2. QED
      BY <1>8, <3>1 DEF worker
  <2>3. ASSUME NEW f \in Calls, Caller(f) PROVE EmptyCounts(m)'
    <3>1. UNCHANGED worker
      BY <2>3 DEF Caller, flush, FlushSend, FlushResult, FlushStopped, FlushCancelled
    <3>2. QED
      BY <1>8, <3>1 DEF worker
  <2>4. CASE Encoder \/ EncoderPanics \/ HourRolls \/ Close \/ Done \/ UNCHANGED vars
    <3>1. UNCHANGED worker
      BY <2>4 DEF Encoder, EncodeRecv, EncodeBarrier, Encoded, EncodeFailed, EncoderPanics,
                  HourRolls, Close, Done, vars
    <3>2. QED
      BY <1>8, <3>1 DEF worker
  <2>5. CASE Elapse
    BY <1>8, <2>5 DEF Elapse
  <2>6. QED
    BY <1>7, <2>1, <2>2, <2>3, <2>4, <2>5 DEF Next

LEMMA CountedStep ==
    ASSUME TypeOK, TypeOK', BytesInv, alive', [Next]_vars
    PROVE  Counted'
<1>0. \A m \in Markets : EmptyCounts(m)
  BY DEF BytesInv
<1>1. CASE Crash
  <2>1. /\ \A m \in Markets : \A t \in Tables : bytes'[m][t] = 0
        /\ \A m \in Markets : buffered'[m] = 0
        /\ gauge' = 0 /\ jobs' = <<>> /\ encoding' = <<>>
    BY <1>1 DEF Crash
  <2>2. InTablesBytes' = 0 /\ \A m \in Markets : TableBytes(m)' = 0
    <3>1. ASSUME NEW m \in Markets PROVE TableBytes(m)' = 0
      <4>1. TableBytes(m)' = Total(bytes'[m]) /\ bytes'[m] \in [Tables -> Nat]
        BY TableTotalNext DEF TypeOK, BufferTypes
      <4>2. QED
        BY <2>1, <4>1, TableAssumption, TotalZero
    <3>2. MarketBytes' \in [Markets -> Nat] /\ \A m \in Markets : MarketBytes'[m] = 0
      BY <3>1 DEF MarketBytes
    <3>3. QED
      BY <3>1, <3>2, MarketsFinite, TotalZero DEF InTablesBytes
  <2>3. QED
    BY <2>1, <2>2, NothingCounted DEF Counted
<1>2. CASE ~Crash
  <2>1. alive
    <3>1. ASSUME NEW m \in Markets, Producer(m) \/ SendTick(m) \/ Worker(m) PROVE alive' = alive
      <4>1. CASE Producer(m) \/ SendTick(m)
        BY <4>1 DEF Producer, records, SendTick, encoder
      <4>2. CASE Recv(m) \/ Dispatch(m) \/ Push(m) \/ Pushed(m) \/ flush_largest(m)
        BY <4>2 DEF Recv, Dispatch, Push, Pushed, flush_largest, encoder
      <4>3. CASE \E t \in Tables : flush_table(m, t)
        BY <4>3 DEF flush_table, encoder
      <4>4. CASE Finish(m) \/ SendBarrier(m) \/ Respond(m) \/ Drain(m) \/ Stop(m)
        BY <4>4 DEF Finish, SendBarrier, Respond, Drain, Stop, encoder
      <4>5. QED
        BY <3>1, <4>1, <4>2, <4>3, <4>4 DEF Worker
    <3>2. ASSUME NEW f \in Calls, Caller(f) PROVE alive' = alive
      BY <3>2 DEF Caller, flush, FlushSend, FlushResult, FlushStopped, FlushCancelled, encoder
    <3>3. CASE Encoder
      BY <3>3 DEF Encoder, EncodeRecv, EncodeBarrier, Encoded, EncodeFailed
    <3>4. CASE EncoderPanics
      BY <3>4 DEF EncoderPanics
    <3>5. CASE Elapse \/ HourRolls \/ Close \/ Done \/ UNCHANGED vars
      BY <3>5 DEF Elapse, HourRolls, Close, Done, vars, encoder
    <3>6. QED
      BY <1>2, <3>1, <3>2, <3>3, <3>4, <3>5 DEF Next
  <2>2. Counted
    BY <2>1 DEF BytesInv
  <2>3. ASSUME UNCHANGED <<bytes, buffered, gauge, jobs, encoding>> PROVE Counted'
    BY <2>2, <2>3, CountTypes, QueueCounts
  <2>4. ASSUME NEW m \in Markets, Worker(m) PROVE Counted'
    <3>1. CASE Recv(m) \/ Dispatch(m) \/ Pushed(m) \/ flush_largest(m) \/ Finish(m) \/ Respond(m) \/ Drain(m)
      BY <2>3, <3>1 DEF Recv, Dispatch, Pushed, flush_largest, Finish, Respond, Drain, encoder
    <3>2. CASE Push(m)
      BY <2>2, <3>2, PushCounts
    <3>3. ASSUME NEW t \in Tables, flush_table(m, t) PROVE Counted'
      BY <2>2, <3>3, FlushCounts
    <3>4. CASE SendBarrier(m)
      BY <2>2, <3>4, SendBarrierCounts
    <3>5. CASE Stop(m)
      BY <1>0, <2>1, <2>2, <3>5, StopCounts
    <3>6. QED
      BY <2>4, <3>1, <3>2, <3>3, <3>4, <3>5 DEF Worker
  <2>5. CASE Encoder
    <3>1. CASE EncodeRecv
      BY <2>2, <3>1, EncodeRecvCounts
    <3>2. CASE EncodeBarrier
      BY <2>2, <3>2, EncodeBarrierCounts
    <3>3. CASE Encoded \/ EncodeFailed
      BY <2>2, <3>3, WrittenCounts
    <3>4. QED
      BY <2>5, <3>1, <3>2, <3>3 DEF Encoder
  <2>6. ASSUME NEW m \in Markets, Producer(m) \/ SendTick(m) PROVE Counted'
    BY <2>3, <2>6 DEF Producer, records, SendTick, worker, encoder
  <2>7. ASSUME NEW f \in Calls, Caller(f) PROVE Counted'
    BY <2>3, <2>7 DEF Caller, flush, FlushSend, FlushResult, FlushStopped, FlushCancelled, worker, encoder
  <2>8. CASE Elapse \/ HourRolls \/ Close \/ Done \/ UNCHANGED vars
    BY <2>3, <2>8 DEF Elapse, HourRolls, Close, Done, vars, worker, encoder
  <2>9. CASE EncoderPanics
    BY <2>9 DEF EncoderPanics
  <2>10. QED
    BY <1>2, <2>4, <2>5, <2>6, <2>7, <2>8, <2>9 DEF Next
<1>3. QED
  BY <1>1, <1>2

\* The byte counters never drift while the encoder runs: buffered_bytes of a market is the sum
\* over its tables, the gauge the sum over all tables and the segments not yet written, so a
\* market that looks full holds rows and one that is empty looks empty.
THEOREM CountersNeverDrift == Spec => []CountersAgree
<1>1. Init => BytesInv
  <2>1. SUFFICES ASSUME Init PROVE BytesInv
    OBVIOUS
  <2>2. TypeOK
    BY <2>1, TypeInit
  <2>3. \A m \in Markets : \A t \in Tables : bytes[m][t] = 0
    BY <2>1 DEF Init
  <2>4. Counted
    BY <2>1, <2>2, <2>3, NoBytes DEF Init
  <2>5. \A m \in Markets : EmptyCounts(m)
    BY <2>3 DEF EmptyCounts
  <2>6. QED
    BY <2>4, <2>5 DEF BytesInv
<1>2. TypeOK /\ TypeOK' /\ BytesInv /\ [Next]_vars => BytesInv'
  <2>1. SUFFICES ASSUME TypeOK, TypeOK', BytesInv, [Next]_vars PROVE BytesInv'
    OBVIOUS
  <2>2. alive' => Counted'
    BY <2>1, CountedStep
  <2>3. \A m \in Markets : EmptyCounts(m)'
    BY <2>1, EmptyCountsStep DEF BytesInv
  <2>4. QED
    BY <2>2, <2>3 DEF BytesInv
<1>3. TypeOK /\ BytesInv => CountersAgree
  BY CountedAgrees DEF BytesInv
<1>4. QED
  BY <1>1, <1>2, <1>3, TypeCorrect, PTL DEF Spec

=============================================================================
