---------------------------- MODULE WriterProofs ----------------------------
(***************************************************************************)
(* Theorems about Writer for every set of markets, tables, records and     *)
(* calls, every capacity, size and bound.                                  *)
(***************************************************************************)
EXTENDS Writer, SequenceTheorems, TLAPS

\* What a value of Command carries, by the variant of the enum it is.
LEMMA CommandTypes ==
    /\ Tick \in Command /\ Tick.type = "tick"
    /\ \A b \in Seq(Records) : [type |-> "records", records |-> b] \in Command
    /\ \A f \in Calls : [type |-> "flush", response |-> f] \in Command
    /\ \A c \in Command : c.type = "records" => c.records \in Seq(Records)
    /\ \A c \in Command : c.type = "flush" => c.response \in Calls
    /\ \A c \in Command : c.type \in {"records", "tick", "flush"}
    /\ \A c \in Command : \A b \in Seq(Records) :
          c.type = "records" => /\ [c EXCEPT !.records = b] \in Command
                                /\ [c EXCEPT !.records = b].type = "records"
  BY DEF Command, Tick

\* What a value of EncodeCommand carries, by the variant of the enum it is.
LEMMA EncodeCommandTypes ==
    /\ \A j \in Job : Write(j) \in EncodeCommand
    /\ \A m \in Markets : Barrier(m) \in EncodeCommand
    /\ \A c \in EncodeCommand : c.type = "write" => c.job \in Job
    /\ \A c \in EncodeCommand : c.type = "barrier" => c.market \in Markets
    /\ \A c \in EncodeCommand : c.type \in {"write", "barrier"}
  BY DEF EncodeCommand, Write, Barrier

\* A batch of records() is a sequence of records.
LEMMA BatchType == \A batch \in Batches : batch \in Seq(Records)
<1> SUFFICES ASSUME NEW n \in 1..MaxBatch, NEW b \in [1..n -> Records]
             PROVE  b \in Seq(Records)
  BY DEF Batches
<1> QED
  BY SeqDef, SettingsAssumption

\* The elements of a sequence.
LEMMA RangeType == ASSUME NEW S, NEW s \in Seq(S) PROVE Range(s) \subseteq S
  BY DEF Range

\* The records of a segment.
LEMMA JobRecords == \A j \in Job : j.records \in Seq(Records) /\ Range(j.records) \subseteq Records
  BY RangeType DEF Job

\* The record Push takes from the batch in hand, and what is left of the batch.
LEMMA PushedRecord ==
    ASSUME TypeOK, NEW m \in Markets, Push(m)
    PROVE  /\ Head(command[m].records) \in Records
           /\ Tail(command[m].records) \in Seq(Records)
           /\ TableOf[Head(command[m].records)] \in Tables
           /\ BytesOf[Head(command[m].records)] \in Nat
<1>1. command[m].records \in Seq(Records)
  BY CommandTypes DEF Push, TypeOK, WorkerTypes
<1>2. command[m].records # <<>>
  BY DEF Push
<1>3. PICK b : b = command[m].records
  OBVIOUS
<1>4. Head(b) \in Records /\ Tail(b) \in Seq(Records)
  BY <1>1, <1>2, <1>3
<1> QED
  BY <1>3, <1>4, RecordAssumption

\* flush visits at least one market.
LEMMA OrderNonEmpty == Len(Order) \in Nat /\ 1 \in 1..Len(Order)
  BY MarketAssumption DEF Range

\* The state Writer::start leaves has the declared types.
LEMMA TypeInit == Init => TypeOK
<1> SUFFICES ASSUME Init PROVE TypeOK
  OBVIOUS
<1>1. InputTypes
  BY DEF Init, InputTypes
<1>2. WorkerTypes
  BY CommandTypes DEF Init, WorkerTypes, WorkerPc, Flushing, Answer
<1>3. BufferTypes
  BY DEF Init, BufferTypes
<1>4. EncoderTypes
  BY DEF Init, EncoderTypes
<1>5. CallTypes
  BY OrderNonEmpty DEF Init, CallTypes, CallState, Answer
<1>6. FlagTypes
  BY Zenon DEF Init, FlagTypes
<1> QED
  BY <1>1, <1>2, <1>3, <1>4, <1>5, <1>6 DEF TypeOK

\* Every step keeps the declared types; one step of the proof per action.
LEMMA TypeStep == TypeOK /\ [Next]_vars => TypeOK'
<1> SUFFICES ASSUME TypeOK, [Next]_vars PROVE TypeOK'
  OBVIOUS
<1> USE DEF TypeOK
<1>1. CASE UNCHANGED vars
  BY <1>1 DEF vars, inputs, worker, encoder, InputTypes, WorkerTypes, BufferTypes, EncoderTypes,
              FlagTypes, CallTypes
<1>2. ASSUME NEW m \in Markets, NEW batch \in Batches, records(m, batch) PROVE TypeOK'
  <2>1. InputTypes'
    BY <1>2, BatchType, CommandTypes DEF records, InputTypes, inputs, worker, encoder
  <2> QED
    BY <1>2, <2>1 DEF records, inputs, worker, encoder, WorkerTypes, BufferTypes, EncoderTypes, FlagTypes, CallTypes
<1>3. ASSUME NEW m \in Markets, SendTick(m) PROVE TypeOK'
  <2>1. InputTypes'
    BY <1>3, CommandTypes DEF SendTick, InputTypes, inputs, worker, encoder
  <2> QED
    BY <1>3, <2>1 DEF SendTick, inputs, worker, encoder, WorkerTypes, BufferTypes, EncoderTypes, FlagTypes, CallTypes
<1>4. ASSUME Elapse PROVE TypeOK'
  <2>1. BufferTypes'
    BY SMTT(40), <1>4, SettingsAssumption DEF Elapse, BufferTypes, inputs, worker, encoder
  <2> QED
    BY <1>4, <2>1 DEF Elapse, inputs, worker, encoder, InputTypes, WorkerTypes, EncoderTypes, FlagTypes, CallTypes
<1>5. ASSUME HourRolls PROVE TypeOK'
  <2>1. CallTypes'
    BY <1>5 DEF HourRolls, CallTypes, inputs, worker, encoder
  <2> QED
    BY <1>5, <2>1 DEF HourRolls, inputs, worker, encoder, InputTypes, WorkerTypes, BufferTypes, EncoderTypes, FlagTypes
<1>6. ASSUME Close PROVE TypeOK'
  <2>1. FlagTypes'
    BY <1>6, Zenon DEF Close, FlagTypes, inputs, worker, encoder
  <2>2. CallTypes'
    BY <1>6 DEF Close, CallState, CallTypes, inputs, worker, encoder
  <2> QED
    BY <1>6, <2>1, <2>2 DEF Close, inputs, worker, encoder, InputTypes, WorkerTypes, BufferTypes, EncoderTypes
<1>7. ASSUME NEW f \in Calls, flush(f) PROVE TypeOK'
  <2>1. Accepted \subseteq Records
    BY RangeType DEF Accepted, InputTypes
  <2>2. CallTypes'
    BY <1>7, <2>1 DEF flush, CallState, CallTypes, inputs, worker, encoder
  <2> QED
    BY <1>7, <2>2 DEF flush, inputs, worker, encoder, InputTypes, WorkerTypes, BufferTypes, EncoderTypes, FlagTypes
<1>8. ASSUME NEW f \in Calls, FlushSend(f) PROVE TypeOK'
  <2>1. Order[call[f].at] \in Markets
    BY MarketAssumption DEF CallTypes
  <2>2. InputTypes'
    BY <1>8, <2>1, CommandTypes DEF FlushSend, InputTypes, inputs, worker, encoder
  <2>3. CallTypes'
    BY <1>8, <2>1 DEF FlushSend, CallState, CallTypes, inputs, worker, encoder
  <2> QED
    BY <1>8, <2>2, <2>3 DEF FlushSend, inputs, worker, encoder, WorkerTypes, BufferTypes, EncoderTypes, FlagTypes
<1>9. ASSUME NEW f \in Calls, FlushResult(f) PROVE TypeOK'
  <2>1. CallTypes'
    BY <1>9, OrderNonEmpty DEF FlushResult, LastMarket, CallState, Answer, CallTypes, inputs, worker, encoder
  <2> QED
    BY <1>9, <2>1 DEF FlushResult, inputs, worker, encoder, InputTypes, WorkerTypes, BufferTypes, EncoderTypes, FlagTypes
<1>10. ASSUME NEW f \in Calls, FlushStopped(f) PROVE TypeOK'
  <2>1. CallTypes'
    BY <1>10 DEF FlushStopped, CallState, CallTypes, inputs, worker, encoder
  <2> QED
    BY <1>10, <2>1 DEF FlushStopped, inputs, worker, encoder, InputTypes, WorkerTypes, BufferTypes, EncoderTypes, FlagTypes
<1>11. ASSUME NEW f \in Calls, FlushCancelled(f) PROVE TypeOK'
  <2>1. CallTypes'
    BY <1>11 DEF FlushCancelled, CallState, CallTypes, inputs, worker, encoder
  <2> QED
    BY <1>11, <2>1 DEF FlushCancelled, inputs, worker, encoder, InputTypes, WorkerTypes, BufferTypes, EncoderTypes, FlagTypes
<1>12. ASSUME NEW m \in Markets, Recv(m) PROVE TypeOK'
  <2>1. InputTypes'
    BY <1>12 DEF Recv, InputTypes, inputs, worker, encoder
  <2>2. WorkerTypes'
    BY <1>12 DEF Recv, RolloverTables, Held, WorkerPc, Flushing, InputTypes, CallTypes, WorkerTypes, inputs, worker, encoder
  <2>3. CallTypes'
    BY <1>12 DEF Recv, CallTypes, inputs, worker, encoder
  <2> QED
    BY <1>12, <2>1, <2>2, <2>3 DEF Recv, inputs, worker, encoder, BufferTypes, EncoderTypes, FlagTypes
<1>13. ASSUME NEW m \in Markets, Dispatch(m) PROVE TypeOK'
  <2>1. Expired(m) \in SUBSET Tables /\ Held(m) \in SUBSET Tables
    BY DEF Expired, Held
  <2>2. hour' \in [Markets -> Nat]
    BY <1>13 DEF Dispatch, WorkerTypes
  <2>3. \E p \in WorkerPc, ts \in SUBSET Tables :
           /\ pc' = [pc EXCEPT ![m] = p]
           /\ todo' = [todo EXCEPT ![m] = ts] \/ todo' = todo
           /\ p = "push" => command[m].type = "records"
           /\ p \in {"flush", "barrier", "await"} => command[m].type = "flush"
    BY <1>13, <2>1 DEF Dispatch, WorkerPc, Flushing
  <2>4. PICK p \in WorkerPc, ts \in SUBSET Tables :
           /\ pc' = [pc EXCEPT ![m] = p]
           /\ todo' = [todo EXCEPT ![m] = ts] \/ todo' = todo
           /\ p = "push" => command[m].type = "records"
           /\ p \in {"flush", "barrier", "await"} => command[m].type = "flush"
    BY <2>3
  <2>5. pc' \in [Markets -> WorkerPc] /\ todo' \in [Markets -> SUBSET Tables]
    BY <2>4 DEF WorkerTypes
  <2>6. UNCHANGED <<command, current_hour, sequence, answer>>
    BY <1>13 DEF Dispatch
  <2>7. \A n \in Markets : /\ pc'[n] = "push" => command[n].type = "records"
                           /\ pc'[n] \in {"flush", "barrier", "await"} => command[n].type = "flush"
    BY <2>4 DEF WorkerTypes
  <2>8. WorkerTypes'
    BY <2>2, <2>5, <2>6, <2>7 DEF WorkerTypes
  <2> QED
    BY <1>13, <2>8 DEF Dispatch, inputs, worker, encoder, InputTypes, BufferTypes, EncoderTypes, FlagTypes, CallTypes
<1>14. ASSUME NEW m \in Markets, Push(m) PROVE TypeOK'
  <2> DEFINE r == Head(command[m].records)
  <2>2. r \in Records /\ Tail(command[m].records) \in Seq(Records)
    BY <1>14, PushedRecord
  <2>3. TableOf[r] \in Tables /\ BytesOf[r] \in Nat
    BY <1>14, PushedRecord
  <2>4. /\ [command[m] EXCEPT !.records = Tail(command[m].records)] \in Command
        /\ [command[m] EXCEPT !.records = Tail(command[m].records)].type = "records"
    BY <1>14, <2>2, CommandTypes DEF Push, WorkerTypes
  <2>5. WorkerTypes'
    BY <1>14, <2>4 DEF Push, WorkerTypes
  <2>6. tables' \in [Markets -> [Tables -> Seq(Records)]]
    <3>1. \A x \in Records, t \in Tables :
             [tables EXCEPT ![m][t] = Append(@, x)] \in [Markets -> [Tables -> Seq(Records)]]
      BY <1>14 DEF BufferTypes
    <3> QED
      BY <1>14, <2>2, <2>3, <3>1 DEF Push
  <2>7. bytes' \in [Markets -> [Tables -> Nat]]
    <3>1. \A n \in Nat, t \in Tables :
             [bytes EXCEPT ![m][t] = @ + n] \in [Markets -> [Tables -> Nat]]
      BY <1>14 DEF BufferTypes
    <3> QED
      BY <1>14, <2>3, <3>1 DEF Push
  <2>8. buffered' \in [Markets -> Nat] /\ age' = age
    <3>1. \A n \in Nat : [buffered EXCEPT ![m] = @ + n] \in [Markets -> Nat]
      BY <1>14 DEF BufferTypes
    <3> QED
      BY <1>14, <2>3, <3>1 DEF Push
  <2>9. EncoderTypes'
    <3>1. \A n \in Nat : gauge + n \in Int
      BY DEF EncoderTypes
    <3>2. gauge' = gauge + BytesOf[r] /\ UNCHANGED <<encoder, jobs, crashes>>
      BY <1>14 DEF Push
    <3>3. gauge' \in Int
      BY <2>3, <3>1, <3>2
    <3> QED
      BY <3>2, <3>3 DEF EncoderTypes, encoder
  <2> QED
    BY <1>14, <2>5, <2>6, <2>7, <2>8, <2>9
    DEF Push, inputs, BufferTypes, InputTypes, FlagTypes, CallTypes, encoder
<1>15. ASSUME NEW m \in Markets, Pushed(m) PROVE TypeOK'
  <2>1. WorkerTypes'
    BY <1>15 DEF Pushed, Full, Held, WorkerPc, Flushing, WorkerTypes, inputs, worker, encoder
  <2> QED
    BY <1>15, <2>1 DEF Pushed, inputs, worker, encoder, InputTypes, BufferTypes, EncoderTypes, FlagTypes, CallTypes
<1>16. ASSUME NEW m \in Markets, flush_largest(m) PROVE TypeOK'
  <2>1. WorkerTypes'
    BY <1>16 DEF flush_largest, Largest, Held, WorkerPc, Flushing, WorkerTypes, inputs, worker, encoder
  <2> QED
    BY <1>16, <2>1 DEF flush_largest, inputs, worker, encoder, InputTypes, BufferTypes, EncoderTypes, FlagTypes, CallTypes
<1>17. ASSUME NEW m \in Markets, NEW t \in Tables, flush_table(m, t) PROVE TypeOK'
  <2>1. TableJob(m, t) \in Job
    BY DEF TableJob, NextSequence, Job, WorkerTypes, BufferTypes
  <2>2. Write(TableJob(m, t)) \in EncodeCommand
    BY <2>1, EncodeCommandTypes
  <2>3. WorkerTypes'
    BY <1>17, <2>1, <2>2 DEF flush_table, NextSequence, WorkerTypes, inputs, worker, encoder
  <2>4. BufferTypes'
    BY <1>17, <2>1, <2>2 DEF flush_table, BufferTypes, inputs, worker, encoder
  <2>5. EncoderTypes'
    BY <1>17, <2>1, <2>2 DEF flush_table, EncoderTypes, inputs, worker, encoder
  <2> QED
    BY <1>17, <2>3, <2>4, <2>5 DEF flush_table, inputs, worker, encoder, InputTypes, FlagTypes, CallTypes
<1>18. ASSUME NEW m \in Markets, Finish(m) PROVE TypeOK'
  <2>1. WorkerTypes'
    BY <1>18, CommandTypes DEF Finish, WorkerPc, Flushing, WorkerTypes, inputs, worker, encoder
  <2> QED
    BY <1>18, <2>1 DEF Finish, inputs, worker, encoder, InputTypes, BufferTypes, EncoderTypes, FlagTypes, CallTypes
<1>19. ASSUME NEW m \in Markets, SendBarrier(m) PROVE TypeOK'
  <2>1. WorkerTypes'
    BY <1>19 DEF SendBarrier, WorkerPc, Flushing, WorkerTypes, inputs, worker, encoder
  <2>2. EncoderTypes'
    BY <1>19, EncodeCommandTypes DEF SendBarrier, EncoderTypes, inputs, worker, encoder
  <2> QED
    BY <1>19, <2>1, <2>2 DEF SendBarrier, inputs, worker, encoder, InputTypes, BufferTypes, FlagTypes, CallTypes
<1>20. ASSUME NEW m \in Markets, Respond(m) PROVE TypeOK'
  <2>1. WorkerTypes'
    BY <1>20, CommandTypes DEF Respond, WorkerPc, Flushing, Answer, WorkerTypes, inputs, worker, encoder
  <2>2. CallTypes'
    BY <1>20 DEF Respond, WorkerTypes, CallTypes, inputs, worker, encoder
  <2> QED
    BY <1>20, <2>1, <2>2 DEF Respond, inputs, worker, encoder, InputTypes, BufferTypes, EncoderTypes, FlagTypes
<1>21. ASSUME NEW m \in Markets, Drain(m) PROVE TypeOK'
  <2>1. WorkerTypes'
    BY <1>21 DEF Drain, Held, WorkerPc, Flushing, WorkerTypes, inputs, worker, encoder
  <2> QED
    BY <1>21, <2>1 DEF Drain, inputs, worker, encoder, InputTypes, BufferTypes, EncoderTypes, FlagTypes, CallTypes
<1>22. ASSUME NEW m \in Markets, Stop(m) PROVE TypeOK'
  <2>1. RecordsIn(queue[m]) \subseteq Records
    BY RangeType, CommandTypes DEF RecordsIn, InputTypes
  <2>2. InHand(m) \subseteq Records
    BY RangeType, CommandTypes DEF InHand, WorkerTypes
  <2>3. Buffered(m) \subseteq Records
    BY RangeType DEF Buffered, BufferTypes
  <2>4. InputTypes'
    BY <1>22, <2>1, <2>2, <2>3 DEF Stop, InputTypes, inputs, worker, encoder
  <2>5. WorkerTypes'
    BY <1>22, <2>1, <2>2, <2>3, CommandTypes DEF Stop, WorkerPc, Flushing, WorkerTypes, inputs, worker, encoder
  <2>6. BufferTypes'
    BY <1>22, <2>1, <2>2, <2>3 DEF Stop, BufferTypes, inputs, worker, encoder
  <2>7. CallTypes'
    BY <1>22, <2>1, <2>2, <2>3 DEF Stop, CallTypes, inputs, worker, encoder
  <2> QED
    BY <1>22, <2>4, <2>5, <2>6, <2>7 DEF Stop, inputs, worker, encoder, EncoderTypes, FlagTypes
<1>23. ASSUME EncodeRecv PROVE TypeOK'
  <2>1. EncoderTypes'
    BY <1>23, EncodeCommandTypes DEF EncodeRecv, EncoderTypes, inputs, worker, encoder
  <2> QED
    BY <1>23, <2>1 DEF EncodeRecv, inputs, worker, encoder, InputTypes, WorkerTypes, BufferTypes, FlagTypes, CallTypes
<1>24. ASSUME EncodeBarrier PROVE TypeOK'
  <2>1. WorkerTypes'
    BY <1>24, EncodeCommandTypes DEF EncodeBarrier, BarrierResult, Answer, EncoderTypes, WorkerTypes, inputs, worker, encoder
  <2>2. EncoderTypes'
    BY <1>24 DEF EncodeBarrier, EncoderTypes, inputs, worker, encoder
  <2>3. FlagTypes'
    BY <1>24, Zenon DEF EncodeBarrier, FlagTypes, inputs, worker, encoder
  <2> QED
    BY <1>24, <2>1, <2>2, <2>3 DEF EncodeBarrier, inputs, worker, encoder, InputTypes, BufferTypes, CallTypes
<1>25. ASSUME Encoded PROVE TypeOK'
  <2>1. encoding[1] \in Job
    BY <1>25 DEF Encoded, EncoderTypes
  <2>2. encoding[1].bytes \in Nat
    BY <2>1 DEF Job
  <2>3. EncoderTypes'
    BY <1>25, <2>1, <2>2 DEF Encoded, Publish, EncoderTypes, inputs, worker, encoder
  <2> QED
    BY <1>25, <2>3 DEF Encoded, inputs, worker, encoder, InputTypes, WorkerTypes, BufferTypes, FlagTypes, CallTypes
<1>26. ASSUME EncodeFailed PROVE TypeOK'
  <2>1. encoding[1] \in Job
    BY <1>26 DEF EncodeFailed, EncoderTypes
  <2>2. encoding[1].bytes \in Nat /\ encoding[1].records \in Seq(Records)
    BY <2>1 DEF Job
  <2>3. Range(encoding[1].records) \subseteq Records
    BY <2>2, RangeType
  <2>4. EncoderTypes'
    BY <1>26, <2>1, <2>2, <2>3 DEF EncodeFailed, Publish, EncoderTypes, inputs, worker, encoder
  <2>5. FlagTypes'
    BY <1>26, <2>1, <2>2, <2>3, Zenon DEF EncodeFailed, FlagTypes, inputs, worker, encoder
  <2>6. CallTypes'
    BY <1>26, <2>1, <2>2, <2>3 DEF EncodeFailed, CallTypes, inputs, worker, encoder
  <2> QED
    BY <1>26, <2>4, <2>5, <2>6 DEF EncodeFailed, inputs, worker, encoder, InputTypes, WorkerTypes, BufferTypes
<1>27. ASSUME EncoderPanics PROVE TypeOK'
  <2>1. RecordsOf(Range(encoding)) \subseteq Records
    BY RangeType, JobRecords DEF RecordsOf, EncoderTypes
  <2>2. RecordsOfJobs(jobs) \subseteq Records
    BY RangeType, JobRecords, EncodeCommandTypes DEF RecordsOfJobs, EncoderTypes
  <2>3. EncoderTypes'
    BY <1>27, <2>1, <2>2 DEF EncoderPanics, EncoderTypes, inputs, worker, encoder
  <2>4. FlagTypes'
    BY <1>27, <2>1, <2>2, Zenon DEF EncoderPanics, FlagTypes, inputs, worker, encoder
  <2>5. CallTypes'
    BY <1>27, <2>1, <2>2 DEF EncoderPanics, CallTypes, inputs, worker, encoder
  <2> QED
    BY <1>27, <2>3, <2>4, <2>5 DEF EncoderPanics, inputs, worker, encoder, InputTypes, WorkerTypes, BufferTypes
<1>28. ASSUME Crash PROVE TypeOK'
  <2>1. Accepted \subseteq Records
    BY RangeType DEF Accepted, InputTypes
  <2>2. disk' \in SUBSET Job
    <3>1. Range(encoding) \subseteq Job
      BY RangeType DEF EncoderTypes
    <3> QED
      BY <1>28, <3>1 DEF Crash, Publish, EncoderTypes
  <2>3. InputTypes'
    BY <1>28 DEF Crash, InputTypes
  <2>4. WorkerTypes'
    BY <1>28, CommandTypes
    DEF Crash, RestartSequence, WorkerPc, Flushing, Answer, WorkerTypes, CallTypes
  <2>5. BufferTypes'
    BY <1>28 DEF Crash, BufferTypes
  <2>6. EncoderTypes'
    BY <1>28, <2>2 DEF Crash, EncoderTypes
  <2>7. FlagTypes'
    BY <1>28, Zenon DEF Crash, FlagTypes
  <2>8. CallTypes'
    BY <1>28, <2>1 DEF Crash, CallState, CallTypes
  <2> QED
    BY <2>3, <2>4, <2>5, <2>6, <2>7, <2>8
<1> QED
  BY <1>1, <1>2, <1>3, <1>4, <1>5, <1>6, <1>7, <1>8, <1>9, <1>10, <1>11, <1>12, <1>13, <1>14, <1>15, <1>16, <1>17, <1>18, <1>19, <1>20, <1>21, <1>22, <1>23, <1>24, <1>25, <1>26, <1>27, <1>28
  DEF Next, Producer, Worker, Encoder, Caller, Done

\* Type correctness, and with it that flush never indexes past the list of markets.
THEOREM TypeCorrect == Spec => []TypeOK
  BY TypeInit, TypeStep, PTL DEF Spec

-----------------------------------------------------------------------------
(* BufferBounds.  Inductive form: a table without records counts no bytes; *)
(* a table over the target is still to be visited while full_tables are    *)
(* flushed; outside the Records arm both limits hold.                      *)

BoundsInv ==
    \A m \in Markets :
        /\ \A t \in Tables : tables[m][t] = <<>> => bytes[m][t] = 0
        /\ pc[m] \notin {"push", "full", "limit"} => buffered[m] < BufferBytes
        /\ pc[m] \notin {"push", "full"} => \A t \in Tables : bytes[m][t] < SegmentBytes
        /\ pc[m] = "full" => \A t \in Tables : bytes[m][t] >= SegmentBytes => t \in todo[m]

\* What BoundsInv says depends on these variables of the workers only.
LEMMA BoundsStutter ==
    BoundsInv /\ UNCHANGED <<pc, todo, tables, bytes, buffered>> => BoundsInv'
  BY DEF BoundsInv

\* Every step keeps BoundsInv.
LEMMA BoundsStep == TypeOK /\ BoundsInv /\ [Next]_vars => BoundsInv'
<1> SUFFICES ASSUME TypeOK, BoundsInv, [Next]_vars PROVE BoundsInv'
  OBVIOUS
<1> USE SettingsAssumption
<1>0. /\ pc \in [Markets -> WorkerPc] /\ todo \in [Markets -> SUBSET Tables]
      /\ tables \in [Markets -> [Tables -> Seq(Records)]]
      /\ bytes \in [Markets -> [Tables -> Nat]] /\ buffered \in [Markets -> Nat]
  BY DEF TypeOK, WorkerTypes, BufferTypes
<1>1. CASE UNCHANGED <<pc, todo, tables, bytes, buffered>>
  BY <1>1, BoundsStutter
<1>2. ASSUME NEW m \in Markets, Recv(m) PROVE BoundsInv'
  BY <1>0, <1>2 DEF Recv, BoundsInv
<1>3. ASSUME NEW m \in Markets, Dispatch(m) PROVE BoundsInv'
  BY <1>0, <1>3 DEF Dispatch, BoundsInv
<1>4. ASSUME NEW m \in Markets, Push(m) PROVE BoundsInv'
  <2> DEFINE r == Head(command[m].records)
  <2>1. r \in Records /\ TableOf[r] \in Tables /\ BytesOf[r] \in Nat
    BY <1>0, <1>4, PushedRecord
  <2>2. \A n \in Markets, t \in Tables : tables'[n][t] = <<>> => bytes'[n][t] = 0
    <3> SUFFICES ASSUME NEW n \in Markets, NEW t \in Tables, tables'[n][t] = <<>>
                 PROVE  bytes'[n][t] = 0
      OBVIOUS
    <3>1. ASSUME n = m, t = TableOf[r] PROVE FALSE
      <4>1. tables[m][t] \in Seq(Records)
        BY <1>0
      <4>2. tables'[m][t] = Append(tables[m][t], r)
        BY <1>0, <1>4, <2>1, <3>1 DEF Push
      <4>3. Append(tables[m][t], r) # <<>>
        BY <2>1, <4>1, AppendProperties
      <4> QED
        BY <3>1, <4>2, <4>3
    <3>2. tables'[n][t] = tables[n][t] /\ bytes'[n][t] = bytes[n][t]
      BY <1>0, <1>4, <2>1, <3>1 DEF Push
    <3> QED
      BY <3>2 DEF BoundsInv
  <2>3. \A n \in Markets \ {m} : buffered'[n] = buffered[n] /\ bytes'[n] = bytes[n]
    BY <1>0, <1>4 DEF Push
  <2> QED
    BY <1>0, <1>4, <2>2, <2>3 DEF Push, BoundsInv
<1>5. ASSUME NEW m \in Markets, Pushed(m) PROVE BoundsInv'
  BY <1>0, <1>5 DEF Pushed, Full, Held, BoundsInv
<1>6. ASSUME NEW m \in Markets, flush_largest(m) PROVE BoundsInv'
  <2>1. \A t \in Tables : bytes[m][t] < SegmentBytes
    <3> SUFFICES ASSUME NEW t \in Tables PROVE bytes[m][t] < SegmentBytes
      OBVIOUS
    <3>1. ~(pc[m] = "full" /\ bytes[m][t] >= SegmentBytes)
      BY <1>0, <1>6 DEF flush_largest, BoundsInv
    <3>2. bytes[m][t] \in Nat /\ pc[m] \in {"full", "limit"}
      BY <1>0, <1>6 DEF flush_largest
    <3> QED
      BY <3>1, <3>2 DEF BoundsInv
  <2>2. pc' = [pc EXCEPT ![m] = "limit"] /\ UNCHANGED <<tables, bytes, buffered>>
    BY <1>0, <1>6 DEF flush_largest
  <2>3. \A n \in Markets \ {m} : todo'[n] = todo[n]
    BY <1>0, <1>6 DEF flush_largest
  <2> QED
    BY <1>0, <2>1, <2>2, <2>3 DEF BoundsInv
<1>7. ASSUME NEW m \in Markets, NEW t \in Tables, flush_table(m, t) PROVE BoundsInv'
  <2>1. \A n \in Markets, u \in Tables :
           \/ n = m /\ u = t /\ tables'[n][u] = <<>> /\ bytes'[n][u] = 0
           \/ ~(n = m /\ u = t) /\ tables'[n][u] = tables[n][u] /\ bytes'[n][u] = bytes[n][u]
    BY <1>0, <1>7 DEF flush_table
  <2>2. \A n \in Markets : buffered'[n] <= buffered[n]
    BY SMTT(40), <1>0, <1>7 DEF flush_table
  <2>3. pc' = pc /\ \A n \in Markets, u \in Tables : u \in todo[n] /\ ~(n = m /\ u = t) => u \in todo'[n]
    BY <1>0, <1>7 DEF flush_table
  <2>4. buffered' \in [Markets -> Nat]
    BY <1>0, <1>7 DEF flush_table
  <2> SUFFICES ASSUME NEW n \in Markets
               PROVE  /\ \A u \in Tables : tables'[n][u] = <<>> => bytes'[n][u] = 0
                      /\ pc'[n] \notin {"push", "full", "limit"} => buffered'[n] < BufferBytes
                      /\ pc'[n] \notin {"push", "full"} => \A u \in Tables : bytes'[n][u] < SegmentBytes
                      /\ pc'[n] = "full" => \A u \in Tables : bytes'[n][u] >= SegmentBytes => u \in todo'[n]
    BY DEF BoundsInv
  <2>5. \A u \in Tables : tables'[n][u] = <<>> => bytes'[n][u] = 0
    BY <2>1 DEF BoundsInv
  <2>6. pc'[n] \notin {"push", "full", "limit"} => buffered'[n] < BufferBytes
    BY <1>0, <2>2, <2>3, <2>4 DEF BoundsInv
  <2>7. pc'[n] \notin {"push", "full"} => \A u \in Tables : bytes'[n][u] < SegmentBytes
    BY <2>1, <2>3 DEF BoundsInv
  <2>8. pc'[n] = "full" => \A u \in Tables : bytes'[n][u] >= SegmentBytes => u \in todo'[n]
    BY <2>1, <2>3 DEF BoundsInv
  <2> QED
    BY <2>5, <2>6, <2>7, <2>8
<1>8. ASSUME NEW m \in Markets, Finish(m) PROVE BoundsInv'
  <2>1. \A t \in Tables : bytes[m][t] < SegmentBytes
    <3> SUFFICES ASSUME NEW t \in Tables PROVE bytes[m][t] < SegmentBytes
      OBVIOUS
    <3>1. ~(pc[m] = "full" /\ bytes[m][t] >= SegmentBytes)
      BY <1>0, <1>8 DEF Finish, BoundsInv
    <3> QED
      BY <1>0, <1>8, <3>1 DEF Finish, BoundsInv
  <2>2. buffered[m] < BufferBytes
    BY <1>0, <1>8 DEF Finish, BoundsInv
  <2>3. /\ pc' \in {[pc EXCEPT ![m] = "recv"], [pc EXCEPT ![m] = "barrier"]}
        /\ UNCHANGED <<todo, tables, bytes, buffered>>
    BY <1>0, <1>8 DEF Finish
  <2> QED
    BY <1>0, <2>1, <2>2, <2>3 DEF BoundsInv
<1>9. ASSUME NEW m \in Markets, SendBarrier(m) PROVE BoundsInv'
  BY <1>0, <1>9 DEF SendBarrier, BoundsInv
<1>10. ASSUME NEW m \in Markets, Respond(m) PROVE BoundsInv'
  BY <1>0, <1>10 DEF Respond, BoundsInv
<1>11. ASSUME NEW m \in Markets, Drain(m) PROVE BoundsInv'
  BY <1>0, <1>11 DEF Drain, BoundsInv
<1>12. ASSUME NEW m \in Markets, Stop(m) PROVE BoundsInv'
  BY <1>0, <1>12 DEF Stop, BoundsInv
<1>13. CASE Crash
  BY <1>0, <1>13 DEF Crash, BoundsInv
<1> QED
  BY <1>1, <1>2, <1>3, <1>4, <1>5, <1>6, <1>7, <1>8, <1>9, <1>10, <1>11, <1>12, <1>13
  DEF Next, Producer, Worker, Encoder, Caller, Done, vars, worker, encoder, inputs, records,
      SendTick, Elapse, HourRolls, Close, flush, FlushSend, FlushResult, FlushStopped,
      FlushCancelled, EncodeRecv, EncodeBarrier, Encoded, EncodeFailed, EncoderPanics

\* A worker that waits for a command is below both limits, for every pair of limits that
\* config.rs accepts and every size of record.
THEOREM BoundsHold == Spec => []BufferBounds
<1>1. Init => BoundsInv
  BY SettingsAssumption DEF Init, BoundsInv
<1>2. BoundsInv => BufferBounds
  BY DEF BoundsInv, BufferBounds
<1> QED
  BY <1>1, <1>2, BoundsStep, TypeCorrect, PTL DEF Spec

-----------------------------------------------------------------------------
(* NoOverwrite.  Inductive form: the segments of one market leave its      *)
(* worker with growing sequence numbers, and every stage behind the worker *)
(* holds older ones than the stage before it.                              *)

Older(s, u) == s.market = u.market => s.sequence < u.sequence
IsWrite(i) == i \in 1..Len(jobs) /\ jobs[i].type = "write"

JobsCounted == \A i \in 1..Len(jobs) :
    IsWrite(i) => jobs[i].job.sequence <= sequence[jobs[i].job.market]
JobsOrdered == \A i, j \in 1..Len(jobs) :
    IsWrite(i) /\ IsWrite(j) /\ i < j => Older(jobs[i].job, jobs[j].job)
WrittenCounted == \A s \in disk \cup Range(encoding) : s.sequence <= sequence[s.market]
WrittenOlder == \A s \in disk \cup Range(encoding) : \A i \in 1..Len(jobs) :
    IsWrite(i) => Older(s, jobs[i].job)
DiskOlder == \A s \in disk, u \in Range(encoding) : Older(s, u)
SequenceInv == JobsCounted /\ JobsOrdered /\ WrittenCounted /\ WrittenOlder /\ DiskOlder

\* What removing the first command from the encoder's queue leaves.
LEMMA TailOfJobs ==
    ASSUME TypeOK, jobs # <<>>, jobs' = Tail(jobs)
    PROVE  /\ Len(jobs') = Len(jobs) - 1
           /\ \A i \in 1..Len(jobs') : jobs'[i] = jobs[i + 1] /\ i + 1 \in 1..Len(jobs)
  BY DEF TypeOK, EncoderTypes

\* What appending a command to the encoder's queue leaves.
LEMMA AppendToJobs ==
    ASSUME TypeOK, NEW c \in EncodeCommand, jobs' = Append(jobs, c)
    PROVE  /\ Len(jobs') = Len(jobs) + 1 /\ Len(jobs) \in Nat
           /\ \A i \in 1..Len(jobs) : jobs'[i] = jobs[i]
           /\ jobs'[Len(jobs) + 1] = c
  BY DEF TypeOK, EncoderTypes

\* The types SequenceInv is about.
LEMMA SegmentTypes ==
    ASSUME TypeOK
    PROVE  /\ \A s \in disk \cup Range(encoding) : s.market \in Markets /\ s.sequence \in Nat
           /\ \A i \in 1..Len(jobs) : IsWrite(i) =>
                 jobs[i].job \in Job /\ jobs[i].job.market \in Markets /\ jobs[i].job.sequence \in Nat
<1>1. \A s \in disk \cup Range(encoding) : s \in Job
  BY RangeType DEF TypeOK, EncoderTypes
<1>2. \A i \in 1..Len(jobs) : IsWrite(i) => jobs[i].job \in Job
  BY EncodeCommandTypes DEF TypeOK, EncoderTypes, IsWrite
<1> QED
  BY <1>1, <1>2 DEF Job

\* Every step keeps SequenceInv.
LEMMA SequenceStep == TypeOK /\ SequenceInv /\ [Next]_vars => SequenceInv'
<1> SUFFICES ASSUME TypeOK, SequenceInv, [Next]_vars PROVE SequenceInv'
  OBVIOUS
<1> USE DEF SequenceInv
<1>0. sequence \in [Markets -> Nat] /\ jobs \in Seq(EncodeCommand)
  BY DEF TypeOK, WorkerTypes, EncoderTypes
<1>1. CASE UNCHANGED <<sequence, jobs, encoding, disk>>
  BY <1>1 DEF JobsCounted, JobsOrdered, WrittenCounted, WrittenOlder, DiskOlder, IsWrite
<1>2. ASSUME NEW m \in Markets, NEW t \in Tables, flush_table(m, t) PROVE SequenceInv'
  <2> DEFINE n == Len(jobs) + 1
             job == TableJob(m, t)
  <2>1. job \in Job /\ job.market = m /\ job.sequence = sequence[m] + 1
    BY DEF TableJob, NextSequence, Job, TypeOK, WorkerTypes, BufferTypes
  <2>2. /\ Len(jobs') = n /\ Len(jobs) \in Nat
        /\ \A i \in 1..Len(jobs) : jobs'[i] = jobs[i]
        /\ jobs'[n].type = "write" /\ jobs'[n].job = job
    <3>1. Write(job) \in EncodeCommand /\ jobs' = Append(jobs, Write(job))
      BY <1>2, <2>1, EncodeCommandTypes DEF flush_table
    <3> QED
      BY <3>1, AppendToJobs DEF Write
  <2>3. \A k \in Markets : sequence'[k] \in Nat /\ sequence[k] <= sequence'[k]
    BY <1>0, <1>2 DEF flush_table, NextSequence
  <2>4. sequence'[m] = sequence[m] + 1
    BY <1>0, <1>2 DEF flush_table, NextSequence
  <2>5. UNCHANGED <<encoding, disk>>
    BY <1>2 DEF flush_table, encoder
  <2>6. \A i \in 1..Len(jobs') : IsWrite(i)' => (i \in 1..Len(jobs) /\ IsWrite(i)) \/ i = n
    BY <2>2 DEF IsWrite
  <2>7. JobsCounted'
    BY <1>0, <2>1, <2>2, <2>3, <2>4, <2>6, SegmentTypes DEF JobsCounted
  <2>8. JobsOrdered'
    <3> SUFFICES ASSUME NEW i \in 1..n, NEW j \in 1..n, IsWrite(i)', IsWrite(j)', i < j
                 PROVE  Older(jobs'[i].job, jobs'[j].job)
      BY <2>2 DEF JobsOrdered, Older
    <3>1. i \in 1..Len(jobs) /\ IsWrite(i) /\ jobs'[i] = jobs[i]
      BY <2>2, <2>6
    <3>2. CASE j = n
      BY <1>0, <2>1, <2>2, <3>1, <3>2, SegmentTypes DEF JobsCounted, Older
    <3>3. CASE j # n
      <4>1. j \in 1..Len(jobs) /\ IsWrite(j) /\ jobs'[j] = jobs[j]
        BY <2>2, <2>6, <3>3
      <4> QED
        BY <3>1, <4>1 DEF JobsOrdered
    <3> QED
      BY <3>2, <3>3
  <2>9. WrittenCounted'
    BY <1>0, <2>3, <2>5, SegmentTypes DEF WrittenCounted
  <2>10. WrittenOlder'
    <3> SUFFICES ASSUME NEW s \in disk \cup Range(encoding), NEW i \in 1..n, IsWrite(i)'
                 PROVE  Older(s, jobs'[i].job)
      BY <2>2, <2>5 DEF WrittenOlder, Older
    <3>1. CASE i = n
      BY <1>0, <2>1, <2>2, <3>1, SegmentTypes DEF WrittenCounted, Older
    <3>2. CASE i # n
      <4>1. i \in 1..Len(jobs) /\ IsWrite(i) /\ jobs'[i] = jobs[i]
        BY <2>2, <2>6, <3>2
      <4> QED
        BY <4>1 DEF WrittenOlder
    <3> QED
      BY <3>1, <3>2
  <2>11. DiskOlder'
    BY <2>5 DEF DiskOlder
  <2> QED
    BY <2>7, <2>8, <2>9, <2>10, <2>11
<1>3. ASSUME NEW m \in Markets, SendBarrier(m) PROVE SequenceInv'
  <2>1. /\ Len(jobs') = Len(jobs) + 1 /\ Len(jobs) \in Nat
        /\ \A i \in 1..Len(jobs) : jobs'[i] = jobs[i]
        /\ jobs'[Len(jobs) + 1].type = "barrier"
    <3>1. Barrier(m) \in EncodeCommand /\ jobs' = Append(jobs, Barrier(m))
      BY <1>3, EncodeCommandTypes DEF SendBarrier
    <3> QED
      BY <3>1, AppendToJobs DEF Barrier
  <2>2. UNCHANGED <<sequence, encoding, disk>>
    BY <1>3 DEF SendBarrier, encoder
  <2>3. \A i \in 1..Len(jobs') : IsWrite(i)' => i \in 1..Len(jobs) /\ IsWrite(i) /\ jobs'[i] = jobs[i]
    BY <2>1 DEF IsWrite
  <2> QED
    BY <2>1, <2>2, <2>3 DEF JobsCounted, JobsOrdered, WrittenCounted, WrittenOlder, DiskOlder
<1>4. CASE EncodeRecv
  <2> DEFINE job == Head(jobs).job
  <2>1. /\ jobs # <<>> /\ jobs' = Tail(jobs) /\ encoding = <<>> /\ encoding' = <<job>>
        /\ UNCHANGED <<sequence, disk>> /\ Head(jobs).type = "write"
    BY <1>4 DEF EncodeRecv, worker
  <2>2. IsWrite(1) /\ jobs[1].job = job
    BY <1>0, <2>1 DEF IsWrite
  <2>3. \A i \in 1..Len(jobs') : IsWrite(i)' =>
           i + 1 \in 1..Len(jobs) /\ IsWrite(i + 1) /\ jobs'[i] = jobs[i + 1] /\ 1 < i + 1
    BY <1>0, <2>1, TailOfJobs DEF IsWrite
  <2>4. Range(encoding') = {job} /\ 1 \in 1..Len(jobs)
    BY <2>1, <2>2 DEF Range, IsWrite
  <2>5. JobsCounted'
    BY <2>1, <2>3 DEF JobsCounted
  <2>6. JobsOrdered'
    <3> SUFFICES ASSUME NEW i \in 1..Len(jobs'), NEW j \in 1..Len(jobs'),
                        IsWrite(i)', IsWrite(j)', i < j
                 PROVE  Older(jobs'[i].job, jobs'[j].job)
      BY DEF JobsOrdered, Older
    <3>1. i + 1 < j + 1
      BY <1>0, <2>1, TailOfJobs
    <3> QED
      BY <2>3, <3>1 DEF JobsOrdered
  <2>7. WrittenCounted'
    BY <2>1, <2>2, <2>4 DEF WrittenCounted, JobsCounted
  <2>8. WrittenOlder'
    BY <2>1, <2>2, <2>3, <2>4 DEF WrittenOlder, JobsOrdered, Older
  <2>9. DiskOlder'
    BY <2>1, <2>2, <2>4 DEF DiskOlder, WrittenOlder, Older
  <2> QED
    BY <2>5, <2>6, <2>7, <2>8, <2>9
<1>5. CASE EncodeBarrier
  <2>1. jobs # <<>> /\ jobs' = Tail(jobs) /\ UNCHANGED <<sequence, encoding, disk>>
    BY <1>5 DEF EncodeBarrier, worker
  <2>2. \A i \in 1..Len(jobs') : IsWrite(i)' =>
           i + 1 \in 1..Len(jobs) /\ IsWrite(i + 1) /\ jobs'[i] = jobs[i + 1]
    BY <1>0, <2>1, TailOfJobs DEF IsWrite
  <2>3. \A i, j \in 1..Len(jobs') : i < j => i + 1 < j + 1
    BY <1>0, <2>1, TailOfJobs
  <2> QED
    BY <2>1, <2>2, <2>3
    DEF JobsCounted, JobsOrdered, WrittenCounted, WrittenOlder, DiskOlder, Older
<1>6. CASE Encoded \/ EncodeFailed
  <2>1. /\ encoding' = <<>> /\ UNCHANGED <<sequence, jobs>>
        /\ disk' \subseteq disk \cup {encoding[1]} /\ encoding # <<>>
    BY <1>6 DEF Encoded, EncodeFailed, Publish, worker
  <2>2. encoding[1] \in Range(encoding) /\ Range(encoding') = {}
    BY <2>1 DEF Range, TypeOK, EncoderTypes
  <2>3. disk' \cup Range(encoding') \subseteq disk \cup Range(encoding)
    BY <2>1, <2>2
  <2> QED
    BY <2>1, <2>2, <2>3
    DEF JobsCounted, JobsOrdered, WrittenCounted, WrittenOlder, DiskOlder, IsWrite
<1>7. CASE EncoderPanics
  <2>1. jobs' = <<>> /\ encoding' = <<>> /\ UNCHANGED <<sequence, disk>>
    BY <1>7 DEF EncoderPanics, worker
  <2>2. Range(encoding') = {} /\ 1..Len(jobs') = {}
    BY <2>1 DEF Range
  <2> QED
    BY <2>1, <2>2 DEF JobsCounted, JobsOrdered, WrittenCounted, WrittenOlder, DiskOlder
<1>8. CASE Crash
  <2>1. /\ jobs' = <<>> /\ encoding' = <<>>
        /\ disk' \in {disk} \cup {Publish(s) : s \in Range(encoding)}
    BY <1>8 DEF Crash
  <2>2. sequence' = sequence
    BY <1>0, <1>8 DEF Crash, RestartSequence
  <2>3. Range(encoding') = {} /\ 1..Len(jobs') = {}
    BY <2>1 DEF Range
  <2>4. disk' \subseteq disk \cup Range(encoding)
    BY <2>1 DEF Publish
  <2> QED
    BY <2>1, <2>2, <2>3, <2>4 DEF JobsCounted, JobsOrdered, WrittenCounted, WrittenOlder, DiskOlder
<1> QED
  BY <1>1, <1>2, <1>3, <1>4, <1>5, <1>6, <1>7, <1>8
  DEF Next, Producer, Worker, Encoder, Caller, Done, vars, worker, encoder, inputs, records,
      SendTick, Elapse, HourRolls, Close, flush, FlushSend, FlushResult, FlushStopped,
      FlushCancelled, Recv, Dispatch, Push, Pushed, flush_largest, Finish, Respond, Drain, Stop

\* write_segment's rename never replaces a segment, of this process or of one before it: no
\* path is used twice, whatever the workers and the encoder do and however often they restart.
THEOREM PathsNeverReused == Spec => []NoOverwrite
<1>1. Init => SequenceInv
  BY DEF Init, SequenceInv, JobsCounted, JobsOrdered, WrittenCounted, WrittenOlder, DiskOlder, Range
<1>2. TypeOK /\ SequenceInv => NoOverwrite
  <2> SUFFICES ASSUME TypeOK, SequenceInv PROVE NoOverwrite
    OBVIOUS
  <2>1. ASSUME NEW s \in disk, NEW u \in Range(encoding) PROVE Path(s) # Path(u)
    BY SegmentTypes DEF SequenceInv, DiskOlder, Older, Path
  <2>2. ASSUME NEW s \in disk, NEW c \in Range(jobs), c.type = "write" PROVE Path(s) # Path(c.job)
    <3>1. PICK i \in 1..Len(jobs) : jobs[i] = c
      BY DEF Range, TypeOK, EncoderTypes
    <3>2. IsWrite(i)
      BY <2>2, <3>1 DEF IsWrite
    <3> QED
      BY <3>1, <3>2, SegmentTypes DEF SequenceInv, WrittenOlder, Older, Path
  <2> QED
    BY <2>1, <2>2 DEF NoOverwrite
<1> QED
  BY <1>1, <1>2, SequenceStep, TypeCorrect, PTL DEF Spec

-----------------------------------------------------------------------------
(* Where the rows are.                                                     *)


\* The records of one command in a worker's queue, and of one in the encoder's.
Carried(c) == IF c.type = "records" THEN Range(c.records) ELSE {}
Written(c) == IF c.type = "write" THEN Range(c.job.records) ELSE {}

InQueue(m, r) == \E i \in 1..Len(queue[m]) : r \in Carried(queue[m][i])
InTables(m, r) == \E t \in Tables : r \in Range(tables[m][t])
InJobs(r) == \E i \in 1..Len(jobs) : r \in Written(jobs[i])
InEncoding(r) == \E i \in 1..Len(encoding) : r \in Range(encoding[i].records)
OnDisk(r) == \E s \in disk : r \in Range(s.records)
\* Past the queue: a worker has received the record and it is not dropped.
Received(r) ==
    \/ \E m \in Markets : r \in Carried(command[m]) \/ InTables(m, r)
    \/ InJobs(r) \/ InEncoding(r) \/ OnDisk(r)

\* A record is in one command of its own market's queue, and not yet anywhere else.
QueueOnce ==
    /\ \A m \in Markets : \A i \in 1..Len(queue[m]) : \A r \in Carried(queue[m][i]) :
          /\ MarketOf[r] = m /\ r \in Accepted /\ ~Received(r)
          /\ \A j \in 1..Len(queue[m]) : r \in Carried(queue[m][j]) => i = j
    /\ \A r \in Records : Received(r) => r \in Accepted

\* The worker's hour: the tables of an hour that is over are emptied before it changes.
HourKept(m) ==
    /\ hour[m] <= now /\ current_hour[m] <= now
    /\ pc[m] = "rollover" => hour[m] <= current_hour[m]
    /\ pc[m] = "rollover" /\ hour[m] < current_hour[m] =>
          \A t \in Tables \ todo[m] : tables[m][t] = <<>>
    /\ pc[m] = "push" => hour[m] = current_hour[m]
HourInv == \A m \in Markets : HourKept(m)

\* Rows stand where they belong, from the worker's hand to the disk.
Pure(s) ==
    \A r \in Range(s.records) : MarketOf[r] = s.market /\ TableOf[r] = s.table /\ received[r] = s.hour
HandPure ==
    \A m \in Markets : \A r \in Carried(command[m]) : MarketOf[r] = m /\ received[r] = current_hour[m]
TablesPure ==
    \A m \in Markets, t \in Tables : \A r \in Range(tables[m][t]) :
        MarketOf[r] = m /\ TableOf[r] = t /\ received[r] = hour[m]
JobsPure ==
    /\ \A i \in 1..Len(jobs) : jobs[i].type = "write" => Pure(jobs[i].job)
    /\ \A i \in 1..Len(encoding) : Pure(encoding[i])
PureInv == HandPure /\ TablesPure /\ JobsPure /\ SegmentPure

-----------------------------------------------------------------------------
(* Sequences.                                                              *)

LEMMA AppendFacts ==
    ASSUME NEW S, NEW s \in Seq(S), NEW e \in S
    PROVE  /\ Len(Append(s, e)) = Len(s) + 1 /\ Len(s) \in Nat
           /\ \A i \in 1..Len(s) : Append(s, e)[i] = s[i]
           /\ Append(s, e)[Len(s) + 1] = e
  OBVIOUS

LEMMA TailFacts ==
    ASSUME NEW S, NEW s \in Seq(S), s # <<>>
    PROVE  /\ Len(Tail(s)) = Len(s) - 1 /\ Len(s) \in Nat /\ 1 \in 1..Len(s) /\ Head(s) = s[1]
           /\ \A i \in 1..Len(Tail(s)) : Tail(s)[i] = s[i + 1] /\ i + 1 \in 1..Len(s) /\ i + 1 # 1
  OBVIOUS

LEMMA RangeOfAppend ==
    ASSUME NEW S, NEW s \in Seq(S), NEW e \in S
    PROVE  Range(Append(s, e)) = Range(s) \cup {e}
<1>1. DOMAIN Append(s, e) = (1..Len(s)) \cup {Len(s) + 1} /\ DOMAIN s = 1..Len(s)
  OBVIOUS
<1>2. QED
  BY <1>1, AppendFacts DEF Range

LEMMA RangeOfTail ==
    ASSUME NEW S, NEW s \in Seq(S), s # <<>>
    PROVE  Range(s) = {Head(s)} \cup Range(Tail(s))
<1>1. DOMAIN Tail(s) = 1..(Len(s) - 1) /\ DOMAIN s = 1..Len(s)
  OBVIOUS
<1>2. \A i \in 1..Len(s) : i = 1 \/ (i - 1 \in 1..(Len(s) - 1) /\ Tail(s)[i - 1] = s[i])
  BY TailFacts
<1>3. ASSUME NEW x \in Range(s) PROVE x = Head(s) \/ x \in Range(Tail(s))
  <2>1. PICK i \in 1..Len(s) : x = s[i]
    BY <1>1, <1>3 DEF Range
  <2>2. CASE i = 1
    BY <2>1, <2>2, TailFacts
  <2>3. CASE i - 1 \in 1..(Len(s) - 1) /\ Tail(s)[i - 1] = s[i]
    <3> DEFINE u == Tail(s)
    <3>1. i - 1 \in DOMAIN u /\ u[i - 1] = x
      BY <1>1, <2>1, <2>3
    <3> HIDE DEF u
    <3>2. QED
      BY <3>1 DEF Range, u
  <2>4. QED
    BY <1>2, <2>2, <2>3
<1>4. Range(Tail(s)) \subseteq Range(s) /\ Head(s) \in Range(s)
  BY <1>1, TailFacts DEF Range
<1>5. QED
  BY <1>3, <1>4

LEMMA RangeOfConcat ==
    ASSUME NEW S, NEW s \in Seq(S), NEW u \in Seq(S)
    PROVE  Range(s \o u) = Range(s) \cup Range(u)
<1>1. /\ DOMAIN (s \o u) = 1..(Len(s) + Len(u)) /\ DOMAIN s = 1..Len(s) /\ DOMAIN u = 1..Len(u)
      /\ Len(s) \in Nat /\ Len(u) \in Nat
  OBVIOUS
<1>2. \A i \in 1..(Len(s) + Len(u)) :
          (s \o u)[i] = IF i <= Len(s) THEN s[i] ELSE u[i - Len(s)]
  OBVIOUS
<1>3. ASSUME NEW i \in 1..Len(u) PROVE (s \o u)[i + Len(s)] = u[i] /\ i + Len(s) \in 1..(Len(s) + Len(u))
  BY <1>1, <1>2, <1>3
<1>4. ASSUME NEW i \in 1..Len(s) PROVE (s \o u)[i] = s[i] /\ i \in 1..(Len(s) + Len(u))
  BY <1>1, <1>2, <1>4
<1>5. ASSUME NEW i \in 1..(Len(s) + Len(u))
      PROVE  (i \in 1..Len(s) /\ (s \o u)[i] = s[i])
             \/ (i - Len(s) \in 1..Len(u) /\ (s \o u)[i] = u[i - Len(s)])
  BY <1>1, <1>2, <1>5
<1>6. QED
  BY <1>1, <1>3, <1>4, <1>5 DEF Range

LEMMA RangeOfEmpty == Range(<<>>) = {}
  BY DEF Range

LEMMA RangeIndex == ASSUME NEW S, NEW s \in Seq(S) PROVE Range(s) = {s[i] : i \in 1..Len(s)}
  BY DEF Range

LEMMA CarriedOne == ASSUME NEW c \in Command PROVE RecordsIn(<<c>>) = Carried(c)
<1>1. Range(<<c>>) = {c}
  BY DEF Range
<1>2. QED
  BY <1>1 DEF RecordsIn, Carried

LEMMA CarriedTypes ==
    /\ Carried(Tick) = {}
    /\ \A f \in Calls : Carried([type |-> "flush", response |-> f]) = {}
    /\ \A b \in Seq(Records) : Carried([type |-> "records", records |-> b]) = Range(b)
    /\ \A c \in Command : Carried(c) \subseteq Records
  BY CommandTypes, RangeType DEF Carried, Tick

LEMMA WrittenTypes ==
    /\ \A m \in Markets : Written(Barrier(m)) = {} /\ Barrier(m).type = "barrier"
    /\ \A j \in Job : Written(Write(j)) = Range(j.records) /\ Write(j).type = "write" /\ Write(j).job = j
    /\ \A c \in EncodeCommand : Written(c) \subseteq Records
  BY EncodeCommandTypes, JobRecords DEF Written, Barrier, Write

-----------------------------------------------------------------------------
(* What each action moves.                                                 *)

\* A producer, a timer or a call appends a command to a worker's queue.
LEMMA QueueAppended ==
    ASSUME TypeOK, NEW m \in Markets, NEW c \in Command,
           queue' = [queue EXCEPT ![m] = Append(@, c)]
    PROVE  /\ \A k \in Markets \ {m} : queue'[k] = queue[k]
           /\ Len(queue'[m]) = Len(queue[m]) + 1 /\ Len(queue[m]) \in Nat
           /\ \A i \in 1..Len(queue[m]) : queue'[m][i] = queue[m][i]
           /\ queue'[m][Len(queue[m]) + 1] = c
<1>1. queue[m] \in Seq(Command) /\ queue'[m] = Append(queue[m], c)
  BY DEF TypeOK, InputTypes
<1>2. \A k \in Markets \ {m} : queue'[k] = queue[k]
  BY DEF TypeOK, InputTypes
<1>3. QED
  BY <1>1, <1>2, AppendFacts

\* blocking_recv takes the first command of the queue into the hand.
LEMMA RecvMoves ==
    ASSUME TypeOK, NEW m \in Markets, Recv(m)
    PROVE  /\ \A k \in Markets \ {m} : queue'[k] = queue[k] /\ command'[k] = command[k]
           /\ 1 \in 1..Len(queue[m]) /\ command'[m] = queue[m][1] /\ queue[m][1] \in Command
           /\ Len(queue'[m]) = Len(queue[m]) - 1 /\ Len(queue[m]) \in Nat
           /\ \A i \in 1..Len(queue'[m]) :
                 queue'[m][i] = queue[m][i + 1] /\ i + 1 \in 1..Len(queue[m]) /\ i + 1 # 1
           /\ UNCHANGED <<tables, jobs, encoding, disk, accepted, hour, lost>>
           /\ \A r \in Records :
                 received'[r] = IF r \in Carried(queue[m][1]) THEN now ELSE received[r]
<1>1. queue[m] \in Seq(Command) /\ queue[m] # <<>> /\ queue'[m] = Tail(queue[m])
  BY DEF Recv, TypeOK, InputTypes
<1>2. /\ \A k \in Markets \ {m} : queue'[k] = queue[k] /\ command'[k] = command[k]
      /\ command'[m] = Head(queue[m])
  BY DEF Recv, TypeOK, InputTypes, WorkerTypes
<1>3. Head(queue[m]) = queue[m][1] /\ queue[m][1] \in Command
  BY <1>1
<1>4. \A r \in Records : received'[r] = IF r \in Carried(queue[m][1]) THEN now ELSE received[r]
  BY <1>3, CarriedOne DEF Recv
<1>5. UNCHANGED <<tables, jobs, encoding, disk, accepted, hour, lost>>
  BY DEF Recv, encoder
<1>6. QED
  BY <1>1, <1>2, <1>3, <1>4, <1>5, TailFacts

\* The record leaves the hand for its table.
LEMMA PushMoves ==
    ASSUME TypeOK, NEW m \in Markets, Push(m)
    PROVE  LET r == Head(command[m].records) IN
           /\ r \in Records /\ TableOf[r] \in Tables /\ pc[m] = "push"
           /\ Carried(command[m]) = {r} \cup Carried(command'[m])
           /\ Carried(command'[m]) \subseteq Records
           /\ Range(tables'[m][TableOf[r]]) = Range(tables[m][TableOf[r]]) \cup {r}
           /\ \A t \in Tables \ {TableOf[r]} : tables'[m][t] = tables[m][t]
           /\ \A k \in Markets \ {m} : command'[k] = command[k] /\ tables'[k] = tables[k]
           /\ command[m].type = "records" /\ command'[m].type = "records"
           /\ UNCHANGED <<queue, jobs, encoding, disk, accepted, hour, current_hour, received, lost>>
<1> DEFINE r == Head(command[m].records)
           b == command[m].records
<1>1. r \in Records /\ TableOf[r] \in Tables /\ Tail(b) \in Seq(Records)
  BY PushedRecord
<1>2. command[m] \in Command /\ command[m].type = "records" /\ b \in Seq(Records) /\ b # <<>>
      /\ pc[m] = "push"
  BY CommandTypes DEF Push, TypeOK, WorkerTypes
<1>3. command'[m] = [command[m] EXCEPT !.records = Tail(b)]
  BY DEF Push, TypeOK, WorkerTypes
<1>4. command'[m].type = "records" /\ command'[m].records = Tail(b)
  BY <1>2, <1>3 DEF Command
<1>5. Carried(command[m]) = {r} \cup Carried(command'[m]) /\ Carried(command'[m]) \subseteq Records
  BY <1>1, <1>2, <1>4, RangeOfTail, RangeType DEF Carried
<1>6. tables[m] \in [Tables -> Seq(Records)] /\ tables[m][TableOf[r]] \in Seq(Records)
  BY <1>1 DEF TypeOK, BufferTypes
<1>7. /\ tables'[m][TableOf[r]] = Append(tables[m][TableOf[r]], r)
      /\ \A t \in Tables \ {TableOf[r]} : tables'[m][t] = tables[m][t]
      /\ \A k \in Markets \ {m} : command'[k] = command[k] /\ tables'[k] = tables[k]
  BY <1>1 DEF Push, TypeOK, BufferTypes, WorkerTypes
<1>8. UNCHANGED <<queue, jobs, encoding, disk, accepted, hour, current_hour, received, lost>>
  BY DEF Push, inputs, encoder
<1>9. Range(tables'[m][TableOf[r]]) = Range(tables[m][TableOf[r]]) \cup {r}
  <2>1. \A q \in Seq(Records), x \in Records : Range(Append(q, x)) = Range(q) \cup {x}
    BY RangeOfAppend
  <2> HIDE DEF r
  <2>2. QED
    BY <1>1, <1>6, <1>7, <2>1
<1> HIDE DEF r, b
<1>10. QED
  BY <1>1, <1>2, <1>4, <1>5, <1>7, <1>8, <1>9 DEF r

\* flush_table hands the rows of a table to the encoder's queue.
LEMMA FlushTableMoves ==
    ASSUME TypeOK, NEW m \in Markets, NEW t \in Tables, flush_table(m, t)
    PROVE  /\ tables'[m][t] = <<>> /\ \A u \in Tables \ {t} : tables'[m][u] = tables[m][u]
           /\ \A k \in Markets \ {m} : tables'[k] = tables[k] /\ todo'[k] = todo[k]
           /\ todo'[m] = todo[m] \ {t} /\ alive
           /\ Len(jobs') = Len(jobs) + 1 /\ Len(jobs) \in Nat
           /\ \A i \in 1..Len(jobs) : jobs'[i] = jobs[i]
           /\ jobs'[Len(jobs) + 1] = Write(TableJob(m, t)) /\ TableJob(m, t) \in Job
           /\ Written(jobs'[Len(jobs) + 1]) = Range(tables[m][t])
           /\ UNCHANGED <<queue, command, pc, encoding, disk, accepted, hour, current_hour, received,
                          lost, answer, alive>>
<1>1. TableJob(m, t) \in Job /\ TableJob(m, t).records = tables[m][t]
  BY DEF TableJob, NextSequence, Job, TypeOK, WorkerTypes, BufferTypes
<1>2. jobs' = Append(jobs, Write(TableJob(m, t))) /\ Write(TableJob(m, t)) \in EncodeCommand
  BY <1>1, EncodeCommandTypes DEF flush_table
<1>3. /\ tables'[m][t] = <<>> /\ \A u \in Tables \ {t} : tables'[m][u] = tables[m][u]
      /\ \A k \in Markets \ {m} : tables'[k] = tables[k] /\ todo'[k] = todo[k]
      /\ todo'[m] = todo[m] \ {t} /\ alive
  BY DEF flush_table, TypeOK, WorkerTypes, BufferTypes
<1>4. UNCHANGED <<queue, command, pc, encoding, disk, accepted, hour, current_hour, received, lost,
                  answer, alive>>
  BY DEF flush_table, inputs, encoder
<1>5. QED
  BY <1>1, <1>2, <1>3, <1>4, AppendToJobs, WrittenTypes

\* The end of a command empties the hand.
LEMMA HandEmptied ==
    ASSUME TypeOK, NEW m \in Markets, Finish(m) \/ Respond(m)
    PROVE  /\ \A k \in Markets \ {m} : command'[k] = command[k]
           /\ command'[m] = command[m] \/ command'[m] = Tick
           /\ UNCHANGED <<queue, tables, jobs, encoding, disk, accepted, hour, current_hour, received,
                          lost>>
  BY DEF Finish, Respond, TypeOK, WorkerTypes, inputs, encoder

\* The encoder takes the first command of its queue.
LEMMA EncodeRecvMoves ==
    ASSUME TypeOK, EncodeRecv
    PROVE  /\ 1 \in 1..Len(jobs) /\ jobs[1].type = "write" /\ jobs[1].job \in Job
           /\ encoding = <<>> /\ Len(encoding') = 1 /\ encoding'[1] = jobs[1].job /\ alive
           /\ Len(jobs') = Len(jobs) - 1 /\ Len(jobs) \in Nat
           /\ \A i \in 1..Len(jobs') :
                 jobs'[i] = jobs[i + 1] /\ i + 1 \in 1..Len(jobs) /\ i + 1 # 1
           /\ UNCHANGED <<queue, command, pc, tables, disk, accepted, hour, current_hour, received,
                          lost, answer, alive>>
<1>1. jobs \in Seq(EncodeCommand) /\ jobs # <<>> /\ jobs' = Tail(jobs) /\ Head(jobs).type = "write"
  BY DEF EncodeRecv, TypeOK, EncoderTypes
<1>2. Head(jobs) = jobs[1] /\ jobs[1].job \in Job
  BY <1>1, EncodeCommandTypes
<1>3. encoding = <<>> /\ Len(encoding') = 1 /\ encoding'[1] = jobs[1].job /\ alive
  BY <1>2 DEF EncodeRecv
<1>4. UNCHANGED <<queue, command, pc, tables, disk, accepted, hour, current_hour, received, lost,
                  answer, alive>>
  BY DEF EncodeRecv, inputs, worker
<1>5. QED
  BY <1>1, <1>2, <1>3, <1>4, TailFacts

LEMMA EncodeBarrierMoves ==
    ASSUME TypeOK, EncodeBarrier
    PROVE  /\ 1 \in 1..Len(jobs) /\ jobs[1] = Barrier(jobs[1].market) /\ jobs[1].market \in Markets
           /\ encoding = <<>> /\ alive
           /\ answer'[jobs[1].market] \in {"ok", "err"}
           /\ \A k \in Markets \ {jobs[1].market} : answer'[k] = answer[k]
           /\ Len(jobs') = Len(jobs) - 1 /\ Len(jobs) \in Nat
           /\ \A i \in 1..Len(jobs') :
                 jobs'[i] = jobs[i + 1] /\ i + 1 \in 1..Len(jobs) /\ i + 1 # 1
           /\ UNCHANGED <<queue, command, pc, tables, encoding, disk, accepted, hour, current_hour,
                          received, lost, alive>>
<1>1. jobs \in Seq(EncodeCommand) /\ jobs # <<>> /\ jobs' = Tail(jobs) /\ Head(jobs).type = "barrier"
  BY DEF EncodeBarrier, TypeOK, EncoderTypes
<1>2. Head(jobs) = jobs[1] /\ jobs[1] \in EncodeCommand /\ jobs[1].market \in Markets
  BY <1>1, EncodeCommandTypes
<1>3. jobs[1] = Barrier(jobs[1].market)
  BY <1>1, <1>2 DEF EncodeCommand, Barrier
<1>4. /\ answer'[jobs[1].market] \in {"ok", "err"} /\ encoding = <<>> /\ alive
      /\ \A k \in Markets \ {jobs[1].market} : answer'[k] = answer[k]
  BY <1>2 DEF EncodeBarrier, BarrierResult, TypeOK, WorkerTypes
<1>5. UNCHANGED <<queue, command, pc, tables, encoding, disk, accepted, hour, current_hour, received,
                  lost, alive>>
  BY DEF EncodeBarrier, inputs, worker
<1>6. QED
  BY <1>1, <1>2, <1>3, <1>4, <1>5, TailFacts

LEMMA SendBarrierMoves ==
    ASSUME TypeOK, NEW m \in Markets, SendBarrier(m)
    PROVE  /\ Len(jobs') = Len(jobs) + 1 /\ Len(jobs) \in Nat
           /\ \A i \in 1..Len(jobs) : jobs'[i] = jobs[i]
           /\ jobs'[Len(jobs) + 1] = Barrier(m) /\ alive
           /\ pc[m] = "barrier" /\ pc'[m] = "await" /\ \A k \in Markets \ {m} : pc'[k] = pc[k]
           /\ UNCHANGED <<queue, command, tables, encoding, disk, accepted, hour, current_hour,
                          received, lost, answer, alive>>
<1>1. Barrier(m) \in EncodeCommand /\ jobs' = Append(jobs, Barrier(m))
  BY EncodeCommandTypes DEF SendBarrier
<1>2. pc[m] = "barrier" /\ pc'[m] = "await" /\ (\A k \in Markets \ {m} : pc'[k] = pc[k]) /\ alive
  BY DEF SendBarrier, TypeOK, WorkerTypes
<1>3. UNCHANGED <<queue, command, tables, encoding, disk, accepted, hour, current_hour, received,
                  lost, answer, alive>>
  BY DEF SendBarrier, inputs, encoder
<1>4. QED
  BY <1>1, <1>2, <1>3, AppendToJobs

\* A segment leaves the encoder.
LEMMA EncodedMoves ==
    ASSUME TypeOK, Encoded \/ EncodeFailed
    PROVE  /\ Len(encoding) = 1 /\ encoding[1] \in Job /\ encoding' = <<>>
           /\ disk' \subseteq disk \cup {encoding[1]}
           /\ UNCHANGED <<queue, command, pc, tables, jobs, accepted, hour, current_hour, received,
                          answer, alive>>
<1>1. encoding \in Seq(Job) /\ Len(encoding) <= 1 /\ encoding # <<>>
  BY DEF Encoded, EncodeFailed, TypeOK, EncoderTypes
<1>2. Len(encoding) = 1 /\ encoding[1] \in Job
  BY <1>1
<1>3. encoding' = <<>> /\ disk' \subseteq disk \cup {encoding[1]}
  BY DEF Encoded, EncodeFailed, Publish
<1>4. UNCHANGED <<queue, command, pc, tables, jobs, accepted, hour, current_hour, received, answer,
                  alive>>
  BY DEF Encoded, EncodeFailed, inputs, worker
<1>5. QED
  BY <1>2, <1>3, <1>4

LEMMA CrashMoves ==
    ASSUME TypeOK, Crash
    PROVE  /\ \A m \in Markets : /\ queue'[m] = <<>> /\ command'[m] = Tick /\ pc'[m] = "recv"
                                 /\ hour'[m] = now /\ current_hour'[m] = now /\ answer'[m] = "none"
                                 /\ \A t \in Tables : tables'[m][t] = <<>>
           /\ jobs' = <<>> /\ encoding' = <<>> /\ alive'
           /\ \A s \in disk' : s \in disk \/ \E i \in 1..Len(encoding) : s = encoding[i]
           /\ UNCHANGED <<accepted, received, now>>
<1>1. Range(encoding) = {encoding[i] : i \in 1..Len(encoding)}
  BY RangeIndex DEF TypeOK, EncoderTypes
<1>2. QED
  BY <1>1 DEF Crash, Publish

LEMMA StopMoves ==
    ASSUME TypeOK, NEW m \in Markets, Stop(m)
    PROVE  /\ queue'[m] = <<>> /\ command'[m] = Tick /\ pc'[m] = "stopped"
           /\ \A t \in Tables : tables'[m][t] = <<>>
           /\ \A k \in Markets \ {m} : /\ queue'[k] = queue[k] /\ command'[k] = command[k]
                                       /\ pc'[k] = pc[k] /\ tables'[k] = tables[k]
           /\ UNCHANGED <<jobs, encoding, disk, accepted, hour, current_hour, received, answer, alive>>
  BY DEF Stop, encoder, TypeOK, InputTypes, WorkerTypes, BufferTypes

-----------------------------------------------------------------------------
(* A record is received once.                                              *)

\* Only Recv brings a record past the queue.
LEMMA ReceivedStep ==
    ASSUME TypeOK, [Next]_vars, NEW r \in Records, Received(r)'
    PROVE  Received(r) \/ \E m \in Markets : Recv(m) /\ r \in Carried(queue[m][1])
<1>1. CASE UNCHANGED <<command, tables, jobs, encoding, disk>>
  BY <1>1 DEF Received, InTables, InJobs, InEncoding, OnDisk
<1>2. ASSUME NEW m \in Markets, Recv(m) PROVE Received(r) \/ r \in Carried(queue[m][1])
  BY <1>2, RecvMoves DEF Received, InTables, InJobs, InEncoding, OnDisk
<1>3. ASSUME NEW m \in Markets, Push(m) PROVE Received(r)
  <2> DEFINE p == Head(command[m].records)
  <2>1. /\ Carried(command[m]) = {p} \cup Carried(command'[m]) /\ TableOf[p] \in Tables
        /\ Range(tables'[m][TableOf[p]]) = Range(tables[m][TableOf[p]]) \cup {p}
        /\ \A t \in Tables \ {TableOf[p]} : tables'[m][t] = tables[m][t]
        /\ \A k \in Markets \ {m} : command'[k] = command[k] /\ tables'[k] = tables[k]
        /\ UNCHANGED <<jobs, encoding, disk>>
    BY <1>3, PushMoves
  <2> HIDE DEF p
  <2>2. \A k \in Markets : r \in Carried(command'[k]) => r \in Carried(command[k])
    BY <2>1
  <2>3. \A k \in Markets : InTables(k, r)' => InTables(k, r) \/ r \in Carried(command[k])
    BY <2>1 DEF InTables
  <2>4. QED
    BY <2>1, <2>2, <2>3 DEF Received, InJobs, InEncoding, OnDisk
<1>4. ASSUME NEW m \in Markets, NEW t \in Tables, flush_table(m, t) PROVE Received(r)
  <2>1. \A k \in Markets : InTables(k, r)' => InTables(k, r)
    BY <1>4, FlushTableMoves, RangeOfEmpty DEF InTables
  <2>2. InJobs(r)' => InJobs(r) \/ InTables(m, r)
    BY <1>4, FlushTableMoves DEF InJobs, InTables
  <2>3. QED
    BY <1>4, <2>1, <2>2, FlushTableMoves DEF Received, InEncoding, OnDisk
<1>5. ASSUME NEW m \in Markets, SendBarrier(m) PROVE Received(r)
  <2>1. InJobs(r)' => InJobs(r)
    BY <1>5, SendBarrierMoves, WrittenTypes DEF InJobs
  <2>2. QED
    BY <1>5, <2>1, SendBarrierMoves DEF Received, InTables, InEncoding, OnDisk
<1>6. ASSUME NEW m \in Markets, Finish(m) \/ Respond(m) PROVE Received(r)
  BY <1>6, HandEmptied, CarriedTypes DEF Received, InTables, InJobs, InEncoding, OnDisk
<1>7. ASSUME NEW m \in Markets, Stop(m) PROVE Received(r)
  BY <1>7, StopMoves, CarriedTypes, RangeOfEmpty DEF Received, InTables, InJobs, InEncoding, OnDisk
<1>8. CASE EncodeRecv
  <2>1. InJobs(r)' => InJobs(r)
    BY <1>8, EncodeRecvMoves DEF InJobs
  <2>2. InEncoding(r)' => InJobs(r)
    <3>1. Range(encoding'[1].records) = Written(jobs[1]) /\ 1 \in 1..Len(jobs)
      BY <1>8, EncodeRecvMoves DEF Written
    <3>2. Len(encoding') = 1
      BY <1>8, EncodeRecvMoves
    <3>3. \A i \in 1..1 : i = 1
      OBVIOUS
    <3>4. QED
      BY <3>1, <3>2, <3>3 DEF InEncoding, InJobs
  <2>3. QED
    BY <1>8, <2>1, <2>2, EncodeRecvMoves DEF Received, InTables, OnDisk
<1>9. CASE EncodeBarrier
  <2>1. InJobs(r)' => InJobs(r)
    BY <1>9, EncodeBarrierMoves DEF InJobs
  <2>2. QED
    BY <1>9, <2>1, EncodeBarrierMoves DEF Received, InTables, InEncoding, OnDisk
<1>10. CASE Encoded \/ EncodeFailed
  <2>1. OnDisk(r)' => OnDisk(r) \/ InEncoding(r)
    BY <1>10, EncodedMoves DEF OnDisk, InEncoding
  <2>2. ~InEncoding(r)'
    BY <1>10, EncodedMoves DEF InEncoding
  <2>3. QED
    BY <1>10, <2>1, <2>2, EncodedMoves DEF Received, InTables, InJobs
<1>11. CASE EncoderPanics
  BY <1>11 DEF EncoderPanics, worker, Received, InTables, InJobs, InEncoding, OnDisk
<1>12. CASE Crash
  <2>1. ~InEncoding(r)' /\ ~InJobs(r)' /\ \A m \in Markets : ~InTables(m, r)' /\ r \notin Carried(command'[m])
    BY <1>12, CrashMoves, CarriedTypes, RangeOfEmpty DEF InEncoding, InJobs, InTables
  <2>2. OnDisk(r)' => OnDisk(r) \/ InEncoding(r)
    BY <1>12, CrashMoves DEF OnDisk, InEncoding
  <2>3. QED
    BY <2>1, <2>2 DEF Received
<1>13. QED
  BY <1>1, <1>2, <1>3, <1>4, <1>5, <1>6, <1>7, <1>8, <1>9, <1>10, <1>11, <1>12
  DEF Next, Producer, Worker, Encoder, Caller, Done, vars, worker, encoder, inputs, records,
      SendTick, Elapse, HourRolls, Close, flush, FlushSend, FlushResult, FlushStopped,
      FlushCancelled, Dispatch, Pushed, flush_largest, Drain

\* Records become accepted when their batch enters the queue, and stay so.
LEMMA AcceptedBatch ==
    ASSUME TypeOK, NEW m \in Markets, NEW batch \in Batches, records(m, batch)
    PROVE  Accepted' = Accepted \cup Range(batch)
<1>1. batch \in Seq(Records) /\ accepted[m] \in Seq(Records)
  BY BatchType DEF TypeOK, InputTypes
<1>2. accepted'[m] = accepted[m] \o batch /\ \A k \in Markets \ {m} : accepted'[k] = accepted[k]
  BY DEF records, TypeOK, InputTypes
<1>3. Range(accepted'[m]) = Range(accepted[m]) \cup Range(batch)
  BY <1>1, <1>2, RangeOfConcat
<1>4. QED
  BY <1>2, <1>3 DEF Accepted

LEMMA AcceptedStep ==
    ASSUME TypeOK, [Next]_vars
    PROVE  /\ Accepted \subseteq Accepted'
           /\ ~(\E m \in Markets, batch \in Batches : records(m, batch)) => accepted' = accepted
<1>1. ASSUME NEW m \in Markets, NEW batch \in Batches, records(m, batch) PROVE Accepted \subseteq Accepted'
  BY <1>1, AcceptedBatch
<1>2. ASSUME ~(\E m \in Markets, batch \in Batches : records(m, batch)) PROVE accepted' = accepted
  BY <1>2
  DEF Next, Producer, Worker, Encoder, Caller, Done, vars, inputs, SendTick, Elapse, HourRolls, Close,
      flush, FlushSend, FlushResult, FlushStopped, FlushCancelled, Recv, Dispatch, Push, Pushed,
      flush_largest, flush_table, Finish, SendBarrier, Respond, Drain, Stop, EncodeRecv,
      EncodeBarrier, Encoded, EncodeFailed, EncoderPanics, Crash
<1>3. QED
  BY <1>1, <1>2 DEF Accepted

\* The places of a queue's commands.
InPlace(m, i, r) == i \in 1..Len(queue[m]) /\ r \in Carried(queue[m][i])
\* A new command without records leaves them where they are.
LEMMA EmptyAppended ==
    ASSUME TypeOK, NEW m \in Markets, NEW c \in Command, Carried(c) = {},
           queue' = [queue EXCEPT ![m] = Append(@, c)]
    PROVE  \A k \in Markets : \A i \in 1..Len(queue'[k]) : \A r \in Carried(queue'[k][i]) :
              InPlace(k, i, r)
  BY QueueAppended DEF InPlace

LEMMA OnceStep == ASSUME TypeOK, QueueOnce, [Next]_vars PROVE QueueOnce'
<1>0. /\ \A m \in Markets, i \in Nat, r \in Records : InPlace(m, i, r) =>
            /\ MarketOf[r] = m /\ r \in Accepted /\ ~Received(r)
            /\ \A j \in Nat : InPlace(m, j, r) => i = j
      /\ \A r \in Records : Received(r) => r \in Accepted
  BY DEF QueueOnce, InPlace
<1>1. SUFFICES /\ \A m \in Markets, i \in Nat, r \in Records : InPlace(m, i, r)' =>
                    /\ MarketOf[r] = m /\ r \in Accepted' /\ ~Received(r)'
                    /\ \A j \in Nat : InPlace(m, j, r)' => i = j
               /\ \A r \in Records : Received(r)' => r \in Accepted'
  <2>1. \A m \in Markets : Len(queue'[m]) \in Nat /\
           \A i \in 1..Len(queue'[m]) : i \in Nat /\ Carried(queue'[m][i]) \subseteq Records
    BY TypeStep, CarriedTypes DEF TypeOK, InputTypes
  <2>2. QED
    BY <1>1, <2>1 DEF QueueOnce, InPlace
<1>2. Accepted \subseteq Accepted'
  BY AcceptedStep
<1>3. ASSUME NEW m \in Markets, Recv(m), NEW r \in Records, r \in Carried(queue[m][1])
      PROVE  InPlace(m, 1, r)
  BY <1>3, RecvMoves DEF InPlace
<1>4. ASSUME NEW r \in Records, Received(r)' PROVE r \in Accepted'
  BY <1>0, <1>2, <1>3, <1>4, ReceivedStep
<1>5. ASSUME NEW m \in Markets, Recv(m), NEW k \in Markets, NEW i \in Nat, NEW r \in Records,
             InPlace(k, i, r)'
      PROVE  /\ MarketOf[r] = k /\ r \in Accepted' /\ ~Received(r)'
             /\ \A j \in Nat : InPlace(k, j, r)' => i = j
  <2>1. ASSUME NEW n \in Markets, Recv(n), NEW j \in Nat, InPlace(k, j, r)'
        PROVE  InPlace(k, IF k = n THEN j + 1 ELSE j, r) /\ (k = n => j + 1 # 1)
    BY <2>1, RecvMoves DEF InPlace
  <2>2. MarketOf[r] = k /\ r \in Accepted /\ ~Received(r)
    BY <1>0, <1>5, <2>1
  <2>3. \A j \in Nat : InPlace(k, j, r)' => i = j
    BY <1>0, <1>5, <2>1
  <2>4. ASSUME NEW n \in Markets, Recv(n), r \in Carried(queue[n][1]) PROVE FALSE
    <3>1. InPlace(n, 1, r) /\ n = k
      BY <1>0, <1>3, <2>2, <2>4
    <3>2. InPlace(k, i + 1, r) /\ i + 1 # 1 /\ i + 1 \in Nat
      BY <1>5, <2>1, <2>4, <3>1
    <3>3. QED
      BY <1>0, <3>1, <3>2
  <2>5. ~Received(r)'
    BY <2>2, <2>4, ReceivedStep
  <2>6. QED
    BY <1>2, <2>2, <2>3, <2>5
<1>6. ASSUME \A m \in Markets : ~Recv(m), NEW k \in Markets, NEW i \in Nat, NEW r \in Records,
             InPlace(k, i, r)', \A j \in Nat : InPlace(k, j, r)' => InPlace(k, j, r)
      PROVE  /\ MarketOf[r] = k /\ r \in Accepted' /\ ~Received(r)'
             /\ \A j \in Nat : InPlace(k, j, r)' => i = j
  BY <1>0, <1>2, <1>6, ReceivedStep
<1>7. ASSUME \A m \in Markets : ~Recv(m), NEW m \in Markets, NEW batch \in Batches, records(m, batch),
             NEW k \in Markets, NEW i \in Nat, NEW r \in Records, InPlace(k, i, r)'
      PROVE  /\ MarketOf[r] = k /\ r \in Accepted' /\ ~Received(r)'
             /\ \A j \in Nat : InPlace(k, j, r)' => i = j
  <2> DEFINE c == [type |-> "records", records |-> batch]
  <2>1. c \in Command /\ Carried(c) = Range(batch)
    BY BatchType, CommandTypes, CarriedTypes
  <2>2. queue' = [queue EXCEPT ![m] = Append(@, c)]
    BY <1>7 DEF records
  <2> HIDE DEF c
  <2>3. \A j \in Nat : InPlace(k, j, r)' => InPlace(k, j, r) \/ (k = m /\ j = Len(queue[m]) + 1 /\ r \in Range(batch))
    BY <2>1, <2>2, QueueAppended DEF InPlace
  <2>4. CASE r \notin Range(batch)
    BY <1>6, <1>7, <2>3, <2>4
  <2>5. CASE r \in Range(batch)
    <3>1. r \notin Accepted /\ MarketOf[r] = m
      BY <1>7, <2>5 DEF records
    <3>2. \A j \in Nat : ~InPlace(k, j, r)
      BY <1>0, <3>1
    <3>3. ~Received(r)'
      BY <1>0, <1>7, <3>1, ReceivedStep
    <3>4. r \in Accepted'
      BY <1>7, <2>5, AcceptedBatch
    <3>5. QED
      BY <1>7, <2>3, <3>1, <3>2, <3>3, <3>4
  <2>6. QED
    BY <2>4, <2>5
<1>8. ASSUME NEW m \in Markets, NEW c \in Command, Carried(c) = {},
             queue' = [queue EXCEPT ![m] = Append(@, c)]
      PROVE  \A k \in Markets, j \in Nat, r \in Records : InPlace(k, j, r)' => InPlace(k, j, r)
  BY <1>8, EmptyAppended DEF InPlace
<1>9. ASSUME NEW m \in Markets, SendTick(m)
      PROVE  \A k \in Markets, j \in Nat, r \in Records : InPlace(k, j, r)' => InPlace(k, j, r)
  BY <1>8, <1>9, CommandTypes, CarriedTypes DEF SendTick
<1>10. ASSUME NEW f \in Calls, FlushSend(f)
       PROVE  \A k \in Markets, j \in Nat, r \in Records : InPlace(k, j, r)' => InPlace(k, j, r)
  <2>1. Order[call[f].at] \in Markets
    BY MarketAssumption DEF TypeOK, CallTypes
  <2>2. [type |-> "flush", response |-> f] \in Command /\ Carried([type |-> "flush", response |-> f]) = {}
    BY CommandTypes, CarriedTypes
  <2>3. QED
    BY <1>8, <1>10, <2>1, <2>2 DEF FlushSend
<1>11. ASSUME NEW m \in Markets, Stop(m)
       PROVE  \A k \in Markets, j \in Nat, r \in Records : InPlace(k, j, r)' => InPlace(k, j, r)
  BY <1>11, StopMoves DEF InPlace
<1>12. ASSUME Crash
       PROVE  \A k \in Markets, j \in Nat, r \in Records : InPlace(k, j, r)' => InPlace(k, j, r)
  BY <1>12, CrashMoves DEF InPlace
<1>13. ASSUME queue' = queue
       PROVE  \A k \in Markets, j \in Nat, r \in Records : InPlace(k, j, r)' => InPlace(k, j, r)
  BY <1>13 DEF InPlace
<1>14. \/ \E m \in Markets : Recv(m) \/ SendTick(m) \/ Stop(m) \/ \E batch \in Batches : records(m, batch)
       \/ \E f \in Calls : FlushSend(f)
       \/ Crash \/ queue' = queue
  BY DEF Next, Producer, Worker, Encoder, Caller, Done, vars, inputs, Elapse, HourRolls, Close, flush,
         FlushResult, FlushStopped, FlushCancelled, Dispatch, Push, Pushed, flush_largest, flush_table,
         Finish, SendBarrier, Respond, Drain, EncodeRecv, EncodeBarrier, Encoded, EncodeFailed,
         EncoderPanics
<1>15. QED
  BY <1>4, <1>5, <1>6, <1>7, <1>9, <1>10, <1>11, <1>12, <1>13, <1>14

-----------------------------------------------------------------------------
(* The hour of a worker.                                                   *)

LEMMA HourStep == ASSUME TypeOK, HourInv, [Next]_vars PROVE HourInv'
<1>0. /\ hour \in [Markets -> Nat] /\ current_hour \in [Markets -> Nat] /\ now \in Nat
      /\ pc \in [Markets -> WorkerPc] /\ todo \in [Markets -> SUBSET Tables]
      /\ tables \in [Markets -> [Tables -> Seq(Records)]]
  BY DEF TypeOK, WorkerTypes, BufferTypes, CallTypes
<1>1. CASE UNCHANGED <<hour, current_hour, now, pc, todo, tables>>
  BY <1>1 DEF HourInv, HourKept
<1>2. CASE HourRolls
  BY <1>0, <1>2 DEF HourRolls, worker, HourInv, HourKept
<1>3. ASSUME NEW m \in Markets, Recv(m) PROVE HourInv'
  <2>1. /\ \A k \in Markets \ {m} : UNCHANGED <<current_hour[k], pc[k], todo[k]>>
        /\ current_hour'[m] = now /\ pc'[m] = "rollover" /\ UNCHANGED <<hour, tables, now>>
        /\ todo'[m] = IF now > hour[m] THEN {t \in Tables : tables[m][t] # <<>>} ELSE {}
    BY <1>0, <1>3 DEF Recv, RolloverTables, Held
  <2>2. HourKept(m)'
    BY <1>0, <2>1 DEF HourInv, HourKept
  <2>3. ASSUME NEW k \in Markets \ {m} PROVE HourKept(k)'
    BY <2>1 DEF HourInv, HourKept
  <2>4. QED
    BY <2>2, <2>3 DEF HourInv
<1>4. ASSUME NEW m \in Markets, Dispatch(m) PROVE HourInv'
  <2>1. /\ \A k \in Markets \ {m} : UNCHANGED <<hour[k], pc[k], todo[k]>>
        /\ UNCHANGED <<current_hour, tables, now>> /\ pc[m] = "rollover" /\ pc'[m] # "rollover"
        /\ hour'[m] = IF current_hour[m] > hour[m] THEN current_hour[m] ELSE hour[m]
    BY <1>0, <1>4 DEF Dispatch
  <2>2. HourKept(m)'
    BY <1>0, <2>1 DEF HourInv, HourKept
  <2>3. ASSUME NEW k \in Markets \ {m} PROVE HourKept(k)'
    BY <2>1 DEF HourInv, HourKept
  <2>4. QED
    BY <2>2, <2>3 DEF HourInv
<1>5. ASSUME NEW m \in Markets, Push(m) PROVE HourInv'
  <2>1. /\ UNCHANGED <<hour, current_hour, now, pc, todo>> /\ pc[m] = "push"
        /\ \A k \in Markets \ {m} : tables'[k] = tables[k]
    BY <1>5, PushMoves DEF Push
  <2>2. QED
    BY <2>1 DEF HourInv, HourKept
<1>6. ASSUME NEW m \in Markets, NEW t \in Tables, flush_table(m, t) PROVE HourInv'
  <2>1. now' = now
    BY <1>6 DEF flush_table
  <2>2. QED
    BY <1>6, <2>1, FlushTableMoves DEF HourInv, HourKept
<1>7. ASSUME NEW m \in Markets, UNCHANGED <<hour, current_hour, now, tables>>,
             pc'[m] \notin {"rollover", "push"},
             \A k \in Markets \ {m} : UNCHANGED <<pc[k], todo[k]>>
      PROVE  HourInv'
  BY <1>7 DEF HourInv, HourKept
<1>8. ASSUME NEW m \in Markets,
             Pushed(m) \/ flush_largest(m) \/ Finish(m) \/ SendBarrier(m) \/ Respond(m) \/ Drain(m)
      PROVE  HourInv'
  <2>1. UNCHANGED <<hour, current_hour, now, tables>>
    BY <1>8 DEF Pushed, flush_largest, Finish, SendBarrier, Respond, Drain
  <2>2. pc'[m] \notin {"rollover", "push"} /\ \A k \in Markets \ {m} : UNCHANGED <<pc[k], todo[k]>>
    BY <1>0, <1>8 DEF Pushed, flush_largest, Finish, SendBarrier, Respond, Drain
  <2>3. QED
    BY <1>7, <2>1, <2>2
<1>9. ASSUME NEW m \in Markets, Stop(m) PROVE HourInv'
  <2>1. now' = now /\ \A k \in Markets \ {m} : todo'[k] = todo[k]
    BY <1>0, <1>9 DEF Stop
  <2>2. QED
    BY <1>9, <2>1, StopMoves DEF HourInv, HourKept
<1>10. CASE Crash
  BY <1>0, <1>10, CrashMoves DEF HourInv, HourKept
<1>11. QED
  BY <1>1, <1>2, <1>3, <1>4, <1>5, <1>6, <1>8, <1>9, <1>10
  DEF Next, Producer, Worker, Encoder, Caller, Done, vars, worker, encoder, inputs, records, SendTick,
      Elapse, Close, flush, FlushSend, FlushResult, FlushStopped, FlushCancelled, EncodeRecv,
      EncodeBarrier, Encoded, EncodeFailed, EncoderPanics

-----------------------------------------------------------------------------
(* Rows where they belong.                                                 *)

\* The hour of a record already received does not change.
LEMMA ReceivedKept ==
    ASSUME TypeOK, QueueOnce, [Next]_vars, NEW r \in Records, Received(r) PROVE received'[r] = received[r]
<1>1. ASSUME NEW m \in Markets, Recv(m) PROVE received'[r] = received[r]
  BY <1>1, RecvMoves DEF QueueOnce
<1>2. ASSUME \A m \in Markets : ~Recv(m) PROVE received' = received
  BY <1>2
  DEF Next, Producer, Worker, Encoder, Caller, Done, vars, records, SendTick, Elapse, HourRolls, Close,
      flush, FlushSend, FlushResult, FlushStopped, FlushCancelled, Dispatch, Push, Pushed,
      flush_largest, flush_table, Finish, SendBarrier, Respond, Drain, Stop, EncodeRecv,
      EncodeBarrier, Encoded, EncodeFailed, EncoderPanics, Crash
<1>3. QED
  BY <1>1, <1>2

LEMMA PureSegment == SegmentPure <=> \A s \in disk : Pure(s)
  BY DEF SegmentPure, Pure

LEMMA PureStep == ASSUME TypeOK, QueueOnce, HourInv, PureInv, [Next]_vars PROVE PureInv'
<1> USE PureSegment DEF PureInv
<1>0. /\ \A m \in Markets : Carried(command[m]) \subseteq Records
      /\ \A m \in Markets, t \in Tables : Range(tables[m][t]) \subseteq Records
      /\ \A i \in 1..Len(jobs) : jobs[i].type = "write" => Range(jobs[i].job.records) \subseteq Records
      /\ \A i \in 1..Len(encoding) : Range(encoding[i].records) \subseteq Records
      /\ \A s \in disk : Range(s.records) \subseteq Records
  <2>1. \A m \in Markets : Carried(command[m]) \subseteq Records
    BY CarriedTypes DEF TypeOK, WorkerTypes
  <2>2. \A m \in Markets, t \in Tables : Range(tables[m][t]) \subseteq Records
    BY RangeType DEF TypeOK, BufferTypes
  <2>3. \A i \in 1..Len(jobs) : jobs[i].type = "write" => Range(jobs[i].job.records) \subseteq Records
    BY EncodeCommandTypes, JobRecords DEF TypeOK, EncoderTypes
  <2>4. /\ \A i \in 1..Len(encoding) : Range(encoding[i].records) \subseteq Records
        /\ \A s \in disk : Range(s.records) \subseteq Records
    BY JobRecords DEF TypeOK, EncoderTypes
  <2>5. QED
    BY <2>1, <2>2, <2>3, <2>4
<1>1. \A r \in Records : Received(r) => received'[r] = received[r]
  BY ReceivedKept
\* What is pure in one state stays so, wherever the step moves it.
<1>2. /\ \A m \in Markets : \A r \in Carried(command[m]) :
            MarketOf[r] = m /\ received'[r] = current_hour[m]
      /\ \A m \in Markets, t \in Tables : \A r \in Range(tables[m][t]) :
            MarketOf[r] = m /\ TableOf[r] = t /\ received'[r] = hour[m]
  <2>1. ASSUME NEW m \in Markets, NEW r \in Carried(command[m]) PROVE received'[r] = received[r]
    BY <1>0, <1>1 DEF Received
  <2>2. ASSUME NEW m \in Markets, NEW t \in Tables, NEW r \in Range(tables[m][t])
        PROVE  received'[r] = received[r]
    BY <1>0, <1>1 DEF Received, InTables
  <2>3. QED
    BY <2>1, <2>2 DEF HandPure, TablesPure
<1>3. /\ \A i \in 1..Len(jobs) : jobs[i].type = "write" => Pure(jobs[i].job)
      /\ \A i \in 1..Len(encoding) : Pure(encoding[i])
      /\ \A s \in disk : Pure(s)
  BY DEF JobsPure
<1>4. /\ \A i \in 1..Len(jobs) : jobs[i].type = "write" =>
            \A r \in Range(jobs[i].job.records) : received'[r] = received[r]
      /\ \A i \in 1..Len(encoding) : \A r \in Range(encoding[i].records) : received'[r] = received[r]
      /\ \A s \in disk : \A r \in Range(s.records) : received'[r] = received[r]
  <2>1. ASSUME NEW i \in 1..Len(jobs), jobs[i].type = "write", NEW r \in Range(jobs[i].job.records)
        PROVE  received'[r] = received[r]
    BY <1>0, <1>1, <2>1 DEF Received, InJobs, Written
  <2>2. ASSUME NEW i \in 1..Len(encoding), NEW r \in Range(encoding[i].records)
        PROVE  received'[r] = received[r]
    BY <1>0, <1>1 DEF Received, InEncoding
  <2>3. ASSUME NEW s \in disk, NEW r \in Range(s.records) PROVE received'[r] = received[r]
    BY <1>0, <1>1 DEF Received, OnDisk
  <2>4. QED
    BY <2>1, <2>2, <2>3
<1> DEFINE PureAfter(s) == \A r \in Range(s.records) :
               MarketOf[r] = s.market /\ TableOf[r] = s.table /\ received'[r] = s.hour
<1>5. /\ \A i \in 1..Len(jobs) : jobs[i].type = "write" => PureAfter(jobs[i].job)
      /\ \A i \in 1..Len(encoding) : PureAfter(encoding[i])
      /\ \A s \in disk : PureAfter(s)
  BY <1>3, <1>4 DEF Pure
<1>6. SUFFICES /\ HandPure' /\ TablesPure'
               /\ \A i \in 1..Len(jobs') : jobs'[i].type = "write" => PureAfter(jobs'[i].job)
               /\ \A i \in 1..Len(encoding') : PureAfter(encoding'[i])
               /\ \A s \in disk' : PureAfter(s)
  BY DEF JobsPure, SegmentPure, Pure
<1> HIDE DEF PureInv, PureAfter
<1>7. CASE UNCHANGED <<command, current_hour, hour, tables, jobs, encoding, disk>>
  BY <1>2, <1>5, <1>7 DEF HandPure, TablesPure
<1>8. ASSUME NEW m \in Markets, Recv(m)
      PROVE  HandPure' /\ TablesPure' /\ UNCHANGED <<jobs, encoding, disk>>
  <2>1. /\ \A k \in Markets \ {m} : current_hour'[k] = current_hour[k]
        /\ current_hour'[m] = now
    BY <1>8 DEF Recv, TypeOK, WorkerTypes
  <2>2. \A r \in Carried(queue[m][1]) : r \in Records /\ MarketOf[r] = m /\ received'[r] = now
    BY <1>8, RecvMoves, CarriedTypes DEF QueueOnce
  <2>3. HandPure'
    BY <1>2, <1>8, <2>1, <2>2, RecvMoves DEF HandPure
  <2>4. QED
    BY <1>2, <1>8, <2>3, RecvMoves DEF TablesPure
<1>9. ASSUME NEW m \in Markets, Dispatch(m)
      PROVE  HandPure' /\ TablesPure' /\ UNCHANGED <<jobs, encoding, disk>>
  <2>1. /\ UNCHANGED <<command, current_hour, tables, jobs, encoding, disk>>
        /\ \A k \in Markets \ {m} : hour'[k] = hour[k]
        /\ hour'[m] = (IF current_hour[m] > hour[m] THEN current_hour[m] ELSE hour[m])
        /\ pc[m] = "rollover" /\ todo[m] = {}
    BY <1>9 DEF Dispatch, encoder, TypeOK, WorkerTypes
  <2>2. hour'[m] = hour[m] \/ \A t \in Tables : tables[m][t] = <<>>
    BY <2>1 DEF HourInv, HourKept, TypeOK, WorkerTypes
  <2>3. QED
    BY <1>2, <2>1, <2>2, RangeOfEmpty DEF HandPure, TablesPure
<1>10. ASSUME NEW m \in Markets, Push(m)
       PROVE  HandPure' /\ TablesPure' /\ UNCHANGED <<jobs, encoding, disk>>
  <2> DEFINE p == Head(command[m].records)
  <2>1. /\ Carried(command[m]) = {p} \cup Carried(command'[m]) /\ TableOf[p] \in Tables
        /\ Range(tables'[m][TableOf[p]]) = Range(tables[m][TableOf[p]]) \cup {p}
        /\ \A t \in Tables \ {TableOf[p]} : tables'[m][t] = tables[m][t]
        /\ \A k \in Markets \ {m} : command'[k] = command[k] /\ tables'[k] = tables[k]
        /\ UNCHANGED <<jobs, encoding, disk, hour, current_hour>> /\ pc[m] = "push"
    BY <1>10, PushMoves
  <2> HIDE DEF p
  <2>2. hour[m] = current_hour[m]
    BY <2>1 DEF HourInv, HourKept
  <2>3. QED
    BY <1>2, <2>1, <2>2 DEF HandPure, TablesPure
<1>11. ASSUME NEW m \in Markets, NEW t \in Tables, flush_table(m, t)
       PROVE  /\ HandPure' /\ TablesPure' /\ UNCHANGED <<encoding, disk>>
              /\ \A i \in 1..Len(jobs') : jobs'[i].type = "write" => PureAfter(jobs'[i].job)
  <2>1. HandPure' /\ TablesPure'
    BY <1>2, <1>11, FlushTableMoves, RangeOfEmpty DEF HandPure, TablesPure
  <2>2. /\ TableJob(m, t).records = tables[m][t] /\ TableJob(m, t).market = m
        /\ TableJob(m, t).table = t /\ TableJob(m, t).hour = hour[m]
    BY DEF TableJob
  <2>3. PureAfter(TableJob(m, t))
    BY <1>2, <2>2 DEF PureAfter
  <2>4. QED
    BY <1>5, <1>11, <2>1, <2>3, FlushTableMoves, WrittenTypes
<1>12. ASSUME NEW m \in Markets, SendBarrier(m)
       PROVE  /\ HandPure' /\ TablesPure' /\ UNCHANGED <<encoding, disk>>
              /\ \A i \in 1..Len(jobs') : jobs'[i].type = "write" => PureAfter(jobs'[i].job)
  <2>1. jobs'[Len(jobs) + 1].type # "write"
    BY <1>12, SendBarrierMoves, WrittenTypes
  <2>2. QED
    BY <1>2, <1>5, <1>12, <2>1, SendBarrierMoves DEF HandPure, TablesPure
<1>13. ASSUME NEW m \in Markets, Finish(m) \/ Respond(m)
       PROVE  HandPure' /\ TablesPure' /\ UNCHANGED <<jobs, encoding, disk>>
  BY <1>2, <1>13, HandEmptied, CarriedTypes DEF HandPure, TablesPure
<1>14. ASSUME NEW m \in Markets, Stop(m)
       PROVE  HandPure' /\ TablesPure' /\ UNCHANGED <<jobs, encoding, disk>>
  BY <1>2, <1>14, StopMoves, CarriedTypes, RangeOfEmpty DEF HandPure, TablesPure
<1>15. CASE EncodeRecv
  <2>1. \A i \in 1..Len(jobs') : jobs'[i].type = "write" => PureAfter(jobs'[i].job)
    BY <1>5, <1>15, EncodeRecvMoves
  <2>2. PureAfter(encoding'[1]) /\ Len(encoding') = 1 /\ \A i \in 1..1 : i = 1
    BY <1>5, <1>15, EncodeRecvMoves
  <2>3. QED
    BY <1>2, <1>5, <1>15, <2>1, <2>2, EncodeRecvMoves DEF HandPure, TablesPure
<1>16. CASE EncodeBarrier
  BY <1>2, <1>5, <1>16, EncodeBarrierMoves DEF HandPure, TablesPure
<1>17. CASE Encoded \/ EncodeFailed
  <2>1. PureAfter(encoding[1]) /\ 1..Len(encoding') = {}
    BY <1>5, <1>17, EncodedMoves
  <2>2. QED
    BY <1>2, <1>5, <1>17, <2>1, EncodedMoves DEF HandPure, TablesPure
<1>18. CASE EncoderPanics
  <2>1. UNCHANGED <<command, current_hour, hour, tables, disk>> /\ 1..Len(encoding') = {} /\ 1..Len(jobs') = {}
    BY <1>18 DEF EncoderPanics, worker
  <2>2. QED
    BY <1>2, <1>5, <2>1 DEF HandPure, TablesPure
<1>19. CASE Crash
  <2>1. 1..Len(encoding') = {} /\ 1..Len(jobs') = {}
    BY <1>19, CrashMoves
  <2>2. QED
    BY <1>5, <1>19, <2>1, CrashMoves, CarriedTypes, RangeOfEmpty DEF HandPure, TablesPure
<1>20. QED
  BY <1>5, <1>7, <1>8, <1>9, <1>10, <1>11, <1>12, <1>13, <1>14, <1>15, <1>16, <1>17, <1>18, <1>19
  DEF Next, Producer, Worker, Encoder, Caller, Done, vars, worker, encoder, inputs, records, SendTick,
      Elapse, HourRolls, Close, flush, FlushSend, FlushResult, FlushStopped, FlushCancelled, Pushed,
      flush_largest, Drain

\* The places of the rows, in every reachable state.
LEMMA PureAlways == Spec => []PureInv
<1>1. Init => QueueOnce /\ HourInv /\ PureInv
  <2>1. SUFFICES ASSUME Init PROVE QueueOnce /\ HourInv /\ PureInv
    OBVIOUS
  <2>2. /\ \A m \in Markets : Carried(command[m]) = {} /\ \A t \in Tables : Range(tables[m][t]) = {}
        /\ \A m \in Markets : 1..Len(queue[m]) = {}
        /\ 1..Len(jobs) = {} /\ 1..Len(encoding) = {} /\ disk = {}
    BY <2>1, CarriedTypes, RangeOfEmpty DEF Init
  <2>3. QueueOnce
    BY <2>2 DEF QueueOnce, Received, InTables, InJobs, InEncoding, OnDisk
  <2>4. HourInv
    BY <2>1 DEF Init, HourInv, HourKept
  <2>5. PureInv
    BY <2>2 DEF PureInv, HandPure, TablesPure, JobsPure, SegmentPure
  <2>6. QED
    BY <2>3, <2>4, <2>5
<1>2. TypeOK /\ QueueOnce /\ HourInv /\ PureInv /\ [Next]_vars => (QueueOnce /\ HourInv /\ PureInv)'
  BY OnceStep, HourStep, PureStep
<1>3. QED
  BY <1>1, <1>2, TypeCorrect, PTL DEF Spec

\* Every published segment holds rows of its own market and table only, each received in the hour
\* that names its directory: no interleaving of producers, hour boundaries, flushes, failures and
\* restarts lets a row slip into the next hour's segment, or a record be received twice.
THEOREM SegmentsArePure == Spec => []SegmentPure
<1>1. PureInv => SegmentPure
  BY DEF PureInv
<1>2. QED
  BY <1>1, PureAlways, PTL

-----------------------------------------------------------------------------
(* What a call of Writer::flush has waited for: the path of a record from  *)
(* the queue to the disk loses none unnoticed, and a flush command travels *)
(* behind the records its caller waits for, through the queue, the worker  *)
(* and the encoder's queue, with any number of calls at the same time.     *)

\* Every accepted record is in one of the stages of its market, on disk or dropped.
Settled(r) == OnDisk(r) \/ r \in lost
Kept(r) ==
    \/ InQueue(MarketOf[r], r) \/ r \in Carried(command[MarketOf[r]]) \/ InTables(MarketOf[r], r)
    \/ InJobs(r) \/ InEncoding(r) \/ Settled(r)
Conserved == \A r \in Accepted : Kept(r)

\* The worker's hand is empty once its records are pushed, and a flush_all has emptied the
\* tables it has visited.
WorkDone(m) ==
    /\ pc[m] \notin {"rollover", "push"} => Carried(command[m]) = {}
    /\ pc[m] = "flush" => \A t \in Tables \ todo[m] : tables[m][t] = <<>>
    /\ pc[m] \in {"barrier", "await"} => \A t \in Tables : tables[m][t] = <<>>
Emptied == \A m \in Markets : WorkDone(m)

\* A barrier stands behind every job of its market, and is answered once.
NoJobAfter(m, k) ==
    \A j \in 1..Len(jobs) : k < j /\ jobs[j].type = "write" => jobs[j].job.market # m
BarrierBehind(m) ==
    \A k \in 1..Len(jobs) : jobs[k] = Barrier(m) =>
        /\ pc[m] = "await" /\ answer[m] = "none" /\ NoJobAfter(m, k)
        /\ \A l \in 1..Len(jobs) : jobs[l] = Barrier(m) => k = l
AnsweredLast(m) ==
    answer[m] # "none" =>
        /\ pc[m] = "await" /\ NoJobAfter(m, 0)
        /\ \A i \in 1..Len(encoding) : encoding[i].market # m
BarrierInv ==
    /\ \A m \in Markets : BarrierBehind(m) /\ AnsweredLast(m)
    /\ ~alive => jobs = <<>>

\* The commands of a worker: place 0 is its hand, the others are its queue.
Place(m, i) == IF i = 0 THEN command[m] ELSE queue[m][i]
IsFlush(c, f) == c.type = "flush" /\ c.response = f
Returned == {"ok", "err", "cancelled"}
Awaits(f, m) ==
    \/ call[f].state \in Returned
    \/ call[f].state = "wait" /\ call[f].reply = "none" /\ Order[call[f].at] = m
\* A flush command stands for a call that waits at its market, once, and behind the records
\* that the call waits for.
FlushBehind(m, f) ==
    \A i \in 0..Len(queue[m]) : IsFlush(Place(m, i), f) =>
        /\ Awaits(f, m)
        /\ \A j \in 0..Len(queue[m]) : i < j => Carried(Place(m, j)) \cap before[f] = {}
        /\ \A j \in 0..Len(queue[m]) : call[f].state = "wait" /\ IsFlush(Place(m, j), f) => i = j
FlushInv == \A m \in Markets, f \in Calls : FlushBehind(m, f)

\* A call begins at the first market, without a reply, and waits for accepted records.
CallBegun(f) ==
    /\ before[f] \subseteq Accepted
    /\ call[f].state = "idle" => call[f].at = 1
    /\ call[f].state \in {"idle", "send"} => call[f].reply = "none"
    /\ call[f].state = "ok" => call[f].reply = "ok"
CallInv == \A f \in Calls : CallBegun(f)

-----------------------------------------------------------------------------
(* The worker's hand and its tables.                                       *)

LEMMA EmptiedStep == ASSUME TypeOK, Emptied, [Next]_vars PROVE Emptied'
<1>0. /\ pc \in [Markets -> WorkerPc] /\ todo \in [Markets -> SUBSET Tables]
      /\ tables \in [Markets -> [Tables -> Seq(Records)]] /\ command \in [Markets -> Command]
      /\ \A m \in Markets : pc[m] \in {"flush", "barrier", "await"} => command[m].type = "flush"
  BY DEF TypeOK, WorkerTypes, BufferTypes
<1>1. CASE UNCHANGED <<command, pc, todo, tables>>
  BY <1>1 DEF Emptied, WorkDone
<1>2. ASSUME NEW m \in Markets, WorkDone(m)',
             \A k \in Markets \ {m} : UNCHANGED <<command[k], pc[k], todo[k], tables[k]>>
      PROVE  Emptied'
  BY <1>2 DEF Emptied, WorkDone
<1>3. ASSUME NEW m \in Markets, Recv(m) PROVE Emptied'
  <2>1. pc'[m] = "rollover"
        /\ \A k \in Markets \ {m} : UNCHANGED <<command[k], pc[k], todo[k], tables[k]>>
    BY <1>0, <1>3 DEF Recv
  <2>2. QED
    BY <1>2, <2>1 DEF WorkDone
<1>4. ASSUME NEW m \in Markets, Dispatch(m) PROVE Emptied'
  <2>1. /\ \A k \in Markets \ {m} : UNCHANGED <<command[k], pc[k], todo[k], tables[k]>>
        /\ UNCHANGED <<command, tables>> /\ pc'[m] \in {"push", "expired", "flush"}
        /\ pc'[m] \in {"expired", "flush"} => command[m].type # "records"
        /\ pc'[m] = "flush" => todo'[m] = Held(m)
    BY <1>0, <1>4 DEF Dispatch
  <2>2. QED
    BY <1>2, <2>1 DEF WorkDone, Carried, Held
<1>5. ASSUME NEW m \in Markets, Push(m) PROVE Emptied'
  <2>1. /\ \A k \in Markets \ {m} : UNCHANGED <<command[k], tables[k]>>
        /\ UNCHANGED <<pc, todo>> /\ pc[m] = "push"
    BY <1>5, PushMoves DEF Push
  <2>2. QED
    BY <1>2, <2>1 DEF WorkDone
<1>6. ASSUME NEW m \in Markets, Pushed(m) PROVE Emptied'
  <2>1. /\ \A k \in Markets \ {m} : UNCHANGED <<command[k], pc[k], todo[k], tables[k]>>
        /\ UNCHANGED command /\ pc'[m] = "full" /\ command[m].records = <<>>
    BY <1>0, <1>6 DEF Pushed
  <2>2. QED
    BY <1>2, <2>1, RangeOfEmpty DEF WorkDone, Carried
<1>7. ASSUME NEW m \in Markets, flush_largest(m) PROVE Emptied'
  <2>1. /\ \A k \in Markets \ {m} : UNCHANGED <<command[k], pc[k], todo[k], tables[k]>>
        /\ UNCHANGED command /\ pc'[m] = "limit" /\ pc[m] \in {"full", "limit"}
    BY <1>0, <1>7 DEF flush_largest
  <2>2. QED
    BY <1>2, <2>1 DEF WorkDone, Emptied
<1>8. ASSUME NEW m \in Markets, NEW t \in Tables, flush_table(m, t) PROVE Emptied'
  <2>1. pc[m] \in Flushing
    BY <1>8 DEF flush_table
  <2>2. /\ tables'[m][t] = <<>> /\ \A u \in Tables \ {t} : tables'[m][u] = tables[m][u]
        /\ todo'[m] = todo[m] \ {t} /\ UNCHANGED <<command, pc>>
    BY <1>8, FlushTableMoves
  <2>3. WorkDone(m)'
    BY <2>1, <2>2 DEF WorkDone, Emptied, Flushing
  <2>4. QED
    BY <1>2, <1>8, <2>3, FlushTableMoves
<1>9. ASSUME NEW m \in Markets, Finish(m) PROVE Emptied'
  <2>1. /\ \A k \in Markets \ {m} : UNCHANGED <<command[k], pc[k], todo[k], tables[k]>>
        /\ UNCHANGED tables /\ todo[m] = {}
        /\ (pc'[m] = "recv" /\ command'[m] = Tick)
           \/ (pc[m] = "flush" /\ pc'[m] = "barrier" /\ command'[m] = command[m])
    BY <1>0, <1>9 DEF Finish
  <2>2. QED
    BY <1>2, <2>1, CarriedTypes DEF WorkDone, Emptied
<1>10. ASSUME NEW m \in Markets, SendBarrier(m) PROVE Emptied'
  <2>1. /\ \A k \in Markets \ {m} : UNCHANGED <<command[k], pc[k], todo[k], tables[k]>>
        /\ UNCHANGED <<tables, command>> /\ pc[m] = "barrier" /\ pc'[m] = "await"
    BY <1>0, <1>10 DEF SendBarrier
  <2>2. QED
    BY <1>2, <2>1 DEF WorkDone, Emptied
<1>11. ASSUME NEW m \in Markets, Respond(m) PROVE Emptied'
  <2>1. /\ \A k \in Markets \ {m} : UNCHANGED <<command[k], pc[k], todo[k], tables[k]>>
        /\ pc'[m] = "recv" /\ command'[m] = Tick
    BY <1>0, <1>11 DEF Respond
  <2>2. QED
    BY <1>2, <2>1, CarriedTypes DEF WorkDone
<1>12. ASSUME NEW m \in Markets, Drain(m) PROVE Emptied'
  <2>1. /\ \A k \in Markets \ {m} : UNCHANGED <<command[k], pc[k], todo[k], tables[k]>>
        /\ pc[m] = "recv" /\ pc'[m] = "drain" /\ command'[m] = command[m]
    BY <1>0, <1>12 DEF Drain
  <2>2. QED
    BY <1>2, <2>1 DEF WorkDone, Emptied
<1>13. ASSUME NEW m \in Markets, Stop(m) PROVE Emptied'
  <2>1. \A k \in Markets \ {m} : todo'[k] = todo[k]
    BY <1>0, <1>13 DEF Stop
  <2>2. WorkDone(m)'
    BY <1>13, StopMoves, CarriedTypes DEF WorkDone
  <2>3. QED
    BY <1>2, <1>13, <2>1, <2>2, StopMoves
<1>14. CASE Crash
  BY <1>14, CrashMoves, CarriedTypes DEF Emptied, WorkDone
<1>15. QED
  BY <1>1, <1>3, <1>4, <1>5, <1>6, <1>7, <1>8, <1>9, <1>10, <1>11, <1>12, <1>13, <1>14
  DEF Next, Producer, Worker, Encoder, Caller, Done, vars, worker, records, SendTick, Elapse, HourRolls,
      Close, flush, FlushSend, FlushResult, FlushStopped, FlushCancelled, EncodeRecv, EncodeBarrier,
      Encoded, EncodeFailed, EncoderPanics

-----------------------------------------------------------------------------
(* The barrier in the encoder's queue.                                     *)

\* A worker that waits for its barrier leaves the wait only with the answer, at a stop or a crash.
LEMMA AwaitKept ==
    ASSUME TypeOK, [Next]_vars, NEW k \in Markets, ~Respond(k), ~Stop(k), ~Crash, pc[k] = "await"
    PROVE  pc'[k] = "await"
<1>0. pc \in [Markets -> WorkerPc]
  BY DEF TypeOK, WorkerTypes
<1>1. CASE UNCHANGED pc
  BY <1>1
<1>2. ASSUME NEW m \in Markets,
             Recv(m) \/ Dispatch(m) \/ Pushed(m) \/ flush_largest(m) \/ Finish(m) \/ SendBarrier(m)
             \/ Drain(m) \/ Respond(m) \/ Stop(m)
      PROVE  pc'[k] = "await"
  <2>1. CASE k = m
    BY <1>0, <1>2, <2>1 DEF Recv, Dispatch, Pushed, flush_largest, Finish, SendBarrier, Drain
  <2>2. CASE k # m
    BY <1>0, <1>2, <2>2
    DEF Recv, Dispatch, Pushed, flush_largest, Finish, SendBarrier, Drain, Respond, Stop
  <2>3. QED
    BY <2>1, <2>2
<1>3. QED
  BY <1>1, <1>2
  DEF Next, Producer, Worker, Encoder, Caller, Done, vars, worker, records, SendTick, Elapse, HourRolls,
      Close, flush, FlushSend, FlushResult, FlushStopped, FlushCancelled, Push, flush_table, EncodeRecv,
      EncodeBarrier, Encoded, EncodeFailed, EncoderPanics

LEMMA BarrierType == \A m, k \in Markets : Barrier(m) = Barrier(k) => m = k
<1>1. \A m \in Markets : Barrier(m).market = m
  BY DEF Barrier
<1>2. QED
  BY <1>1

LEMMA BarrierStep == ASSUME TypeOK, BarrierInv, [Next]_vars PROVE BarrierInv'
<1> USE DEF BarrierInv
<1>1. CASE /\ UNCHANGED <<jobs, encoding, answer, alive>>
           /\ \A k \in Markets : pc[k] = "await" => pc'[k] = "await"
  BY <1>1 DEF BarrierBehind, AnsweredLast, NoJobAfter
<1>2. ASSUME NEW m \in Markets, NEW t \in Tables, flush_table(m, t) PROVE BarrierInv'
  <2>1. pc[m] # "await" /\ TableJob(m, t).market = m
    BY <1>2 DEF flush_table, Flushing, TableJob
  <2>2. /\ Len(jobs') = Len(jobs) + 1 /\ Len(jobs) \in Nat /\ \A i \in 1..Len(jobs) : jobs'[i] = jobs[i]
        /\ jobs'[Len(jobs) + 1].type = "write" /\ jobs'[Len(jobs) + 1].job.market = m
        /\ UNCHANGED <<pc, encoding, answer, alive>> /\ alive
    BY <1>2, <2>1, FlushTableMoves, WrittenTypes
  <2>3. \A k \in Markets : jobs'[Len(jobs) + 1] # Barrier(k)
    BY <2>2, WrittenTypes
  <2>4. ASSUME NEW k \in Markets PROVE BarrierBehind(k)'
    BY <2>1, <2>2, <2>3 DEF BarrierBehind, NoJobAfter
  <2>5. ASSUME NEW k \in Markets PROVE AnsweredLast(k)'
    BY <2>1, <2>2 DEF AnsweredLast, NoJobAfter
  <2>6. QED
    BY <2>2, <2>4, <2>5
<1>3. ASSUME NEW m \in Markets, SendBarrier(m) PROVE BarrierInv'
  <2>1. /\ Len(jobs') = Len(jobs) + 1 /\ Len(jobs) \in Nat /\ \A i \in 1..Len(jobs) : jobs'[i] = jobs[i]
        /\ jobs'[Len(jobs) + 1] = Barrier(m) /\ jobs'[Len(jobs) + 1].type # "write"
        /\ pc[m] = "barrier" /\ pc'[m] = "await" /\ \A k \in Markets \ {m} : pc'[k] = pc[k]
        /\ UNCHANGED <<encoding, answer, alive>> /\ alive
    BY <1>3, SendBarrierMoves, WrittenTypes
  <2>2. \A i \in 1..Len(jobs) : jobs[i] # Barrier(m)
    BY <2>1 DEF BarrierBehind
  <2>3. answer[m] = "none"
    BY <2>1 DEF AnsweredLast
  <2>4. BarrierBehind(m)'
    BY <2>1, <2>2, <2>3 DEF BarrierBehind, NoJobAfter
  <2>5. ASSUME NEW k \in Markets \ {m} PROVE BarrierBehind(k)'
    BY <2>1, BarrierType DEF BarrierBehind, NoJobAfter
  <2>6. ASSUME NEW k \in Markets PROVE AnsweredLast(k)'
    BY <2>1, <2>3 DEF AnsweredLast, NoJobAfter
  <2>7. QED
    BY <2>1, <2>4, <2>5, <2>6
<1>4. ASSUME NEW m \in Markets, Respond(m) PROVE BarrierInv'
  <2>1. /\ answer[m] # "none" /\ answer'[m] = "none" /\ UNCHANGED <<jobs, encoding, alive>>
        /\ \A k \in Markets \ {m} : answer'[k] = answer[k] /\ pc'[k] = pc[k]
    BY <1>4 DEF Respond, encoder, TypeOK, WorkerTypes
  <2>2. \A i \in 1..Len(jobs) : jobs[i] # Barrier(m)
    BY <2>1 DEF BarrierBehind
  <2>3. QED
    BY <2>1, <2>2 DEF BarrierBehind, AnsweredLast, NoJobAfter
<1>5. ASSUME NEW m \in Markets, Stop(m) PROVE BarrierInv'
  <2>1. pc[m] # "await" \/ (~alive /\ answer[m] = "none")
    BY <1>5 DEF Stop, EncoderGone, Flushing
  <2>2. /\ UNCHANGED <<jobs, encoding, answer, alive>> /\ \A k \in Markets \ {m} : pc'[k] = pc[k]
    BY <1>5, StopMoves
  <2>3. answer[m] = "none" /\ \A i \in 1..Len(jobs) : jobs[i] # Barrier(m)
    BY <2>1 DEF BarrierBehind, AnsweredLast
  <2>4. QED
    BY <2>2, <2>3 DEF BarrierBehind, AnsweredLast, NoJobAfter
<1>6. CASE EncodeRecv
  <2>1. /\ 1 \in 1..Len(jobs) /\ jobs[1].type = "write"
        /\ Len(encoding') = 1 /\ encoding'[1] = jobs[1].job
        /\ Len(jobs') = Len(jobs) - 1 /\ Len(jobs) \in Nat
        /\ \A i \in 1..Len(jobs') : jobs'[i] = jobs[i + 1] /\ i + 1 \in 1..Len(jobs) /\ i + 1 # 1
        /\ UNCHANGED <<pc, answer, alive>> /\ alive
    BY <1>6, EncodeRecvMoves
  <2>2. ASSUME NEW k \in Markets PROVE BarrierBehind(k)'
    <3>1. \A i \in 1..Len(jobs') : i \in Nat
      BY <2>1
    <3>2. QED
      BY <2>1, <3>1 DEF BarrierBehind, NoJobAfter
  <2>3. ASSUME NEW k \in Markets PROVE AnsweredLast(k)'
    <3>1. answer[k] # "none" => jobs[1].job.market # k
      BY <2>1 DEF AnsweredLast, NoJobAfter
    <3>2. answer[k] # "none" => NoJobAfter(k, 0)'
      <4>1. \A i \in 1..Len(jobs') : 0 < i + 1
        BY <2>1
      <4>2. QED
        BY <2>1, <4>1 DEF AnsweredLast, NoJobAfter
    <3>3. \A i \in 1..Len(encoding') : i = 1
      BY <2>1
    <3>4. QED
      BY <2>1, <3>1, <3>2, <3>3 DEF AnsweredLast
  <2>4. QED
    BY <2>1, <2>2, <2>3
<1>7. CASE EncodeBarrier
  <2>0. PICK m \in Markets : m = jobs[1].market
    BY <1>7, EncodeBarrierMoves
  <2>1. /\ 1 \in 1..Len(jobs) /\ jobs[1] = Barrier(m)
        /\ encoding = <<>> /\ alive /\ UNCHANGED <<pc, encoding, alive>>
        /\ \A k \in Markets \ {m} : answer'[k] = answer[k]
        /\ Len(jobs') = Len(jobs) - 1 /\ Len(jobs) \in Nat
        /\ \A i \in 1..Len(jobs') : jobs'[i] = jobs[i + 1] /\ i + 1 \in 1..Len(jobs) /\ i + 1 # 1
    BY <1>7, <2>0, EncodeBarrierMoves
  <2>2. /\ pc[m] = "await" /\ NoJobAfter(m, 1)
        /\ \A l \in 1..Len(jobs) : jobs[l] = Barrier(m) => 1 = l
    BY <2>1 DEF BarrierBehind
  <2>3. BarrierBehind(m)'
    BY <2>1, <2>2 DEF BarrierBehind
  <2>4. AnsweredLast(m)'
    <3>1. \A i \in 1..Len(jobs') : 1 < i + 1
      BY <2>1
    <3>2. NoJobAfter(m, 0)'
      BY <2>1, <2>2, <3>1 DEF NoJobAfter
    <3>3. QED
      BY <2>1, <2>2, <3>2 DEF AnsweredLast
  <2>5. ASSUME NEW k \in Markets \ {m} PROVE BarrierBehind(k)'
    <3>1. \A i \in 1..Len(jobs') : i \in Nat
      BY <2>1
    <3>2. QED
      BY <2>1, <3>1 DEF BarrierBehind, NoJobAfter
  <2>6. ASSUME NEW k \in Markets \ {m} PROVE AnsweredLast(k)'
    <3>1. \A i \in 1..Len(jobs') : 0 < i + 1
      BY <2>1
    <3>2. QED
      BY <2>1, <3>1 DEF AnsweredLast, NoJobAfter
  <2>7. QED
    BY <2>1, <2>3, <2>4, <2>5, <2>6
<1>8. CASE Encoded \/ EncodeFailed
  BY <1>8, EncodedMoves DEF BarrierBehind, AnsweredLast, NoJobAfter
<1>9. CASE EncoderPanics
  BY <1>9 DEF EncoderPanics, worker, BarrierBehind, AnsweredLast, NoJobAfter
<1>10. CASE Crash
  BY <1>10, CrashMoves DEF BarrierBehind, AnsweredLast, NoJobAfter
<1>11. ASSUME UNCHANGED <<jobs, encoding, answer, alive>>, ~Crash,
              \A m \in Markets : ~Respond(m) /\ ~Stop(m)
       PROVE  BarrierInv'
  BY <1>1, <1>11, AwaitKept
<1>12. ASSUME NEW m \in Markets,
              Recv(m) \/ Dispatch(m) \/ Push(m) \/ Pushed(m) \/ flush_largest(m) \/ Finish(m) \/ Drain(m)
              \/ SendTick(m) \/ \E batch \in Batches : records(m, batch)
       PROVE  UNCHANGED <<jobs, encoding, answer, alive>>
  BY <1>12 DEF Recv, Dispatch, Push, Pushed, flush_largest, Finish, Drain, SendTick, records, encoder
<1>13. ASSUME \/ Elapse \/ HourRolls \/ Close \/ Done \/ UNCHANGED vars
              \/ \E f \in Calls : Caller(f)
       PROVE  UNCHANGED <<jobs, encoding, answer, alive>>
  BY <1>13 DEF Elapse, HourRolls, Close, Done, vars, Caller, flush, FlushSend, FlushResult, FlushStopped,
               FlushCancelled, encoder
<1>14. UNCHANGED <<jobs, encoding, answer, alive>>
       \/ (\E m \in Markets : Respond(m) \/ SendBarrier(m) \/ Stop(m) \/ \E t \in Tables : flush_table(m, t))
       \/ EncodeRecv \/ EncodeBarrier \/ Encoded \/ EncodeFailed \/ EncoderPanics \/ Crash
  BY <1>12, <1>13 DEF Next, Producer, Worker, Encoder
<1>15. QED
  BY <1>2, <1>3, <1>4, <1>5, <1>6, <1>7, <1>8, <1>9, <1>10, <1>11, <1>14

-----------------------------------------------------------------------------
(* Where an accepted record is.                                            *)

\* The steps that publish or drop records.
LEMMA DiskMoves ==
    ASSUME [Next]_vars
    PROVE  UNCHANGED <<disk, lost>> \/ Encoded \/ EncodeFailed \/ EncoderPanics \/ Crash \/ \E m \in Markets : Stop(m)
<1>1. ASSUME NEW m \in Markets,
             Recv(m) \/ Dispatch(m) \/ Push(m) \/ Pushed(m) \/ flush_largest(m) \/ Finish(m) \/ Drain(m)
             \/ SendTick(m) \/ SendBarrier(m) \/ Respond(m) \/ (\E t \in Tables : flush_table(m, t))
             \/ \E batch \in Batches : records(m, batch)
      PROVE  UNCHANGED <<disk, lost>>
  BY <1>1 DEF Recv, Dispatch, Push, Pushed, flush_largest, flush_table, Finish, Drain, SendTick,
              SendBarrier, Respond, records, encoder
<1>2. ASSUME \/ Elapse \/ HourRolls \/ Close \/ Done \/ UNCHANGED vars \/ EncodeRecv \/ EncodeBarrier
             \/ \E f \in Calls : Caller(f)
      PROVE  UNCHANGED <<disk, lost>>
  BY <1>2 DEF Elapse, HourRolls, Close, Done, vars, EncodeRecv, EncodeBarrier, Caller, flush, FlushSend,
              FlushResult, FlushStopped, FlushCancelled, encoder
<1>3. QED
  BY <1>1, <1>2 DEF Next, Producer, Worker, Encoder

\* A published segment stays.
LEMMA DiskKept == ASSUME TypeOK, NoOverwrite, [Next]_vars PROVE disk \subseteq disk'
<1>1. Range(encoding) = {encoding[i] : i \in 1..Len(encoding)}
  BY RangeIndex DEF TypeOK, EncoderTypes
<1>2. \A u \in Range(encoding) : disk \subseteq Publish(u)
  BY DEF NoOverwrite, Publish
<1>3. CASE Encoded \/ EncodeFailed
  <2>1. encoding[1] \in Range(encoding)
    BY <1>1, <1>3, EncodedMoves
  <2>2. QED
    BY <1>2, <1>3, <2>1 DEF Encoded, EncodeFailed
<1>4. CASE Crash
  BY <1>2, <1>4 DEF Crash
<1>5. CASE UNCHANGED <<disk, lost>> \/ EncoderPanics \/ \E m \in Markets : Stop(m)
  BY <1>5 DEF EncoderPanics, Stop, encoder
<1>6. QED
  BY <1>3, <1>4, <1>5, DiskMoves

LEMMA OnDiskRecords == \A r \in Records : OnDisk(r) <=> r \in RecordsOf(disk)
  BY DEF OnDisk, RecordsOf

\* At a crash every accepted record is either on disk or dropped.
LEMMA CrashSettles == ASSUME TypeOK, Crash, NEW r \in Records, r \in Accepted PROVE Settled(r)'
<1>1. lost' = Accepted \ RecordsOf(disk')
  BY DEF Crash
<1>2. QED
  BY <1>1 DEF Settled, OnDisk, RecordsOf

\* What is on disk or dropped stays so.
LEMMA SettledStep ==
    ASSUME TypeOK, NoOverwrite, [Next]_vars, NEW r \in Records, r \in Accepted, Settled(r)
    PROVE  Settled(r)'
<1>1. ASSUME ~Crash PROVE lost \subseteq lost'
  BY <1>1, DiskMoves DEF Encoded, EncodeFailed, EncoderPanics, Stop
<1>2. QED
  BY <1>1, DiskKept, CrashSettles DEF Settled, OnDisk

\* What a stop drops.
LEMMA StopDrops ==
    ASSUME TypeOK, NEW m \in Markets, Stop(m), NEW r \in Records,
           InQueue(m, r) \/ r \in Carried(command[m]) \/ InTables(m, r)
    PROVE  r \in lost'
<1>1. queue[m] \in Seq(Command) /\ Range(queue[m]) = {queue[m][i] : i \in 1..Len(queue[m])}
  BY RangeIndex DEF TypeOK, InputTypes
<1>2. lost' = lost \cup RecordsIn(queue[m]) \cup InHand(m) \cup Buffered(m)
  BY DEF Stop
<1>3. InQueue(m, r) => r \in RecordsIn(queue[m])
  BY <1>1 DEF InQueue, Carried, RecordsIn
<1>4. r \in Carried(command[m]) => r \in InHand(m)
  BY DEF Carried, InHand
<1>5. InTables(m, r) => r \in Buffered(m)
  BY DEF InTables, Buffered
<1>6. QED
  BY <1>2, <1>3, <1>4, <1>5

\* What the death of the encoder thread drops.
LEMMA PanicDrops ==
    ASSUME TypeOK, EncoderPanics, NEW r \in Records, InJobs(r) \/ InEncoding(r)
    PROVE  r \in lost'
<1>1. Range(encoding) = {encoding[i] : i \in 1..Len(encoding)} /\ Range(jobs) = {jobs[i] : i \in 1..Len(jobs)}
  BY RangeIndex DEF TypeOK, EncoderTypes
<1>2. lost' = lost \cup RecordsOf(Range(encoding)) \cup RecordsOfJobs(jobs)
  BY DEF EncoderPanics
<1>3. InJobs(r) => r \in RecordsOfJobs(jobs)
  BY <1>1 DEF InJobs, Written, RecordsOfJobs
<1>4. InEncoding(r) => r \in RecordsOf(Range(encoding))
  BY <1>1 DEF InEncoding, RecordsOf
<1>5. QED
  BY <1>2, <1>3, <1>4

\* A segment that leaves the encoder is on disk or dropped.
LEMMA EncodedSettles ==
    ASSUME TypeOK, Encoded \/ EncodeFailed, NEW r \in Records, InEncoding(r) PROVE Settled(r)'
<1>1. r \in Range(encoding[1].records)
  BY EncodedMoves DEF InEncoding
<1>2. disk' = Publish(encoding[1]) \/ lost' = lost \cup Range(encoding[1].records)
  BY DEF Encoded, EncodeFailed
<1>3. QED
  BY <1>1, <1>2 DEF Settled, OnDisk, Publish

LEMMA KeptStep ==
    ASSUME TypeOK, NoOverwrite, Emptied, [Next]_vars, NEW r \in Records, r \in Accepted, Kept(r)
    PROVE  Kept(r)'
<1>0. MarketOf[r] \in Markets /\ (Settled(r) => Settled(r)')
  BY SettledStep, RecordAssumption
<1>1. SUFFICES ASSUME NEW n \in Markets, n = MarketOf[r],
                      InQueue(n, r) \/ r \in Carried(command[n]) \/ InTables(n, r) \/ InJobs(r) \/ InEncoding(r)
               PROVE  \/ InQueue(n, r)' \/ r \in Carried(command'[n]) \/ InTables(n, r)'
                      \/ InJobs(r)' \/ InEncoding(r)' \/ Settled(r)'
  BY <1>0 DEF Kept
<1> DEFINE Still == \/ InQueue(n, r)' \/ r \in Carried(command'[n]) \/ InTables(n, r)'
                    \/ InJobs(r)' \/ InEncoding(r)' \/ Settled(r)'
<1>2. ASSUME UNCHANGED <<queue, command, tables, jobs, encoding>> PROVE Still
  BY <1>1, <1>2 DEF InQueue, InTables, InJobs, InEncoding
\* A command enters the queue.
<1>3. ASSUME NEW m \in Markets, NEW c \in Command, queue' = [queue EXCEPT ![m] = Append(@, c)],
             UNCHANGED <<command, tables, jobs, encoding>>
      PROVE  Still
  <2>1. InQueue(n, r) => InQueue(n, r)'
    BY <1>3, QueueAppended DEF InQueue
  <2>2. QED
    BY <1>1, <1>3, <2>1 DEF InTables, InJobs, InEncoding
<1>4. ASSUME NEW m \in Markets, NEW batch \in Batches, records(m, batch) PROVE Still
  <2>1. [type |-> "records", records |-> batch] \in Command
    BY BatchType, CommandTypes
  <2>2. QED
    BY <1>3, <1>4, <2>1 DEF records, worker, encoder
<1>5. ASSUME NEW m \in Markets, SendTick(m) PROVE Still
  BY <1>3, <1>5, CommandTypes DEF SendTick, worker, encoder
<1>6. ASSUME NEW f \in Calls, FlushSend(f) PROVE Still
  <2>1. Order[call[f].at] \in Markets /\ [type |-> "flush", response |-> f] \in Command
    BY CommandTypes, MarketAssumption DEF TypeOK, CallTypes
  <2>2. QED
    BY <1>3, <1>6, <2>1 DEF FlushSend, worker, encoder
<1>7. ASSUME NEW m \in Markets, Recv(m) PROVE Still
  <2>1. Carried(command[m]) = {}
    BY <1>7 DEF Recv, Emptied, WorkDone
  <2>2. r \in Carried(command[n]) => r \in Carried(command'[n])
    BY <1>7, <2>1, RecvMoves
  <2>3. ASSUME InQueue(n, r), n = m PROVE InQueue(n, r)' \/ r \in Carried(command'[n])
    <3>1. PICK i \in 1..Len(queue[n]) : r \in Carried(queue[n][i])
      BY <2>3 DEF InQueue
    <3>2. CASE i = 1
      BY <1>7, <2>3, <3>1, <3>2, RecvMoves
    <3>3. CASE i # 1
      <4>1. i - 1 \in 1..Len(queue'[n]) /\ (i - 1) + 1 = i
        BY <1>7, <2>3, <3>1, <3>3, RecvMoves
      <4>2. queue'[n][i - 1] = queue[n][i]
        BY <1>7, <2>3, <4>1, RecvMoves
      <4>3. QED
        BY <3>1, <4>1, <4>2 DEF InQueue
    <3>4. QED
      BY <3>2, <3>3
  <2>4. InQueue(n, r) => InQueue(n, r)' \/ r \in Carried(command'[n])
    BY <1>7, <2>3, RecvMoves DEF InQueue
  <2>5. QED
    BY <1>1, <1>7, <2>2, <2>4, RecvMoves DEF InTables, InJobs, InEncoding
<1>8. ASSUME NEW m \in Markets, Push(m) PROVE Still
  <2> DEFINE p == Head(command[m].records)
  <2>1. /\ Carried(command[m]) = {p} \cup Carried(command'[m]) /\ TableOf[p] \in Tables
        /\ Range(tables'[m][TableOf[p]]) = Range(tables[m][TableOf[p]]) \cup {p}
        /\ \A t \in Tables \ {TableOf[p]} : tables'[m][t] = tables[m][t]
        /\ \A k \in Markets \ {m} : command'[k] = command[k] /\ tables'[k] = tables[k]
        /\ UNCHANGED <<queue, jobs, encoding>>
    BY <1>8, PushMoves
  <2> HIDE DEF p
  <2>2. InTables(n, r) => InTables(n, r)'
    BY <2>1 DEF InTables
  <2>3. r \in Carried(command[n]) => r \in Carried(command'[n]) \/ InTables(n, r)'
    BY <2>1 DEF InTables
  <2>4. QED
    BY <1>1, <2>1, <2>2, <2>3 DEF InQueue, InJobs, InEncoding
<1>9. ASSUME NEW m \in Markets, NEW t \in Tables, flush_table(m, t) PROVE Still
  <2>1. InJobs(r) => InJobs(r)'
    BY <1>9, FlushTableMoves DEF InJobs
  <2>2. r \in Range(tables[m][t]) => InJobs(r)'
    <3>1. Written(jobs'[Len(jobs) + 1]) = Range(tables[m][t]) /\ Len(jobs) + 1 \in 1..Len(jobs')
      BY <1>9, FlushTableMoves
    <3>2. QED
      BY <3>1 DEF InJobs
  <2>3. InTables(n, r) => InTables(n, r)' \/ InJobs(r)'
    BY <1>9, <2>2, FlushTableMoves DEF InTables
  <2>4. QED
    BY <1>1, <1>9, <2>1, <2>3, FlushTableMoves DEF InQueue, InEncoding
<1>10. ASSUME NEW m \in Markets, SendBarrier(m) PROVE Still
  <2>1. InJobs(r) => InJobs(r)'
    BY <1>10, SendBarrierMoves DEF InJobs
  <2>2. QED
    BY <1>1, <1>10, <2>1, SendBarrierMoves DEF InQueue, InTables, InEncoding
<1>11. ASSUME NEW m \in Markets, Finish(m) \/ Respond(m) PROVE Still
  <2>1. Carried(command[m]) = {}
    BY <1>11 DEF Finish, Respond, Emptied, WorkDone
  <2>2. QED
    BY <1>1, <1>11, <2>1, HandEmptied DEF InQueue, InTables, InJobs, InEncoding
<1>12. ASSUME NEW m \in Markets, Stop(m) PROVE Still
  <2>1. CASE n = m
    BY <1>1, <1>12, <2>1, StopDrops, StopMoves DEF Settled, InJobs, InEncoding
  <2>2. CASE n # m
    BY <1>1, <1>12, <2>2, StopMoves DEF InQueue, InTables, InJobs, InEncoding
  <2>3. QED
    BY <2>1, <2>2
<1>13. ASSUME EncodeRecv PROVE Still
  <2>1. InJobs(r) => InJobs(r)' \/ InEncoding(r)'
    <3>1. SUFFICES ASSUME NEW i \in 1..Len(jobs), r \in Written(jobs[i]) PROVE InJobs(r)' \/ InEncoding(r)'
      BY DEF InJobs
    <3>2. CASE i = 1
      <4>1. Written(jobs[1]) = Range(encoding'[1].records)
        BY <1>13, EncodeRecvMoves DEF Written
      <4>2. Len(encoding') = 1
        BY <1>13, EncodeRecvMoves
      <4>3. 1 \in 1..1
        OBVIOUS
      <4>4. QED
        BY <3>1, <3>2, <4>1, <4>2, <4>3 DEF InEncoding
    <3>3. CASE i # 1
      <4>1. i - 1 \in 1..Len(jobs') /\ (i - 1) + 1 = i
        BY <1>13, <3>3, EncodeRecvMoves
      <4>2. jobs'[i - 1] = jobs[i]
        BY <1>13, <4>1, EncodeRecvMoves
      <4>3. QED
        BY <3>1, <4>1, <4>2 DEF InJobs
    <3>4. QED
      BY <3>2, <3>3
  <2>2. ~InEncoding(r)
    BY <1>13, EncodeRecvMoves DEF InEncoding
  <2>3. QED
    BY <1>1, <1>13, <2>1, <2>2, EncodeRecvMoves DEF InQueue, InTables
<1>14. ASSUME EncodeBarrier PROVE Still
  <2>1. InJobs(r) => InJobs(r)'
    <3>1. SUFFICES ASSUME NEW i \in 1..Len(jobs), r \in Written(jobs[i]) PROVE InJobs(r)'
      BY DEF InJobs
    <3>2. i # 1
      BY <1>14, <3>1, EncodeBarrierMoves, WrittenTypes
    <3>3. i - 1 \in 1..Len(jobs') /\ (i - 1) + 1 = i
      BY <1>14, <3>2, EncodeBarrierMoves
    <3>4. jobs'[i - 1] = jobs[i]
      BY <1>14, <3>3, EncodeBarrierMoves
    <3>5. QED
      BY <3>1, <3>3, <3>4 DEF InJobs
  <2>2. QED
    BY <1>1, <1>14, <2>1, EncodeBarrierMoves DEF InQueue, InTables, InEncoding
<1>15. ASSUME Encoded \/ EncodeFailed PROVE Still
  BY <1>1, <1>15, EncodedMoves, EncodedSettles DEF InQueue, InTables, InJobs
<1>16. ASSUME EncoderPanics PROVE Still
  <2>1. InJobs(r) \/ InEncoding(r) => Settled(r)'
    BY <1>16, PanicDrops DEF Settled
  <2>2. UNCHANGED <<queue, command, tables>>
    BY <1>16 DEF EncoderPanics, inputs, worker
  <2>3. QED
    BY <1>1, <2>1, <2>2 DEF InQueue, InTables
<1>17. ASSUME Crash PROVE Still
  BY <1>17, CrashSettles
<1> HIDE DEF Still
<1>18. ASSUME NEW m \in Markets, Dispatch(m) \/ Pushed(m) \/ flush_largest(m) \/ Drain(m)
       PROVE  UNCHANGED <<queue, command, tables, jobs, encoding>>
  BY <1>18 DEF Dispatch, Pushed, flush_largest, Drain, inputs, encoder
<1>19. ASSUME \/ Elapse \/ HourRolls \/ Close \/ Done \/ UNCHANGED vars
              \/ \E f \in Calls : flush(f) \/ FlushResult(f) \/ FlushStopped(f) \/ FlushCancelled(f)
       PROVE  UNCHANGED <<queue, command, tables, jobs, encoding>>
  BY <1>19 DEF Elapse, HourRolls, Close, Done, vars, flush, FlushResult, FlushStopped,
               FlushCancelled, encoder, inputs, worker
<1>20. Still
  BY <1>2, <1>4, <1>5, <1>6, <1>7, <1>8, <1>9, <1>10, <1>11, <1>12, <1>13, <1>14, <1>15, <1>16, <1>17,
     <1>18, <1>19
  DEF Next, Producer, Worker, Encoder, Caller
<1>21. QED
  BY <1>20 DEF Still

LEMMA ConservedStep == ASSUME TypeOK, NoOverwrite, Emptied, Conserved, [Next]_vars PROVE Conserved'
<1>0. Accepted \subseteq Records /\ Accepted' \subseteq Records
  <2>1. TypeOK'
    BY TypeStep
  <2>2. QED
    BY <2>1, RangeType DEF Accepted, TypeOK, InputTypes
<1>1. ASSUME NEW r \in Accepted PROVE Kept(r)'
  BY <1>0, KeptStep DEF Conserved
<1>2. ASSUME NEW m \in Markets, NEW batch \in Batches, records(m, batch), NEW r \in Range(batch)
      PROVE  Kept(r)'
  <2> DEFINE c == [type |-> "records", records |-> batch]
  <2>1. c \in Command /\ Carried(c) = Range(batch)
    BY BatchType, CommandTypes, CarriedTypes
  <2>2. MarketOf[r] = m /\ queue' = [queue EXCEPT ![m] = Append(@, c)]
    BY <1>2 DEF records
  <2> HIDE DEF c
  <2>3. Len(queue'[m]) = Len(queue[m]) + 1 /\ Len(queue[m]) \in Nat /\ queue'[m][Len(queue[m]) + 1] = c
    <3>1. \A d \in Command : queue' = [queue EXCEPT ![m] = Append(@, d)] =>
             Len(queue'[m]) = Len(queue[m]) + 1 /\ Len(queue[m]) \in Nat /\ queue'[m][Len(queue[m]) + 1] = d
      BY QueueAppended
    <3>2. QED
      BY <2>1, <2>2, <3>1
  <2>4. Len(queue[m]) + 1 \in 1..Len(queue'[m])
    BY <2>3
  <2>5. QED
    BY <1>2, <2>1, <2>2, <2>3, <2>4 DEF Kept, InQueue
<1>3. QED
  BY <1>1, <1>2, AcceptedStep, AcceptedBatch DEF Conserved, Accepted

-----------------------------------------------------------------------------
(* A call of Writer::flush.                                                *)

Same(f) == call'[f].at = call[f].at /\ call'[f].reply = call[f].reply
Begins(f) == call[f].state = "idle" /\ call'[f].state = "send" /\ Same(f) /\ before'[f] \subseteq Accepted
Sends(f) == call[f].state = "send" /\ call'[f].state = "wait" /\ Same(f)
Fails(f) == call[f].state \in {"send", "wait"} /\ call'[f].state \in {"err", "cancelled"} /\ Same(f)
Goes(f) ==
    /\ call[f].state = "wait" /\ call[f].reply = "ok"
    /\ \/ call'[f].state = "ok" /\ LastMarket(f) /\ Same(f)
       \/ call'[f] = [state |-> "send", at |-> call[f].at + 1, reply |-> "none"]
Answered(f, m) ==
    /\ call[f].state = "wait" /\ call'[f].state = "wait"
    /\ call'[f].at = call[f].at /\ call'[f].reply = answer[m]

\* What a step does to a call, in a state where replies and markets have their types.
LEMMA CallMoves ==
    ASSUME TypeOK, [Next]_vars, NEW f \in Calls
    PROVE  /\ before'[f] = before[f] \/ (flush(f) /\ Begins(f))
           /\ \/ call'[f] = call[f]
              \/ flush(f) /\ Begins(f)
              \/ FlushSend(f) /\ Sends(f)
              \/ Fails(f) \/ Goes(f)
              \/ \E m \in Markets : Respond(m) /\ command[m].response = f /\ Answered(f, m)
<1>0. /\ call \in [Calls -> [state : CallState, at : 1..Len(Order), reply : Answer]]
      /\ before \in [Calls -> SUBSET Records] /\ command \in [Markets -> Command]
      /\ call[f] \in [state : CallState, at : 1..Len(Order), reply : Answer]
      /\ \A m \in Markets : pc[m] \in {"flush", "barrier", "await"} => command[m].type = "flush"
  BY DEF TypeOK, CallTypes, WorkerTypes
<1>1. ASSUME NEW x \in CallState PROVE [call[f] EXCEPT !.state = x].state = x
                                       /\ [call[f] EXCEPT !.state = x].at = call[f].at
                                       /\ [call[f] EXCEPT !.state = x].reply = call[f].reply
  BY <1>0
<1>2. {"send", "wait", "ok", "err", "cancelled"} \subseteq CallState
  BY DEF CallState
<1>3. ASSUME NEW g \in Calls, flush(g) PROVE (call'[f] = call[f] /\ before'[f] = before[f]) \/ (flush(f) /\ Begins(f))
  <2>1. CASE g = f
    <3>1. call'[f] = [call[f] EXCEPT !.state = "send"] /\ call[f].state = "idle" /\ before'[f] \subseteq Accepted
      BY <1>0, <1>3, <2>1 DEF flush
    <3>2. QED
      BY <1>1, <1>2, <1>3, <2>1, <3>1 DEF Begins, Same
  <2>2. CASE g # f
    BY <1>0, <1>3, <2>2 DEF flush
  <2>3. QED
    BY <2>1, <2>2
<1>4. ASSUME NEW g \in Calls, FlushSend(g) PROVE before' = before /\ (call'[f] = call[f] \/ (FlushSend(f) /\ Sends(f)))
  <2>1. CASE g = f
    <3>1. call'[f] = [call[f] EXCEPT !.state = "wait"] /\ call[f].state = "send" /\ before' = before
      BY <1>0, <1>4, <2>1 DEF FlushSend
    <3>2. QED
      BY <1>1, <1>2, <1>4, <2>1, <3>1 DEF Sends, Same
  <2>2. CASE g # f
    BY <1>0, <1>4, <2>2 DEF FlushSend
  <2>3. QED
    BY <2>1, <2>2
<1>5. ASSUME NEW g \in Calls, FlushResult(g) PROVE before' = before /\ (call'[f] = call[f] \/ Fails(f) \/ Goes(f))
  <2>1. CASE g = f
    <3>1. /\ call[f].state = "wait" /\ call[f].reply # "none" /\ before' = before
          /\ call'[f] = IF call[f].reply = "err" THEN [call[f] EXCEPT !.state = "err"]
                        ELSE IF LastMarket(f) THEN [call[f] EXCEPT !.state = "ok"]
                        ELSE [state |-> "send", at |-> call[f].at + 1, reply |-> "none"]
      BY <1>0, <1>5, <2>1 DEF FlushResult
    <3>2. call[f].reply \in {"ok", "err"}
      BY <1>0, <3>1 DEF Answer
    <3>3. CASE call[f].reply = "err"
      BY <1>1, <1>2, <3>1, <3>3 DEF Fails, Same
    <3>4. CASE call[f].reply = "ok"
      BY <1>1, <1>2, <3>1, <3>4 DEF Goes, Same
    <3>5. QED
      BY <3>2, <3>3, <3>4
  <2>2. CASE g # f
    BY <1>0, <1>5, <2>2 DEF FlushResult
  <2>3. QED
    BY <2>1, <2>2
<1>6. ASSUME NEW g \in Calls, FlushStopped(g) \/ FlushCancelled(g)
      PROVE before' = before /\ (call'[f] = call[f] \/ Fails(f))
  <2>1. CASE g = f
    <3>1. /\ call[f].state \in {"send", "wait"} /\ before' = before
          /\ \/ call'[f] = [call[f] EXCEPT !.state = "err"]
             \/ call'[f] = [call[f] EXCEPT !.state = "cancelled"]
      BY <1>0, <1>6, <2>1 DEF FlushStopped, FlushCancelled
    <3>2. PICK x \in {"err", "cancelled"} : call'[f] = [call[f] EXCEPT !.state = x]
      BY <3>1
    <3>3. x \in CallState
      BY <1>2
    <3>4. call'[f].state = x /\ Same(f)
      BY <1>1, <3>2, <3>3 DEF Same
    <3>5. QED
      BY <3>1, <3>4 DEF Fails
  <2>2. CASE g # f
    BY <1>0, <1>6, <2>2 DEF FlushStopped, FlushCancelled
  <2>3. QED
    BY <2>1, <2>2
<1>7. ASSUME Close \/ Crash PROVE before' = before /\ (call'[f] = call[f] \/ Fails(f))
  <2>1. before' = before /\ call'[f] = IF call[f].state \in {"send", "wait"}
                                       THEN [call[f] EXCEPT !.state = "cancelled"] ELSE call[f]
    BY <1>7 DEF Close, Crash
  <2>2. QED
    BY <1>1, <1>2, <2>1 DEF Fails, Same
<1>8. ASSUME NEW m \in Markets, Respond(m)
      PROVE before' = before /\ (call'[f] = call[f] \/ (command[m].response = f /\ Answered(f, m)))
  <2>1. /\ before' = before
        /\ call' = IF call[command[m].response].state = "wait"
                   THEN [call EXCEPT ![command[m].response].reply = answer[m]] ELSE call
    BY <1>8 DEF Respond
  <2>2. CASE command[m].response = f /\ call[f].state = "wait"
    <3>1. call'[f] = [call[f] EXCEPT !.reply = answer[m]]
      BY <1>0, <2>1, <2>2
    <3>2. QED
      BY <1>0, <2>1, <2>2, <3>1 DEF Answered
  <2>3. CASE ~(command[m].response = f /\ call[f].state = "wait")
    <3> DEFINE g == command[m].response
    <3>1. g \in Calls
      BY <1>0, <1>8, CommandTypes DEF Respond
    <3> HIDE DEF g
    <3>2. QED
      BY <1>0, <2>1, <2>3, <3>1 DEF g
  <2>4. QED
    BY <2>2, <2>3
<1>9. ASSUME NEW m \in Markets,
             Recv(m) \/ Dispatch(m) \/ Push(m) \/ Pushed(m) \/ flush_largest(m) \/ Finish(m) \/ Drain(m)
             \/ SendTick(m) \/ SendBarrier(m) \/ Stop(m) \/ (\E t \in Tables : flush_table(m, t))
             \/ \E batch \in Batches : records(m, batch)
      PROVE  UNCHANGED <<call, before>>
  BY <1>9 DEF Recv, Dispatch, Push, Pushed, flush_largest, flush_table, Finish, Drain, SendTick,
              SendBarrier, Stop, records
<1>10. ASSUME Elapse \/ HourRolls \/ Done \/ UNCHANGED vars \/ Encoder \/ EncoderPanics
       PROVE  UNCHANGED <<call, before>>
  BY <1>10 DEF Elapse, HourRolls, Done, vars, Encoder, EncodeRecv, EncodeBarrier, Encoded, EncodeFailed,
               EncoderPanics
<1>11. QED
  BY <1>3, <1>4, <1>5, <1>6, <1>7, <1>8, <1>9, <1>10 DEF Next, Producer, Worker, Caller

LEMMA CallStep == ASSUME TypeOK, CallInv, [Next]_vars PROVE CallInv'
<1>1. SUFFICES ASSUME NEW f \in Calls PROVE CallBegun(f)'
  BY DEF CallInv
<1>2. before'[f] \subseteq Accepted'
  BY CallMoves, AcceptedStep DEF CallInv, CallBegun, Begins
<1>3. /\ call[f].state = "idle" => call[f].at = 1
      /\ call[f].state \in {"idle", "send"} => call[f].reply = "none"
      /\ call[f].state = "ok" => call[f].reply = "ok"
  BY DEF CallInv, CallBegun
<1>4. ASSUME NEW m \in Markets, Answered(f, m) PROVE call'[f].state = "wait"
  BY <1>4 DEF Answered
<1>5. Goes(f) => /\ call'[f].state \in {"ok", "send"}
                 /\ call'[f].state = "ok" => call'[f].reply = "ok"
                 /\ call'[f].state = "send" => call'[f].reply = "none"
  BY DEF Goes, Same
<1>6. QED
  BY <1>2, <1>3, <1>4, <1>5, CallMoves DEF CallBegun, Begins, Sends, Fails, Same

-----------------------------------------------------------------------------
(* The flush command behind its records.                                   *)

\* What a step does to the commands of a worker: its queue stays and its hand stays or is no
\* flush, or it takes the next command, or one is added, or all are dropped.
Stays(m) == queue'[m] = queue[m] /\ (command'[m] = command[m] \/ command'[m].type # "flush")
Adds(m, c) ==
    /\ queue' = [queue EXCEPT ![m] = Append(@, c)] /\ command' = command
    /\ Carried(c) \cap Accepted = {}
    /\ \A f \in Calls : IsFlush(c, f) => FlushSend(f) /\ Order[call[f].at] = m
Drops(m) == queue'[m] = <<>> /\ command'[m] = Tick

LEMMA PlaceMoves ==
    ASSUME TypeOK, [Next]_vars, NEW m \in Markets
    PROVE  Stays(m) \/ Recv(m) \/ Drops(m) \/ \E c \in Command : Adds(m, c)
<1>1. ASSUME NEW k \in Markets, NEW c \in Command, Adds(k, c) PROVE Stays(m) \/ \E d \in Command : Adds(m, d)
  <2>1. CASE k = m
    BY <1>1, <2>1
  <2>2. CASE k # m
    BY <1>1, <2>2, QueueAppended DEF Adds, Stays
  <2>3. QED
    BY <2>1, <2>2
<1>2. ASSUME NEW k \in Markets, NEW batch \in Batches, records(k, batch) PROVE \E c \in Command : Adds(k, c)
  <2> DEFINE c == [type |-> "records", records |-> batch]
  <2>1. c \in Command /\ Carried(c) = Range(batch) /\ \A f \in Calls : ~IsFlush(c, f)
    BY BatchType, CommandTypes, CarriedTypes DEF IsFlush
  <2>2. queue' = [queue EXCEPT ![k] = Append(@, c)] /\ command' = command /\ Range(batch) \cap Accepted = {}
    BY <1>2 DEF records, worker
  <2> HIDE DEF c
  <2>3. Adds(k, c)
    BY <2>1, <2>2 DEF Adds
  <2>4. QED
    BY <2>1, <2>3
<1>3. ASSUME NEW k \in Markets, SendTick(k) PROVE Adds(k, Tick) /\ Tick \in Command
  BY <1>3, CommandTypes, CarriedTypes DEF SendTick, worker, Adds, IsFlush
<1>4. ASSUME NEW f \in Calls, FlushSend(f) PROVE \E k \in Markets : \E c \in Command : Adds(k, c)
  <2> DEFINE c == [type |-> "flush", response |-> f]
             k == Order[call[f].at]
  <2>1. c \in Command /\ Carried(c) = {} /\ k \in Markets /\ \A g \in Calls : IsFlush(c, g) => g = f
    BY CommandTypes, CarriedTypes, MarketAssumption DEF TypeOK, CallTypes, IsFlush
  <2>2. queue' = [queue EXCEPT ![k] = Append(@, c)] /\ command' = command
    BY <1>4 DEF FlushSend, worker
  <2> HIDE DEF c
  <2>3. Adds(k, c)
    BY <1>4, <2>1, <2>2 DEF Adds
  <2> HIDE DEF k
  <2>4. QED
    BY <2>1, <2>3
<1>5. ASSUME NEW k \in Markets, Recv(k) PROVE Stays(m) \/ Recv(m)
  BY <1>5, RecvMoves DEF Stays
<1>6. ASSUME NEW k \in Markets, Push(k) PROVE Stays(m)
  <2>1. UNCHANGED queue /\ command'[k].type = "records" /\ \A n \in Markets \ {k} : command'[n] = command[n]
    BY <1>6, PushMoves
  <2>2. QED
    BY <2>1 DEF Stays
<1>7. ASSUME NEW k \in Markets, Finish(k) \/ Respond(k) PROVE Stays(m)
  BY <1>7, HandEmptied, CommandTypes DEF Stays
<1>8. ASSUME NEW k \in Markets, Stop(k) PROVE Stays(m) \/ Drops(m)
  BY <1>8, StopMoves DEF Stays, Drops
<1>9. ASSUME Crash PROVE Drops(m)
  BY <1>9, CrashMoves DEF Drops
<1>10. ASSUME NEW k \in Markets, \/ Dispatch(k) \/ Pushed(k) \/ flush_largest(k) \/ Drain(k) \/ SendBarrier(k)
                                 \/ \E t \in Tables : flush_table(k, t)
       PROVE  UNCHANGED <<queue, command>>
  BY <1>10 DEF Dispatch, Pushed, flush_largest, Drain, SendBarrier, flush_table, inputs
<1>11. ASSUME \/ Elapse \/ HourRolls \/ Close \/ Done \/ UNCHANGED vars \/ Encoder \/ EncoderPanics
              \/ \E f \in Calls : flush(f) \/ FlushResult(f) \/ FlushStopped(f) \/ FlushCancelled(f)
       PROVE  UNCHANGED <<queue, command>>
  BY <1>11 DEF Elapse, HourRolls, Close, Done, vars, flush, FlushResult, FlushStopped,
               FlushCancelled, Encoder, EncodeRecv, EncodeBarrier, Encoded, EncodeFailed,
               EncoderPanics, inputs, worker
<1>12. UNCHANGED <<queue, command>> => Stays(m)
  BY DEF Stays
<1>13. QED
  BY <1>1, <1>2, <1>3, <1>4, <1>5, <1>6, <1>7, <1>8, <1>9, <1>10, <1>11, <1>12
  DEF Next, Producer, Worker, Caller

\* A call whose command is on its way keeps waiting, fails or gets the answer of this command.
LEMMA StillAwaits ==
    ASSUME TypeOK, FlushInv, [Next]_vars, NEW m \in Markets, NEW f \in Calls,
           NEW i \in 0..Len(queue[m]), IsFlush(Place(m, i), f)
    PROVE  \/ Respond(m) /\ i = 0
           \/ /\ Awaits(f, m)' /\ before'[f] = before[f]
              /\ call'[f].state = "wait" => call[f].state = "wait"
<1>1. Awaits(f, m) /\ \A j \in 0..Len(queue[m]) : call[f].state = "wait" /\ IsFlush(Place(m, j), f) => i = j
  BY DEF FlushInv, FlushBehind
<1>2. call[f].state \in {"wait"} \cup Returned /\ (call[f].state = "wait" => call[f].reply = "none" /\ Order[call[f].at] = m)
  BY <1>1 DEF Awaits, Returned
<1>3. ASSUME NEW k \in Markets, Respond(k), command[k].response = f, Answered(f, k) PROVE k = m /\ i = 0
  <2>1. pc[k] = "await" /\ call[f].state = "wait"
    BY <1>3 DEF Respond, Answered
  <2>2. IsFlush(Place(k, 0), f) /\ 0 \in 0..Len(queue[k])
    <3>1. command[k].type = "flush" /\ Len(queue[k]) \in Nat
      BY <2>1 DEF TypeOK, WorkerTypes, InputTypes
    <3>2. QED
      BY <1>3, <3>1 DEF IsFlush, Place
  <2>3. Awaits(f, k)
    BY <2>2 DEF FlushInv, FlushBehind
  <2>4. k = m
    BY <1>2, <2>1, <2>3 DEF Awaits, Returned
  <2>5. QED
    BY <1>1, <2>1, <2>2, <2>4
<1>4. before'[f] = before[f] /\ (call'[f] = call[f] \/ Fails(f) \/ (Respond(m) /\ i = 0))
  BY <1>2, <1>3, CallMoves DEF Begins, Sends, Goes, Returned
<1>5. CASE call'[f] = call[f]
  BY <1>1, <1>4, <1>5 DEF Awaits
<1>6. CASE Fails(f)
  BY <1>4, <1>6 DEF Awaits, Fails, Returned
<1>7. QED
  BY <1>4, <1>5, <1>6

LEMMA FlushStep == ASSUME TypeOK, CallInv, FlushInv, [Next]_vars PROVE FlushInv'
<1>1. SUFFICES ASSUME NEW m \in Markets, NEW f \in Calls PROVE FlushBehind(m, f)'
  BY DEF FlushInv
<1>2. Len(queue[m]) \in Nat
  BY DEF TypeOK, InputTypes
<1>3. ASSUME NEW i \in 0..Len(queue[m]), IsFlush(Place(m, i), f)
      PROVE  /\ Awaits(f, m)
             /\ \A j \in 0..Len(queue[m]) : i < j => Carried(Place(m, j)) \cap before[f] = {}
             /\ \A j \in 0..Len(queue[m]) : call[f].state = "wait" /\ IsFlush(Place(m, j), f) => i = j
             /\ \/ Respond(m) /\ i = 0
                \/ /\ Awaits(f, m)' /\ before'[f] = before[f]
                   /\ call'[f].state = "wait" => call[f].state = "wait"
  BY <1>3, StillAwaits DEF FlushInv, FlushBehind
<1>4. CASE Stays(m)
  <2>1. ASSUME NEW i \in 0..Len(queue[m]) PROVE IsFlush(Place(m, i)', f) => IsFlush(Place(m, i), f) /\ (Respond(m) => i # 0)
    <3>1. Respond(m) => command'[m] = Tick
      BY DEF Respond, TypeOK, WorkerTypes
    <3>2. QED
      BY <1>4, <3>1, CommandTypes DEF Stays, Place, IsFlush
  <2>2. ASSUME NEW i \in 0..Len(queue[m]), i # 0 PROVE Place(m, i)' = Place(m, i)
    BY <1>4, <2>2 DEF Stays, Place
  <2>3. ASSUME NEW i \in 0..Len(queue[m]), NEW j \in 0..Len(queue[m]), i < j PROVE j # 0
    BY <1>2, <2>3
  <2>4. Len(queue'[m]) = Len(queue[m])
    BY <1>4 DEF Stays
  <2>5. ASSUME NEW i \in 0..Len(queue[m]), IsFlush(Place(m, i)', f)
        PROVE  /\ Awaits(f, m)'
               /\ \A j \in 0..Len(queue[m]) : i < j => Carried(Place(m, j)') \cap before'[f] = {}
               /\ \A j \in 0..Len(queue[m]) : call'[f].state = "wait" /\ IsFlush(Place(m, j)', f) => i = j
    <3>1. IsFlush(Place(m, i), f) /\ Awaits(f, m)' /\ before'[f] = before[f]
          /\ (call'[f].state = "wait" => call[f].state = "wait")
      BY <1>3, <2>1, <2>5
    <3>2. \A j \in 0..Len(queue[m]) : i < j => Carried(Place(m, j)') \cap before'[f] = {}
      BY <1>3, <2>2, <2>3, <3>1
    <3>3. \A j \in 0..Len(queue[m]) : call'[f].state = "wait" /\ IsFlush(Place(m, j)', f) => i = j
      BY <1>3, <2>1, <3>1
    <3>4. QED
      BY <3>1, <3>2, <3>3
  <2>6. QED
    BY <2>4, <2>5 DEF FlushBehind
<1>5. CASE Recv(m)
  <2>1. ~Respond(m)
    BY <1>5 DEF Recv, Respond
  <2>2. Len(queue'[m]) = Len(queue[m]) - 1
    BY <1>5, RecvMoves
  <2>3. ASSUME NEW i \in 0..Len(queue'[m]) PROVE i + 1 \in 0..Len(queue[m]) /\ Place(m, i)' = Place(m, i + 1) /\ i \in Nat
    <3>1. i + 1 \in 0..Len(queue[m]) /\ i \in Nat /\ i + 1 # 0 /\ (i # 0 => i \in 1..Len(queue'[m]))
      BY <1>2, <2>2
    <3>2. Place(m, i)' = Place(m, i + 1)
      <4>1. CASE i = 0
        <5>1. command'[m] = queue[m][1]
          BY <1>5, RecvMoves
        <5>2. QED
          BY <4>1, <5>1 DEF Place
      <4>2. CASE i # 0
        <5>1. queue'[m][i] = queue[m][i + 1]
          BY <1>5, <3>1, <4>2, RecvMoves
        <5>2. QED
          BY <3>1, <4>2, <5>1 DEF Place
      <4>3. QED
        BY <4>1, <4>2
    <3>3. QED
      BY <3>1, <3>2
  <2>4. ASSUME NEW i \in 0..Len(queue'[m]), IsFlush(Place(m, i)', f)
        PROVE  /\ Awaits(f, m)'
               /\ \A j \in 0..Len(queue'[m]) : i < j => Carried(Place(m, j)') \cap before'[f] = {}
               /\ \A j \in 0..Len(queue'[m]) : call'[f].state = "wait" /\ IsFlush(Place(m, j)', f) => i = j
    <3>1. IsFlush(Place(m, i + 1), f) /\ Awaits(f, m)' /\ before'[f] = before[f]
          /\ (call'[f].state = "wait" => call[f].state = "wait")
      BY <1>3, <2>1, <2>3, <2>4
    <3>2. ASSUME NEW j \in 0..Len(queue'[m]) PROVE i < j => Carried(Place(m, j)') \cap before'[f] = {}
      <4>1. i < j => i + 1 < j + 1
        BY <2>3
      <4>2. QED
        BY <1>3, <2>3, <3>1, <4>1
    <3>3. ASSUME NEW j \in 0..Len(queue'[m]), call'[f].state = "wait", IsFlush(Place(m, j)', f) PROVE i = j
      <4>1. i + 1 = j + 1
        BY <1>3, <2>3, <3>1, <3>3
      <4>2. QED
        BY <2>3, <4>1
    <3>4. QED
      BY <3>1, <3>2, <3>3
  <2>5. QED
    BY <2>4 DEF FlushBehind
<1>6. CASE Drops(m)
  <2>1. Len(queue'[m]) = 0 /\ \A i \in 0..0 : i = 0
    BY <1>6 DEF Drops
  <2>2. ~IsFlush(Place(m, 0)', f)
    BY <1>6, CommandTypes DEF Drops, Place, IsFlush
  <2>3. QED
    BY <2>1, <2>2 DEF FlushBehind
<1>7. ASSUME NEW c \in Command, Adds(m, c) PROVE FlushBehind(m, f)'
  <2>0. PICK n \in Nat : n = Len(queue[m]) + 1
    BY <1>2
  <2>1. /\ Len(queue'[m]) = n /\ queue'[m][n] = c /\ \A i \in 1..Len(queue[m]) : queue'[m][i] = queue[m][i]
        /\ command'[m] = command[m]
    <3>1. /\ Len(queue'[m]) = Len(queue[m]) + 1 /\ \A i \in 1..Len(queue[m]) : queue'[m][i] = queue[m][i]
          /\ queue'[m][Len(queue[m]) + 1] = c /\ command'[m] = command[m]
      BY <1>7, QueueAppended DEF Adds
    <3>2. QED
      BY <2>0, <3>1
  <2>2. /\ \A i \in 0..Len(queue'[m]) : i = n \/ i \in 0..Len(queue[m])
        /\ \A i \in 0..Len(queue[m]) : i = 0 \/ i \in 1..Len(queue[m])
        /\ n # 0 /\ n \notin 0..Len(queue[m]) /\ \A i \in 0..Len(queue'[m]) : ~(n < i)
    BY <1>2, <2>0, <2>1
  <2>3. ASSUME NEW i \in 0..Len(queue[m]) PROVE Place(m, i)' = Place(m, i)
    BY <2>1, <2>2 DEF Place
  <2>4. Place(m, n)' = c
    BY <2>1, <2>2 DEF Place
  <2>5. Respond(m) => command'[m] = Tick
    BY DEF Respond, TypeOK, WorkerTypes
  <2>6. ASSUME NEW i \in 0..Len(queue[m]), IsFlush(Place(m, i), f)
        PROVE  /\ Awaits(f, m)' /\ before'[f] = before[f] /\ ~IsFlush(c, f)
               /\ call'[f].state = "wait" => call[f].state = "wait"
    <3>1. ~Respond(m) \/ i # 0
      BY <2>1, <2>5, <2>6, CommandTypes DEF Place, IsFlush
    <3>2. ~IsFlush(c, f)
      BY <1>3, <1>7, <2>6 DEF Adds, FlushSend, Awaits, Returned
    <3>3. QED
      BY <1>3, <2>6, <3>1, <3>2
  <2>7. before[f] \subseteq Accepted /\ Carried(c) \cap Accepted = {}
    BY <1>7 DEF CallInv, CallBegun, Adds
  <2>8. ASSUME NEW i \in 0..Len(queue[m]), IsFlush(Place(m, i)', f)
        PROVE  /\ Awaits(f, m)'
               /\ \A j \in 0..Len(queue'[m]) : i < j => Carried(Place(m, j)') \cap before'[f] = {}
               /\ \A j \in 0..Len(queue'[m]) : call'[f].state = "wait" /\ IsFlush(Place(m, j)', f) => i = j
    <3>1. IsFlush(Place(m, i), f) /\ Awaits(f, m)' /\ before'[f] = before[f] /\ ~IsFlush(c, f)
          /\ (call'[f].state = "wait" => call[f].state = "wait")
      BY <2>3, <2>6, <2>8
    <3>2. ASSUME NEW j \in 0..Len(queue'[m]), i < j PROVE Carried(Place(m, j)') \cap before'[f] = {}
      <4>1. CASE j = n
        BY <2>4, <2>7, <3>1, <4>1
      <4>2. CASE j \in 0..Len(queue[m])
        BY <1>3, <2>3, <3>1, <3>2, <4>2
      <4>3. QED
        BY <2>2, <4>1, <4>2
    <3>3. ASSUME NEW j \in 0..Len(queue'[m]), call'[f].state = "wait", IsFlush(Place(m, j)', f) PROVE i = j
      <4>1. j # n
        BY <2>4, <3>1, <3>3
      <4>2. QED
        BY <1>3, <2>2, <2>3, <3>1, <3>3, <4>1
    <3>4. QED
      BY <3>1, <3>2, <3>3
  <2>9. ASSUME IsFlush(c, f)
        PROVE  /\ Awaits(f, m)'
               /\ \A j \in 0..Len(queue'[m]) : ~(n < j)
               /\ \A j \in 0..Len(queue'[m]) : IsFlush(Place(m, j)', f) => n = j
    <3>1. FlushSend(f) /\ Order[call[f].at] = m /\ call[f].state = "send"
      BY <1>7, <2>9 DEF Adds, FlushSend
    <3>2. call[f].reply = "none"
      BY <3>1 DEF CallInv, CallBegun
    <3>3. call'[f].state = "wait" /\ call'[f].at = call[f].at /\ call'[f].reply = call[f].reply
      <4>1. call[f] \in [state : CallState, at : 1..Len(Order), reply : Answer] /\ "wait" \in CallState
        BY DEF TypeOK, CallTypes, CallState
      <4>2. call'[f] = [call[f] EXCEPT !.state = "wait"]
        BY <3>1 DEF FlushSend, TypeOK, CallTypes
      <4>3. QED
        BY <4>1, <4>2
    <3>4. Awaits(f, m)'
      BY <3>1, <3>2, <3>3 DEF Awaits
    <3>5. \A j \in 0..Len(queue'[m]) : IsFlush(Place(m, j)', f) => n = j
      BY <2>2, <2>3, <2>6, <2>9
    <3>6. QED
      BY <2>2, <3>4, <3>5
  <2>10. QED
    BY <2>2, <2>4, <2>8, <2>9 DEF FlushBehind
<1>8. QED
  BY <1>4, <1>5, <1>6, <1>7, PlaceMoves

-----------------------------------------------------------------------------
(* FlushWaits.                                                             *)

\* When a worker holds the answer of its barrier, every record its caller waits for at this
\* market is past the queue, the hand, the tables, the encoder's queue and the encoder.
LEMMA AnswerMeansSettled ==
    ASSUME TypeOK, PureInv, Conserved, Emptied, BarrierInv, CallInv, FlushInv,
           NEW m \in Markets, NEW f \in Calls, pc[m] = "await", answer[m] # "none", command[m].response = f,
           NEW r \in Records, r \in before[f], MarketOf[r] = m
    PROVE  Settled(r)
<1>1. Kept(r)
  BY DEF CallInv, CallBegun, Conserved
<1>2. command[m].type = "flush" /\ Len(queue[m]) \in Nat
  BY DEF TypeOK, WorkerTypes, InputTypes
<1>3. r \notin Carried(command[m])
  BY <1>2 DEF Carried
<1>4. ~InQueue(m, r)
  <2>1. 0 \in 0..Len(queue[m]) /\ IsFlush(Place(m, 0), f)
    BY <1>2 DEF IsFlush, Place
  <2>2. \A j \in 0..Len(queue[m]) : 0 < j => Carried(Place(m, j)) \cap before[f] = {}
    BY <2>1 DEF FlushInv, FlushBehind
  <2>3. \A j \in 1..Len(queue[m]) : j \in 0..Len(queue[m]) /\ 0 < j /\ Place(m, j) = queue[m][j]
    BY <1>2 DEF Place
  <2>4. QED
    BY <2>2, <2>3 DEF InQueue
<1>5. ~InTables(m, r)
  BY RangeOfEmpty DEF Emptied, WorkDone, InTables
<1>6. NoJobAfter(m, 0) /\ \A i \in 1..Len(encoding) : encoding[i].market # m
  BY DEF BarrierInv, AnsweredLast
<1>7. ~InJobs(r)
  <2>1. \A i \in 1..Len(jobs) : 0 < i
    BY DEF TypeOK, EncoderTypes
  <2>2. ASSUME NEW i \in 1..Len(jobs), r \in Written(jobs[i]) PROVE FALSE
    <3>1. jobs[i].type = "write" /\ r \in Range(jobs[i].job.records)
      BY <2>2 DEF Written
    <3>2. Pure(jobs[i].job)
      BY <3>1 DEF PureInv, JobsPure
    <3>3. jobs[i].job.market = m
      BY <3>1, <3>2 DEF Pure
    <3>4. QED
      BY <1>6, <2>1, <3>1, <3>3 DEF NoJobAfter
  <2>3. QED
    BY <2>2 DEF InJobs
<1>8. ~InEncoding(r)
  <2>1. ASSUME NEW i \in 1..Len(encoding), r \in Range(encoding[i].records) PROVE FALSE
    <3>1. Pure(encoding[i])
      BY DEF PureInv, JobsPure
    <3>2. QED
      BY <1>6, <2>1, <3>1 DEF Pure
  <2>2. QED
    BY <2>1 DEF InEncoding
<1>9. QED
  BY <1>1, <1>3, <1>4, <1>5, <1>7, <1>8 DEF Kept

\* A call passes a market when it takes the answer Ok of that market's worker.
LEMMA PassedStep ==
    ASSUME TypeOK, CallInv, FlushInv, [Next]_vars, NEW f \in Calls, NEW x \in Markets, x \in Passed(f)'
    PROVE  \/ x \in Passed(f) /\ before'[f] = before[f]
           \/ /\ before'[f] = before[f]
              /\ pc[x] = "await" /\ answer[x] = "ok" /\ command[x].response = f /\ call[f].state = "wait"
<1>0. /\ call[f].at \in 1..Len(Order) /\ Len(Order) \in Nat /\ call[f].at \in Nat
  BY MarketAssumption DEF TypeOK, CallTypes
<1>1. PICK j \in 1..Len(Order) : /\ x = Order[j]
                                 /\ \/ j < call'[f].at
                                    \/ j = call'[f].at /\ (call'[f].state = "ok" \/ call'[f].reply = "ok")
  BY DEF Passed
<1>2. ASSUME j < call[f].at \/ (j = call[f].at /\ (call[f].state = "ok" \/ call[f].reply = "ok"))
      PROVE  x \in Passed(f)
  BY <1>1, <1>2 DEF Passed
<1>3. ASSUME Begins(f) PROVE FALSE
  <2>1. call[f].at = 1 /\ call[f].reply = "none"
    BY <1>3 DEF CallInv, CallBegun, Begins
  <2>2. (j = 1 /\ call'[f].state = "send" /\ call'[f].reply = "none") \/ j < 1
    BY <1>1, <1>3, <2>1 DEF Begins, Same
  <2>3. QED
    BY <1>1, <1>3, <2>1, <2>2 DEF Begins, Same
<1>4. before'[f] = before[f]
  BY <1>3, CallMoves
<1>5. CASE call'[f] = call[f] \/ Sends(f) \/ Fails(f)
  BY <1>1, <1>2, <1>4, <1>5 DEF Sends, Fails, Same
<1>6. CASE Goes(f)
  <2>1. call[f].reply = "ok" /\ j <= call[f].at
    BY <1>0, <1>1, <1>6 DEF Goes, Same
  <2>2. QED
    BY <1>0, <1>2, <1>4, <2>1
<1>7. ASSUME NEW m \in Markets, Respond(m), command[m].response = f, Answered(f, m)
      PROVE  \/ x \in Passed(f)
             \/ pc[x] = "await" /\ answer[x] = "ok" /\ command[x].response = f /\ call[f].state = "wait"
  <2>1. pc[m] = "await" /\ answer[m] # "none" /\ call[f].state = "wait"
    BY <1>7 DEF Respond, Answered
  <2>2. command[m].type = "flush" /\ Len(queue[m]) \in Nat
    BY <2>1 DEF TypeOK, WorkerTypes, InputTypes
  <2>3. 0 \in 0..Len(queue[m]) /\ IsFlush(Place(m, 0), f)
    BY <1>7, <2>2 DEF IsFlush, Place
  <2>4. Order[call[f].at] = m
    BY <2>1, <2>3 DEF FlushInv, FlushBehind, Awaits, Returned
  <2>5. j < call[f].at \/ j = call[f].at
    BY <1>1, <1>7 DEF Answered
  <2>6. j < call[f].at \/ answer[m] = "ok"
    BY <1>1, <1>7, <2>5 DEF Answered
  <2>7. QED
    BY <1>1, <1>2, <1>7, <2>1, <2>4, <2>5, <2>6
<1>8. QED
  BY <1>3, <1>4, <1>5, <1>6, <1>7, CallMoves

WaitInv == Conserved /\ Emptied /\ BarrierInv /\ CallInv /\ FlushInv

LEMMA WaitStep == ASSUME TypeOK, NoOverwrite, WaitInv, [Next]_vars PROVE WaitInv'
  BY ConservedStep, EmptiedStep, BarrierStep, CallStep, FlushStep DEF WaitInv

LEMMA WaitsStep ==
    ASSUME TypeOK, NoOverwrite, PureInv, WaitInv, FlushWaits, [Next]_vars PROVE FlushWaits'
<1>1. SUFFICES ASSUME NEW f \in Calls, NEW r \in before'[f], MarketOf[r] \in Passed(f)'
               PROVE  r \in RecordsOf(disk') \cup lost'
  BY DEF FlushWaits
<1>2. r \in Records /\ MarketOf[r] \in Markets
  <2>1. TypeOK'
    BY TypeStep
  <2>2. QED
    BY <1>1, <2>1, RecordAssumption DEF TypeOK, CallTypes
<1>3. r \in before[f] /\ (MarketOf[r] \in Passed(f)
                          \/ Settled(r))
  BY <1>1, <1>2, PassedStep, AnswerMeansSettled DEF WaitInv
<1>4. Settled(r)
  BY <1>2, <1>3, OnDiskRecords DEF FlushWaits, Settled
<1>5. r \in Accepted
  BY <1>3 DEF WaitInv, CallInv, CallBegun
<1>6. Settled(r)'
  BY <1>2, <1>4, <1>5, SettledStep
<1>7. QED
  BY <1>6 DEF Settled, OnDisk, RecordsOf

LEMMA WaitInit == Init => WaitInv /\ FlushWaits
<1>1. SUFFICES ASSUME Init PROVE WaitInv /\ FlushWaits
  OBVIOUS
<1>2. Conserved
  BY <1>1, RangeOfEmpty DEF Init, Conserved, Accepted
<1>3. Emptied
  BY <1>1, CarriedTypes DEF Init, Emptied, WorkDone
<1>4. BarrierInv
  BY <1>1 DEF Init, BarrierInv, BarrierBehind, AnsweredLast
<1>5. CallInv /\ FlushWaits
  BY <1>1 DEF Init, CallInv, CallBegun, FlushWaits
<1>6. FlushInv
  <2>1. SUFFICES ASSUME NEW m \in Markets, NEW f \in Calls PROVE FlushBehind(m, f)
    BY DEF FlushInv
  <2>2. Len(queue[m]) = 0 /\ command[m] = Tick /\ \A i \in 0..0 : i = 0
    BY <1>1 DEF Init
  <2>3. ~IsFlush(Place(m, 0), f)
    BY <2>2, CommandTypes DEF IsFlush, Place
  <2>4. QED
    BY <2>2, <2>3 DEF FlushBehind
<1>7. QED
  BY <1>2, <1>3, <1>4, <1>5, <1>6 DEF WaitInv

\* A call of Writer::flush that got past a market has waited for it: every record of that market
\* accepted before the call is on disk or had its encoding fail, whatever other calls, hour
\* boundaries, full queues, failures, stops and restarts come in between.
THEOREM FlushHasWaited == Spec => []FlushWaits
  BY WaitInit, WaitStep, WaitsStep, TypeCorrect, PathsNeverReused, PureAlways, PTL DEF Spec

-----------------------------------------------------------------------------
(* What Ok means to the only call of Writer::flush.                        *)

Single == \A f, g \in Calls : f = g

\* A record is told of when the archiver knows a segment that holds it.
Told(r) == \E s \in announced : r \in Range(s.records)
\* The worker has the call's command in hand and waits for its barrier.
Answering(m, f) == IsFlush(command[m], f) /\ pc[m] = "await"
\* An error that the call has been told of, or that its next barrier will find.
ErrorComes(f) ==
    \/ pending_error \/ ~alive \/ call[f].reply = "err"
    \/ \E m \in Markets : Answering(m, f) /\ answer[m] = "err"
Running == {"send", "wait"}
\* A record that the call, begun or still to begin, may not report as safe.
Missed(f, r) ==
    \/ call[f].state = "idle" /\ OnDisk(r)
    \/ call[f].state \in Running /\ r \in before[f] /\ Settled(r)
\* A call's untold records come with an error, and its Ok answers and passed markets with none.
Owed == \A f \in Calls : \A r \in Records : Missed(f, r) /\ ~Told(r) => ErrorComes(f)
OkTold ==
    \A m \in Markets, f \in Calls : \A r \in Records :
        Answering(m, f) /\ answer[m] = "ok" /\ call[f].state = "wait"
        /\ r \in before[f] /\ MarketOf[r] = m /\ Settled(r) => Told(r)
PassedTold == \A f \in Calls : \A r \in before[f] : MarketOf[r] \in Passed(f) => Told(r)
\* Without senders no call runs, and a worker drains only then.
EndInv ==
    /\ closed => \A f \in Calls : call[f].state \notin Running
    /\ \A m \in Markets : pc[m] = "drain" => closed
\* A call that has returned Ok has passed every market.
LastInv == \A f \in Calls : call[f].state = "ok" => call[f].at = Len(Order)
ToldInv == Owed /\ OkTold /\ PassedTold /\ EndInv

LEMMA ToldStep == ASSUME [Next]_vars, NEW r, Told(r) PROVE Told(r)'
<1>1. announced \subseteq announced'
  <2>1. ASSUME NEW m \in Markets, Producer(m) \/ SendTick(m) \/ Worker(m) PROVE announced' = announced
    BY <2>1 DEF Recv, Dispatch, Push, Pushed, flush_largest, flush_table, Finish, Drain, SendTick, SendBarrier,
                Respond, Stop, records, encoder, Producer, Worker
  <2>2. ASSUME NEW f \in Calls, Caller(f) PROVE announced' = announced
    BY <2>2 DEF Caller, flush, FlushSend, FlushResult, FlushStopped, FlushCancelled, encoder
  <2>3. ASSUME EncodeRecv \/ EncodeBarrier \/ EncodeFailed \/ EncoderPanics \/ Elapse \/ HourRolls \/ Close
               \/ Done \/ UNCHANGED vars
        PROVE  announced' = announced
    BY <2>3 DEF EncodeRecv, EncodeBarrier, EncodeFailed, EncoderPanics, Elapse, HourRolls, Close, Done, vars, encoder
  <2>4. Encoded \/ Crash => announced \subseteq announced'
    BY DEF Encoded, Crash
  <2>5. QED
    BY <2>1, <2>2, <2>3, <2>4 DEF Next, Encoder
<1>2. QED
  BY <1>1 DEF Told

LEMMA EndStep == ASSUME TypeOK, EndInv, [Next]_vars PROVE EndInv'
<1>0. pc \in [Markets -> WorkerPc]
  BY DEF TypeOK, WorkerTypes
<1>1. ASSUME closed', NEW f \in Calls PROVE call'[f].state \notin Running
  <2>1. CASE Close
    <3>1. call \in [Calls -> [state : CallState, at : 1..Len(Order), reply : Answer]]
      BY DEF TypeOK, CallTypes
    <3>2. call'[f] = IF call[f].state \in {"send", "wait"} THEN [call[f] EXCEPT !.state = "cancelled"] ELSE call[f]
      BY <2>1 DEF Close
    <3>3. QED
      BY <3>1, <3>2 DEF Running, CallState
  <2>2. CASE ~Close
    <3>1. closed /\ ~flush(f)
      BY <1>1, <2>2
      DEF Next, Producer, Worker, Encoder, Caller, Done, vars, inputs, records, SendTick, Elapse, HourRolls, flush,
          FlushSend, FlushResult, FlushStopped, FlushCancelled, Recv, Dispatch, Push, Pushed, flush_largest, flush_table,
          Finish, SendBarrier, Respond, Drain, Stop, EncodeRecv, EncodeBarrier, Encoded, EncodeFailed, EncoderPanics, Crash
    <3>2. call[f].state \notin Running
      BY <3>1 DEF EndInv
    <3>3. QED
      BY <3>1, <3>2, CallMoves DEF Running, Begins, Sends, Fails, Goes, Answered
  <2>3. QED
    BY <2>1, <2>2
<1>2. ASSUME NEW k \in Markets, pc'[k] = "drain" PROVE closed'
  <2>1. ASSUME pc[k] = "drain", ~Crash PROVE closed'
    <3>1. closed
      BY <2>1 DEF EndInv
    <3>2. QED
      BY <2>1, <3>1
      DEF Next, Producer, Worker, Encoder, Caller, Done, vars, inputs, records, SendTick, Elapse, HourRolls, flush, Close,
          FlushSend, FlushResult, FlushStopped, FlushCancelled, Recv, Dispatch, Push, Pushed, flush_largest, flush_table,
          Finish, SendBarrier, Respond, Drain, Stop, EncodeRecv, EncodeBarrier, Encoded, EncodeFailed, EncoderPanics
  <2>2. CASE Crash
    BY <1>2, <2>2, CrashMoves
  <2>3. ASSUME NEW m \in Markets, Recv(m) \/ Dispatch(m) \/ Pushed(m) \/ flush_largest(m) \/ Finish(m) \/ SendBarrier(m)
                                 \/ Respond(m) \/ Stop(m)
        PROVE  pc[k] = "drain" /\ ~Crash
    BY <1>0, <1>2, <2>3, CrashMoves DEF Recv, Dispatch, Pushed, flush_largest, Finish, SendBarrier, Respond, Stop
  <2>4. ASSUME NEW m \in Markets, Drain(m) PROVE closed'
    BY <2>4 DEF Drain, inputs
  <2>5. ASSUME UNCHANGED pc PROVE pc[k] = "drain"
    BY <1>2, <2>5
  <2>6. QED
    BY <2>1, <2>2, <2>3, <2>4, <2>5
    DEF Next, Producer, Worker, Encoder, Caller, Done, vars, worker, records, SendTick, Elapse, HourRolls, Close, flush,
        FlushSend, FlushResult, FlushStopped, FlushCancelled, Push, flush_table, EncodeRecv, EncodeBarrier, Encoded,
        EncodeFailed, EncoderPanics
<1>3. QED
  BY <1>1, <1>2 DEF EndInv

\* A record is missed by a step only when its segment failed or the encoder died.
LEMMA MissedStep ==
    ASSUME TypeOK, EndInv, [Next]_vars, NEW f \in Calls, NEW r \in Records, Missed(f, r)', ~Told(r)'
    PROVE  ~Crash /\ (Missed(f, r) \/ pending_error' \/ ~alive')
<1>0. call \in [Calls -> [state : CallState, at : 1..Len(Order), reply : Answer]]
  BY DEF TypeOK, CallTypes
<1>1. ~Crash
  <2>1. SUFFICES ASSUME Crash PROVE FALSE
    OBVIOUS
  <2>2. announced' = announced \cup disk'
    BY <2>1 DEF Crash
  <2>3. ~OnDisk(r)'
    BY <2>2 DEF Told, OnDisk
  <2>4. call'[f] = IF call[f].state \in {"send", "wait"} THEN [call[f] EXCEPT !.state = "cancelled"] ELSE call[f]
    BY <2>1 DEF Crash
  <2>5. call'[f].state \notin Running
    BY <1>0, <2>4 DEF Running, CallState
  <2>6. QED
    BY <2>3, <2>5 DEF Missed
<1>2. CASE UNCHANGED <<disk, lost>>
  <2>1. OnDisk(r)' = OnDisk(r) /\ Settled(r)' = Settled(r)
    BY <1>2 DEF OnDisk, Settled
  <2>2. CASE flush(f) /\ Begins(f)
    <3>1. before'[f] = Accepted \ lost /\ call[f].state = "idle" /\ call'[f].state = "send"
      BY <2>2 DEF flush, Begins, TypeOK, CallTypes
    <3>2. QED
      BY <1>1, <2>1, <3>1 DEF Missed, Settled
  <2>3. CASE before'[f] = before[f] /\ (call'[f] = call[f] \/ Sends(f) \/ \E m \in Markets : Answered(f, m))
    BY <1>1, <2>1, <2>3 DEF Missed, Sends, Answered, Running
  <2>4. CASE before'[f] = before[f] /\ (Fails(f) \/ Goes(f))
    BY <1>1, <2>1, <2>4 DEF Missed, Fails, Goes, Running
  <2>5. QED
    BY <2>2, <2>3, <2>4, CallMoves
<1>3. CASE Encoded
  <2>1. UNCHANGED <<call, before, lost>> /\ disk' = Publish(encoding[1]) /\ announced' = announced \cup {encoding[1]}
    BY <1>3 DEF Encoded
  <2>2. OnDisk(r)' => OnDisk(r)
    BY <2>1 DEF OnDisk, Told, Publish
  <2>3. QED
    BY <1>1, <2>1, <2>2 DEF Missed, Settled
<1>4. CASE EncodeFailed \/ EncoderPanics
  BY <1>1, <1>4 DEF EncodeFailed, EncoderPanics
<1>5. ASSUME NEW m \in Markets, Stop(m) PROVE Missed(f, r) \/ ~alive'
  <2>1. UNCHANGED <<call, before, disk, alive, closed>>
    BY <1>5 DEF Stop, encoder
  <2>2. ASSUME alive PROVE Missed(f, r)
    <3>1. pc[m] = "drain"
      BY <1>5, <2>2 DEF Stop, EncoderGone
    <3>2. call[f].state \notin Running
      BY <3>1 DEF EndInv
    <3>3. QED
      BY <2>1, <3>2 DEF Missed, OnDisk
  <2>3. QED
    BY <2>1, <2>2
<1>6. QED
  BY <1>1, <1>2, <1>3, <1>4, <1>5, DiskMoves

\* Where the answer of a barrier comes from and where it goes.
LEMMA AnswerMoves ==
    ASSUME TypeOK, BarrierInv, [Next]_vars, ~Crash, NEW m \in Markets
    PROVE  \/ answer'[m] = answer[m] /\ (answer[m] # "none" => command'[m] = command[m] /\ pc'[m] = pc[m])
           \/ Respond(m) /\ answer'[m] = "none"
           \/ /\ EncodeBarrier /\ jobs[1] = Barrier(m) /\ pc[m] = "await" /\ answer[m] = "none"
              /\ answer'[m] = (IF pending_error THEN "err" ELSE "ok")
<1>0. answer[m] # "none" => pc[m] = "await"
  BY DEF BarrierInv, AnsweredLast
<1>1. CASE EncodeBarrier
  <2>0. PICK k \in Markets : k = jobs[1].market
    BY <1>1, EncodeBarrierMoves
  <2>1. 1 \in 1..Len(jobs) /\ jobs[1] = Barrier(k) /\ UNCHANGED <<pc, command>> /\ \A n \in Markets \ {k} : answer'[n] = answer[n]
    BY <1>1, <2>0, EncodeBarrierMoves
  <2>2. pc[k] = "await" /\ answer[k] = "none"
    BY <2>1 DEF BarrierInv, BarrierBehind
  <2>3. answer'[k] = (IF pending_error THEN "err" ELSE "ok")
    <3>1. answer' = [answer EXCEPT ![Head(jobs).market] = BarrierResult] /\ Head(jobs) = jobs[1]
      BY <1>1 DEF EncodeBarrier, TypeOK, EncoderTypes
    <3>2. answer'[k] = BarrierResult
      BY <2>0, <3>1 DEF TypeOK, WorkerTypes
    <3>3. QED
      BY <3>2 DEF BarrierResult
  <2>4. QED
    BY <1>1, <2>1, <2>2, <2>3
<1>2. ASSUME NEW k \in Markets, Respond(k) PROVE (Respond(m) /\ answer'[m] = "none") \/ UNCHANGED <<answer[m], command[m], pc[m]>>
  BY <1>2 DEF Respond, TypeOK, WorkerTypes
<1>3. ASSUME NEW k \in Markets, Stop(k) PROVE answer' = answer /\ (answer[m] # "none" => command'[m] = command[m] /\ pc'[m] = pc[m])
  <2>1. answer[k] = "none"
    BY <1>3 DEF Stop, EncoderGone, Flushing, BarrierInv, AnsweredLast
  <2>2. QED
    BY <1>3, <2>1, StopMoves
<1>4. ASSUME NEW k \in Markets, Recv(k) \/ Dispatch(k) \/ Push(k) \/ Pushed(k) \/ flush_largest(k) \/ Finish(k) \/ SendBarrier(k)
                                \/ Drain(k) \/ \E t \in Tables : flush_table(k, t)
      PROVE  /\ answer' = answer
             /\ \A n \in Markets : pc[n] = "await" => command'[n] = command[n] /\ pc'[n] = pc[n]
  <2>1. answer' = answer /\ pc[k] # "await"
    BY <1>4 DEF Recv, Dispatch, Push, Pushed, flush_largest, Finish, SendBarrier, Drain, flush_table, Flushing
  <2>2. \A n \in Markets \ {k} : command'[n] = command[n] /\ pc'[n] = pc[n]
    BY <1>4 DEF Recv, Dispatch, Push, Pushed, flush_largest, Finish, SendBarrier, Drain, flush_table, TypeOK, WorkerTypes
  <2>3. QED
    BY <2>1, <2>2
<1>5. ASSUME \/ \E k \in Markets : Producer(k) \/ SendTick(k)
             \/ \E f \in Calls : Caller(f)
             \/ EncodeRecv \/ Encoded \/ EncodeFailed \/ EncoderPanics \/ Elapse \/ HourRolls \/ Close \/ Done \/ UNCHANGED vars
      PROVE  UNCHANGED <<answer, command, pc>>
  BY <1>5 DEF Producer, SendTick, records, Caller, flush, FlushSend, FlushResult, FlushStopped, FlushCancelled, EncodeRecv, Encoded,
              EncodeFailed, EncoderPanics, Elapse, HourRolls, Close, Done, vars, worker
<1>6. QED
  BY <1>0, <1>1, <1>2, <1>3, <1>4, <1>5 DEF Next, Worker, Encoder

\* A worker that waits for its barrier does so for a call that waits for this worker.
LEMMA AnsweringFacts ==
    ASSUME TypeOK, BarrierInv, FlushInv, NEW m \in Markets, pc[m] = "await"
    PROVE  /\ command[m].response \in Calls /\ Answering(m, command[m].response)
           /\ \A f \in Calls : Answering(m, f) => f = command[m].response /\ Awaits(f, m)
<1>1. command[m].type = "flush" /\ command[m] \in Command /\ Len(queue[m]) \in Nat
  BY DEF TypeOK, WorkerTypes, InputTypes
<1>2. command[m].response \in Calls
  BY <1>1, CommandTypes
<1>3. ASSUME NEW f \in Calls, IsFlush(command[m], f) PROVE Awaits(f, m)
  <2>1. 0 \in 0..Len(queue[m]) /\ Place(m, 0) = command[m]
    BY <1>1 DEF Place
  <2>2. QED
    BY <1>3, <2>1 DEF FlushInv, FlushBehind
<1>4. QED
  BY <1>1, <1>2, <1>3 DEF IsFlush, Answering

LEMMA FlagMoves ==
    ASSUME [Next]_vars
    PROVE  UNCHANGED <<pending_error, alive>> \/ EncodeBarrier \/ EncodeFailed \/ EncoderPanics \/ Crash
<1>1. ASSUME NEW m \in Markets, Producer(m) \/ SendTick(m) \/ Worker(m) PROVE UNCHANGED <<pending_error, alive>>
  BY <1>1 DEF Recv, Dispatch, Push, Pushed, flush_largest, flush_table, Finish, Drain, SendTick, SendBarrier,
              Respond, Stop, records, encoder, Producer, Worker
<1>2. ASSUME NEW f \in Calls, Caller(f) PROVE UNCHANGED <<pending_error, alive>>
  BY <1>2 DEF Caller, flush, FlushSend, FlushResult, FlushStopped, FlushCancelled, encoder
<1>3. ASSUME EncodeRecv \/ Encoded \/ Elapse \/ HourRolls \/ Close \/ Done \/ UNCHANGED vars
      PROVE  UNCHANGED <<pending_error, alive>>
  BY <1>3 DEF EncodeRecv, Encoded, Elapse, HourRolls, Close, Done, vars, encoder
<1>4. QED
  BY <1>1, <1>2, <1>3 DEF Next, Encoder

\* An error on its way to a call that runs stays on its way.
LEMMA ErrorStep ==
    ASSUME Single, TypeOK, BarrierInv, CallInv, FlushInv, [Next]_vars, ~Crash, NEW f \in Calls,
           call[f].state \in {"idle"} \cup Running, ErrorComes(f)
    PROVE  ErrorComes(f)'
<1>1. CASE pending_error
  <2>1. CASE EncodeBarrier
    <3>0. PICK k \in Markets : k = jobs[1].market
      BY <2>1, EncodeBarrierMoves
    <3>1. 1 \in 1..Len(jobs) /\ jobs[1] = Barrier(k) /\ UNCHANGED <<pc, command>>
      BY <2>1, <3>0, EncodeBarrierMoves
    <3>2. pc[k] = "await" /\ answer[k] = "none"
      BY <3>1 DEF BarrierInv, BarrierBehind
    <3>3. answer'[k] = "err"
      <4>1. answer'[k] # "none"
        BY <2>1, <3>0, EncodeBarrierMoves
      <4>2. QED
        BY <1>1, <3>2, <4>1, AnswerMoves
    <3>4. Answering(k, f)
      BY <3>2, AnsweringFacts DEF Single
    <3>5. Answering(k, f)'
      BY <3>1, <3>4 DEF Answering
    <3>6. QED
      BY <3>3, <3>5 DEF ErrorComes
  <2>2. CASE ~EncodeBarrier
    <3>1. pending_error'
      BY <1>1, <2>2, FlagMoves DEF EncodeFailed, EncoderPanics
    <3>2. QED
      BY <3>1 DEF ErrorComes
  <2>3. QED
    BY <2>1, <2>2
<1>2. CASE ~alive
  <2>1. ~alive'
    BY <1>2, FlagMoves DEF EncodeBarrier, EncodeFailed, EncoderPanics
  <2>2. QED
    BY <2>1 DEF ErrorComes
<1>3. CASE call[f].reply = "err"
  <2>1. ASSUME NEW m \in Markets, Respond(m), command[m].response = f, Answered(f, m) PROVE FALSE
    <3>1. pc[m] = "await" /\ call[f].state = "wait"
      BY <2>1 DEF Respond, Answered
    <3>2. Awaits(f, m)
      BY <2>1, <3>1, AnsweringFacts
    <3>3. QED
      BY <1>3, <3>1, <3>2 DEF Awaits, Returned
  <2>2. call'[f].reply = "err"
    BY <1>3, <2>1, CallMoves DEF Begins, Sends, Fails, Goes, Same
  <2>3. QED
    BY <2>2 DEF ErrorComes
<1>4. ASSUME NEW m \in Markets, Answering(m, f), answer[m] = "err" PROVE ErrorComes(f)'
  <2>1. CASE answer'[m] = answer[m] /\ command'[m] = command[m] /\ pc'[m] = pc[m]
    <3>1. Answering(m, f)'
      BY <1>4, <2>1 DEF Answering
    <3>2. QED
      BY <1>4, <2>1, <3>1 DEF ErrorComes
  <2>2. CASE Respond(m)
    <3>1. command[m].response = f /\ Awaits(f, m)
      BY <1>4, AnsweringFacts DEF Answering
    <3>2. call[f].state = "wait"
      BY <3>1 DEF Awaits, Returned, Running
    <3>3. call' = [call EXCEPT ![f].reply = answer[m]]
      BY <2>2, <3>1, <3>2 DEF Respond
    <3>4. call'[f].reply = "err"
      BY <1>4, <3>3 DEF TypeOK, CallTypes
    <3>5. QED
      BY <3>4 DEF ErrorComes
  <2>3. QED
    BY <1>4, <2>1, <2>2, AnswerMoves
<1>5. QED
  BY <1>1, <1>2, <1>3, <1>4 DEF ErrorComes

LEMMA OwedStep ==
    ASSUME Single, TypeOK, BarrierInv, CallInv, FlushInv, EndInv, Owed, [Next]_vars
    PROVE  Owed'
<1>1. SUFFICES ASSUME NEW f \in Calls, NEW r \in Records, Missed(f, r)', ~Told(r)' PROVE ErrorComes(f)'
  BY DEF Owed
<1>2. ~Crash /\ (Missed(f, r) \/ ErrorComes(f)')
  BY <1>1, MissedStep DEF ErrorComes
<1>3. ASSUME Missed(f, r) PROVE ErrorComes(f)'
  <2>1. ErrorComes(f) /\ call[f].state \in {"idle"} \cup Running
    BY <1>1, <1>3, ToldStep DEF Owed, Missed
  <2>2. QED
    BY <1>2, <2>1, ErrorStep
<1>4. QED
  BY <1>2, <1>3

\* The barrier of a call that is answered Ok has seen no error: nothing its caller waits for is missed.
LEMMA OkStep ==
    ASSUME TypeOK, PureInv, WaitInv, Owed, OkTold, [Next]_vars
    PROVE  OkTold'
<1>1. SUFFICES ASSUME NEW m \in Markets, NEW f \in Calls, NEW r \in Records,
                      Answering(m, f)', answer'[m] = "ok", call'[f].state = "wait", r \in before'[f], MarketOf[r] = m,
                      Settled(r)'
               PROVE  Told(r)'
  BY DEF OkTold
<1>2. BarrierInv /\ FlushInv /\ CallInv
  BY DEF WaitInv
<1>3. ~Crash /\ ~Respond(m)
  BY <1>1, CrashMoves DEF Respond, TypeOK, WorkerTypes
<1>4. command'[m] = command[m] /\ pc[m] = "await"
  BY <1>1, <1>2, <1>3, AnswerMoves, EncodeBarrierMoves DEF BarrierInv, AnsweredLast
<1>5. Answering(m, f) /\ Awaits(f, m) /\ command[m].response = f
  <2>1. Answering(m, f)
    BY <1>1, <1>4 DEF Answering
  <2>2. QED
    BY <1>2, <1>4, <2>1, AnsweringFacts
<1>6. call[f].state = "wait" /\ before'[f] = before[f] /\ call[f].reply = "none" /\ Order[call[f].at] = m
  <2>1. call[f].state = "wait" /\ before'[f] = before[f]
    BY <1>1, <1>5, CallMoves DEF Awaits, Returned, Begins, Sends, Fails, Goes, Answered
  <2>2. QED
    BY <1>5, <2>1 DEF Awaits, Returned
<1>7. CASE answer[m] = "ok"
  <2>1. Settled(r)
    BY <1>1, <1>4, <1>5, <1>6, <1>7, AnswerMeansSettled DEF WaitInv
  <2>2. Told(r)
    BY <1>1, <1>5, <1>6, <1>7, <2>1 DEF OkTold
  <2>3. QED
    BY <2>2, ToldStep
<1>8. CASE answer[m] # "ok"
  <2>1. EncodeBarrier /\ ~pending_error /\ answer[m] = "none"
    BY <1>1, <1>2, <1>3, <1>8, AnswerMoves
  <2>2. alive /\ UNCHANGED <<disk, lost>>
    BY <2>1 DEF EncodeBarrier, encoder
  <2>3. Missed(f, r)
    BY <1>1, <1>6, <2>2 DEF Missed, Running, Settled, OnDisk
  <2>4. ASSUME NEW k \in Markets, Answering(k, f) PROVE k = m
    <3>1. Awaits(f, k)
      BY <1>2, <2>4, AnsweringFacts DEF Answering
    <3>2. QED
      BY <1>6, <3>1 DEF Awaits, Returned
  <2>5. ~ErrorComes(f)
    BY <1>6, <2>1, <2>2, <2>4 DEF ErrorComes
  <2>6. QED
    BY <2>3, <2>5, ToldStep DEF Owed
<1>9. QED
  BY <1>7, <1>8

LEMMA PassedToldStep ==
    ASSUME TypeOK, PureInv, WaitInv, OkTold, PassedTold, [Next]_vars
    PROVE  PassedTold'
<1>1. SUFFICES ASSUME NEW f \in Calls, NEW r \in before'[f], MarketOf[r] \in Passed(f)' PROVE Told(r)'
  BY DEF PassedTold
<1>2. r \in Records /\ MarketOf[r] \in Markets
  <2>1. TypeOK'
    BY TypeStep
  <2>2. QED
    BY <1>1, <2>1, RecordAssumption DEF TypeOK, CallTypes
<1>3. BarrierInv /\ FlushInv /\ CallInv
  BY DEF WaitInv
<1>4. CASE MarketOf[r] \in Passed(f) /\ before'[f] = before[f]
  BY <1>1, <1>4, ToldStep DEF PassedTold
<1>5. CASE /\ before'[f] = before[f] /\ call[f].state = "wait"
           /\ pc[MarketOf[r]] = "await" /\ answer[MarketOf[r]] = "ok" /\ command[MarketOf[r]].response = f
  <2>1. Settled(r)
    BY <1>1, <1>2, <1>5, AnswerMeansSettled DEF WaitInv
  <2>2. Answering(MarketOf[r], f)
    BY <1>2, <1>3, <1>5, AnsweringFacts
  <2>3. Told(r)
    BY <1>1, <1>2, <1>5, <2>1, <2>2 DEF OkTold
  <2>4. QED
    BY <2>3, ToldStep
<1>6. QED
  BY <1>1, <1>2, <1>3, <1>4, <1>5, PassedStep

LEMMA ToldInit == Init => ToldInv
<1>1. SUFFICES ASSUME Init PROVE ToldInv
  OBVIOUS
<1>2. Owed /\ OkTold /\ PassedTold
  BY <1>1 DEF Init, Owed, OkTold, PassedTold, Missed, OnDisk, Running
<1>3. EndInv
  BY <1>1 DEF Init, EndInv
<1>4. QED
  BY <1>2, <1>3 DEF ToldInv

LEMMA ToldInvStep ==
    ASSUME Single, TypeOK, PureInv, WaitInv, ToldInv, [Next]_vars PROVE ToldInv'
  BY OwedStep, OkStep, PassedToldStep, EndStep DEF ToldInv, WaitInv


LEMMA LastStep == ASSUME TypeOK, LastInv, [Next]_vars PROVE LastInv'
<1>1. SUFFICES ASSUME NEW f \in Calls, call'[f].state = "ok" PROVE call'[f].at = Len(Order)
  BY DEF LastInv
<1>2. CASE call'[f] = call[f] \/ Begins(f) \/ Sends(f) \/ Fails(f) \/ \E m \in Markets : Answered(f, m)
  BY <1>1, <1>2 DEF LastInv, Begins, Sends, Fails, Answered
<1>3. CASE Goes(f)
  BY <1>1, <1>3 DEF Goes, Same, LastMarket
<1>4. QED
  BY <1>2, <1>3, CallMoves

\* One call of Writer::flush that returns Ok has its records in segments that the archiver knows,
\* whatever fails, dies or restarts on the way: an encoding error or a dead encoder that concerns
\* one of its records reaches it through pending_error and its barriers.  With a second call the
\* error can go to that one.
THEOREM OneCallCovers ==
    ASSUME Single PROVE Spec => []FlushOkMeansEncoded
<1>1. Init => ToldInv /\ LastInv
  BY ToldInit DEF Init, LastInv
<1>2. TypeOK /\ NoOverwrite /\ PureInv /\ WaitInv /\ ToldInv /\ LastInv /\ [Next]_vars => ToldInv' /\ LastInv'
  BY ToldInvStep, LastStep
<1>3. TypeOK /\ CallInv /\ ToldInv /\ LastInv => FlushOkMeansEncoded
  <2>1. SUFFICES ASSUME TypeOK, CallInv, PassedTold, LastInv, NEW f \in Calls, call[f].state = "ok", NEW r \in before[f]
                 PROVE  r \in RecordsOf(announced)
    BY DEF FlushOkMeansEncoded, ToldInv
  <2>2. r \in Records /\ MarketOf[r] \in Markets
    BY <2>1, RecordAssumption DEF TypeOK, CallTypes
  <2>3. PICK i \in 1..Len(Order) : Order[i] = MarketOf[r]
    BY <2>2, MarketAssumption, RangeIndex
  <2>4. call[f].at = Len(Order) /\ Len(Order) \in Nat
    BY <2>1, MarketAssumption DEF LastInv
  <2>5. i < call[f].at \/ i = call[f].at
    BY <2>4
  <2>6. MarketOf[r] \in Passed(f)
    BY <2>1, <2>3, <2>5 DEF Passed
  <2>7. Told(r)
    BY <2>1, <2>6 DEF PassedTold
  <2>8. QED
    BY <2>7 DEF Told, RecordsOf
<1>4. QED
  BY <1>1, <1>2, <1>3, WaitInit, WaitStep, TypeCorrect, PathsNeverReused, PureAlways, PTL DEF Spec, WaitInv

=============================================================================
