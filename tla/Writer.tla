------------------------------- MODULE Writer -------------------------------
(***************************************************************************)
(* The in-process record path of coin-data-rs (src/src/writer.rs): one     *)
(* bounded command queue and one worker thread per market, one bounded     *)
(* queue to a single Parquet encoder thread, a timer task per market and   *)
(* callers of Writer::flush.  Threads are interleaved at the points where  *)
(* they touch a queue, a channel, the clock or the shared byte gauge.      *)
(***************************************************************************)
EXTENDS Integers, Sequences, FiniteSets, Functions

CONSTANTS
    Markets,         \* markets with a worker: spot, usdm, coinm
    Order,           \* the order in which Writer::flush visits the markets
    Tables,          \* table names
    Records,         \* records, each produced at most once
    MarketOf, TableOf, BytesOf,  \* a record's market, table, estimated bytes
    Calls,           \* calls of Writer::flush, each made at most once
    Capacity,        \* WriterSettings.capacity
    EncoderCapacity, \* WriterSettings.encoder_queue_capacity
    BufferBytes,     \* WriterSettings.buffer_bytes
    SegmentBytes,    \* WriterSettings.segment_bytes
    FlushInterval,   \* WriterSettings.flush_interval, in units of Elapse
    MaxBatch,        \* bound: records in one Command::Records
    MaxHour,         \* bound: hour boundaries the clock crosses
    MaxFailures,     \* bound: segments whose encoding fails
    MaxPanics,       \* bound: 1 if the encoder thread may die, else 0
    MaxCrashes       \* bound: ends and restarts of the process

ASSUME MarketAssumption ==
    /\ Order \in Seq(Markets) /\ Range(Order) = Markets /\ Markets # {}
    /\ \A i, j \in 1..Len(Order) : Order[i] = Order[j] => i = j
\* schema.sql is compiled in: a fixed list of tables.
ASSUME TableAssumption == IsFiniteSet(Tables)
ASSUME RecordAssumption ==
    /\ MarketOf \in [Records -> Markets]
    /\ TableOf \in [Records -> Tables]
    /\ BytesOf \in [Records -> Nat \ {0}]
\* config.rs validate and buffer_sizes enforce these; a zero flush interval they accept.
ASSUME SettingsAssumption ==
    /\ Capacity \in Nat \ {0} /\ EncoderCapacity \in Nat \ {0}
    /\ SegmentBytes \in Nat \ {0} /\ BufferBytes \in Nat /\ SegmentBytes <= BufferBytes
    /\ FlushInterval \in Nat
    /\ MaxBatch \in Nat /\ MaxHour \in Nat /\ MaxFailures \in Nat /\ MaxPanics \in Nat
    /\ MaxCrashes \in Nat

VARIABLES
    queue,         \* [Markets -> Seq(Command)]: the mpsc channel of each worker
    closed,        \* TRUE once every sender of the worker channels is dropped
    pc,            \* [Markets -> WorkerPc]: where each worker thread is
    command,       \* [Markets -> Command]: the command a worker is handling (Tick when none)
    current_hour,  \* [Markets -> Nat]: the hour it read when it received it
    todo,          \* [Markets -> SUBSET Tables]: tables a flush loop has still to visit
    hour,          \* WorkerState.hour
    sequence,      \* WorkerState.sequence, counted from its start value
    tables,        \* [Markets -> [Tables -> Seq(Records)]]: BufferedTable.records
    bytes,         \* [Markets -> [Tables -> Nat]]: BufferedTable.bytes
    age,           \* [Markets -> [Tables -> Nat]]: elapsed since BufferedTable.first_seen
    buffered,      \* WorkerState.buffered_bytes
    gauge,         \* the shared AtomicU64 buffered_bytes
    jobs,          \* Seq(EncodeCommand): the sync_channel to the encoder
    encoding,      \* <<>> or <<job>>: the segment the encoder is writing
    alive,         \* TRUE while the encoder thread runs
    pending_error, \* TRUE when the encoder's pending_error is Some
    answer,        \* [Markets -> Answer]: what a worker's barrier channel holds
    disk,          \* segments renamed into place
    announced,     \* segments the archiver was told of or found by its scan at a start
    now,           \* the current UTC hour
    failures, panics, crashes,  \* how many of each have happened
    call           \* [Calls -> [state, at, reply]]: the callers of Writer::flush

VARIABLES          \* history, read by the properties only
    accepted,      \* [Markets -> Seq(Records)]: records whose send succeeded, in order
    received,      \* [Records -> Nat]: the hour in which the worker dequeued a record
    lost,          \* records that can no longer reach the disk
    before         \* [Calls -> SUBSET Records]: accepted and not lost when the call began

inputs == <<queue, closed, accepted>>
worker == <<pc, command, current_hour, todo, hour, sequence, tables, bytes, age, buffered>>
encoder == <<encoding, alive, pending_error, disk, announced, failures, panics>>
vars == <<inputs, worker, gauge, jobs, encoder, answer, now, crashes, call, received, lost,
          before>>

-----------------------------------------------------------------------------

Command == [type : {"records"}, records : Seq(Records)]
             \cup [type : {"tick"}] \cup [type : {"flush"}, response : Calls]
Job == [market : Markets, hour : Nat, sequence : Nat, table : Tables,
        records : Seq(Records), bytes : Nat]
EncodeCommand == [type : {"write"}, job : Job] \cup [type : {"barrier"}, market : Markets]
Answer == {"none", "ok", "err"}

Tick == [type |-> "tick"]
Write(job) == [type |-> "write", job |-> job]
Barrier(m) == [type |-> "barrier", market |-> m]

\* The stages of worker_run's loop body in which flush_table is called, and the others.
Flushing == {"rollover", "full", "limit", "expired", "flush", "drain"}
WorkerPc == Flushing \cup {"recv", "push", "barrier", "await", "stopped"}
CallState == {"idle", "send", "wait", "ok", "err", "cancelled"}

TickInterval == IF FlushInterval < 5 THEN FlushInterval ELSE 5

\* state.tables.keys(): an entry exists while the table holds records.
Held(m) == {t \in Tables : tables[m][t] # <<>>}
\* Mutant: a table of exactly segment_bytes stays.
FullAbove(m) == {t \in Held(m) : bytes[m][t] > SegmentBytes}
Full(m) == {t \in Held(m) : bytes[m][t] >= SegmentBytes}
\* Mutant: a tick looks at the size of a table, not at its age.
ExpiredBySize(m) == {t \in Held(m) : bytes[m][t] >= SegmentBytes}
Expired(m) == {t \in Held(m) : age[m][t] >= FlushInterval}
\* max_by_key over a HashMap: any of the largest tables may come last.
Largest(m) == {t \in Held(m) : \A u \in Held(m) : bytes[m][u] <= bytes[m][t]}

RecordsIn(commands) == UNION {Range(c.records) : c \in {d \in Range(commands) : d.type = "records"}}
RecordsOfJobs(cs) == UNION {Range(c.job.records) : c \in {d \in Range(cs) : d.type = "write"}}
RecordsOf(segments) == UNION {Range(s.records) : s \in segments}
Buffered(m) == UNION {Range(tables[m][t]) : t \in Tables}
InHand(m) == IF command[m].type = "records" THEN Range(command[m].records) ELSE {}
Accepted == UNION {Range(accepted[m]) : m \in Markets}

Init ==
    /\ queue = [m \in Markets |-> <<>>] /\ closed = FALSE
    /\ pc = [m \in Markets |-> "recv"]
    /\ command = [m \in Markets |-> Tick]
    /\ current_hour = [m \in Markets |-> 0]
    /\ todo = [m \in Markets |-> {}]
    /\ hour = [m \in Markets |-> 0]
    /\ sequence = [m \in Markets |-> 0]
    /\ tables = [m \in Markets |-> [t \in Tables |-> <<>>]]
    /\ bytes = [m \in Markets |-> [t \in Tables |-> 0]]
    /\ age = [m \in Markets |-> [t \in Tables |-> 0]]
    /\ buffered = [m \in Markets |-> 0] /\ gauge = 0
    /\ jobs = <<>> /\ encoding = <<>> /\ alive = TRUE /\ pending_error = FALSE
    /\ answer = [m \in Markets |-> "none"]
    /\ disk = {} /\ announced = {}
    /\ now = 0 /\ failures = 0 /\ panics = 0 /\ crashes = 0
    /\ call = [f \in Calls |-> [state |-> "idle", at |-> 1, reply |-> "none"]]
    /\ accepted = [m \in Markets |-> <<>>]
    /\ received = [r \in Records |-> 0]
    /\ lost = {}
    /\ before = [f \in Calls |-> {}]

-----------------------------------------------------------------------------
(* Producers, timer tasks and the clock.                                   *)

CanSend(m) == ~closed /\ pc[m] # "stopped" /\ Len(queue[m]) < Capacity

\* Writer::records: waits for room, then the batch is in the worker's queue.
records(m, batch) ==
    /\ CanSend(m)
    /\ batch # <<>> /\ \A i, j \in DOMAIN batch : batch[i] = batch[j] => i = j
    /\ Range(batch) \cap Accepted = {}
    /\ \A r \in Range(batch) : MarketOf[r] = m
    /\ queue' = [queue EXCEPT ![m] = Append(@, [type |-> "records", records |-> batch])]
    /\ accepted' = [accepted EXCEPT ![m] = @ \o batch]
    /\ UNCHANGED <<closed, worker, gauge, jobs, encoder, answer, now, crashes, call, received,
                   lost, before>>

\* The timer task of start_worker.  tokio::time::interval panics on a zero period.
SendTick(m) ==
    /\ TickInterval > 0 /\ CanSend(m)
    /\ queue' = [queue EXCEPT ![m] = Append(@, Tick)]
    /\ UNCHANGED <<closed, accepted, worker, gauge, jobs, encoder, answer, now, crashes, call,
                   received, lost, before>>

\* One unit of the monotonic clock passes for every BufferedTable.first_seen.
Elapse ==
    /\ \E m \in Markets : \E t \in Held(m) : age[m][t] < FlushInterval
    /\ age' = [m \in Markets |-> [t \in Tables |->
                  IF t \in Held(m) /\ age[m][t] < FlushInterval
                  THEN age[m][t] + 1 ELSE age[m][t]]]
    /\ UNCHANGED <<inputs, pc, command, current_hour, todo, hour, sequence, tables, bytes,
                   buffered, gauge, jobs, encoder, answer, now, crashes, call, received, lost,
                   before>>

HourRolls ==
    /\ now < MaxHour
    /\ now' = now + 1
    /\ UNCHANGED <<inputs, worker, gauge, jobs, encoder, answer, crashes, call, received, lost,
                   before>>

\* The runtime drops the timer tasks and every clone of Writer; pending calls go with it.
Close ==
    /\ ~closed
    /\ closed' = TRUE
    /\ call' = [f \in Calls |-> IF call[f].state \in {"send", "wait"}
                                THEN [call[f] EXCEPT !.state = "cancelled"] ELSE call[f]]
    /\ UNCHANGED <<queue, accepted, worker, gauge, jobs, encoder, answer, now, crashes, received,
                   lost, before>>

-----------------------------------------------------------------------------
(* Writer::flush: the markets one after the other, the first error ends it. *)

flush(f) ==
    /\ ~closed /\ call[f].state = "idle"
    /\ call' = [call EXCEPT ![f].state = "send"]
    /\ before' = [before EXCEPT ![f] = Accepted \ lost]
    /\ UNCHANGED <<inputs, worker, gauge, jobs, encoder, answer, now, crashes, received, lost>>

FlushSend(f) ==
    LET m == Order[call[f].at] IN
    /\ call[f].state = "send" /\ CanSend(m)
    /\ queue' = [queue EXCEPT ![m] = Append(@, [type |-> "flush", response |-> f])]
    /\ call' = [call EXCEPT ![f].state = "wait"]
    /\ UNCHANGED <<closed, accepted, worker, gauge, jobs, encoder, answer, now, crashes, received,
                   lost, before>>

\* Mutant: the loop runs one market past the end of the list.
PastLastMarket(f) == call[f].at > Len(Order)
LastMarket(f) == call[f].at = Len(Order)

\* result.await??: on Ok the next market, after the last one Ok(()).
FlushResult(f) ==
    /\ call[f].state = "wait" /\ call[f].reply # "none"
    /\ call' = [call EXCEPT ![f] =
          IF @.reply = "err" THEN [@ EXCEPT !.state = "err"]
          ELSE IF LastMarket(f) THEN [@ EXCEPT !.state = "ok"]
          ELSE [state |-> "send", at |-> @.at + 1, reply |-> "none"]]
    /\ UNCHANGED <<inputs, worker, gauge, jobs, encoder, answer, now, crashes, received, lost,
                   before>>

\* "Parquet writer stopped" and "Parquet writer dropped flush response".
FlushStopped(f) ==
    /\ call[f].state \in {"send", "wait"} /\ call[f].reply = "none"
    /\ pc[Order[call[f].at]] = "stopped"
    /\ call' = [call EXCEPT ![f].state = "err"]
    /\ UNCHANGED <<inputs, worker, gauge, jobs, encoder, answer, now, crashes, received, lost,
                   before>>

\* The future is dropped: the HTTP client of POST /v1/archive went away.
FlushCancelled(f) ==
    /\ call[f].state \in {"send", "wait"}
    /\ call' = [call EXCEPT ![f].state = "cancelled"]
    /\ UNCHANGED <<inputs, worker, gauge, jobs, encoder, answer, now, crashes, received, lost,
                   before>>

-----------------------------------------------------------------------------
(* worker_run.                                                             *)

\* The tables flushed under the old hour when the clock has passed it.
\* Mutant: the hour moves on and the tables stay.
RolloverNone(m) == {}
RolloverTables(m) == IF now > hour[m] THEN Held(m) ELSE {}

\* blocking_recv, floor_hour(Utc::now()) and the rollover test.
Recv(m) ==
    LET c == Head(queue[m]) IN
    /\ pc[m] = "recv" /\ queue[m] # <<>>
    /\ queue' = [queue EXCEPT ![m] = Tail(@)]
    /\ command' = [command EXCEPT ![m] = c]
    /\ current_hour' = [current_hour EXCEPT ![m] = now]
    /\ todo' = [todo EXCEPT ![m] = RolloverTables(m)]
    /\ pc' = [pc EXCEPT ![m] = "rollover"]
    /\ received' = [r \in Records |-> IF r \in RecordsIn(<<c>>) THEN now ELSE received[r]]
    /\ UNCHANGED <<closed, accepted, hour, sequence, tables, bytes, age, buffered, gauge, jobs,
                   encoder, answer, now, crashes, call, lost, before>>

\* After flush_all of a rollover: the new hour, then the match on the command.
Dispatch(m) ==
    /\ pc[m] = "rollover" /\ todo[m] = {}
    /\ hour' = [hour EXCEPT ![m] = IF current_hour[m] > @ THEN current_hour[m] ELSE @]
    /\ \/ /\ command[m].type = "records"
          /\ pc' = [pc EXCEPT ![m] = "push"] /\ todo' = todo
       \/ /\ command[m].type = "tick"
          /\ pc' = [pc EXCEPT ![m] = "expired"]
          /\ todo' = [todo EXCEPT ![m] = Expired(m)]
       \/ /\ command[m].type = "flush"
          /\ pc' = [pc EXCEPT ![m] = "flush"]
          /\ todo' = [todo EXCEPT ![m] = Held(m)]
    /\ UNCHANGED <<inputs, command, current_hour, sequence, tables, bytes, age, buffered, gauge,
                   jobs, encoder, answer, now, crashes, call, received, lost, before>>

\* Mutant: the record goes in front of its table.
PushFront(m) ==
    LET r == Head(command[m].records)
        t == TableOf[r] IN
    /\ pc[m] = "push" /\ command[m].records # <<>>
    /\ command' = [command EXCEPT ![m].records = Tail(@)]
    /\ tables' = [tables EXCEPT ![m][t] = <<r>> \o @]
    /\ bytes' = [bytes EXCEPT ![m][t] = @ + BytesOf[r]]
    /\ buffered' = [buffered EXCEPT ![m] = @ + BytesOf[r]]
    /\ gauge' = gauge + BytesOf[r]
    /\ UNCHANGED <<inputs, pc, current_hour, todo, hour, sequence, age, jobs, encoder, answer,
                   now, crashes, call, received, lost, before>>

\* for record in records: one record into its table and the three byte counters.
Push(m) ==
    LET r == Head(command[m].records)
        t == TableOf[r] IN
    /\ pc[m] = "push" /\ command[m].records # <<>>
    /\ command' = [command EXCEPT ![m].records = Tail(@)]
    /\ tables' = [tables EXCEPT ![m][t] = Append(@, r)]
    /\ bytes' = [bytes EXCEPT ![m][t] = @ + BytesOf[r]]
    /\ buffered' = [buffered EXCEPT ![m] = @ + BytesOf[r]]
    /\ gauge' = gauge + BytesOf[r]
    /\ UNCHANGED <<inputs, pc, current_hour, todo, hour, sequence, age, jobs, encoder, answer,
                   now, crashes, call, received, lost, before>>

\* full_tables
Pushed(m) ==
    /\ pc[m] = "push" /\ command[m].records = <<>>
    /\ pc' = [pc EXCEPT ![m] = "full"]
    /\ todo' = [todo EXCEPT ![m] = Full(m)]
    /\ UNCHANGED <<inputs, command, current_hour, hour, sequence, tables, bytes, age, buffered,
                   gauge, jobs, encoder, answer, now, crashes, call, received, lost, before>>

\* while state.buffered_bytes >= options.buffer_bytes: the table flush_largest picks.
flush_largest(m) ==
    /\ pc[m] \in {"full", "limit"} /\ todo[m] = {} /\ buffered[m] >= BufferBytes
    /\ pc' = [pc EXCEPT ![m] = "limit"]
    /\ \E t \in Largest(m) : todo' = [todo EXCEPT ![m] = {t}]
    /\ UNCHANGED <<inputs, command, current_hour, hour, sequence, tables, bytes, age, buffered,
                   gauge, jobs, encoder, answer, now, crashes, call, received, lost, before>>

NextSequence(m) == sequence[m] + 1

\* Mutant: the job carries the market's bytes, not the table's.
TableJobMarketBytes(m, t) ==
    [market |-> m, hour |-> hour[m], sequence |-> NextSequence(m), table |-> t,
     records |-> tables[m][t], bytes |-> buffered[m]]
TableJob(m, t) ==
    [market |-> m, hour |-> hour[m], sequence |-> NextSequence(m), table |-> t,
     records |-> tables[m][t], bytes |-> bytes[m][t]]

\* flush_table, called for the tables of every flush loop; the send waits for room.
flush_table(m, t) ==
    /\ pc[m] \in Flushing /\ t \in todo[m]
    /\ alive /\ Len(jobs) < EncoderCapacity
    /\ todo' = [todo EXCEPT ![m] = @ \ {t}]
    /\ sequence' = [sequence EXCEPT ![m] = NextSequence(m)]
    /\ jobs' = Append(jobs, Write(TableJob(m, t)))
    /\ buffered' = [buffered EXCEPT ![m] = IF bytes[m][t] <= @ THEN @ - bytes[m][t] ELSE 0]
    /\ tables' = [tables EXCEPT ![m][t] = <<>>]
    /\ bytes' = [bytes EXCEPT ![m][t] = 0]
    /\ age' = [age EXCEPT ![m][t] = 0]
    /\ UNCHANGED <<inputs, pc, command, current_hour, hour, gauge, encoder, answer, now, crashes,
                   call, received, lost, before>>

\* The end of a Records or a Tick command, and of flush_all for a Flush command.
Finish(m) ==
    /\ todo[m] = {}
    /\ \/ pc[m] \in {"full", "limit"} /\ buffered[m] < BufferBytes /\ pc' = [pc EXCEPT ![m] = "recv"]
       \/ pc[m] = "expired" /\ pc' = [pc EXCEPT ![m] = "recv"]
       \/ pc[m] = "flush" /\ pc' = [pc EXCEPT ![m] = "barrier"]
    /\ command' = IF pc[m] = "flush" THEN command ELSE [command EXCEPT ![m] = Tick]
    /\ UNCHANGED <<inputs, current_hour, todo, hour, sequence, tables, bytes, age, buffered,
                   gauge, jobs, encoder, answer, now, crashes, call, received, lost, before>>

\* Mutant: flush answers once the jobs are queued, without the barrier.
SendBarrierNoWait(m) ==
    /\ pc[m] = "barrier" /\ alive
    /\ answer' = [answer EXCEPT ![m] = "ok"]
    /\ pc' = [pc EXCEPT ![m] = "await"]
    /\ UNCHANGED <<inputs, command, current_hour, todo, hour, sequence, tables, bytes, age,
                   buffered, gauge, jobs, encoder, now, crashes, call, received, lost, before>>

SendBarrier(m) ==
    /\ pc[m] = "barrier" /\ alive /\ Len(jobs) < EncoderCapacity
    /\ jobs' = Append(jobs, Barrier(m))
    /\ pc' = [pc EXCEPT ![m] = "await"]
    /\ UNCHANGED <<inputs, command, current_hour, todo, hour, sequence, tables, bytes, age,
                   buffered, gauge, encoder, answer, now, crashes, call, received, lost, before>>

\* barrier_receiver.recv, then response.send(result); a cancelled caller drops it.
Respond(m) ==
    LET f == command[m].response IN
    /\ pc[m] = "await" /\ answer[m] # "none"
    /\ call' = IF call[f].state = "wait" THEN [call EXCEPT ![f].reply = answer[m]] ELSE call
    /\ answer' = [answer EXCEPT ![m] = "none"]
    /\ pc' = [pc EXCEPT ![m] = "recv"]
    /\ command' = [command EXCEPT ![m] = Tick]
    /\ UNCHANGED <<inputs, current_hour, todo, hour, sequence, tables, bytes, age, buffered,
                   gauge, jobs, encoder, now, crashes, received, lost, before>>

\* Every sender is gone and the queue is drained: the flush_all after the loop.
Drain(m) ==
    /\ pc[m] = "recv" /\ closed /\ queue[m] = <<>>
    /\ pc' = [pc EXCEPT ![m] = "drain"]
    /\ todo' = [todo EXCEPT ![m] = Held(m)]
    /\ UNCHANGED <<inputs, command, current_hour, hour, sequence, tables, bytes, age, buffered,
                   gauge, jobs, encoder, answer, now, crashes, call, received, lost, before>>

\* A send to the encoder or the wait for its barrier fails: the thread is gone.
\* Mutant: the wait for a dropped barrier never ends.
EncoderGoneSend(m) ==
    /\ ~alive
    /\ \/ pc[m] \in Flushing /\ todo[m] # {}
       \/ pc[m] = "barrier"
EncoderGone(m) ==
    /\ ~alive
    /\ \/ pc[m] \in Flushing /\ todo[m] # {}
       \/ pc[m] = "barrier"
       \/ pc[m] = "await" /\ answer[m] = "none"

\* worker_run returns: at the end of the drain, or with an error because the encoder is
\* gone.  Its queue, the command in hand and its tables are dropped.
Stop(m) ==
    /\ \/ pc[m] = "drain" /\ todo[m] = {}
       \/ EncoderGone(m)
    /\ pc' = [pc EXCEPT ![m] = "stopped"]
    /\ lost' = lost \cup RecordsIn(queue[m]) \cup InHand(m) \cup Buffered(m)
    /\ queue' = [queue EXCEPT ![m] = <<>>]
    /\ command' = [command EXCEPT ![m] = Tick]
    /\ todo' = [todo EXCEPT ![m] = {}]
    /\ tables' = [tables EXCEPT ![m] = [t \in Tables |-> <<>>]]
    /\ bytes' = [bytes EXCEPT ![m] = [t \in Tables |-> 0]]
    /\ age' = [age EXCEPT ![m] = [t \in Tables |-> 0]]
    /\ buffered' = [buffered EXCEPT ![m] = 0]
    /\ UNCHANGED <<closed, accepted, current_hour, hour, sequence, gauge, jobs, encoder, answer,
                   now, crashes, call, received, before>>

-----------------------------------------------------------------------------
(* start_encoder: one thread, its queue in order.                          *)

EncodeRecv ==
    /\ alive /\ encoding = <<>> /\ jobs # <<>> /\ Head(jobs).type = "write"
    /\ encoding' = <<Head(jobs).job>>
    /\ jobs' = Tail(jobs)
    /\ UNCHANGED <<inputs, worker, gauge, alive, pending_error, disk, announced, failures, panics,
                   answer, now, crashes, call, received, lost, before>>

\* Mutant: the barrier answers Ok whatever happened before it.
BarrierResultOk == "ok"
BarrierResult == IF pending_error THEN "err" ELSE "ok"

\* EncodeCommand::Barrier: take pending_error and answer with it.
EncodeBarrier ==
    /\ alive /\ encoding = <<>> /\ jobs # <<>> /\ Head(jobs).type = "barrier"
    /\ answer' = [answer EXCEPT ![Head(jobs).market] = BarrierResult]
    /\ pending_error' = FALSE
    /\ jobs' = Tail(jobs)
    /\ UNCHANGED <<inputs, worker, gauge, encoding, alive, disk, announced, failures, panics, now,
                   crashes, call, received, lost, before>>

\* The path write_segment builds; std::fs::rename replaces a file that already has it.
Path(s) == <<s.market, s.table, s.hour, s.sequence>>
Publish(s) == {d \in disk : Path(d) # Path(s)} \cup {s}

\* write_segment returned Ok: the segment is in place and the archiver is told.
Encoded ==
    /\ alive /\ encoding # <<>>
    /\ disk' = Publish(encoding[1])
    /\ announced' = announced \cup {encoding[1]}
    /\ gauge' = gauge - encoding[1].bytes
    /\ encoding' = <<>>
    /\ UNCHANGED <<inputs, worker, jobs, alive, pending_error, failures, panics, answer, now,
                   crashes, call, received, lost, before>>

\* write_segment returned Err: the records are dropped, unless the rename had happened and
\* only the metadata call after it failed.
EncodeFailed ==
    /\ alive /\ encoding # <<>> /\ failures < MaxFailures
    /\ \/ lost' = lost \cup Range(encoding[1].records) /\ disk' = disk
       \/ lost' = lost /\ disk' = Publish(encoding[1])
    /\ failures' = failures + 1
    /\ pending_error' = TRUE
    /\ gauge' = gauge - encoding[1].bytes
    /\ encoding' = <<>>
    /\ UNCHANGED <<inputs, worker, jobs, alive, announced, panics, answer, now, crashes, call,
                   received, before>>

\* The encoder thread dies; the channel, its jobs and its barriers are dropped.
EncoderPanics ==
    /\ alive /\ panics < MaxPanics
    /\ alive' = FALSE /\ panics' = panics + 1
    /\ lost' = lost \cup RecordsOf(Range(encoding)) \cup RecordsOfJobs(jobs)
    /\ jobs' = <<>> /\ encoding' = <<>>
    /\ UNCHANGED <<inputs, worker, gauge, pending_error, disk, announced, failures, answer, now,
                   crashes, call, received, before>>

-----------------------------------------------------------------------------
(* The end of the process and its restart by systemd.                      *)

\* worker_run starts from the microseconds of the clock, more of them than segments written.
\* Mutant: every process numbers its segments from the same value.
RestartSequenceZero(m) == 0
RestartSequence(m) == sequence[m]

\* main returns on Ctrl-C without draining anything, a SIGTERM is not handled, or the machine
\* stops: what has not been renamed into place is gone and Writer::start begins anew.  The
\* segment being written may or may not have got its name.  The archiver's first scan finds
\* every segment in place.
Crash ==
    /\ crashes < MaxCrashes
    /\ crashes' = crashes + 1
    /\ disk' \in {disk} \cup {Publish(s) : s \in Range(encoding)}
    /\ announced' = announced \cup disk'
    /\ lost' = Accepted \ RecordsOf(disk')
    /\ call' = [f \in Calls |-> IF call[f].state \in {"send", "wait"}
                                THEN [call[f] EXCEPT !.state = "cancelled"] ELSE call[f]]
    /\ queue' = [m \in Markets |-> <<>>] /\ closed' = FALSE
    /\ pc' = [m \in Markets |-> "recv"] /\ command' = [m \in Markets |-> Tick]
    /\ current_hour' = [m \in Markets |-> now] /\ hour' = [m \in Markets |-> now]
    /\ todo' = [m \in Markets |-> {}]
    /\ sequence' = [m \in Markets |-> RestartSequence(m)]
    /\ tables' = [m \in Markets |-> [t \in Tables |-> <<>>]]
    /\ bytes' = [m \in Markets |-> [t \in Tables |-> 0]]
    /\ age' = [m \in Markets |-> [t \in Tables |-> 0]]
    /\ buffered' = [m \in Markets |-> 0] /\ gauge' = 0
    /\ jobs' = <<>> /\ encoding' = <<>> /\ alive' = TRUE /\ pending_error' = FALSE
    /\ answer' = [m \in Markets |-> "none"]
    /\ UNCHANGED <<accepted, now, failures, panics, received, before>>

-----------------------------------------------------------------------------

Batches == UNION {[1..n -> Records] : n \in 1..MaxBatch}

Producer(m) == \E batch \in Batches : records(m, batch)

Worker(m) ==
    \/ Recv(m) \/ Dispatch(m) \/ Push(m) \/ Pushed(m) \/ flush_largest(m)
    \/ \E t \in Tables : flush_table(m, t)
    \/ Finish(m) \/ SendBarrier(m) \/ Respond(m) \/ Drain(m) \/ Stop(m)

Encoder == EncodeRecv \/ EncodeBarrier \/ Encoded \/ EncodeFailed

Caller(f) == flush(f) \/ FlushSend(f) \/ FlushResult(f) \/ FlushStopped(f) \/ FlushCancelled(f)

\* Nothing is left to do once every worker has stopped and the encoder is idle.
Done ==
    /\ \A m \in Markets : pc[m] = "stopped"
    /\ jobs = <<>> /\ encoding = <<>>
    /\ UNCHANGED vars

Next ==
    \/ \E m \in Markets : Producer(m) \/ SendTick(m) \/ Worker(m)
    \/ \E f \in Calls : Caller(f)
    \/ Encoder \/ EncoderPanics
    \/ Elapse \/ HourRolls \/ Close \/ Crash \/ Done

Spec == Init /\ [][Next]_vars

\* Each thread keeps running: the OS schedules the worker and encoder threads and the
\* runtime polls its tasks.  A waiting sender of a tokio channel is served in arrival
\* order, so a send that is possible again and again happens (strong fairness).  An encode
\* step takes one of its outcomes.  Nothing is assumed of producers, hour changes,
\* cancellations, panics or a shutdown.
Fairness ==
    /\ \A m \in Markets : WF_vars(Worker(m)) /\ SF_vars(SendTick(m))
    /\ WF_vars(Encoder) /\ WF_vars(Elapse)
    /\ \A f \in Calls : SF_vars(FlushSend(f)) /\ WF_vars(FlushResult(f)) /\ WF_vars(FlushStopped(f))

LiveSpec == Spec /\ Fairness

-----------------------------------------------------------------------------

InputTypes ==
    /\ queue \in [Markets -> Seq(Command)]
    /\ accepted \in [Markets -> Seq(Records)]
WorkerTypes ==
    /\ pc \in [Markets -> WorkerPc] /\ command \in [Markets -> Command]
    /\ current_hour \in [Markets -> Nat] /\ todo \in [Markets -> SUBSET Tables]
    /\ hour \in [Markets -> Nat] /\ sequence \in [Markets -> Nat]
    /\ answer \in [Markets -> Answer]
    /\ \A m \in Markets : /\ pc[m] = "push" => command[m].type = "records"
                          /\ pc[m] \in {"flush", "barrier", "await"} => command[m].type = "flush"
BufferTypes ==
    /\ tables \in [Markets -> [Tables -> Seq(Records)]]
    /\ bytes \in [Markets -> [Tables -> Nat]] /\ age \in [Markets -> [Tables -> Nat]]
    /\ buffered \in [Markets -> Nat]
EncoderTypes ==
    /\ jobs \in Seq(EncodeCommand) /\ encoding \in Seq(Job) /\ Len(encoding) <= 1
    /\ gauge \in Int /\ disk \in SUBSET Job /\ announced \in SUBSET Job
    /\ failures \in Nat /\ panics \in Nat /\ crashes \in Nat
FlagTypes == closed \in BOOLEAN /\ alive \in BOOLEAN /\ pending_error \in BOOLEAN
CallTypes ==
    /\ call \in [Calls -> [state : CallState, at : 1..Len(Order), reply : Answer]]
    /\ now \in Nat /\ received \in [Records -> Nat]
    /\ lost \in SUBSET Records /\ before \in [Calls -> SUBSET Records]

\* Every variable keeps its type; a call of flush never runs past the list of markets.
TypeOK == InputTypes /\ WorkerTypes /\ BufferTypes /\ EncoderTypes /\ FlagTypes /\ CallTypes

\* Every published segment holds rows of its own market and table only, each dequeued by the
\* worker in the hour that names the segment's directory: at an hour boundary worker_run
\* empties all tables under the old hour before it moves WorkerState.hour.
SegmentPure ==
    \A s \in disk : \A r \in Range(s.records) :
        MarketOf[r] = s.market /\ TableOf[r] = s.table /\ received[r] = s.hour

\* When a worker waits for its next command its market is below buffer_bytes and each of
\* its tables below segment_bytes, whatever batches came before.
BufferBounds ==
    \A m \in Markets : pc[m] = "recv" =>
        /\ buffered[m] < BufferBytes
        /\ \A t \in Tables : bytes[m][t] < SegmentBytes

\* Two published segments never have the same path, and no later rename can replace one: a
\* segment still on its way to the encoder has a path no published one has.
NoOverwrite ==
    /\ \A s \in disk, u \in Range(encoding) : Path(s) # Path(u)
    /\ \A s \in disk, c \in Range(jobs) : c.type = "write" => Path(s) # Path(c.job)

\* A call of flush that got past a market (or holds its Ok) waited for it: every record of
\* that market accepted before the call was encoded, or had its encoding fail.
Passed(f) == {Order[i] : i \in {j \in 1..Len(Order) :
                 \/ j < call[f].at
                 \/ j = call[f].at /\ (call[f].state = "ok" \/ call[f].reply = "ok")}}
FlushWaits ==
    \A f \in Calls : \A r \in before[f] :
        MarketOf[r] \in Passed(f) => r \in RecordsOf(disk) \cup lost

\* What the writer's test asks of flush: after Ok, the segments of all the records accepted
\* before the call (and not lost before it) have been announced to the archiver.
FlushOkMeansEncoded ==
    \A f \in Calls : call[f].state = "ok" => before[f] \subseteq RecordsOf(announced)

\* Every accepted record ends in a segment on disk, or in one whose encoding failed.
EventuallyEncoded ==
    \A r \in Records : r \in Accepted ~> r \in RecordsOf(disk) \cup lost

\* Every call of flush returns (unless its caller goes away): it never waits on a worker
\* that waits on the encoder that waits on the queue.
FlushReturns ==
    \A f \in Calls : call[f].state = "send" ~> call[f].state \in {"ok", "err", "cancelled"}

=============================================================================
