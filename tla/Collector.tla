----------------------------- MODULE Collector ------------------------------
(***************************************************************************)
(* The websocket side of coin-data-rs for one dataset                      *)
(* (src/src/collector.rs): shards that connect, read and reconnect, each   *)
(* with its batched metrics; the bounded queue they share; and the one     *)
(* task that coalesces, parses, routes and hands records to the writer of  *)
(* each market.  A message is known by the order in which it was read and  *)
(* by what the parser makes of it.                                         *)
(***************************************************************************)
EXTENDS Integers, Sequences, FiniteSets, SequencesExt, FiniteSetsExt

CONSTANTS
    Shards,
    Kinds,          \* what messages may hold
    Valid,          \* the kinds the parser accepts
    Targets,        \* [Kinds -> Seq(Markets or Own)]: target_market of the records it pushes
    Fallback,       \* the dataset's market
    QueueCapacity,  \* 20_000
    BatchSize,      \* PAYLOAD_BATCH_SIZE
    MaxDelay,       \* longest pause between connections (30 s)
    FlushMessages,  \* METRICS_FLUSH_MESSAGES
    Times,          \* readings of the wall clock, which may step back
    MaxMessages     \* bound: messages read

Markets == {"spot", "usdm", "coinm"}
MarketOrder == <<"spot", "usdm", "coinm">>
Own == "own"   \* target_market is None

ASSUME CollectorAssumption ==
    /\ Shards # {} /\ IsFiniteSet(Shards) /\ Valid \subseteq Kinds /\ Fallback \in Markets
    /\ Targets \in [Kinds -> Seq(Markets \cup {Own})]
    /\ QueueCapacity \in Nat \ {0} /\ BatchSize \in Nat \ {0} /\ FlushMessages \in Nat \ {0}
    /\ MaxDelay \in Nat \ {0} /\ Times \subseteq Nat /\ MaxMessages \in Nat

VARIABLES
    conn,       \* [Shards -> "connect" | "read" | "send" | "sleep"]: run_shard and collect
    delay,      \* [Shards -> seconds]: the next pause of run_shard
    pending,    \* [Shards -> Nat]: messages ReceivedMetrics has not reported
    latest,     \* [Shards -> Nat]: latest_unix_ms of ReceivedMetrics
    held,       \* [Shards -> message]: what collect is sending
    queue,      \* the channel of payloads
    proc,       \* "recv", "coalesce", "write" or "stopped": process_payloads
    payloads,   \* the payloads of the batch
    chunks,     \* what write_records has still to hand over: Seq([market, records])
    received_messages, last_message, parsed_records, parse_errors,   \* Metrics
    read,       \* history: the messages read, in order
    clock,      \* history: the latest instant at which one was
    sent,       \* history: the messages queued, in order
    written     \* history: [Markets -> records handed to the writer]

shards == <<conn, delay, pending, latest, held>>
processor == <<proc, payloads, chunks>>
received == <<received_messages, last_message>>
parsed == <<parsed_records, parse_errors>>
vars == <<shards, queue, processor, received, parsed, read, clock, sent, written>>

NoMessage == [id |-> 0]

Init ==
    /\ conn = [s \in Shards |-> "connect"] /\ delay = [s \in Shards |-> 1]
    /\ pending = [s \in Shards |-> 0] /\ latest = [s \in Shards |-> 0]
    /\ held = [s \in Shards |-> NoMessage]
    /\ queue = <<>> /\ proc = "recv" /\ payloads = <<>> /\ chunks = <<>>
    /\ received_messages = 0 /\ last_message = 0 /\ parsed_records = 0 /\ parse_errors = 0
    /\ read = <<>> /\ clock = 0 /\ sent = <<>> /\ written = [m \in Markets |-> <<>>]

Larger(a, b) == IF a >= b THEN a ELSE b

-----------------------------------------------------------------------------
(* run_shard and collect.                                                  *)

\* The socket is open, the streams are subscribed; a ReceivedMetrics begins.
Connect(s) ==
    /\ conn[s] = "connect"
    /\ conn' = [conn EXCEPT ![s] = "read"]
    /\ UNCHANGED <<delay, pending, latest, held, queue, processor, received, parsed, read, clock, sent, written>>

\* ReceivedMetrics::flush of count messages, the newest at t.
\* Mutant: the time is stored even if another shard has seen a later one.
FlushStore(s, count, t) ==
    /\ received_messages' = received_messages + count
    /\ last_message' = IF count = 0 THEN last_message ELSE t
    /\ pending' = [pending EXCEPT ![s] = 0] /\ latest' = [latest EXCEPT ![s] = 0]
Flush(s, count, t) ==
    /\ received_messages' = received_messages + count
    /\ last_message' = Larger(last_message, t)
    /\ pending' = [pending EXCEPT ![s] = 0] /\ latest' = [latest EXCEPT ![s] = 0]

\* ReceivedMetrics::record; a second may have passed since its last flush.
Record(s, t) ==
    LET count == pending[s] + 1  newest == Larger(latest[s], t) IN
    \/ Flush(s, count, newest)
    \/ /\ count < FlushMessages
       /\ pending' = [pending EXCEPT ![s] = count] /\ latest' = [latest EXCEPT ![s] = newest]
       /\ UNCHANGED received

\* A text or binary message.  (A ping is answered and changes nothing.)
Receive(s) ==
    /\ conn[s] = "read" /\ Len(read) < MaxMessages
    /\ \E kind \in Kinds, t \in Times :
        LET message == [id |-> Len(read) + 1, kind |-> kind] IN
        /\ Record(s, t)
        /\ clock' = Larger(clock, t)
        /\ held' = [held EXCEPT ![s] = message]
        /\ read' = Append(read, message)
    /\ conn' = [conn EXCEPT ![s] = "send"]
    /\ UNCHANGED <<delay, queue, processor, parsed, sent, written>>

\* payload_sender.send waits for room in the queue.
\* Mutant: it does not.
SendAlways(s) == proc # "stopped"
MaySend(s) == proc # "stopped" /\ Len(queue) < QueueCapacity
Send(s) ==
    /\ conn[s] = "send" /\ MaySend(s)
    /\ queue' = Append(queue, held[s]) /\ sent' = Append(sent, held[s])
    /\ held' = [held EXCEPT ![s] = NoMessage]
    /\ conn' = [conn EXCEPT ![s] = "read"]
    /\ UNCHANGED <<delay, pending, latest, processor, received, parsed, read, clock, written>>

\* collect ends: it could not connect or subscribe, the socket closed or failed, the rotation
\* is due, or the queue has no receiver any more.  Dropping ReceivedMetrics reports the rest.
\* A connection of five minutes resets the delay.
\* Mutant: the rotation may also interrupt the send.
EndsAnytime(s) == conn[s] # "sleep"
Ends(s) == conn[s] \in {"connect", "read"} \/ (conn[s] = "send" /\ proc = "stopped")
Disconnect(s) ==
    /\ Ends(s)
    /\ Flush(s, pending[s], latest[s])
    /\ conn' = [conn EXCEPT ![s] = "sleep"] /\ held' = [held EXCEPT ![s] = NoMessage]
    /\ \E wait \in {delay[s], 1} : delay' = [delay EXCEPT ![s] = wait]
    /\ UNCHANGED <<queue, processor, parsed, read, clock, sent, written>>

\* The pause is over.
Doubled(d) == IF 2 * d <= MaxDelay THEN 2 * d ELSE MaxDelay
Reconnect(s) ==
    /\ conn[s] = "sleep"
    /\ delay' = [delay EXCEPT ![s] = Doubled(delay[s])]
    /\ conn' = [conn EXCEPT ![s] = "connect"]
    /\ UNCHANGED <<pending, latest, held, queue, processor, received, parsed, read, clock, sent, written>>

-----------------------------------------------------------------------------
(* process_payloads and write_records.                                     *)

Take == payloads' = Append(payloads, Head(queue)) /\ queue' = Tail(queue)

\* The first payload of a batch; then it sleeps for COALESCE_INTERVAL.
Recv ==
    /\ proc = "recv" /\ queue # <<>>
    /\ Take /\ proc' = "coalesce"
    /\ UNCHANGED <<shards, chunks, received, parsed, read, clock, sent, written>>

TryRecv ==
    /\ proc = "coalesce" /\ Len(payloads) < BatchSize /\ queue # <<>>
    /\ Take
    /\ UNCHANGED <<shards, proc, chunks, received, parsed, read, clock, sent, written>>

\* What parse_into pushes for a message: one record for each event it understands before it
\* meets one that is malformed.
Pushed(message) ==
    [i \in 1..Len(Targets[message.kind]) |->
        [id |-> message.id, i |-> i,
         market |-> IF Targets[message.kind][i] = Own THEN Fallback ELSE Targets[message.kind][i]]]

\* record_batch.truncate: nothing is kept of a message that fails.
\* Mutant: what it had pushed is kept.
KeptAll(message) == Pushed(message)
Kept(message) == IF message.kind \in Valid THEN Pushed(message) ELSE <<>>

OfMarket(records, m) ==
    FlattenSeq([n \in DOMAIN records |-> IF records[n].market = m THEN <<records[n]>> ELSE <<>>])

\* write_records: the batch as it is, or one chunk for each market that has records in it.
Chunk(records, m) ==
    IF OfMarket(records, m) = <<>> THEN <<>> ELSE <<[market |-> m, records |-> OfMarket(records, m)]>>
Routed(records) ==
    Chunk(records, MarketOrder[1]) \o Chunk(records, MarketOrder[2]) \o Chunk(records, MarketOrder[3])

\* How many messages of a batch parse_into rejects.
Malformed(messages) == Cardinality({n \in DOMAIN messages : messages[n].kind \notin Valid})

\* The batch is full or the queue is empty.
\* Mutant: messages are counted instead of records.
CountedMessages(records) == Len(payloads)
Counted(records) == Len(records)
Parse ==
    LET records == FlattenSeq([n \in DOMAIN payloads |-> Kept(payloads[n])]) IN
    /\ proc = "coalesce" /\ (Len(payloads) = BatchSize \/ queue = <<>>)
    /\ parsed_records' = parsed_records + Counted(records)
    /\ parse_errors' = parse_errors + Malformed(payloads)
    /\ chunks' = Routed(records)
    /\ proc' = IF records = <<>> THEN "recv" ELSE "write"
    /\ payloads' = <<>>
    /\ UNCHANGED <<shards, queue, received, read, clock, sent, written>>

\* Writer::records of one market.  It may wait for room in that market's queue.
Write ==
    /\ proc = "write"
    /\ written' = [written EXCEPT ![Head(chunks).market] = @ \o Head(chunks).records]
    /\ chunks' = Tail(chunks)
    /\ proc' = IF Len(chunks) = 1 THEN "recv" ELSE "write"
    /\ UNCHANGED <<shards, queue, payloads, received, parsed, read, clock, sent>>

\* "Parquet writer stopped": the thread of that market has ended, as it may at any time.
\* The task ends, and its queue with it; nobody starts it again.
WriteFails ==
    /\ proc = "write"
    /\ proc' = "stopped" /\ queue' = <<>> /\ chunks' = <<>>
    /\ UNCHANGED <<shards, payloads, received, parsed, read, clock, sent, written>>

-----------------------------------------------------------------------------

Shard(s) == Connect(s) \/ Receive(s) \/ Send(s) \/ Disconnect(s) \/ Reconnect(s)
Processor == Recv \/ TryRecv \/ Parse \/ Write \/ WriteFails

Next == (\E s \in Shards : Shard(s)) \/ Processor

Spec == Init /\ [][Next]_vars

\* The runtime polls the processor, and the channel serves waiting senders in their order.
LiveSpec == Spec /\ WF_vars(Processor) /\ \A s \in Shards : SF_vars(Send(s))

-----------------------------------------------------------------------------

\* Every variable keeps its type: the queue and the batch within their capacities, the pause
\* between connections from one second to MaxDelay.
Messages == [id : 1..MaxMessages, kind : Kinds]
TypeOK ==
    /\ conn \in [Shards -> {"connect", "read", "send", "sleep"}]
    /\ delay \in [Shards -> 1..MaxDelay]
    /\ pending \in [Shards -> 0..(FlushMessages - 1)] /\ latest \in [Shards -> Nat]
    /\ \A s \in Shards : IF conn[s] = "send" THEN held[s] \in Messages ELSE held[s] = NoMessage
    /\ queue \in Seq(Messages) /\ Len(queue) <= QueueCapacity
    /\ payloads \in Seq(Messages) /\ Len(payloads) <= BatchSize
    /\ proc \in {"recv", "coalesce", "write", "stopped"} /\ (proc = "write" <=> chunks # <<>>)
    /\ received_messages \in Nat /\ last_message \in Nat /\ parsed_records \in Nat /\ parse_errors \in Nat

\* The records the messages hold for a market: none of a malformed message.
RecordsFor(messages, m) ==
    OfMarket(FlattenSeq([n \in DOMAIN messages |->
        IF messages[n].kind \in Valid THEN Pushed(messages[n]) ELSE <<>>]), m)
InChunks(m) ==
    FlattenSeq([n \in DOMAIN chunks |-> IF chunks[n].market = m THEN chunks[n].records ELSE <<>>])

\* Every market's writer gets the records of the well-formed messages exactly once and in the
\* order of the queue, though batches mix markets and malformed messages; once the processor
\* has stopped, what was handed over has no gap.
InOrder ==
    \A m \in Markets :
        IF proc = "stopped" THEN IsPrefix(written[m], RecordsFor(sent, m))
        ELSE written[m] \o InChunks(m) \o RecordsFor(payloads \o queue, m) = RecordsFor(sent, m)

\* The messages that shards have counted for themselves, each shard's numbered from 1.
Unreported == {u \in Shards \X (1..FlushMessages) : u[2] <= pending[u[1]]}

\* A message that was read is counted, now or when its shard reports, and the newest time is
\* known to the metrics or to a shard, however connections end.
ReceivedExact ==
    /\ received_messages + Cardinality(Unreported) = Len(read)
    /\ Max({last_message} \cup {latest[s] : s \in Shards}) = clock

\* parsed_records and parse_errors agree with what left the queue: the records handed over or
\* about to be, and the malformed messages.
ParsedExact ==
    proc # "stopped" =>
        LET out == SubSeq(sent, 1, Len(sent) - Len(payloads) - Len(queue))
            handed(m) == Len(written[m]) + Len(InChunks(m)) IN
        /\ parsed_records = handed("spot") + handed("usdm") + handed("coinm")
        /\ parse_errors = Malformed(out)

\* A message that was read reaches its writers unless the processor stops: no shard waits
\* forever at a full queue, and no disconnect loses a message already read.
HandedOver(n) ==
    n <= Len(read) =>
        \A i \in DOMAIN Kept(read[n]) :
            Kept(read[n])[i] \in UNION {Range(written[m]) : m \in Markets}
EventuallyWritten ==
    \A n \in 1..MaxMessages : (Len(read) >= n) ~> (HandedOver(n) \/ proc = "stopped")

=============================================================================
