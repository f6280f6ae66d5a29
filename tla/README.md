# A TLA+ model of coin-data-rs

coin-data-rs collects Binance market data over websockets and REST, buffers it per market
and table, writes closed Parquet segments, uploads them to S3 and compacts them there every
eight hours. This directory holds TLA+ modules for the parts of the program that have
state and concurrency, TLC configurations that check them on small instances, and TLAPS
proofs of the properties that matter most for every size of the system.

## 1. Inventory

| Part | Source | State | Operations | Module |
|---|---|---|---|---|
| Websocket collector | `collector.rs` | connections, back-off delays, batched metrics, payload queue, batch | connect, read, send, disconnect, reconnect; receive, coalesce, parse, route, write | `Collector` |
| Writer | `writer.rs`, `parquet_store.rs` | one command queue, buffer and thread per market; one encoder queue and thread | records, flush, tick, hour rollover, flush by size / age / memory, encode, barrier, restart | `Writer`, `WriterLog`, `RecordLog` |
| Segment files | `parquet_store.rs`, `schema.sql` | files | schema, record to columns, path, publication | `Schema`, `Writer` |
| Archiver | `archive.rs`, `api.rs` | files, `.uploaded` markers, bucket, upload lock, announcements, export calls | upload with retry, rescan, export, clean-up, restart | `Archiver` |
| Compactor | `compactor.rs`, `bin/parquet-compact.rs` | bucket objects, lock object, checkpoint, one local state per task | lock, load, list, merge, upload, retain, mark, delete, save, prune, release | `Compactor` |
| Depth snapshots | `snapshot.rs` | job queue, token bucket, requests in flight | start, answer, store, fail, pause, sleep | `Rest` |
| Open-interest poller | `futures_poll.rs` | requests of a round | start, answer, done | `Rest` |
| REST back-off | `rate_limit.rs` | one global instant | block, read | `Rest` |
| Event parsers | `parser.rs`, `futures_parser.rs`, `binance_json.rs`, `model.rs` | none | message to records | `Parser`; batches in `Collector` |
| Configuration, sharding | `config.rs` | none | validation, sizes, symbols, streams to connections | `Config` |
| Start and stop | `main.rs` | datasets, connections | size, start, resolve, validate, spawn, bind, stop | `Service` |
| API, metrics | `api.rs`, `runtime.rs` | counters | export; reads | where they change state |
| Telegram, benchmarks, deployment | `notify.rs`, `bin/parquet-bench.rs`, `benches/`, `deploy/` | none of the service's | | not modelled |

How the parts interact. Shards send payloads through a bounded queue to the processor of
their dataset, which sends batches of records through a bounded queue to the worker of each
market; the poller does the same. Workers send jobs through a bounded queue to the one
encoder, which renames finished segments into place and announces them over an unbounded
channel to the archiver. The archiver's task and the calls of `POST /v1/archive` share a
lock and the directory; an export first calls `Writer::flush`. The compactor is another
process that shares only the bucket with the archiver, and a lock object with other
compaction tasks. All REST clients share one back-off instant.

What is hard: the interleaving of threads around bounded queues and the flush barrier; the
hour boundary; errors that belong to one caller and reach another; crashes between a PUT, its
marker and a removal; failed requests that had their effect; a stale lock seen by two tasks;
a compaction that is repeated; weight that is accounted before and corrected after a
request. `PROJECT.json` lists these as hazards, each with its line and its properties.

What makes each part correct: the writer loses, duplicates, reorders and overwrites nothing,
keeps to its memory bounds and answers a flush only when it is done. The archiver never
deletes what is not in the bucket, and stores everything in the end as long as the encoder
lives or the process is started again. The compactor keeps every row readable at every moment. The scheduler keeps to its budget and to its turns. The
collector isolates malformed messages and keeps the order of each market. Refused options are
found before anything is collected, every started dataset subscribes every stream once, and
what an event says is what its row holds, in the market it belongs to. (A later dataset whose
listing has no tradable symbol, `config.rs:284`, or an API address that cannot be bound,
`main.rs:64`, do end the process after earlier datasets have begun to collect.)

## 2. Modules

Each module keeps the names of the source. Variables correspond to fields, channels, files
and objects; `pc`, `step`, `conn` and `proc` say where a thread or an async function is.
Definitions whose comment begins with "Mutant" are plausible faults of the next definition;
no specification uses them.

* `Writer` interleaves threads where they touch a queue, a channel, the clock or the shared
  gauge. `Recv`, `Dispatch`, `Push`, `Pushed`, `flush_table`, `Finish`, `SendBarrier`,
  `Respond` follow `worker_run`; `EncodeRecv`, `Encoded`, `EncodeFailed`, `EncodeBarrier`
  follow the encoder; `flush`, `FlushSend`, `FlushResult` follow a caller of
  `Writer::flush`, who may also go away (`FlushCancelled`). A record has a market, a table and a size.
  `Crash` is the end of the process and its restart by systemd: memory is gone, the segment
  being renamed is there or not, and the new workers take their sequence from the clock in
  microseconds. The model takes the least value that can have, the last one used, which
  assumes that the clock does not run back across a restart.
* `RecordLog` is what the record path promises, with no threads: one log per table, rows that
  leave it from the front, as a new file or for good. `WriterLog` maps the writer to it
  (`ImplementsLog`): a row is in the log from `Writer::records` to the rename, in the order
  encoder, its queue, buffer, command in hand, command queue. It also states what the byte
  counters count (`CountersAgree`).
* `Archiver` has one actor per caller of `upload`: the task and each export. An upload is the
  sequence acquire, put, mark, clean, remove, metadata, and each step can fail; a put may fail
  after it had its effect. The encoder thread holds the only sender of the channel
  (`writer.rs:106`): when it ends (`EncoderEnds`), the task takes what is left in the channel
  and returns (`TaskReturns`, `archive.rs:85`), and from then on nothing is scanned and
  a new export fails at the flush it begins with.
  `Crash` forgets everything but files and bucket, and starts encoder and task anew.
* `Compactor` has one process per scheduled task, one action per S3 request. A request
  may fail with or without its effect and a task may die anywhere. Uploads of late and
  repeated segments go on meanwhile. A segment's rows stand together: `copies[s]` is how
  often they are in the partition's output.
* `Rest` models instants by the time left until them, so that time needs no bound. The
  exchange's counter (`used`, `second`) is an observer that counts what is sent.
* `Collector` knows a message by its number and by what the parser pushes for it.
* `Config`, `Schema` and `Parser` are operators with the names of the functions they model.
  Options are a record. A value is known by its variant of `model::Value`, a table by the
  types of its columns, and the numbers of an event are one text, so that a record can be
  compared with its schema and with its event. Which JSON field feeds which column is not
  modelled: two fields of the same type could be swapped unseen.
* `Service` is `main`: `BufferSizes`, `StartWriter`, then per dataset `Resolve` or the
  requests for exchangeInfo, `StartDataset` or `StartRejected`, then `Bind`. Connections that are
  already open deliver while `main` waits (`Deliver`, `Poll`); where `main` does not wait, its
  steps and theirs touch nothing in common and commute. What Binance sends for a subscription
  is external: each event type of each default stream, in five layouts of the message, with
  numbers that are missing, malformed, too long or too large.

Every integer of the modelled code that could overflow is far from its width (sequence is a
64-bit count of microseconds, sizes are `usize`), so widths are not modelled, with one
exception: `parse_decimal` checks its `i128`, which is `MaxDecimal` in `Parser`. Floating point
token counts are integers in units of weight.

## 3. Runs

| Run | Checks | Bounds | States |
|---|---|---|---|
| `writer_market` | `SegmentPure BufferBounds NoOverwrite CountersAgree ImplementsLog` | 1 market, 2 tables, 3 records of sizes 1, 3, 2, queues of 1, one hour change, one failure, one panic, one restart | 918 000 |
| `writer_live` | `TypeOK FlushWaits FlushOkMeansEncoded EventuallyEncoded FlushReturns` | 2 markets, 1 record, 1 flush, a failure, the encoder's death, one restart | 139 000 |
| `writer_two_calls` | violates `FlushOkMeansEncoded` | 2 flush calls, 1 record | |
| `archiver` | `TypeOK UnuploadedNeverDeleted NoRemovalDuringPut ExportOkComplete EventuallyStored RetentionRespected` | 2 segments of different hours, 1 forced export, 1 crash, 3 hours, the encoder's end at any time | 761 000 |
| `compactor` | `TypeOK MutualExclusion NoRowLost CompletedHasOutput CheckpointHonest RowsOncePerUpload DeletionSafe CheckpointKept` | 3 tasks, 3 segments, 2 hours, days of 2 hours, 2 faults, 1 repeated upload of each segment | 2 973 000 |
| `compactor_retry` | violates `RowsOnce` | 1 segment, 1 fault | |
| `compactor_overlap` | violates `MutualExclusion` | 1 segment, tasks may acquire at once | |
| `rest` | `TypeOK BucketLaw NeverStarved` | 2 symbols, 2 slots, bucket 3, weight 2, minute of 3 ticks, back-off of 3 | |
| `rest_blocked` | violates `NoRequestWhileBlocked` | as above, without the poller | |
| `collector` | `TypeOK InOrder ReceivedExact ParsedExact EventuallyWritten` | 2 shards, 3 messages, queue of 1, batch of 2 | |
| `startup` | `TypeOK SubscribedOnce LoadBound SettingsUsable RejectedBeforeCollecting RowsFaithful StoredOnce EventuallyUp` | 21 settings, up to 5 symbols, limits of 8 and 3 streams, two decimal places, values up to 127, requests that may never be answered | 109 000 |
| `startup_limit` | violates `WithinLimit` | the real limits, 383 symbols | |

Why these bounds are enough. Each instance is the smallest in which its hazards meet: a
queue of one is full whenever a second sender arrives; three records of sizes 1, 3 and 2
against limits of 4 and 5 fill a table, fill a market without filling a table, and stay
below both; two hours straddle a boundary; a day of two hours makes the date of the lookback
window and its hour differ; two faults allow a failure during the repair of another; three
tasks allow a third to find what two left behind. All three segments are small, so that one
late segment, or one that was uploaded again, is enough to compact its hour a second time, with
and without a fault. A bucket of 3 with requests of weight 2
runs dry after one request and refills within a minute of 3 ticks. Limits of 8 and 3 streams
make one symbol more or less cross a connection's limit; with two places and values up to 127
the texts of `MCAmounts` are cut off, padded, overflow and end in a bad character. A crash
may hit between any two steps, and one restart in the same hour is what makes paths collide.

The five violations are disagreements between the code and what a document, a test or a
message of the repository says:

1. Two concurrent flushes: the encoder has one `pending_error`, and the barrier that comes
   first takes it. The other call returns `Ok` for records that were never encoded.
2. Connections are counted for the sum of the streams, but dealt out by whole symbols and
   with the global streams from the first connection again. 383 USD-M symbols put 129
   streams on a connection that is meant to have at most 128. `LoadBound` says how far it can
   go: never more than the streams of one symbol above the limit.
3. A compaction that fails between its success marker and its deletions is repeated with the
   output and the same sources: rows are stored twice. Without a fault of a task a segment is
   stored at most once for each time it was uploaded (`RowsOncePerUpload`), however often late
   segments make its hour be compacted again; but a forced export of an hour that is already
   compacted uploads its segments again, and the next task adds their rows to an output that has
   them. No fault loses a row (`NoRowLost`).
4. The stale lock is checked, deleted and created in three requests; two tasks that find it
   at the same time can both go on. When tasks do not acquire at the same time, the lock
   excludes (`compactor` run).
5. The limiter's pause is at most 60 seconds, the back-off up to a day: other jobs are sent
   during the back-off.

Met while modelling, and not contradicted by a document: an upload runs a clean-up that may
remove the file it has just stored and then asks for its size, so it reports a failure and
retries for a segment that is safe (`archive.rs:183`). A number that cannot be read becomes 0
in a spot table and NULL in a futures table, and characters after the eighteenth decimal are
not looked at. A futures event without a time is stored as of 1970, a spot event as of its
receipt. A spot `!bookTicker` subscription, which is not a default, would be parsed to
nothing. The instruments of OKX and Bybit are fetched before `validate` refuses the exchange.

Deadlock is checked except in the compactor, whose tasks are meant to end, in `Service`,
whose process ends, and in the archiver, which has nothing left to do when encoder and upload
task have ended and its bounds are reached; the writer's `Next` has an explicit final state.

## 4. Fairness

Safety runs use none. In `Writer`, threads and tasks keep running (weak fairness) and a
tokio channel serves waiting senders in order, so a send that is possible again and again
happens (strong fairness). Nothing is assumed of producers, panics, hour changes or
cancellations. In `Archiver`, the task and each upload go on (weak fairness), and a put of a
given segment that is tried again and again succeeds at some time (strong fairness); markers
and removals may fail for ever. `EventuallyStored` says that from some time on everything
published is stored, if from some time on the encoder thread lives. No fairness stands behind
this premise, and the code has nothing that starts the thread again: after its end what is
still pending waits on disk for the next start of the process, which `Crash` may bring or not. In `Rest`, time passes, the loop is polled, and each request ends in one way or
another (`REST_TIMEOUT`); success is not assumed. In `Collector`, the processor is polled
and waiting senders are served in order; connections may fail forever. In `Service`,
the steps of main that wait for nobody are taken in the end (weak fairness of `MainAlone`).
Nothing is assumed of exchangeInfo, whose client has no timeout (`config.rs:227`) and whose
retries have no limit. `EventuallyUp` therefore has three outcomes: main is up or has ended, or
it waits for one request for ever, or requests fail again and again. It excludes every
other way in which the start could hang.

## 5. Proofs

The theorems hold for all values of the constants that satisfy the named assumptions, which
restate what `Config::validate` and the command line's parser enforce: non-zero capacities,
`SegmentBytes <= BufferBytes`, a retention of at least an hour, a request that fits in the
bucket (`WeightsFit` evaluates it for every market and depth limit), option types
(`SettingsAssumption`), finite answers of exchangeInfo, whose symbols are instruments
(`ListingsAssumption`), texts of numbers that are digits and other characters and a poller whose
answers are no websocket messages (`MessagesAssumption`), the fixed list of tables (`TableAssumption`), and a connection that can
take the eight streams of a whole market (`StreamLimitAssumption`; the code's limit is 1,024).
That `None` is no symbol, number or subscription (`ServiceAssumption`) is how the model writes an `Option`. The theorems
about the compactor, except two, also assume `Overlap = FALSE`: no two tasks read the same
missing or aged lock before either has written it. Without that they are false, and the run
`compactor_overlap` shows it.

**Writer** (`WriterProofs`, `WriterLogProofs`)

* `TypeCorrect`: `TypeOK` is inductive; it includes which command a worker holds in which
  state, without which `Push` and `Respond` could not be typed.
* `BoundsHold`: `BufferBounds` speaks of the moment between commands. `BoundsInv` says what
  holds at each point of `worker_run`: outside the handling of a batch every table is below
  `SegmentBytes` and the market below `BufferBytes`; while full tables are flushed, every
  table that is still full is in `todo`.
* `PathsNeverReused`: restarts included. `SequenceInv` orders the segments of a market along
  the pipeline. The sequence of a published segment is below that of the one being encoded,
  which is below those in the queue, which increase and are at most the worker's counter. A
  restart empties the pipeline and keeps the counter, so that the order of what is left
  survives it.
* `SegmentsArePure`: `PureInv`. Rows are pure where they stand, in the command in hand, a
  buffer, the encoder's queue, its job and the disk; the hour of a buffer that is not empty is
  the worker's hour (`HourInv`), and a record is in one command only (`QueueOnce`).
* `FlushHasWaited`: `Conserved` places every accepted record somewhere between the queue and
  the disk. A flush command divides a queue (`BarrierInv`): behind it only later records.
  `Emptied` and `FlushInv` carry this through the buffers, which the worker drains before it
  sends its barrier, and through the encoder, which answers a barrier after everything that
  was queued ahead of it. `CallInv` ties the answers to the call and the market it has reached.
* `OneCallCovers`: what the writer's test asks of `flush` holds if there is one call (`Single`);
  the run `writer_two_calls` shows that it fails for two. The argument
  is about the one error flag: a record that was accepted before the call and dropped since
  leaves an error on its way to the caller (`Owed`), in `pending_error`, in an answer or in a
  worker that is gone, and an answer "ok" is given only when there is none (`OkTold`).
* `RowsAccountedFor`: `RowsInv` is `Conserved` with the order of the rows. The rows of a table
  in memory are the concatenation of five stages (`InMemory`), without repetition, and they are
  the accepted rows that are neither on disk nor dropped. The lemmas on `Five` say that
  moving rows from one stage to the next leaves the concatenation as it is.
* `WriterImplementsLog`: the refinement of `RecordLog`, step by step. Sending a batch is `Accept`
  (`AcceptMaps`), a rename is `Publish` (`PublishMaps`): the
  segment is the front of its line because the encoder is its first stage, and its file the
  newest because its sequence is the highest (`SequenceInv`, `NewestFile`). A failed encoding,
  a dead encoder or a worker that ends is `Lose` (`DropMaps`), the end of the process `End`
  (`CrashMaps`), and every other step a stutter of all lines (`QuietStutters`).
* `CountersNeverDrift`: `CountersAgree` needs that a table without rows counts nothing and that a worker
  that ends in order has emptied all its tables (`EmptyCounts`), for `Stop` sets its counter to
  zero without touching the gauge. `TotalChanges` of `ListFacts` says what becomes of a sum when
  one term changes.

**Archiver** (`ArchiverProofs`)

* `ArchiverTypeCorrect`: `TypeOK`, inductive with which segment each upload has in hand.
* `NothingUnuploadedDeleted`: `SafeInv` adds that a marker, an upload that is about to write
  its marker, and a victim of a clean-up all belong to stored segments.
* `UploadsKeepTheirFile`: `LockInv` (whoever is between put and metadata holds the lock)
  makes the uploader the only one that can clean up, and it does so only after its mark.
* `RetentionHolds`: `AgeInv` (victims are past the shorter retention) and `OnlyVictims` (no
  other step removes a file).
* `ExportsAreComplete`: `ExportInv` divides the segments an export answers for into those still
  to be uploaded, the one in hand and those stored; a file that is gone when the export comes
  to it was stored, because only stored files are removed (`SafeInv`).

**Compactor** (`CompactorProofs`)

* `CompactorTypeCorrect` and `MarkersHaveOutput` need no assumption about overlap: a marker is
  written after the put of its output by the same task, and outputs are only replaced.
* `OneTaskWorks`: `LockInv`. Whoever works does so under a fresh lock, so that only a lock nobody works under
  is broken, and one task acquires at a time.
* `CompactionLosesNoRow`, `CompactionDeletesSafely`: `RowInv` relates what a task has merged in
  memory to the objects: what it is about to delete is in the output it has put, and under a
  success marker an output is only replaced by one that holds at least as much.
* `CheckpointNeverLies`: `EntryInv`, the same for entries that are in memory or about to be saved.
* `CheckpointKeepsDiscoverable`: `MemoryKnows`, the task that works has all saved entries in
  its memory, so that its save loses none, and pruning spares the dates `discover` walks.
* `CompactionCountsOnce`: `OnceInv` with `FoundInv`, for late and for repeated uploads. A segment
  whose object is there has an upload left that is not yet counted in the output, unless the task
  that has counted it is about to delete it (`DeletedSoon`). Merging the previous output
  therefore counts no upload twice: what it holds is deleted before the partition is listed
  again, unless a fault comes between.

**REST** (`RestProofs`)

* `BucketHolds`: `SpentBound`, that weight spent in this minute plus the tokens on hand is
  at most a full bucket plus what the minute has earned. The law alone is not inductive,
  since it says nothing of the tokens. The law is exact: a minute that begins with a full
  bucket may cost the bucket and a minute's earnings, 160 % of the exchange's limit, and it is
  the report of the used weight and the staggering of the symbols that make this rare.
* `RestTypeCorrect`: `JobInv`. `TypeOK` counts the jobs, and a count is not inductive: what is,
  is that each symbol has its job once, waiting or in flight (`JobsOnce`, `JobsIdle`), with the
  limit on the jobs in flight (`SlotsKept`).
* `FrontIsDueFirst`: `JobsSorted` is no property of a run; it is what `run` relies on when it
  looks at the front job only. An insertion keeps it because it goes behind the jobs due no
  later.

**Collector** (`CollectorProofs`)

* `CollectorTypeCorrect`: `TypeInv`. Beside `TypeOK` it types the histories and the chunks, and says
  that only a batch that is being collected has payloads, without which a batch could exceed
  `BatchSize`.
* `RecordsInOrder` and `ParsedCounted` share one invariant, `HandedInv`: what was queued divides
  into messages that are parsed, the batch and the queue, and of the parsed ones each market has
  or is about to get exactly its records, while the counters count them (`Parsed`). A batch moves
  from one part to the other whole, and once a writer has failed only "a prefix" is left (`NoGap`).
  What carries it is that parsing and routing distribute over concatenation (`AllConcat`,
  `OfMarketConcat`, `RoutedFacts`) and that every record has one market (`SplitLengths`).
* `MessagesCounted`: `CountInv` as it stands is inductive; a report moves what the shard has counted
  into the metrics and no more (`CountedNone`). For the time, `NewestInv`: the newest instant is
  known to the metrics or to a shard, and nobody knows a later one.

`ListFacts` holds what these proofs and those of `ServiceProofs` need about numbers and
sequences. The library's induction theorems take an operator as a parameter, which cannot be
instantiated here; `LeastNumber` gets the least member of a set from `WFMin`, and from it
`EveryNumber` and `EverySequence` are induction for sets: the set of all sequences that have
the property. `FlattenSeq` is characterised by them (`FlattenAppend`), and `FlatMap`, what a
function yields for each member of a sequence, from it (`FlatMapConcat`, `FlatMapHead`).
`FoldFunction` adds up the values of a function by a recursion over sets; `SumExists` shows that
the recursion has a solution, `SumSplits` that the order in which it takes the members does not
matter, and `TotalChanges`, `TotalAppend` and `TotalTail` follow.

**Options, start-up and messages** (`ServiceProofs`)

* `RefusedBeforeCollecting`: `MainInv` with `Accepted`, what `validate` asks whatever the market.
  The first dataset is validated before anything is spawned; `ValidateFacts` shows that
  later datasets get the same verdict, because they differ in their market only, every market
  has default streams, and neither `csv` (`CsvFacts`) nor a non-empty listing (`AscendingNonEmpty`)
  becomes empty.
* `AcceptedSettingsUsable`: `SizesFit` does the arithmetic of `buffer_sizes` for every memory size.
* `ShardsSubscribeOnce`: for all lists of symbols and streams without repetition and every number
  of connections, `shards` gives each connection its part: every wanted stream is in one place
  (`Once`), and nothing else is. It rests on the division lemmas (`DealtPositions`,
  `DivisionUnique`) and on what a filter keeps (`FilterFacts`); `csv` makes its lists free of
  repetition.
* `EverySubscriptionOnce`: `ConnInv`, that for each dataset that is started the subscriptions of
  all connections of its market are those it wants, once each (`Once`). A step of main appends the
  connections of one dataset. Those of the datasets before it stay as they were, because the new
  ones are of another market (`OtherMarkets`, `ConfigMarkets`); the new ones are the shards of each
  endpoint, and the endpoints divide the streams (`GroupFacts`, `WantedSplits`, `OnceConcat`).
  `OnceFlattened` turns places into the list that `SubscribedOnce` speaks of. The number of
  connections only has to lie between one and the number of symbols (`CountsFacts`).
* `LoadAlwaysBound`: the other half of `ConnInv`. A connection has the streams of at most
  `div_ceil` of the symbols and of the all-market streams (`ShardLoad`); `LoadArithmetic` compares
  this with the count, which is one per symbol or enough for the sum of all streams.
  The 129 streams of `startup_limit` are within this bound, and above the limit.
* `ServiceTypeCorrect`: `ConnInv` and `PlaceInv`, which ties `cause` to the failed start.
* `DecimalsExact`: `parse_decimal` goes from the left, multiplies by ten, adds and checks at each
  digit; `Exact` is the sum of the digits by place. Horner's rule (`ScaledSum`) relates the two, and
  a number that is too large at some digit is too large at the end (`ScaledBad`, `Reaches`). The
  zeros that bring a fraction to the scale add nothing (`PaddedFacts`).
* `EveryRowFaithful`: `PushInv`, that what the last step has parsed is a message of an open
  connection or an answer to a poller. A record is whole if its values have their columns
  (`Stores`), which follows piece by piece (`Pieces`, `StoresBoth`) from how the values and the
  table are put together, type by type of event (`SpotEvents`, `FuturesEvents`). `Collected` adds
  one record per event or fails (`CollectedOutcome`); the futures parser leaves to the spot parser
  what it does not know, and only that (`UnknownFutures`, `FuturesRows`). The theorem is about the
  default streams and every other choice whose streams the parsers know (`StreamsKnown`): the events
  of any other stream are ignored by `parse_event`, so that the property does not hold for them.
* `EveryEventStoredOnce`: the type of an event and the market of its instrument determine the
  default stream that carries it (`OneStream`): no two have the same type in one market, and of the
  merged futures streams COIN-M subscribes to none. That stream is on one connection because of
  `ConnInv`. `EventHome` follows the record to its market: an event of a merged stream names it, in
  itself or in the object inside it (`MarkedFacts`).

Only model-checked:

* liveness under fairness, which is out of the prover's reach: `EventuallyEncoded`, `FlushReturns`,
  `EventuallyStored`, `NeverStarved`, `EventuallyWritten` and `EventuallyUp`. Every invariant and
  action property of the runs, and the refinement of `RecordLog`, is a theorem (with the hypotheses
  named above: no overlap of tasks, one call to `flush`, known streams).

## 6. Not modelled

Which field of a message feeds which column, and the bytes of a Parquet file (data without
control); the order of rows in a compacted file; the envelope of a snapshot; the Telegram
report, which only formats and sends; the benchmarks; the deployment apart from the compaction
schedule and the restart. `/healthz`, `/v1/runtime` and `/v1/stats` only read. A record in
memory does not survive the process; `RecordLog` says so with its `End`.

Hazards that no property catches, or only in part:

* `--flush-seconds 0` is accepted by `validate` and ends the tick task: `SendTick` is then
  disabled, and the runs take a positive interval.
* The compactor's lock is assumed to be younger than twelve hours while its task runs, as the
  code assumes; a longer run loses its lock. Tasks that acquire at the same time are left to
  `compactor_overlap`, which finds the exclusion violated; every other result about the
  lock is for tasks that do not.
* Which of the two retentions the free disk space selects is a nondeterministic choice, so that
  `RetentionRespected` knows the shorter one only.
* A report of the used weight may be minutes old. It only lowers the tokens, which `BucketLaw`
  does not mind; the time lost by this is not bounded.
* When a market's writer has stopped, the processor of its dataset ends and its messages are
  lost without an error; `InOrder` accepts that as a prefix.
* A process that ends after earlier datasets collect (section 1) loses their buffered records.

## 7. Plan

What is left is the composition: a module in which a message goes from `Service` through
`Collector` to `Writer` and `Archiver`. Each of them now assumes of its neighbour what that one is
proved to promise, but no module says so as a whole.
