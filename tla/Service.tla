------------------------------- MODULE Service -------------------------------
(***************************************************************************)
(* The process of coin-data-rs from its options to its rows                *)
(* (src/src/main.rs with config.rs, the parsers and the schema): main      *)
(* sizes the buffers, starts the writer and the archiver, and then starts  *)
(* the datasets one after the other, resolving the symbols, validating the *)
(* options and spawning the tasks of each; messages of the connections     *)
(* that are open are parsed meanwhile.  The collector's queues and the     *)
(* writer's threads are in Collector and Writer.                           *)
(***************************************************************************)
EXTENDS Parser

CONSTANTS
    ALL,         \* the symbol that stands for every instrument
    Settings,    \* the options the process may be started with
    Listings,    \* [market -> sets of [symbol, status, spot]]: what exchangeInfo may answer
    MaxDelay,    \* longest pause between two requests for it (30 s)
    Amounts,     \* texts of numbers in events
    Forms        \* how messages are wrapped

ASSUME ServiceAssumption ==
    /\ Settings # {} /\ MaxDelay \in Nat \ {0}
    /\ None \notin {ALL, "sizes", "system", "symbols", "settings"} \cup Range(Markets) \cup Int
    /\ None \notin [symbol : {ALL, None} \cup Nat, stream : STRING \cup PublicStreams]
\* The types of the options, as the parser of the command line guarantees them.
ASSUME SettingsAssumption ==
    Settings \subseteq
        [exchange : STRING, market : Range(Markets), all_markets : BOOLEAN, symbols : Seq({ALL} \cup Nat),
         streams : {None} \cup Seq(STRING), ws_connections : Nat, ws_url : {None} \cup STRING,
         queue_capacity : Nat, parquet_queue_capacity : Nat, buffer_mb : Nat, segment_mb : Nat,
         min_retention_hours : Nat, max_retention_hours : Nat, min_free_disk_percent : Nat,
         snapshot_enabled : BOOLEAN, snapshot_interval_seconds : Nat, snapshot_depth_limit : Nat,
         snapshot_concurrency : Nat, physical_mb : {None} \cup Nat, cgroup_mb : {None} \cup Nat]
ASSUME ListingsAssumption ==
    \A market \in Range(Markets) : \A listing \in Listings[market] :
        IsFiniteSet(listing) /\ \A item \in listing : item.symbol \in Nat
\* A number is a text that may have characters that are no digits; every answer of the poller is
\* "rest", no message of a connection.
ASSUME MessagesAssumption ==
    /\ Amounts \subseteq [negative : BOOLEAN, whole : Seq(Digits \cup {None}), fraction : Seq(Digits \cup {None})]
    /\ "rest" \notin Forms

VARIABLES
    settings,     \* root_config
    pc,           \* where main is
    at,           \* the dataset it starts
    delay,        \* the next pause of resolve_symbols
    symbols,      \* the symbols of that dataset
    datasets,     \* the datasets that are started: Seq([market, symbols, tasks])
    connections,  \* their connections: Seq([market, group, streams])
    pushed,       \* the message the last step parsed: [market, message, records] or None
    cause         \* why main ended

main == <<settings, pc, at, delay, symbols, cause>>
vars == <<main, datasets, connections, pushed>>

Ended == pc \in {"failed", "stopped"}

\* The options of the dataset main is starting.
config == dataset_configs(settings)[at]

Init ==
    /\ settings \in Settings
    /\ pc = "sizes" /\ at = 1 /\ delay = 1 /\ symbols = <<>> /\ cause = None
    /\ datasets = <<>> /\ connections = <<>> /\ pushed = None

-----------------------------------------------------------------------------
(* main.                                                                   *)

Goto(place) == pc' = place /\ UNCHANGED cause
Fail(why) == pc' = "failed" /\ cause' = why

\* What the step has parsed, if it was a step of a processor or a poller.
Parsed(what) == pushed' = what

BufferSizes ==
    /\ pc = "sizes"
    /\ IF buffer_sizes_ok(settings) THEN Goto("writer") ELSE Fail("sizes")
    /\ Parsed(None) /\ UNCHANGED <<settings, at, delay, symbols, datasets, connections>>

\* Writer::start, which panics on a queue of no capacity, and Archiver::spawn.
StartWriter ==
    /\ pc = "writer"
    /\ IF settings.queue_capacity > 0 THEN Goto("resolve") ELSE Fail("settings")
    /\ Parsed(None) /\ UNCHANGED <<settings, at, delay, symbols, datasets, connections>>

\* The data directory or a thread cannot be created.
StartWriterFails ==
    /\ pc = "writer" /\ Fail("system")
    /\ Parsed(None) /\ UNCHANGED <<settings, at, delay, symbols, datasets, connections>>

\* resolve_symbols of a list of symbols.
Resolve ==
    /\ pc = "resolve" /\ csv(config.symbols) # <<ALL>>
    /\ symbols' = csv(config.symbols) /\ Goto("start")
    /\ Parsed(None) /\ UNCHANGED <<settings, at, delay, datasets, connections>>

\* The instruments of an answer that are traded, sorted.
Traded(listing) ==
    {item.symbol : item \in {i \in listing : i.status = "TRADING" /\ (config.market = "spot" => i.spot)}}

\* exchangeInfo answers; that nothing is traded is an error and not tried again.
NothingTraded == Fail("symbols")
FetchAnswered ==
    /\ pc = "resolve" /\ csv(config.symbols) = <<ALL>>
    /\ \E listing \in Listings[config.market] :
        /\ symbols' = Ascending(Traded(listing))
        /\ IF Traded(listing) = {} THEN NothingTraded ELSE Goto("start")
    /\ Parsed(None) /\ UNCHANGED <<settings, at, delay, datasets, connections>>

FetchFailed ==
    /\ pc = "resolve" /\ csv(config.symbols) = <<ALL>>
    /\ Goto("sleep")
    /\ Parsed(None) /\ UNCHANGED <<settings, at, delay, symbols, datasets, connections>>

\* Mutant: the pause is not bounded.
DoubledForever(d) == 2 * d
Doubled(d) == Min({2 * d, MaxDelay})
Sleep ==
    /\ pc = "sleep"
    /\ delay' = Doubled(delay) /\ Goto("resolve")
    /\ Parsed(None) /\ UNCHANGED <<settings, at, symbols, datasets, connections>>

\* start_dataset spawns its connections, group by group.
Spawn ==
    \E groups \in {stream_groups(config)} :
    \E counts \in {connection_counts(config, groups, Len(symbols))} :
        connections' = connections \o FlattenSeq([g \in DOMAIN groups |->
            [i \in 1..counts[g] |->
                [market |-> config.market, group |-> groups[g].name,
                 streams |-> shards(symbols, groups[g].streams, counts[g])[i]]]])

Tasks ==
    {"processor"} \cup (IF config.market # "spot" THEN {"poller"} ELSE {})
                  \cup (IF config.snapshot_enabled THEN {"snapshots"} ELSE {})

\* The rest of start_dataset, and the next turn of main's loop.
StartDataset ==
    /\ pc = "start" /\ validate(config, symbols)
    /\ datasets' = Append(datasets, [market |-> config.market, symbols |-> symbols, tasks |-> Tasks])
    /\ Spawn
    /\ at' = at + 1 /\ delay' = 1 /\ symbols' = <<>>
    /\ Goto(IF at = Len(dataset_configs(settings)) THEN "bind" ELSE "resolve")
    /\ Parsed(None) /\ UNCHANGED settings

\* Mutants: refused options are tried again; they are looked at after the tasks are spawned.
StartRejectedRetry ==
    /\ pc = "start" /\ ~validate(config, symbols)
    /\ Goto("resolve")
    /\ Parsed(None) /\ UNCHANGED <<settings, at, delay, symbols, datasets, connections>>
StartRejectedLate ==
    /\ pc = "start" /\ ~validate(config, symbols)
    /\ Fail("settings")
    /\ Spawn
    /\ Parsed(None) /\ UNCHANGED <<settings, at, delay, symbols, datasets>>
StartRejected ==
    /\ pc = "start" /\ ~validate(config, symbols)
    /\ Fail("settings")
    /\ Parsed(None) /\ UNCHANGED <<settings, at, delay, symbols, datasets, connections>>

\* The API's address is bound, or cannot be; then only Ctrl-C ends main.
Bind ==
    /\ pc = "bind" /\ (Goto("up") \/ Fail("system"))
    /\ Parsed(None) /\ UNCHANGED <<settings, at, delay, symbols, datasets, connections>>

\* Ctrl-C; before the API is up it ends the process as well.
Stop ==
    /\ ~Ended /\ Goto("stopped")
    /\ Parsed(None) /\ UNCHANGED <<settings, at, delay, symbols, datasets, connections>>

-----------------------------------------------------------------------------
(* Messages.  What the exchange sends for a subscription is external.      *)

\* The type of the events of a stream.
EventType(market, stream) ==
    CASE stream = "depth@100ms" -> "depthUpdate"
      [] stream \in {"kline_1s", "kline_1m"} -> "kline"
      [] stream = "!miniTicker@arr" -> "24hrMiniTicker"
      [] stream \in {"ticker", "!ticker@arr"} -> "24hrTicker"
      [] stream = "!ticker_1h@arr" -> "1hTicker"
      [] stream = "!ticker_4h@arr" -> "4hTicker"
      [] stream = "!ticker_1d@arr" -> "1dTicker"
      [] stream \in {"bookTicker", "!bookTicker"} -> IF market = "spot" THEN "" ELSE "bookTicker"
      [] stream = "!markPrice@arr@1s" -> "markPriceUpdate"
      [] stream = "!forceOrder@arr" -> "forceOrder"
      [] OTHER -> stream   \* aggTrade, trade, avgPrice

Listed(market) == {item.symbol : item \in UNION Listings[market]}

\* The instruments a subscription is about.  The global streams of the futures endpoints are
\* merged: they carry the instruments of both futures markets.
Carried(market, sub) ==
    IF sub.symbol # None THEN {[market |-> market, symbol |-> sub.symbol]}
    ELSE LET merged == IF market = "spot" THEN {"spot"} ELSE {"usdm", "coinm"}
         IN UNION {{[market |-> m, symbol |-> s] : s \in Listed(m)} : m \in merged}

\* The events of an instrument.  Futures events may name their market, in themselves or in
\* the object inside them; those of merged streams do.
SymbolType(market) == CASE market = "usdm" -> 1 [] market = "coinm" -> 2 [] OTHER -> None
HasNested(e) == e \in {"kline", "forceOrder"}
EventsOf(market, sub, of) ==
    LET e == EventType(market, sub.stream)
        st == SymbolType(of.market)
        marks == {<<st, None>>} \cup (IF HasNested(e) THEN {<<None, st>>} ELSE {})
                                \cup (IF sub.symbol # None THEN {<<None, None>>} ELSE {}) IN
    {[e |-> e, of |-> of, amount |-> amount, st |-> mark[1], nested |-> [ok |-> ok, st |-> mark[2]]] :
        amount \in Amounts, mark \in marks, ok \in IF HasNested(e) THEN BOOLEAN ELSE {TRUE}}

\* One event or, on a stream of all instruments, two.
Batches(market, sub) ==
    LET events == UNION {EventsOf(market, sub, of) : of \in Carried(market, sub)} IN
    {<<event>> : event \in events}
    \cup (IF sub.symbol # None THEN {}
          ELSE {pair \in events \X events : /\ pair[1].of # pair[2].of
                                            /\ pair[1].amount = pair[2].amount
                                            /\ pair[1].nested.ok})

\* The answer to SUBSCRIBE is an object without a stream or an event type.
Response == [form |-> "raw", stream |-> None, events |->
    <<[e |-> "", of |-> None, amount |-> [negative |-> FALSE, whole |-> <<>>, fraction |-> <<>>],
       st |-> None, nested |-> [ok |-> TRUE, st |-> None]]>>]

Messages(market, sub) ==
    {Response} \cup {[form |-> form, stream |-> sub, events |-> batch] :
                        form \in Forms, batch \in Batches(market, sub)}

\* Where main waits and the other tasks run; elsewhere their steps and main's commute.
Waiting == pc \in {"resolve", "sleep", "bind", "up"}

\* process_payloads parses a message; nothing is kept of one that fails.
Deliver ==
    /\ Waiting /\ pushed = None
    /\ \E c \in Range(connections) : \E sub \in Range(c.streams) :
        \E message \in Messages(c.market, sub) :
            LET parsed == parse_into(c.market, message) IN
            Parsed([market |-> c.market, message |-> message,
                    records |-> IF parsed.ok THEN parsed.records ELSE <<>>])
    /\ UNCHANGED <<main, datasets, connections>>

\* An answer to the open-interest poller.
Poll ==
    /\ Waiting /\ pushed = None
    /\ \E d \in Range(datasets) : \E symbol \in Range(d.symbols), amount \in Amounts :
        LET event == [e |-> "openInterest", of |-> [market |-> d.market, symbol |-> symbol],
                      amount |-> amount, st |-> None, nested |-> [ok |-> TRUE, st |-> None]] IN
        /\ "poller" \in d.tasks
        /\ Parsed([market |-> d.market,
                   message |-> [form |-> "rest", stream |-> None, events |-> <<event>>],
                   records |-> <<parse_open_interest(amount)>>])
    /\ UNCHANGED <<main, datasets, connections>>

\* write_records: where a record goes.
Target(market, record) == IF record.target_market # None THEN record.target_market ELSE market
HandOver ==
    /\ pushed # None /\ Parsed(None)
    /\ UNCHANGED <<main, datasets, connections>>

-----------------------------------------------------------------------------

\* The steps of main that wait for nobody, and all of them.
MainAlone == BufferSizes \/ StartWriter \/ StartWriterFails \/ Resolve \/ Sleep \/ StartDataset
             \/ StartRejected \/ Bind
Main == MainAlone \/ FetchAnswered \/ FetchFailed

Next == Main \/ Stop \/ Deliver \/ Poll \/ HandOver

Spec == Init /\ [][Next]_vars

\* The runtime goes on with main.  Nothing is assumed of exchangeInfo: the client that asks for
\* it has no timeout, so that a request may fail, or not end at all.
LiveSpec == Spec /\ WF_vars(MainAlone)

-----------------------------------------------------------------------------

Places == {"sizes", "writer", "resolve", "sleep", "start", "bind", "up", "failed", "stopped"}

\* Every variable keeps its type: the pause of resolve_symbols from one second to MaxDelay, as
\* many datasets as main has gone through, a reason exactly when main has failed.
TypeOK ==
    /\ settings \in Settings /\ pc \in Places /\ delay \in 1..MaxDelay
    /\ at \in 1..(Len(dataset_configs(settings)) + 1) /\ Len(datasets) = at - 1
    /\ (cause # None) = (pc = "failed") /\ cause \in {None, "sizes", "system", "symbols", "settings"}
    /\ \A c \in Range(connections) :
        /\ \E d \in Range(datasets) : d.market = c.market
        /\ \A sub \in Range(c.streams) : DOMAIN sub = {"symbol", "stream"}

Started(d) == CHOOSE c \in Range(dataset_configs(settings)) : c.market = d.market
Subscribed(d) ==
    FlattenSeq([i \in DOMAIN connections |->
        IF connections[i].market = d.market THEN connections[i].streams ELSE <<>>])

\* However the streams of a dataset are grouped and dealt out to connections, each one that its
\* options name is subscribed exactly once: no symbol is left out, and no global stream is
\* taken twice (config.rs connection_counts and shards).
SubscribedOnce ==
    \A d \in Range(datasets) :
        LET wanted == Range(streams(Started(d)))
            expected == {[symbol |-> None, stream |-> s] : s \in wanted \cap GlobalStreams}
                \cup [symbol : Range(d.symbols), stream : wanted \ GlobalStreams] IN
        /\ Range(Subscribed(d)) = expected
        /\ Len(Subscribed(d)) = Cardinality(expected)

Limit(c) == IF c.market = "usdm" /\ c.group = "public" THEN PublicLimit ELSE StreamLimit
StreamsPerSymbol(c) == Cardinality({sub.stream : sub \in {s \in Range(c.streams) : s.symbol # None}})

\* Rounding symbols to whole connections never loads one with more than the streams of a
\* single symbol above its limit.
LoadBound == \A c \in Range(connections) : Len(c.streams) <= Limit(c) + StreamsPerSymbol(c)

\* No connection has more streams than its endpoint is meant to get: the help of ws_connections
\* says it is "automatically increased for stream limits".
WithinLimit == \A c \in Range(connections) : Len(c.streams) <= Limit(c)

\* Options that main accepts are ones the other components can work with: the assumptions that
\* Writer, Archiver and Rest make of their settings hold.  Sizes chosen automatically fit.
SettingsUsable ==
    /\ datasets # <<>> =>
        /\ settings.queue_capacity > 0 /\ settings.parquet_queue_capacity > 0
        /\ 0 < segment_mb(settings) /\ segment_mb(settings) <= buffer_mb(settings)
        /\ 0 < settings.min_retention_hours
        /\ settings.min_retention_hours <= settings.max_retention_hours
        /\ settings.snapshot_interval_seconds > 0 /\ settings.snapshot_concurrency > 0
    /\ cause = "sizes" => settings.segment_mb > 0

\* Options that main refuses are refused before anything is collected: no record is received
\* and then lost with the process because a later dataset finds fault with them.
RejectedBeforeCollecting == cause \in {"sizes", "settings"} => connections = <<>> /\ datasets = <<>>

\* The value of a text: the sum of its digits by place, cut off at the scale; None if it is no
\* number or too large.
Exact(raw) ==
    LET digits == raw.whole \o SubSeq(raw.fraction, 1, Min({Scale, Len(raw.fraction)}))
        places == Len(raw.whole) + Scale
        tens[n \in 0..places] == IF n = 0 THEN 1 ELSE 10 * tens[n - 1]
        value == SumFunction([i \in DOMAIN digits |-> digits[i] * tens[places - i]]) IN
    IF \/ raw.whole = <<>> /\ raw.fraction = <<>>
       \/ \E i \in DOMAIN digits : digits[i] \notin Digits
    THEN None
    ELSE IF value > MaxDecimal THEN None ELSE IF raw.negative THEN -value ELSE value

WellFormed(message) ==
    /\ message.form \in {"combined", "envelope", "raw", "rest"}
    /\ \A i \in DOMAIN message.events : message.events[i].nested.ok
    /\ message.form = "raw" => Len(message.events) = 1 /\ message.events[1].e # ""

SpotTables == {"depth_updates", "aggregate_trades", "trades", "klines", "mini_tickers", "tickers",
               "rolling_tickers", "average_prices", "book_tickers"}

\* A well-formed message becomes one record per event and any other none.  A record fits its
\* table: as many values as columns (one that does not would make its whole segment fail), none
\* turned into NULL by its column, and its numbers are those of the event, cut off and not
\* rounded; what is no number is 0 in a spot table and NULL in a futures table.
RowsFaithful ==
    pushed # None =>
        LET events == pushed.message.events  records == pushed.records IN
        /\ Len(records) = IF WellFormed(pushed.message) THEN Len(events) ELSE 0
        /\ \A i \in DOMAIN records :
            LET record == records[i]  exact == Exact(events[i].amount)  columns == record_columns(record) IN
            /\ FieldCount(record)
            /\ \A k \in DOMAIN columns :
                columns[k] = "Null" =>
                    record.values[k] = "Null" /\ (exact = None \/ k = Len(record.values) - 1)
            /\ record.amount = IF exact = None /\ record.table \in SpotTables THEN 0 ELSE exact

\* With the default streams an event is stored once and in its own market, although the merged
\* futures streams carry both markets: only one connection of all datasets gets it, and its
\* record is handed to its market's writer whichever dataset received it.
StoredOnce ==
    (pushed # None /\ settings.streams = None) =>
        LET events == pushed.message.events
            carriers(event) ==
                UNION {{<<c, sub>> : sub \in {sub \in Range(connections[c].streams) :
                            /\ event.of \in Carried(connections[c].market, sub)
                            /\ EventType(connections[c].market, sub.stream) = event.e}} :
                       c \in DOMAIN connections} IN
        \A i \in DOMAIN pushed.records :
            /\ Cardinality(carriers(events[i])) <= 1
            /\ Target(pushed.market, pushed.records[i]) = events[i].of.market

\* A request for exchangeInfo is under way.
Requesting == pc = "resolve" /\ csv(config.symbols) = <<ALL>>

\* Main comes to an end of its start, up or ended, unless exchangeInfo keeps it from that: one
\* request is never answered, or they fail for ever.  Any answer ends the requests of a dataset,
\* one without a tradable symbol included, and the start waits for no other answer.
EventuallyUp == <>(pc = "up" \/ Ended) \/ <>[]Requesting \/ []<><<FetchFailed>>_vars

=============================================================================
