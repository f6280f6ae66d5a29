------------------------------- MODULE Config -------------------------------
(***************************************************************************)
(* The options of the service and what is computed from them               *)
(* (src/src/config.rs): the datasets, the limits validate checks, the      *)
(* buffer sizes, and how the streams of all symbols are dealt out to       *)
(* websocket connections.  Options are a record with the fields of Config; *)
(* a symbol is a number, a stream its name.                                *)
(***************************************************************************)
EXTENDS Integers, Sequences, FiniteSets, FiniteSetsExt, Functions

CONSTANTS
    StreamLimit,   \* streams of one connection (1,024)
    PublicLimit,   \* streams of one connection to the USD-M public endpoint (128)
    None           \* an option that is not given, a symbol a stream does not have

Markets == <<"spot", "usdm", "coinm">>

\* stream.starts_with('!'), and the streams of the public group: starts_with("depth") or
\* ends_with("bookTicker").
GlobalStreams == {"!miniTicker@arr", "!ticker@arr", "!ticker_1h@arr", "!ticker_4h@arr",
                  "!ticker_1d@arr", "!bookTicker", "!markPrice@arr@1s", "!forceOrder@arr"}
PublicStreams == {"depth@100ms", "bookTicker", "!bookTicker"}

\* All the streams of the whole market fit on one connection.
ASSUME StreamLimitAssumption ==
    /\ StreamLimit \in Nat \ {0} /\ PublicLimit \in Nat \ {0}
    /\ Cardinality(GlobalStreams) <= StreamLimit

DEFAULT_STREAMS == <<"depth@100ms", "aggTrade", "trade", "kline_1s", "!miniTicker@arr", "ticker",
    "!ticker_1h@arr", "!ticker_4h@arr", "!ticker_1d@arr", "bookTicker", "avgPrice">>
DEFAULT_USDM_STREAMS == <<"depth@100ms", "aggTrade", "kline_1m", "!miniTicker@arr",
    "!ticker@arr", "!bookTicker", "!markPrice@arr@1s", "!forceOrder@arr">>
\* Mutant: COIN-M subscribes to the merged book tickers as well.
DEFAULT_COINM_MERGED == <<"depth@100ms", "aggTrade", "kline_1m", "!bookTicker">>
DEFAULT_COINM_STREAMS == <<"depth@100ms", "aggTrade", "kline_1m">>

-----------------------------------------------------------------------------

\* The members of a set of numbers, in ascending order.
Ascending(set) ==
    LET rank == [x \in set |-> Cardinality({y \in set : y <= x})]
    IN [k \in 1..Cardinality(set) |-> CHOOSE x \in set : rank[x] = k]

\* The items at some positions; those that are in a set, and those that are not (filter).
Picked(items, positions) ==
    LET kept == Ascending(positions) IN [k \in DOMAIN kept |-> items[kept[k]]]
Only(items, set) == Picked(items, {i \in 1..Len(items) : items[i] \in set})
Without(items, set) == Picked(items, {i \in 1..Len(items) : items[i] \notin set})

\* csv: an item that was there before is skipped.
csv(items) == Picked(items, {i \in 1..Len(items) : \A j \in 1..(i - 1) : items[j] # items[i]})

dataset_configs(c) ==
    LET markets == IF c.all_markets THEN Markets ELSE <<c.market>> IN
    [i \in DOMAIN markets |-> [c EXCEPT !.market = markets[i], !.all_markets = FALSE]]

streams(c) ==
    csv(CASE c.streams # None -> c.streams
          [] c.streams = None /\ c.exchange = "binance" /\ c.market = "usdm" -> DEFAULT_USDM_STREAMS
          [] c.streams = None /\ c.exchange = "binance" /\ c.market = "coinm" -> DEFAULT_COINM_STREAMS
          [] OTHER -> DEFAULT_STREAMS)

\* Mutant: the retention bounds are not compared.
validateRetention(c, symbols) ==
    /\ c.exchange = "binance"
    /\ symbols # <<>> /\ streams(c) # <<>>
    /\ c.queue_capacity > 0 /\ c.parquet_queue_capacity > 0
    /\ c.buffer_mb > 0 => c.segment_mb <= c.buffer_mb
    /\ c.min_retention_hours > 0 /\ c.min_free_disk_percent <= 100
    /\ c.snapshot_interval_seconds > 0
    /\ c.snapshot_depth_limit \in {5, 10, 20, 50, 100, 500, 1000, 5000}
    /\ c.snapshot_concurrency > 0
validate(c, symbols) ==
    /\ c.exchange = "binance"
    /\ symbols # <<>> /\ streams(c) # <<>>
    /\ c.queue_capacity > 0 /\ c.parquet_queue_capacity > 0
    /\ c.buffer_mb > 0 => c.segment_mb <= c.buffer_mb
    /\ c.min_retention_hours > 0 /\ c.max_retention_hours >= c.min_retention_hours
    /\ c.min_free_disk_percent <= 100
    /\ c.snapshot_interval_seconds > 0
    /\ c.snapshot_depth_limit \in {5, 10, 20, 50, 100, 500, 1000, 5000}
    /\ c.snapshot_concurrency > 0

-----------------------------------------------------------------------------
(* Memory and buffers, in MiB.                                             *)

\* The machine's memory, or the cgroup's limit below it; 1 GiB if it cannot be read.
memory_limit(c) ==
    CASE c.physical_mb = None -> 1024
      [] c.physical_mb # None /\ c.cgroup_mb = None -> c.physical_mb
      [] OTHER -> Min({c.physical_mb, c.cgroup_mb})

clamp(x, low, high) == Max({low, Min({x, high})})

buffer_mb(c) ==
    IF c.buffer_mb # 0 THEN c.buffer_mb
    ELSE clamp(((memory_limit(c) * 30) \div 100) \div (IF c.all_markets THEN 3 ELSE 1), 32, 256)
segment_mb(c) ==
    IF c.segment_mb # 0 THEN c.segment_mb
    ELSE Min({clamp(buffer_mb(c) \div 2, 16, 64), buffer_mb(c)})
\* buffer_sizes bails if the two do not fit.
buffer_sizes_ok(c) == segment_mb(c) <= buffer_mb(c)

-----------------------------------------------------------------------------
(* Connections.                                                            *)

div_ceil(a, b) == (a + b - 1) \div b

\* One group per websocket endpoint; USD-M has two, of which an empty one is left out.
NonEmpty(group) == IF group.streams = <<>> THEN <<>> ELSE <<group>>
stream_groups(c) ==
    LET all == streams(c)
        public == [name |-> "public", streams |-> Only(all, PublicStreams)]
        market == [name |-> "market", streams |-> Without(all, PublicStreams)] IN
    CASE c.ws_url # None -> <<[name |-> "custom", streams |-> all]>>
      [] c.ws_url = None /\ c.exchange = "binance" /\ c.market = "usdm" ->
            NonEmpty(public) \o NonEmpty(market)
      [] OTHER -> <<[name |-> "market", streams |-> all]>>

stream_limit(c, group) ==
    IF c.exchange = "binance" /\ c.market = "usdm" /\ group.name = "public"
    THEN PublicLimit ELSE StreamLimit

PerSymbol(group) == Len(Without(group.streams, GlobalStreams))
Globals(group) == Len(Only(group.streams, GlobalStreams))

\* Mutant: the last, partly filled connection is not counted.
required_rounded_down(c, symbol_count, group) ==
    Min({Max({(symbol_count * PerSymbol(group) + Globals(group)) \div stream_limit(c, group), 1}),
         symbol_count})
required_connection_count(c, symbol_count, group) ==
    LET required == IF c.exchange = "binance"
                    THEN div_ceil(symbol_count * PerSymbol(group) + Globals(group),
                                  stream_limit(c, group))
                    ELSE div_ceil(symbol_count, 100)
    IN Min({Max({required, 1}), symbol_count})

\* The groups that can have another connection, the least loaded of them (the first with the
\* least capacity per stream), and the counts with one connection more for that one.
Open(counts, symbol_count) == {i \in DOMAIN counts : counts[i] < symbol_count}
Room(c, groups, counts, i) == div_ceil(counts[i] * stream_limit(c, groups[i]), Len(groups[i].streams))
Tightest(c, groups, counts, symbol_count) ==
    LET open == Open(counts, symbol_count)
    IN Min({i \in open : \A j \in open : Room(c, groups, counts, i) <= Room(c, groups, counts, j)})
OneMore(c, groups, counts, symbol_count) ==
    IF Open(counts, symbol_count) = {} THEN counts
    ELSE [counts EXCEPT ![Tightest(c, groups, counts, symbol_count)] = @ + 1]

\* The connections of each group: what the limits require, then one more at a time, up to the
\* desired total.
required_counts(c, groups, symbol_count) ==
    [i \in DOMAIN groups |-> required_connection_count(c, symbol_count, groups[i])]
connection_counts(c, groups, symbol_count) ==
    LET required == required_counts(c, groups, symbol_count)
        missing == Max({c.ws_connections, SumFunction(required)}) - SumFunction(required)
        counts[k \in 0..missing] ==
            IF k = 0 THEN required ELSE OneMore(c, groups, counts[k - 1], symbol_count)
    IN counts[missing]

\* Round-robin: what the i-th of count connections is dealt, and a symbol's streams with it.
Dealt(items, i, count) ==
    [k \in 1..div_ceil(Len(items) - i + 1, count) |-> items[(k - 1) * count + i]]
Subscriptions(symbols, per_symbol) ==
    [k \in 1..(Len(symbols) * Len(per_symbol)) |->
        [symbol |-> symbols[((k - 1) \div Len(per_symbol)) + 1],
         stream |-> per_symbol[((k - 1) % Len(per_symbol)) + 1]]]
Unbound(global) == [k \in 1..Len(global) |-> [symbol |-> None, stream |-> global[k]]]

\* What each of count connections subscribes to.  Global streams are dealt out round-robin,
\* then the symbols are, each with all its streams.
\* Mutant: every connection takes every global stream.
shards_globals_everywhere(symbols, all, count) ==
    [i \in 1..count |->
        Unbound(Only(all, GlobalStreams))
        \o Subscriptions(Dealt(symbols, i, count), Without(all, GlobalStreams))]
shards(symbols, all, count) ==
    [i \in 1..count |->
        Unbound(Dealt(Only(all, GlobalStreams), i, count))
        \o Subscriptions(Dealt(symbols, i, count), Without(all, GlobalStreams))]

=============================================================================
