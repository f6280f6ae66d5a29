----------------------------- MODULE MCService ------------------------------
(* Instances of Service for TLC.                                           *)
EXTENDS Service

Default == [exchange |-> "binance", market |-> "spot", all_markets |-> TRUE, symbols |-> <<ALL>>,
    streams |-> None, ws_connections |-> 4, ws_url |-> None, queue_capacity |-> 20000,
    parquet_queue_capacity |-> 4, buffer_mb |-> 0, segment_mb |-> 0, min_retention_hours |-> 2,
    max_retention_hours |-> 2, min_free_disk_percent |-> 20, snapshot_enabled |-> TRUE,
    snapshot_interval_seconds |-> 3600, snapshot_depth_limit |-> 500, snapshot_concurrency |-> 8,
    physical_mb |-> 4096, cgroup_mb |-> None]

\* One market with one symbol, and what may be wrong or at a limit in it.
Coinm == [Default EXCEPT !.market = "coinm", !.all_markets = FALSE, !.symbols = <<1>>]
MCSettings == {Default,
    [Default EXCEPT !.streams = <<"depth@100ms", "trade", "depth@100ms", "!miniTicker@arr">>, !.symbols = <<2, 1>>],
    [Default EXCEPT !.market = "usdm", !.all_markets = FALSE, !.symbols = <<5, 1, 2, 3, 1, 4>>, !.ws_connections = 3],
    [Default EXCEPT !.market = "spot", !.all_markets = FALSE, !.symbols = <<1, 2>>, !.ws_url = "custom",
                    !.ws_connections = 9],
    [Default EXCEPT !.max_retention_hours = 1],
    [Coinm EXCEPT !.exchange = "okx", !.symbols = <<ALL>>],
    [Coinm EXCEPT !.symbols = <<>>], [Coinm EXCEPT !.streams = <<>>],
    [Coinm EXCEPT !.queue_capacity = 0], [Coinm EXCEPT !.parquet_queue_capacity = 0],
    [Coinm EXCEPT !.buffer_mb = 1, !.snapshot_enabled = FALSE],
    [Coinm EXCEPT !.buffer_mb = 1, !.segment_mb = 2], [Coinm EXCEPT !.segment_mb = 300],
    [Coinm EXCEPT !.cgroup_mb = 64, !.segment_mb = 32], [Coinm EXCEPT !.physical_mb = None],
    [Coinm EXCEPT !.min_retention_hours = 0], [Coinm EXCEPT !.max_retention_hours = 1],
    [Coinm EXCEPT !.min_free_disk_percent = 101], [Coinm EXCEPT !.snapshot_interval_seconds = 0],
    [Coinm EXCEPT !.snapshot_depth_limit = 200], [Coinm EXCEPT !.snapshot_concurrency = 0]}

Item(symbol, status, spot) == [symbol |-> symbol, status |-> status, spot |-> spot]
MCListings == [market \in {"spot", "usdm", "coinm"} |->
    IF market = "spot"
    THEN {{Item(1, "TRADING", TRUE), Item(2, "TRADING", TRUE), Item(3, "TRADING", FALSE), Item(4, "BREAK", TRUE)}}
    ELSE {{Item(2, "TRADING", FALSE), Item(1, "TRADING", FALSE)}, {Item(1, "BREAK", FALSE)}}]

\* With two decimal places and values up to 127.
Number(negative, whole, fraction) == [negative |-> negative, whole |-> whole, fraction |-> fraction]
MCAmounts == {Number(FALSE, <<>>, <<>>),             \* nothing, or null
              Number(TRUE, <<1>>, <<2, 7, 9>>),      \* -1.279: cut off, the smallest value
              Number(FALSE, <<1>>, <<2, 8>>),        \* 1.28: too large
              Number(FALSE, <<>>, <<5>>),            \* .5
              Number(FALSE, <<0>>, <<1, 2, None>>),  \* 0.12x: not read so far
              Number(FALSE, <<1, None>>, <<>>)}      \* 1x

\* 383 configured symbols with the real limits.
MCManySymbols == {[Default EXCEPT !.market = "usdm", !.all_markets = FALSE,
                                  !.symbols = [i \in 1..383 |-> i]]}
MCNoListings == [market \in {"spot", "usdm", "coinm"} |-> {}]

=============================================================================
