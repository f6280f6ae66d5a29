------------------------------- MODULE Parser -------------------------------
(***************************************************************************)
(* From a websocket message to records: src/src/binance_json.rs, parser.rs,*)
(* futures_parser.rs and parse_decimal of model.rs.  A message is          *)
(* [form, stream, events]: how it is wrapped, the subscription it names,   *)
(* and its events.  An event is [e, amount, st, nested]: its type, the     *)
(* text of its numbers, its symbol type, and the object inside it (its     *)
(* symbol type and whether it is an object at all).  A value is the name   *)
(* of its variant of model.rs's Value; the decimals of a record are one    *)
(* number.                                                                 *)
(***************************************************************************)
EXTENDS Config, Schema, SequencesExt

CONSTANTS
    Scale,       \* digits kept after the point (18)
    MaxDecimal   \* the largest i128

ASSUME DecimalAssumption == Scale \in Nat /\ MaxDecimal \in Nat \ {0}

Digits == 0..9

\* checked_mul(10) and checked_add for each character; None for an overflow or no digit.
checked(digits) ==
    LET scaled[n \in 0..Len(digits)] ==
            IF n = 0 THEN 0
            ELSE LET before == scaled[n - 1] IN
                 IF before = None THEN None
                 ELSE IF digits[n] \notin Digits THEN None
                 ELSE IF 10 * before + digits[n] > MaxDecimal THEN None
                 ELSE 10 * before + digits[n]
    IN scaled[Len(digits)]

\* The multiplications that bring a short fraction to the scale.
\* Mutant: they are left out.
padding_none(kept) == <<>>
padding(kept) == Repeat(Scale - kept, 0)

\* parse_decimal of [negative, whole, fraction], two sequences of characters of which those
\* that are not digits are None.  Characters beyond the scale are not looked at.
parse_decimal(raw) ==
    LET kept == Min({Scale, Len(raw.fraction)})
        value == checked(raw.whole \o SubSeq(raw.fraction, 1, kept) \o padding(kept))
    IN IF (raw.whole = <<>> /\ raw.fraction = <<>>) \/ value = None THEN None
       ELSE IF raw.negative THEN -value ELSE value

-----------------------------------------------------------------------------

timestamp(n) == Repeat(n, "TimestampMicros")   \* millis falls back, so it is never null
text(n) == Repeat(n, "Text")
uint(n) == Repeat(n, "U64")
integer(n) == Repeat(n, "I64")
boolean(n) == Repeat(n, "Boolean")
source == text(1)

Ok(records) == [ok |-> TRUE, records |-> records]
Err(records) == [ok |-> FALSE, records |-> records]

\* parser.rs: a number that cannot be read is stored as 0.
spot_record(table, data, values) ==
    LET amount == parse_decimal(data.amount) IN
    Ok(<<[table |-> table, values |-> values, target_market |-> None,
          amount |-> IF amount = None THEN 0 ELSE amount]>>)
decimal(n) == Repeat(n, "Decimal")

parse_depth(data) ==
    spot_record("depth_updates", data, timestamp(2) \o text(1) \o uint(2) \o source \o text(2))
parse_ticker(data) ==
    spot_record("tickers", data, timestamp(2) \o text(1) \o decimal(15) \o timestamp(2)
                \o integer(2) \o uint(1) \o source)
parse_rolling_ticker(data) ==
    spot_record("rolling_tickers", data, timestamp(2) \o text(2) \o decimal(9) \o timestamp(2)
                \o integer(2) \o uint(1) \o source)
parse_kline(data) ==
    IF ~data.nested.ok THEN Err(<<>>)
    ELSE spot_record("klines", data, timestamp(2) \o text(1) \o timestamp(2) \o text(2) \o integer(2)
                     \o decimal(5) \o uint(1) \o boolean(1) \o decimal(4) \o source)

\* An event that is of no known type makes no record and is no error.
parse_event(stream, data) ==
    CASE data.e = "depthUpdate" -> parse_depth(data)
      [] data.e = "aggTrade" ->
            spot_record("aggregate_trades", data, timestamp(2) \o text(1) \o uint(1) \o decimal(2)
                        \o uint(2) \o timestamp(1) \o boolean(2) \o source)
      [] data.e = "trade" ->
            spot_record("trades", data, timestamp(2) \o text(1) \o uint(1) \o decimal(2)
                        \o timestamp(1) \o boolean(2) \o source)
      [] data.e = "kline" -> parse_kline(data)
      [] data.e = "24hrMiniTicker" ->
            spot_record("mini_tickers", data, timestamp(2) \o text(1) \o decimal(6) \o source)
      [] data.e = "24hrTicker" -> parse_ticker(data)
      [] data.e \in {"1hTicker", "4hTicker", "1dTicker"} -> parse_rolling_ticker(data)
      [] data.e = "avgPrice" ->
            spot_record("average_prices", data, timestamp(2) \o text(2) \o decimal(1)
                        \o timestamp(1) \o source)
      [] data.e = "" /\ stream # None /\ stream.symbol # None /\ stream.stream = "bookTicker" ->
            spot_record("book_tickers", data, timestamp(1) \o text(1) \o uint(1) \o decimal(4) \o source)
      [] OTHER -> Ok(<<>>)

-----------------------------------------------------------------------------
(* futures_parser.rs.                                                      *)

\* optional_integer and target_market of a symbol type, which may be missing.
optional_integer(st) == IF st = None THEN Repeat(1, "Null") ELSE integer(1)
target_market(st) == CASE st = 1 -> "usdm" [] st = 2 -> "coinm" [] OTHER -> None

\* or and or_else: of the event, or of the object inside it.
OrElse(first, second) == IF first # None THEN first ELSE second
symbol_type(data) == optional_integer(OrElse(data.st, data.nested.st))
target(data) == OrElse(target_market(data.st), target_market(data.nested.st))

\* A number that cannot be read is stored as NULL.
futures_decimal(n, raw) == Repeat(n, IF parse_decimal(raw) = None THEN "Null" ELSE "Decimal")
futures_record(table, data, values, market) ==
    Ok(<<[table |-> table, values |-> values, target_market |-> market,
          amount |-> parse_decimal(data.amount)]>>)

futures_depth(data) ==
    futures_record("futures_depth_updates", data, timestamp(3) \o text(2) \o uint(3) \o text(2)
        \o optional_integer(data.st) \o source, target_market(data.st))
aggregate_trade(data) ==
    futures_record("futures_aggregate_trades", data, timestamp(2) \o text(2) \o uint(1)
        \o futures_decimal(3, data.amount) \o uint(2) \o timestamp(1) \o boolean(1)
        \o optional_integer(data.st) \o source, target_market(data.st))
book_ticker(data) ==
    futures_record("futures_book_tickers", data, timestamp(3) \o text(1) \o uint(1)
        \o futures_decimal(4, data.amount) \o text(1) \o optional_integer(data.st) \o source,
        target_market(data.st))
mark_price(data) ==
    futures_record("futures_mark_prices", data, timestamp(2) \o text(2)
        \o futures_decimal(4, data.amount) \o timestamp(1) \o optional_integer(data.st) \o source,
        target_market(data.st))
liquidation(data) ==
    IF ~data.nested.ok THEN Err(<<>>)
    ELSE futures_record("futures_liquidations", data, timestamp(2) \o text(4)
            \o futures_decimal(3, data.amount) \o text(1) \o futures_decimal(2, data.amount)
            \o timestamp(1) \o text(1) \o symbol_type(data) \o source, target(data))
mini_ticker(data) ==
    futures_record("futures_mini_tickers", data, timestamp(2) \o text(2)
        \o futures_decimal(6, data.amount) \o optional_integer(data.st) \o source,
        target_market(data.st))
ticker(data) ==
    futures_record("futures_tickers", data, timestamp(2) \o text(2) \o futures_decimal(10, data.amount)
        \o timestamp(2) \o integer(2) \o uint(1) \o optional_integer(data.st) \o source,
        target_market(data.st))
kline(data) ==
    IF ~data.nested.ok THEN Err(<<>>)
    ELSE futures_record("futures_klines", data, timestamp(2) \o text(2) \o timestamp(2) \o text(1)
            \o integer(2) \o futures_decimal(5, data.amount) \o uint(1) \o boolean(1)
            \o futures_decimal(4, data.amount) \o symbol_type(data) \o source, target(data))

futures_event(data) ==
    CASE data.e = "depthUpdate" -> futures_depth(data)
      [] data.e = "aggTrade" -> aggregate_trade(data)
      [] data.e = "bookTicker" -> book_ticker(data)
      [] data.e = "markPriceUpdate" -> mark_price(data)
      [] data.e = "forceOrder" -> liquidation(data)
      [] data.e = "24hrMiniTicker" -> mini_ticker(data)
      [] data.e = "24hrTicker" -> ticker(data)
      [] data.e = "kline" -> kline(data)
      [] OTHER -> Ok(<<>>)

parse_open_interest(raw) ==
    [table |-> "futures_open_interest", target_market |-> None, amount |-> parse_decimal(raw),
     values |-> timestamp(2) \o text(3) \o futures_decimal(1, raw) \o source]

-----------------------------------------------------------------------------
(* binance_json.rs and the two parse_into.                                 *)

\* decode: the fixed combined form, the same fields in another layout, or one bare event; a
\* combined message with a further field is taken for the fixed form and cannot be decoded.
decode(message) ==
    CASE message.form \in {"combined", "envelope"} -> [ok |-> TRUE, stream |-> message.stream]
      [] message.form = "raw" /\ Len(message.events) = 1 -> [ok |-> TRUE, stream |-> None]
      [] OTHER -> [ok |-> FALSE, stream |-> None]

\* The records of the events before the first that fails.
Collected(results) ==
    LET failed == {i \in DOMAIN results : ~results[i].ok}
        first == Min(failed \cup {Len(results) + 1}) IN
    [ok |-> failed = {},
     records |-> FlattenSeq([i \in 1..(first - 1) |-> results[i].records])]

spot_parse_into(message) ==
    LET decoded == decode(message) IN
    IF ~decoded.ok THEN Err(<<>>)
    ELSE Collected([i \in DOMAIN message.events |-> parse_event(decoded.stream, message.events[i])])

\* Events the futures parser does not know are left to the spot parser, if it knew none.
futures_parse_into(message) ==
    LET pushed == Collected([i \in DOMAIN message.events |-> futures_event(message.events[i])]) IN
    IF ~decode(message).ok THEN Err(<<>>)
    ELSE IF pushed.ok /\ pushed.records = <<>> THEN spot_parse_into(message)
    ELSE pushed

\* process_payloads: the parser of the dataset.
parse_into(market, message) ==
    IF market = "spot" THEN spot_parse_into(message) ELSE futures_parse_into(message)

=============================================================================
