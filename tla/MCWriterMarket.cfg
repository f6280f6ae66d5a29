SPECIFICATION Spec
CONSTANTS
    spot = spot
    usdm = usdm
    trades = trades
    tickers = tickers
    r1 = r1
    r2 = r2
    r3 = r3
    r4 = r4
    Markets = {spot}
    Order <- OneMarket
    Tables = {trades, tickers}
    Records = {r1, r2, r3}
    MarketOf <- MCMarketOf
    TableOf <- MCTableOf
    BytesOf <- MCBytesOf
    Calls = {}
    Capacity = 1
    EncoderCapacity = 1
    BufferBytes = 5
    SegmentBytes = 4
    FlushInterval = 1
    MaxBatch = 2
    MaxHour = 1
    MaxFailures = 1
    MaxPanics = 1
    MaxCrashes = 1
INVARIANTS SegmentPure BufferBounds NoOverwrite CountersAgree
PROPERTY ImplementsLog
