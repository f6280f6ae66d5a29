SPECIFICATION LiveSpec
CONSTANTS
    spot = spot
    usdm = usdm
    trades = trades
    tickers = tickers
    r1 = r1
    r2 = r2
    r3 = r3
    r4 = r4
    Markets = {spot, usdm}
    Order <- TwoMarkets
    Tables = {trades}
    Records = {r4}
    MarketOf <- MCMarketOf
    TableOf <- MCTableOf
    BytesOf <- MCBytesOf
    Calls = {f1}
    Capacity = 1
    EncoderCapacity = 1
    BufferBytes = 5
    SegmentBytes = 4
    FlushInterval = 1
    MaxBatch = 1
    MaxHour = 0
    MaxFailures = 1
    MaxPanics = 1
    MaxCrashes = 1
INVARIANTS TypeOK FlushWaits FlushOkMeansEncoded
PROPERTIES EventuallyEncoded FlushReturns
