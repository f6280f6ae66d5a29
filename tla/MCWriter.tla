------------------------------ MODULE MCWriter ------------------------------
(***************************************************************************)
(* Instances of Writer for TLC.                                            *)
(***************************************************************************)
EXTENDS WriterLog

CONSTANTS spot, usdm, trades, tickers, r1, r2, r3, r4

OneMarket == <<spot>>
TwoMarkets == <<spot, usdm>>
MCMarketOf == [r \in Records |-> IF r = r4 THEN usdm ELSE spot]
MCTableOf == [r \in Records |-> IF r = r3 THEN tickers ELSE trades]
MCBytesOf == [r \in Records |-> IF r = r2 THEN 3 ELSE IF r = r3 THEN 2 ELSE 1]

=============================================================================
