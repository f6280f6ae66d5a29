------------------------------- MODULE MCRest -------------------------------
(* Instances of Rest for TLC.                                              *)
EXTENDS Rest

CONSTANTS s1, s2, s3

TwoSymbols == <<s1, s2>>
ThreeSymbols == <<s1, s2, s3>>
\* Staggered over an interval of two Ticks.
MCOffset == [s \in Symbols |-> IF s = s1 THEN 0 ELSE 1]

=============================================================================
