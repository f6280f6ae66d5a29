---------------------------- MODULE MCCollector -----------------------------
(* Instances of Collector for TLC: a combined message with records of two  *)
(* markets, and one that fails at its second event.                        *)
EXTENDS Collector

MCKinds == {"combined", "malformed"}
MCTargets == [k \in MCKinds |-> IF k = "combined" THEN <<"coinm", Own>> ELSE <<Own>>]

=============================================================================
