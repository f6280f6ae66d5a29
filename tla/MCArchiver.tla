----------------------------- MODULE MCArchiver -----------------------------
(* Instances of Archiver for TLC.                                          *)
EXTENDS Archiver

CONSTANTS s0, s1, e1

\* One segment of hour 0, one of hour 1; the export asks for hour 0.
MCHourOf == [s \in Segments |-> IF s = s0 THEN 0 ELSE 1]
MCExportHour == [e \in Exports |-> 0]
Forced == [e \in Exports |-> TRUE]

=============================================================================
