---------------------------- MODULE MCCompactor -----------------------------
(* Instances of Compactor for TLC.                                         *)
EXTENDS Compactor, TLC

CONSTANTS t1, t2, t3, s1, s2, s3

\* All segments belong to hour 0; a late one makes a second compaction necessary.
OneHour == [s \in Segments |-> 0]
\* s3 belongs to the next hour.
TwoHours == [s \in Segments |-> IF s = s3 THEN 1 ELSE 0]
TaskSymmetry == Permutations(Tasks)

=============================================================================
