------------------------------ MODULE RecordLog ------------------------------
(***************************************************************************)
(* What the record path promises, without its threads: for each line (a    *)
(* table of a market) rows are kept in the order of acceptance and leave   *)
(* from the front, as a new segment file or, when an encoding fails or the *)
(* process ends, for good.  A published file never changes.                *)
(***************************************************************************)
EXTENDS Integers, Sequences, SequencesExt

CONSTANTS
    Lines,     \* the tables of all markets
    Records,   \* rows
    LineOf,    \* the line of a row
    MaxBatch   \* bound: rows accepted at once

VARIABLES
    accepted,  \* rows ever accepted
    log,       \* [Lines -> Seq(Records)]: accepted rows that are only in memory
    files,     \* [Lines -> Seq(Seq(Records))]: the published files, oldest first
    lost       \* rows that left the log without a file

vars == <<accepted, log, files, lost>>

Logged == UNION {Range(log[l]) : l \in Lines}

\* The rows of a batch that belong to a line.
OnLine(batch, l) ==
    FlattenSeq([i \in DOMAIN batch |-> IF LineOf[batch[i]] = l THEN <<batch[i]>> ELSE <<>>])

\* The log without the first cut[l] rows of each line, and those rows.
Without(cut) == [l \in Lines |-> SubSeq(log[l], cut[l] + 1, Len(log[l]))]
Oldest(cut) == UNION {{log[l][i] : i \in 1..cut[l]} : l \in Lines}
Cuts == {cut \in [Lines -> UNION {0..Len(log[l]) : l \in Lines}] : \A l \in Lines : cut[l] <= Len(log[l])}

Init ==
    /\ accepted = {}
    /\ log = [l \in Lines |-> <<>>]
    /\ files = [l \in Lines |-> <<>>]
    /\ lost = {}

\* A batch of new rows, each once.
Accept(batch) ==
    /\ \A i, j \in DOMAIN batch : batch[i] = batch[j] => i = j
    /\ Range(batch) \cap accepted = {}
    /\ accepted' = accepted \cup Range(batch)
    /\ log' = [l \in Lines |-> log[l] \o OnLine(batch, l)]
    /\ UNCHANGED <<files, lost>>

\* The n oldest rows of a line become its newest file.
WithFile(l, n) == [files EXCEPT ![l] = Append(@, SubSeq(log[l], 1, n))]
Publish(l, n) ==
    /\ files' = WithFile(l, n)
    /\ log' = [log EXCEPT ![l] = SubSeq(@, n + 1, Len(@))]
    /\ UNCHANGED <<accepted, lost>>

\* The oldest rows of some lines are dropped: an encoding failed or a thread is gone.
Lose ==
    /\ lost' # lost
    /\ \E cut \in Cuts :
        lost' = lost \cup Oldest(cut) /\ log' = Without(cut)
    /\ UNCHANGED <<accepted, files>>

\* The process ends, perhaps just after a last file got its name.
End ==
    /\ log' = [l \in Lines |-> <<>>]
    /\ \/ lost' = lost \cup Logged /\ files' = files
       \/ \E l \in Lines : \E n \in 1..Len(log[l]) :
             /\ lost' = lost \cup (Logged \ {log[l][i] : i \in 1..n})
             /\ files' = WithFile(l, n)
    /\ UNCHANGED accepted

Next ==
    \/ \E k \in 1..MaxBatch : \E batch \in [1..k -> Records] : Accept(batch)
    \/ \E l \in Lines : \E n \in 1..Len(log[l]) : Publish(l, n)
    \/ Lose
    \/ End

Spec == Init /\ [][Next]_vars

=============================================================================
