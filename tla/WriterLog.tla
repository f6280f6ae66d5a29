------------------------------- MODULE WriterLog -------------------------------
(***************************************************************************)
(* What the record path of Writer promises: it implements RecordLog, and   *)
(* its byte counters agree with the rows they count.                       *)
(***************************************************************************)
EXTENDS Writer, SequencesExt

\* The n-th oldest segment of a set of segments of one table; a set of that one segment.
Nth(segments, n) ==
    {s \in segments : Cardinality({u \in segments : u.sequence < s.sequence}) = n - 1}
The(one) == CHOOSE s \in one : TRUE

\* The published segments of table t of market m; their rows, oldest segment first.
Segments(m, t) == {s \in disk : s.market = m /\ s.table = t}
FilesOf(segments) == [n \in 1..Cardinality(segments) |-> The(Nth(segments, n)).records]

\* The rows of table t of market m in a job, in the segment being written and in the commands
\* that wait for the encoder.
JobRows(job, m, t) == IF job.market = m /\ job.table = t THEN job.records ELSE <<>>
Encoding(segments, m, t) == FlattenSeq([i \in DOMAIN segments |-> JobRows(segments[i], m, t)])
Queued(commands, m, t) ==
    FlattenSeq([i \in DOMAIN commands |->
        IF commands[i].type = "write" THEN JobRows(commands[i].job, m, t) ELSE <<>>])

\* The rows of a worker's command, of the commands in its queue, and those of table t.
Rows(c) == IF c.type = "records" THEN c.records ELSE <<>>
Waiting(commands) == FlattenSeq([i \in DOMAIN commands |-> Rows(commands[i])])
OfTable(rows, t) == FlattenSeq([i \in DOMAIN rows |-> IF TableOf[rows[i]] = t THEN <<rows[i]>> ELSE <<>>])

\* The rows in memory in the order in which they left the producers: oldest with the encoder,
\* then in its queue, in the worker's table, in its hand, in its queue.
InMemory(m, t) ==
    Encoding(encoding, m, t) \o (Queued(jobs, m, t) \o
        (tables[m][t] \o (OfTable(Rows(command[m]), t) \o OfTable(Waiting(queue[m]), t))))

Lines == Markets \X Tables
Log == [l \in Lines |-> InMemory(l[1], l[2])]
Files == [l \in Lines |-> FilesOf(Segments(l[1], l[2]))]

\* The workers, the encoder and their queues implement one log per table: nothing between
\* Writer::records and the disk loses, duplicates or reorders a row.  Rows leave the log in
\* their order and in whole segments, a published segment stays as it is, a restart included,
\* and rows are dropped only when an encoding fails, a thread is gone or the process ends.
AbstractLog == INSTANCE RecordLog WITH
    LineOf <- [r \in Records |-> <<MarketOf[r], TableOf[r]>>],
    accepted <- Accepted, log <- Log, files <- Files
ImplementsLog == AbstractLog!Spec

\* The byte counters agree while the encoder runs: a market's buffered_bytes is the sum over
\* its tables, and the shared gauge the sum over the tables and the jobs not yet finished.
TableBytes(m) == FoldFunction(+, 0, bytes[m])
CountersAgree ==
    alive =>
      /\ \A m \in Markets : buffered[m] = TableBytes(m)
      /\ gauge = FoldFunction(+, 0, [m \in Markets |-> TableBytes(m)])
                 + FoldFunction(+, 0, [i \in DOMAIN encoding |-> encoding[i].bytes])
                 + FoldFunction(+, 0, [i \in DOMAIN jobs |->
                        IF jobs[i].type = "write" THEN jobs[i].job.bytes ELSE 0])

=============================================================================
