----------------------------- MODULE Compactor ------------------------------
(***************************************************************************)
(* The scheduled compaction of coin-data-rs (src/src/compactor.rs): tasks  *)
(* that take a lock object, list the hourly partitions of the bucket,      *)
(* merge the segments of each into one output object, keep a copy of the   *)
(* sources, publish a success marker, delete the sources and record the    *)
(* partition in a checkpoint.  Every step is one S3 request that may fail  *)
(* with or without having had its effect; a task may die at any step; the  *)
(* collector keeps uploading segments meanwhile.                           *)
(***************************************************************************)
EXTENDS Integers, FiniteSets

CONSTANTS
    Tasks,         \* runs of parquet-compact --execute
    Segments,      \* segment objects (their rows stand together)
    HourOf,        \* the hourly partition a segment belongs to
    Small,         \* segments below small_file_mb
    MinFiles, MinSmall,  \* minimum_files, minimum_small_files
    MaxPartitions, \* max_partitions; 0 is unlimited
    Settle,        \* settle_minutes, in hours
    Lookback,      \* lookback_hours
    DayHours,      \* hours in a date of the key layout (24)
    Overlap,       \* TRUE if two tasks may be acquiring the lock at the same time
    MaxHour,       \* bound: the last hour of the clock
    MaxFaults,     \* bound: failed requests and task deaths
    MaxReuploads,  \* bound: repeated uploads of a segment
    None           \* no partition

Partitions == {HourOf[s] : s \in Segments}

ASSUME SegmentAssumption == HourOf \in [Segments -> Nat] /\ Small \subseteq Segments /\ None \notin Nat
ASSUME LimitAssumption ==   \* validate
    /\ MinFiles \in Nat \ {0} /\ MinSmall \in Nat \ {0} /\ MaxPartitions \in Nat
    /\ Settle \in Nat /\ Lookback \in Nat \ {0} /\ DayHours \in Nat \ {0}
    /\ Overlap \in BOOLEAN /\ MaxHour \in Nat /\ MaxFaults \in Nat /\ MaxReuploads \in Nat

VARIABLES
    source,     \* segment objects in the production prefix
    output,     \* partitions with a compacted.parquet
    copies,     \* [Segments -> Nat]: how often a segment's rows are in its partition's output
    success,    \* partitions with a success marker
    retained,   \* segments copied to the retention prefix
    checkpoint, \* [Partitions -> SUBSET Segments]: source_keys of the entry, {} if none
    lock,       \* the lock object: "none", "fresh", or "stale" (older than 12 hours)
    now         \* the current hour

VARIABLES       \* of each task
    pc,
    memory,     \* its copy of the checkpoint
    listing,    \* [Partitions -> SUBSET Segments]: sources of the candidates not yet done
    current,    \* the partition it compacts
    rest,       \* sources a loop of compact has still to visit
    merged      \* [Segments -> Nat]: what it has merged into its local output

VARIABLES       \* history and bounds
    uploaded, faults,
    reuploads   \* [Segments -> Nat]: how often a segment was uploaded again

bucket == <<source, output, copies, success, retained, checkpoint>>
locals == <<memory, listing, current, rest, merged>>
history == <<uploaded, reuploads>>
vars == <<bucket, lock, now, pc, locals, faults, history>>

Acquiring == {"head", "break", "create"}
Compacting == {"check", "mergeOutput", "merge", "put", "retain", "success", "delete", "save"}
Working == Compacting \cup {"load", "list", "next", "prune", "release"}
TaskPc == Acquiring \cup Working \cup {"new", "done", "dead"}

NoCopies == [s \in Segments |-> 0]
Of(p) == {s \in Segments : HourOf[s] = p}

Init ==
    /\ source = {} /\ output = {} /\ copies = NoCopies /\ success = {} /\ retained = {}
    /\ checkpoint = [p \in Partitions |-> {}]
    /\ lock = "none" /\ now = 0
    /\ pc = [t \in Tasks |-> "new"]
    /\ memory = [t \in Tasks |-> [p \in Partitions |-> {}]]
    /\ listing = [t \in Tasks |-> [p \in Partitions |-> {}]]
    /\ current = [t \in Tasks |-> None]
    /\ rest = [t \in Tasks |-> {}]
    /\ merged = [t \in Tasks |-> NoCopies]
    /\ uploaded = {} /\ faults = 0 /\ reuploads = NoCopies

-----------------------------------------------------------------------------
(* The collector and the clock.                                            *)

\* The archiver stores a segment, on time or hours late.
Upload(s) ==
    /\ s \notin uploaded /\ HourOf[s] <= now
    /\ source' = source \cup {s} /\ uploaded' = uploaded \cup {s}
    /\ UNCHANGED <<output, copies, success, retained, checkpoint, lock, now, pc, locals, faults,
                   reuploads>>

\* It stores one again: a forced export, or the retry of a request that had timed out.
Reupload(s) ==
    /\ s \in uploaded /\ s \notin source /\ reuploads[s] < MaxReuploads
    /\ source' = source \cup {s} /\ reuploads' = [reuploads EXCEPT ![s] = @ + 1]
    /\ UNCHANGED <<output, copies, success, retained, checkpoint, lock, now, pc, locals, uploaded,
                   faults>>

HourPasses ==
    /\ now < MaxHour
    /\ now' = now + 1
    /\ UNCHANGED <<bucket, lock, pc, locals, faults, history>>

\* Twelve hours pass over a lock whose task is gone: a run takes less.
LockAges ==
    /\ lock = "fresh" /\ \A t \in Tasks : pc[t] \notin Acquiring \cup Working
    /\ lock' = "stale"
    /\ UNCHANGED <<bucket, now, pc, locals, faults, history>>

-----------------------------------------------------------------------------
(* Requests: the answer of a request that had its effect, a request that   *)
(* failed without one, the death of a task.                                *)

Fault == faults < MaxFaults /\ faults' = faults + 1

\* A failure in run_partitions still leads to release_lock; one in acquire_lock does not.
\* Mutant: the upload's result is ignored.
AfterErrorPut(t) ==
    CASE pc[t] = "put" -> "retain" [] pc[t] \in Acquiring \cup {"release"} -> "done"
      [] OTHER -> "release"
\* Mutant: the result of compact is ignored.
AfterErrorCompact(t) ==
    CASE pc[t] \in Compacting \ {"save"} -> "save" [] pc[t] \in Acquiring \cup {"release"} -> "done"
      [] OTHER -> "release"
AfterError(t) == IF pc[t] \in Acquiring \cup {"release"} THEN "done" ELSE "release"

Goto(t, label) == pc' = [pc EXCEPT ![t] = label]
Answer(t, label) ==
    \/ Goto(t, label) /\ UNCHANGED faults
    \/ Goto(t, AfterError(t)) /\ Fault

RequestFails(t) ==
    /\ pc[t] \in (Acquiring \cup Working) \ {"next", "head"}
    /\ Goto(t, AfterError(t)) /\ Fault
    /\ UNCHANGED <<bucket, lock, now, locals, history>>

TaskDies(t) ==
    /\ pc[t] \in Acquiring \cup Working
    /\ Goto(t, "dead") /\ Fault
    /\ UNCHANGED <<bucket, lock, now, locals, history>>

-----------------------------------------------------------------------------
(* acquire_lock and release_lock.                                          *)

Start(t) ==
    /\ pc[t] = "new"
    /\ Overlap \/ \A u \in Tasks : pc[u] \notin Acquiring
    /\ Goto(t, "head")
    /\ UNCHANGED <<bucket, lock, now, locals, faults, history>>

\* head_object: any error counts as "no lock".
HeadLock(t) ==
    /\ pc[t] = "head"
    /\ \/ lock = "none" /\ Goto(t, "create") /\ UNCHANGED faults
       \/ lock = "stale" /\ Goto(t, "break") /\ UNCHANGED faults
       \/ lock = "fresh" /\ Goto(t, "done") /\ UNCHANGED faults   \* another task holds it
       \/ lock # "none" /\ Goto(t, "create") /\ Fault
    /\ UNCHANGED <<bucket, lock, now, locals, history>>

BreakLock(t) ==
    /\ pc[t] = "break"
    /\ lock' = "none"
    /\ Answer(t, "create")
    /\ UNCHANGED <<bucket, now, locals, history>>

\* put_object with if_none_match("*").
\* Mutant: the condition is missing.
CreateLockAlways(t) ==
    /\ pc[t] = "create"
    /\ lock' = "fresh" /\ Answer(t, "load")
    /\ UNCHANGED <<bucket, now, locals, history>>
CreateLock(t) ==
    /\ pc[t] = "create"
    /\ \/ lock = "none" /\ lock' = "fresh" /\ Answer(t, "load")
       \/ lock # "none" /\ Goto(t, "done") /\ UNCHANGED <<lock, faults>>
    /\ UNCHANGED <<bucket, now, locals, history>>

ReleaseLock(t) ==
    /\ pc[t] = "release"
    /\ lock' = "none"
    /\ Goto(t, "done") /\ UNCHANGED faults
    /\ UNCHANGED <<bucket, now, locals, history>>

-----------------------------------------------------------------------------
(* run_partitions.                                                         *)

LoadCheckpoint(t) ==
    /\ pc[t] = "load"
    /\ memory' = [memory EXCEPT ![t] = checkpoint]
    /\ Goto(t, "list")
    /\ UNCHANGED <<bucket, lock, now, listing, current, rest, merged, faults, history>>

\* Dates before that of the window's start are not walked; an hour must have settled.
Discoverable(p) == p \div DayHours >= (now - Lookback) \div DayHours
Settled(p) == p + 1 <= now - Settle
Enough(found) == Cardinality(found) >= MinFiles \/ Cardinality(found \cap Small) >= MinSmall
Candidate(t, p) ==
    LET found == source \cap Of(p) IN
    Discoverable(p) /\ Settled(p) /\ Enough(found) /\ memory[t][p] # found

\* candidates, oldest hours first, at most max_partitions of them.
Candidates(t) == {p \in Partitions : Candidate(t, p)}
Selected(t) ==
    {p \in Candidates(t) : \/ MaxPartitions = 0
                           \/ Cardinality({q \in Candidates(t) : q < p}) < MaxPartitions}
ListSources(t) ==
    /\ pc[t] = "list"
    /\ listing' = [listing EXCEPT ![t] =
                      [p \in Partitions |-> IF p \in Selected(t) THEN source \cap Of(p) ELSE {}]]
    /\ Goto(t, "next")
    /\ UNCHANGED <<bucket, lock, now, memory, current, rest, merged, faults, history>>

Left(t) == {p \in Partitions : listing[t][p] # {}}
\* Mutant: the loop enters compact once more when nothing is left.
NextPartitionPastEnd(t) ==
    /\ pc[t] = "next"
    /\ \/ Left(t) = {} /\ Goto(t, "check") /\ UNCHANGED current
       \/ \E p \in Left(t) : /\ \A q \in Left(t) : p <= q
                             /\ current' = [current EXCEPT ![t] = p] /\ Goto(t, "check")
    /\ UNCHANGED <<bucket, lock, now, memory, listing, rest, merged, faults, history>>
NextPartition(t) ==
    /\ pc[t] = "next"
    /\ \/ Left(t) = {} /\ Goto(t, "prune") /\ UNCHANGED current
       \/ \E p \in Left(t) : /\ \A q \in Left(t) : p <= q
                             /\ current' = [current EXCEPT ![t] = p] /\ Goto(t, "check")
    /\ UNCHANGED <<bucket, lock, now, memory, listing, rest, merged, faults, history>>

\* insert and save_checkpoint after a compacted partition: the whole map is written back.
SaveCheckpoint(t) ==
    LET p == current[t] IN
    /\ pc[t] = "save"
    /\ memory' = [memory EXCEPT ![t][p] = listing[t][p]]
    /\ checkpoint' = memory'[t]
    /\ listing' = [listing EXCEPT ![t][p] = {}]
    /\ current' = [current EXCEPT ![t] = None]
    /\ Answer(t, "next")
    /\ UNCHANGED <<source, output, copies, success, retained, lock, now, rest, merged, history>>

\* prune_checkpoint and the last save: the cutoff lies a day before the lookback window,
\* because whole dates are walked.
\* Mutant: the cutoff is the start of the window.
KeepsLookback(p) == p >= now - Lookback
Keeps(p) == p >= now - (Lookback + DayHours)
PruneCheckpoint(t) ==
    /\ pc[t] = "prune"
    /\ checkpoint' = [p \in Partitions |-> IF Keeps(p) THEN memory[t][p] ELSE {}]
    /\ Goto(t, "release")
    /\ UNCHANGED <<source, output, copies, success, retained, lock, now, locals, faults, history>>

-----------------------------------------------------------------------------
(* compact.                                                                *)

\* The success marker decides whether the existing output is merged as well.
\* Mutant: the marker is not looked at, only the new sources are merged.
CheckSuccessSkipped(t) ==
    LET p == current[t] IN
    /\ pc[t] = "check"
    /\ merged' = [merged EXCEPT ![t] = NoCopies]
    /\ rest' = [rest EXCEPT ![t] = listing[t][p]]
    /\ Goto(t, "merge")
    /\ UNCHANGED <<bucket, lock, now, memory, listing, current, faults, history>>
CheckSuccess(t) ==
    LET p == current[t] IN
    /\ pc[t] = "check"
    /\ merged' = [merged EXCEPT ![t] = NoCopies]
    /\ rest' = [rest EXCEPT ![t] = listing[t][p]]
    /\ \/ p \in success /\ p \in output /\ Goto(t, "mergeOutput")
       \/ p \in success /\ p \notin output /\ Goto(t, "release")  \* "missing its compacted output"
       \/ p \notin success /\ Goto(t, "merge")
    /\ UNCHANGED <<bucket, lock, now, memory, listing, current, faults, history>>

\* merge: the previous output first, then each source; a missing object is an error.
MergeOutput(t) ==
    LET p == current[t] IN
    /\ pc[t] = "mergeOutput"
    /\ merged' = [merged EXCEPT ![t] = [s \in Segments |-> IF s \in Of(p) THEN copies[s] ELSE 0]]
    /\ Goto(t, "merge")
    /\ UNCHANGED <<bucket, lock, now, memory, listing, current, rest, faults, history>>

MergeSource(t, s) ==
    /\ pc[t] = "merge" /\ s \in rest[t]
    /\ \/ /\ s \in source /\ UNCHANGED pc
          /\ merged' = [merged EXCEPT ![t][s] = @ + 1]
          /\ rest' = [rest EXCEPT ![t] = @ \ {s}]
       \/ s \notin source /\ Goto(t, "release") /\ UNCHANGED <<merged, rest>>
    /\ UNCHANGED <<bucket, lock, now, memory, listing, current, faults, history>>

Merged(t) ==
    /\ pc[t] = "merge" /\ rest[t] = {}
    /\ Goto(t, "put")
    /\ UNCHANGED <<bucket, lock, now, locals, faults, history>>

\* upload of compacted.parquet; an existing one is replaced.
PutOutput(t) ==
    LET p == current[t] IN
    /\ pc[t] = "put"
    /\ output' = output \cup {p}
    /\ copies' = [s \in Segments |-> IF s \in Of(p) THEN merged[t][s] ELSE copies[s]]
    /\ rest' = [rest EXCEPT ![t] = listing[t][p]]
    /\ Answer(t, "retain")
    /\ UNCHANGED <<source, success, retained, checkpoint, lock, now, memory, listing, current, merged,
                   history>>

\* retain_sources: copy_object, then head_object and the size test.
RetainSource(t, s) ==
    /\ pc[t] = "retain" /\ s \in rest[t]
    /\ \/ /\ s \in source /\ retained' = retained \cup {s}
          /\ rest' = [rest EXCEPT ![t] = @ \ {s}] /\ UNCHANGED pc
       \/ s \notin source /\ Goto(t, "release") /\ UNCHANGED <<retained, rest>>
    /\ UNCHANGED <<source, output, copies, success, checkpoint, lock, now, memory, listing, current,
                   merged, faults, history>>

Retained(t) ==
    /\ pc[t] = "retain" /\ rest[t] = {}
    /\ Goto(t, "success")
    /\ UNCHANGED <<bucket, lock, now, locals, faults, history>>

PutSuccess(t) ==
    /\ pc[t] = "success"
    /\ success' = success \cup {current[t]}
    /\ Answer(t, "delete")
    /\ UNCHANGED <<source, output, copies, retained, checkpoint, lock, now, locals, history>>

\* delete_sources: the listed keys; S3 may reject some of them.
\* Mutants: whatever is in the partition by now is deleted; nothing is.
DeletedAll(t) == Of(current[t])
DeletedNone(t) == {}
Deleted(t) == listing[t][current[t]]
DeleteSources(t) ==
    /\ pc[t] = "delete"
    /\ \/ source' = source \ Deleted(t) /\ Answer(t, "save")
       \/ /\ \E some \in SUBSET Deleted(t) : source' = source \ some
          /\ Goto(t, "release") /\ Fault
    /\ UNCHANGED <<output, copies, success, retained, checkpoint, lock, now, locals, history>>

-----------------------------------------------------------------------------

Acquire(t) == HeadLock(t) \/ BreakLock(t) \/ CreateLock(t) \/ ReleaseLock(t)
Run(t) ==
    \/ LoadCheckpoint(t) \/ ListSources(t) \/ NextPartition(t) \/ SaveCheckpoint(t)
    \/ PruneCheckpoint(t)
Compact(t) ==
    \/ CheckSuccess(t) \/ MergeOutput(t) \/ Merged(t) \/ PutOutput(t) \/ Retained(t)
    \/ PutSuccess(t) \/ DeleteSources(t)
    \/ \E s \in Segments : MergeSource(t, s) \/ RetainSource(t, s)

Next ==
    \/ \E s \in Segments : Upload(s) \/ Reupload(s)
    \/ HourPasses \/ LockAges
    \/ \E t \in Tasks : Start(t) \/ Acquire(t) \/ Run(t) \/ Compact(t) \/ RequestFails(t) \/ TaskDies(t)

Spec == Init /\ [][Next]_vars

-----------------------------------------------------------------------------

\* Every variable keeps its type.
TypeOK ==
    /\ source \subseteq Segments /\ output \subseteq Partitions /\ copies \in [Segments -> Nat]
    /\ success \subseteq Partitions /\ retained \subseteq Segments
    /\ checkpoint \in [Partitions -> SUBSET Segments]
    /\ lock \in {"none", "fresh", "stale"} /\ now \in Nat
    /\ pc \in [Tasks -> TaskPc] /\ memory \in [Tasks -> [Partitions -> SUBSET Segments]]
    /\ listing \in [Tasks -> [Partitions -> SUBSET Segments]]
    /\ current \in [Tasks -> Partitions \cup {None}]
    /\ rest \in [Tasks -> SUBSET Segments] /\ merged \in [Tasks -> [Segments -> Nat]]
    /\ uploaded \subseteq Segments /\ faults \in Nat /\ reuploads \in [Segments -> Nat]
    /\ \A t \in Tasks : pc[t] \in Compacting => current[t] \in Partitions

\* At most one task works on the bucket: "another compaction task holds" the lock.
MutualExclusion == \A t, u \in Tasks : pc[t] \in Working /\ pc[u] \in Working => t = u

\* The rows of every uploaded segment stay readable in the production prefix, in the segment
\* or in its partition's output, whatever request fails and wherever a task dies.
NoRowLost == \A s \in uploaded : s \in source \/ (HourOf[s] \in output /\ copies[s] > 0)

\* A source object disappears only when its rows are in the output, a copy is retained and
\* the success marker of its partition is there.
DeletionSafe ==
    [][\A s \in source \ source' :
          s \in retained /\ copies[s] > 0 /\ HourOf[s] \in output \cap success]_vars

\* A success marker never stands without its output: "completed partition is missing its
\* compacted output" cannot be reported by this code's own doing.
CompletedHasOutput == success \subseteq output

\* A checkpoint entry, saved or in the memory of the working task, lists only sources whose
\* rows are in the output: skipping a partition because its listing matches never hides rows.
CheckpointHonest ==
    \A p \in Partitions :
        /\ \A s \in checkpoint[p] : copies[s] > 0
        /\ \A t \in Tasks : pc[t] \in Working => \A s \in memory[t][p] : copies[s] > 0

\* An entry of the checkpoint stays as long as a listing can still find its partition: neither
\* pruning nor another task's save makes a finished partition a candidate again.
CheckpointKept ==
    [][\A p \in Partitions : Discoverable(p) /\ checkpoint[p] # {} => checkpoint'[p] # {}]_vars

\* The output holds the rows of a segment once.
RowsOnce == \A s \in Segments : copies[s] <= 1

\* As long as no request of a task fails and no task dies, the output holds the rows of a segment
\* at most once for each time the segment was uploaded: over any number of compactions of an hour,
\* with segments that come late or, by a forced export, again, and also while a task is at work.
RowsOncePerUpload == faults = 0 => \A s \in Segments : copies[s] <= 1 + reuploads[s]

=============================================================================
