-------------------------- MODULE CompactorProofs ---------------------------
(***************************************************************************)
(* What compaction never does to a row, for any number of tasks, segments  *)
(* and partitions, any limits, any number of failed requests, task deaths  *)
(* and repeated uploads.  What needs the lock is proved for tasks that do  *)
(* not acquire it at the same time (Overlap = FALSE).                      *)
(***************************************************************************)
EXTENDS Compactor, TLAPS

\* The lock object and its holders: one task acquires at a time, one works, and the working one's
\* lock is fresh, so that only a lock nobody works under is broken.
LockInv ==
    /\ \A t, u \in Tasks : pc[t] \in Acquiring /\ pc[u] \in Acquiring => t = u
    /\ MutualExclusion
    /\ \A t \in Tasks : pc[t] \in Working => lock = "fresh"
    /\ \A t \in Tasks : pc[t] = "break" => lock = "stale"

Merging == {"merge", "put"}
Published == {"retain", "success", "delete", "save"}
\* The sources of the partition a task compacts.
Sources(t) == listing[t][current[t]]

\* What a task has listed belongs to the partition it is listed for.
ListedInv ==
    /\ \A t \in Tasks, p \in Partitions : listing[t][p] \subseteq Of(p)
    /\ \A t \in Tasks : pc[t] \in Compacting => Sources(t) # {}
\* The output is there from its upload on, and so from the marker on.
OutputInv == CompletedHasOutput /\ \A t \in Tasks : pc[t] \in Published => current[t] \in output

\* What a task at each stage of compact has already secured: its merge covers the sources it has
\* read and, under a marker, all of the output it replaces; the output and the retained copies
\* cover the sources it is going to delete.
MergeCovers(t) ==
    /\ pc[t] \in Merging /\ current[t] \in success =>
          \A s \in Of(current[t]) : copies[s] > 0 => merged[t][s] > 0
    /\ pc[t] = "mergeOutput" => Sources(t) \subseteq rest[t]
    /\ pc[t] = "merge" => \A s \in Sources(t) \ rest[t] : merged[t][s] > 0
    /\ pc[t] = "put" => \A s \in Sources(t) : merged[t][s] > 0
OutputCovers(t) == pc[t] \in Published => \A s \in Sources(t) : copies[s] > 0
RetentionCovers(t) ==
    /\ pc[t] = "retain" => Sources(t) \ rest[t] \subseteq retained
    /\ pc[t] \in {"success", "delete", "save"} => Sources(t) \subseteq retained
MarkedFirst(t) == pc[t] \in {"delete", "save"} => current[t] \in success
Secured(t) == MergeCovers(t) /\ OutputCovers(t) /\ RetentionCovers(t) /\ MarkedFirst(t)
\* A segment that is gone from the prefix was deleted under a success marker.
GoneMarked == \A s \in uploaded \ source : HourOf[s] \in success

Base == TypeOK /\ LockInv /\ ListedInv /\ OutputInv
RowInv == (\A t \in Tasks : Secured(t)) /\ GoneMarked /\ NoRowLost

\* An entry names segments of its own hour whose rows are in the output, under the hour's marker.
Entry(entries) ==
    \A p \in Partitions : \A s \in entries[p] : s \in Of(p) /\ copies[s] > 0 /\ p \in success
EntryInv ==
    /\ Entry(checkpoint)
    /\ \A t \in Tasks : pc[t] \in Working => Entry(memory[t])
    /\ \A t \in Tasks : pc[t] \in {"new"} \cup Acquiring => \A p \in Partitions : memory[t][p] = {}

\* Past the load, the working task's memory knows every partition the saved checkpoint knows.
MemoryKnows ==
    \A t \in Tasks : pc[t] \in Working \ {"load", "release"} =>
        \A p \in Partitions : checkpoint[p] # {} => memory[t][p] # {}

Retaining == {"retain", "success", "delete"}
Listed == {"next"} \cup Compacting
\* Until a partition is deleted, what was listed for it is still there.
ListedThere(t) ==
    /\ pc[t] \in Listed =>
          \A p \in Partitions : (pc[t] = "save" => p # current[t]) => listing[t][p] \subseteq source
    /\ pc[t] \in {"mergeOutput", "merge", "retain"} => rest[t] \subseteq Sources(t)
\* Only what was uploaded is anywhere.
MergedUploaded(t) == pc[t] \in Merging => \A s \in Segments : merged[t][s] > 0 => s \in uploaded
Uploaded == source \subseteq uploaded /\ \A s \in Segments : copies[s] > 0 => s \in uploaded
FoundInv == Uploaded /\ \A t \in Tasks : ListedThere(t) /\ MergedUploaded(t)

\* No request has failed, no task has died.
Faultless == faults = 0
\* Of its uploads a segment has one left as long as its object is there and its rows have still to
\* be counted for it: by the merge under way,
MergedOnce(t) ==
    pc[t] \in Merging =>
        \A s \in Segments :
            /\ merged[t][s] <= 1 + reuploads[s]
            /\ s \in source \ Sources(t) => merged[t][s] <= reuploads[s]
            /\ pc[t] = "merge" /\ s \in rest[t] => merged[t][s] <= reuploads[s]
\* or by a later one, unless the task that has put them into the output is about to delete it.
Doomed(s) == \E t \in Tasks : pc[t] \in Retaining /\ s \in Sources(t)
DeletedSoon == \A s \in source : Doomed(s) \/ copies[s] <= reuploads[s]
CopiesBound == \A s \in Segments : copies[s] <= 1 + reuploads[s]
OnceInv == Faultless => CopiesBound /\ DeletedSoon /\ \A t \in Tasks : MergedOnce(t)

-----------------------------------------------------------------------------
(* Types.                                                                  *)

\* The labels an action can go to.
LEMMA AfterErrorLabel == ASSUME NEW t \in Tasks PROVE AfterError(t) \in {"done", "release"}
  BY DEF AfterError

LEMMA GotoType ==
    ASSUME pc \in [Tasks -> TaskPc], NEW t \in Tasks, NEW label \in TaskPc,
           Goto(t, label) \/ Answer(t, label)
    PROVE  /\ pc' \in [Tasks -> TaskPc]
           /\ pc'[t] \in {label, "done", "release"}
           /\ \A u \in Tasks \ {t} : pc'[u] = pc[u]
<1>1. AfterError(t) \in TaskPc
  BY AfterErrorLabel DEF TaskPc, Working
<1>2. QED
  BY <1>1, AfterErrorLabel DEF Goto, Answer

LEMMA FaultType == ASSUME faults \in Nat, Fault \/ UNCHANGED faults PROVE faults' \in Nat
  BY DEF Fault

LEMMA TypeInit == Init => TypeOK
  BY SegmentAssumption DEF Init, TypeOK, NoCopies, TaskPc, Compacting, Acquiring, Working

\* The bucket, the clock and the history, action by action.
LEMMA TypeOutside == ASSUME TypeOK, NEW s \in Segments, Upload(s) \/ Reupload(s) PROVE TypeOK'
<1>1. reuploads' \in [Segments -> Nat]
  <2>1. reuploads \in [Segments -> Nat] /\ reuploads[s] + 1 \in Nat
    BY DEF TypeOK
  <2>2. reuploads' = reuploads \/ reuploads' = [reuploads EXCEPT ![s] = reuploads[s] + 1]
    BY DEF Upload, Reupload
  <2>3. QED
    BY <2>1, <2>2
<1>2. /\ source' \subseteq Segments /\ uploaded' \subseteq Segments
      /\ UNCHANGED <<output, copies, success, retained, checkpoint, lock, now, pc, locals, faults>>
  BY DEF TypeOK, Upload, Reupload
<1>3. QED
  BY <1>1, <1>2 DEF TypeOK, locals

LEMMA TypeAcquire == ASSUME TypeOK, NEW t \in Tasks, Start(t) \/ Acquire(t) PROVE TypeOK'
<1>1. PICK label \in TaskPc \ Compacting : Goto(t, label) \/ Answer(t, label)
  BY DEF Start, Acquire, HeadLock, BreakLock, CreateLock, ReleaseLock, Answer, TaskPc, Acquiring,
         Working, Compacting
<1>2. /\ pc' \in [Tasks -> TaskPc] /\ pc'[t] \notin Compacting
      /\ \A u \in Tasks \ {t} : pc'[u] = pc[u]
  BY <1>1, GotoType DEF TypeOK, Compacting
<1>3. faults' \in Nat
  BY FaultType DEF Start, Acquire, HeadLock, BreakLock, CreateLock, ReleaseLock, Answer, TypeOK
<1>4. UNCHANGED <<bucket, now, locals, history>> /\ lock' \in {"none", "fresh", "stale"}
  BY DEF Start, Acquire, HeadLock, BreakLock, CreateLock, ReleaseLock, Answer, TypeOK
<1>5. QED
  BY <1>2, <1>3, <1>4 DEF TypeOK, bucket, locals, history

\* A failed request and the death of a task leave everything but pc and the count of faults.
LEMMA TypeFault == ASSUME TypeOK, NEW t \in Tasks, RequestFails(t) \/ TaskDies(t) PROVE TypeOK'
<1>1. PICK label \in TaskPc \ Compacting : Goto(t, label)
  BY AfterErrorLabel DEF RequestFails, TaskDies, TaskPc, Acquiring, Working, Compacting
<1>2. /\ pc' \in [Tasks -> TaskPc] /\ pc'[t] \notin Compacting
      /\ \A u \in Tasks \ {t} : pc'[u] = pc[u]
  BY <1>1, GotoType DEF TypeOK, Compacting
<1>3. faults' \in Nat /\ UNCHANGED <<bucket, lock, now, locals, history>>
  BY FaultType DEF RequestFails, TaskDies, TypeOK
<1>4. QED
  BY <1>2, <1>3 DEF TypeOK, bucket, locals, history

LEMMA TypeRun == ASSUME TypeOK, NEW t \in Tasks, Run(t) PROVE TypeOK'
<1>0. {"list", "next", "prune", "release", "check"} \subseteq TaskPc
  BY DEF TaskPc, Working, Compacting
<1>1. CASE LoadCheckpoint(t)
  BY <1>0, <1>1 DEF TypeOK, LoadCheckpoint, Goto, bucket, history, Compacting
<1>2. CASE ListSources(t)
  <2>1. [p \in Partitions |-> IF p \in Selected(t) THEN source \cap Of(p) ELSE {}]
            \in [Partitions -> SUBSET Segments]
    BY DEF TypeOK
  <2>2. QED
    BY <1>0, <1>2, <2>1 DEF TypeOK, ListSources, Goto, bucket, history, Compacting
<1>3. CASE NextPartition(t)
  <2>1. CASE Left(t) = {} /\ Goto(t, "prune") /\ UNCHANGED current
    BY <1>0, <1>3, <2>1 DEF TypeOK, NextPartition, Goto, bucket, history, Compacting
  <2>2. ASSUME NEW p \in Left(t), current' = [current EXCEPT ![t] = p], Goto(t, "check")
        PROVE  TypeOK'
    BY <1>0, <1>3, <2>2 DEF TypeOK, NextPartition, Left, Goto, bucket, history
  <2>3. QED
    BY <1>3, <2>1, <2>2 DEF NextPartition
<1>4. CASE SaveCheckpoint(t)
  <2>1. current[t] \in Partitions
    BY <1>4 DEF SaveCheckpoint, TypeOK, Compacting
  <2>2. /\ pc' \in [Tasks -> TaskPc] /\ pc'[t] \notin Compacting
        /\ \A u \in Tasks \ {t} : pc'[u] = pc[u]
    BY <1>0, <1>4, GotoType DEF SaveCheckpoint, TypeOK, Compacting
  <2>3. faults' \in Nat
    BY <1>4, FaultType DEF SaveCheckpoint, Answer, TypeOK
  <2>4. memory' \in [Tasks -> [Partitions -> SUBSET Segments]]
    BY <1>4, <2>1 DEF SaveCheckpoint, TypeOK
  <2>5. /\ checkpoint' \in [Partitions -> SUBSET Segments]
        /\ listing' \in [Tasks -> [Partitions -> SUBSET Segments]]
        /\ current' \in [Tasks -> Partitions \cup {None}]
        /\ \A u \in Tasks \ {t} : current'[u] = current[u]
    BY <1>4, <2>1, <2>4 DEF SaveCheckpoint, TypeOK
  <2>6. UNCHANGED <<source, output, copies, success, retained, lock, now, rest, merged, history>>
    BY <1>4 DEF SaveCheckpoint
  <2>7. QED
    BY <2>2, <2>3, <2>4, <2>5, <2>6 DEF TypeOK, history
<1>5. CASE PruneCheckpoint(t)
  <2>1. [p \in Partitions |-> IF Keeps(p) THEN memory[t][p] ELSE {}]
            \in [Partitions -> SUBSET Segments]
    BY DEF TypeOK
  <2>2. QED
    BY <1>0, <1>5, <2>1 DEF TypeOK, PruneCheckpoint, Goto, locals, history, Compacting
<1>6. QED
  BY <1>1, <1>2, <1>3, <1>4, <1>5 DEF Run

\* compact: the label changes to one of compact's own, "release" or "done".
LEMMA TypeCompact == ASSUME TypeOK, NEW t \in Tasks, Compact(t) PROVE TypeOK'
<1>0. Compacting \cup {"release"} \subseteq TaskPc
  BY DEF TaskPc, Working
<1>1. current[t] \in Partitions /\ UNCHANGED current
  BY DEF Compact, CheckSuccess, MergeOutput, Merged, PutOutput, Retained, PutSuccess,
         DeleteSources, MergeSource, RetainSource, locals, TypeOK, Compacting
<1>2. /\ pc' \in [Tasks -> TaskPc]
      /\ \A u \in Tasks \ {t} : pc'[u] = pc[u]
  <2>1. pc' = pc \/ \E label \in TaskPc : Goto(t, label) \/ Answer(t, label)
    BY <1>0
    DEF Compact, CheckSuccess, MergeOutput, Merged, PutOutput, Retained, PutSuccess, DeleteSources,
        MergeSource, RetainSource, Compacting
  <2>2. QED
    BY <2>1, GotoType DEF TypeOK
<1>3. faults' \in Nat
  BY FaultType
  DEF Compact, CheckSuccess, MergeOutput, Merged, PutOutput, Retained, PutSuccess, DeleteSources,
      MergeSource, RetainSource, Answer, TypeOK
<1>4. /\ source' \subseteq Segments /\ output' \subseteq Partitions /\ success' \subseteq Partitions
      /\ retained' \subseteq Segments
  BY <1>1
  DEF Compact, CheckSuccess, MergeOutput, Merged, PutOutput, Retained, PutSuccess, DeleteSources,
      MergeSource, RetainSource, bucket, TypeOK
<1>5. copies' \in [Segments -> Nat]
  <2>1. CASE PutOutput(t)
    BY <2>1 DEF PutOutput, TypeOK
  <2>2. CASE ~PutOutput(t)
    BY <2>2
    DEF Compact, CheckSuccess, MergeOutput, Merged, Retained, PutSuccess, DeleteSources, MergeSource,
        RetainSource, bucket, TypeOK
  <2>3. QED
    BY <2>1, <2>2
<1>6. rest' \in [Tasks -> SUBSET Segments] /\ merged' \in [Tasks -> [Segments -> Nat]]
  <2>1. CASE CheckSuccess(t)
    BY <1>1, <2>1 DEF CheckSuccess, TypeOK, NoCopies
  <2>2. CASE MergeOutput(t)
    BY <1>1, <2>2 DEF MergeOutput, TypeOK
  <2>3. CASE PutOutput(t)
    BY <1>1, <2>3 DEF PutOutput, TypeOK
  <2>4. ASSUME NEW s \in Segments, MergeSource(t, s)
        PROVE  rest' \in [Tasks -> SUBSET Segments] /\ merged' \in [Tasks -> [Segments -> Nat]]
    <3>1. merged[t] \in [Segments -> Nat] /\ merged[t][s] + 1 \in Nat
      BY DEF TypeOK
    <3>2. rest' \in [Tasks -> SUBSET Segments]
      <4>1. rest' = rest \/ rest' = [rest EXCEPT ![t] = rest[t] \ {s}]
        BY <2>4 DEF MergeSource
      <4>2. rest \in [Tasks -> SUBSET Segments] /\ rest[t] \ {s} \in SUBSET Segments
        BY DEF TypeOK
      <4>3. QED
        BY <4>1, <4>2
    <3>3. CASE merged' = [merged EXCEPT ![t][s] = @ + 1]
      BY <3>1, <3>2, <3>3 DEF TypeOK
    <3>4. QED
      BY <2>4, <3>2, <3>3 DEF MergeSource, TypeOK
  <2>5. ASSUME NEW s \in Segments, RetainSource(t, s)
        PROVE  rest' \in [Tasks -> SUBSET Segments] /\ merged' \in [Tasks -> [Segments -> Nat]]
    BY <2>5 DEF RetainSource, TypeOK
  <2>6. CASE Merged(t) \/ Retained(t) \/ PutSuccess(t) \/ DeleteSources(t)
    BY <2>6 DEF Merged, Retained, PutSuccess, DeleteSources, locals, TypeOK
  <2>7. QED
    BY <2>1, <2>2, <2>3, <2>4, <2>5, <2>6 DEF Compact
<1>7. UNCHANGED <<checkpoint, lock, now, memory, listing, uploaded, reuploads>>
  BY DEF Compact, CheckSuccess, MergeOutput, Merged, PutOutput, Retained, PutSuccess, DeleteSources,
      MergeSource, RetainSource, bucket, locals, history
<1>8. QED
  BY <1>1, <1>2, <1>3, <1>4, <1>5, <1>6, <1>7 DEF TypeOK

LEMMA TypeStep == ASSUME TypeOK, [Next]_vars PROVE TypeOK'
<1>1. CASE HourPasses \/ LockAges \/ UNCHANGED vars
  BY <1>1 DEF HourPasses, LockAges, vars, bucket, locals, history, TypeOK
<1>2. QED
  BY <1>1, TypeOutside, TypeAcquire, TypeRun, TypeCompact, TypeFault DEF Next

\* Every variable keeps its type, and a task inside compact has a partition.
THEOREM CompactorTypeCorrect == Spec => []TypeOK
  BY TypeInit, TypeStep, PTL DEF Spec

-----------------------------------------------------------------------------
(* The lock.                                                               *)

\* A step of run_partitions or compact is a step of a task at work, which stays at work.
LEMMA WorkerStep ==
    ASSUME TypeOK, NEW t \in Tasks, Run(t) \/ Compact(t)
    PROVE  /\ pc[t] \in Working \ {"release"} /\ pc'[t] \in Working
           /\ \A u \in Tasks \ {t} : pc'[u] = pc[u]
           /\ lock' = lock
<1>0. AfterError(t) = "release" \/ pc[t] \notin Working \ {"release"}
  BY DEF AfterError, Working, Compacting, Acquiring
<1>1. CASE Run(t)
  BY <1>0, <1>1
  DEF Run, LoadCheckpoint, ListSources, NextPartition, SaveCheckpoint, PruneCheckpoint, Goto, Answer,
      TypeOK, Working, Compacting
<1>2. ASSUME NEW s \in Segments, MergeSource(t, s) \/ RetainSource(t, s)
      PROVE  pc[t] \in Working \ {"release"} /\ pc'[t] \in Working /\ lock' = lock
             /\ \A u \in Tasks \ {t} : pc'[u] = pc[u]
  BY <1>2 DEF MergeSource, RetainSource, Goto, TypeOK, Working, Compacting
<1>3. CASE CheckSuccess(t) \/ MergeOutput(t) \/ Merged(t) \/ Retained(t)
  BY <1>3 DEF CheckSuccess, MergeOutput, Merged, Retained, Goto, TypeOK, Working, Compacting
<1>4. CASE PutOutput(t) \/ PutSuccess(t) \/ DeleteSources(t)
  BY <1>0, <1>4 DEF PutOutput, PutSuccess, DeleteSources, Goto, Answer, TypeOK, Working, Compacting
<1>5. QED
  BY <1>1, <1>2, <1>3, <1>4 DEF Compact

\* A failed request sends an acquiring task to "done" and a working one to "release" or "done".
LEMMA FaultStep ==
    ASSUME TypeOK, NEW t \in Tasks, RequestFails(t) \/ TaskDies(t)
    PROVE  /\ pc[t] \in Acquiring \cup Working
           /\ pc'[t] \in {"done", "dead", "release"} /\ (pc[t] \in Acquiring => pc'[t] # "release")
           /\ \A u \in Tasks \ {t} : pc'[u] = pc[u]
           /\ faults' = faults + 1 /\ UNCHANGED <<bucket, lock, now, locals, history>>
  BY DEF RequestFails, TaskDies, AfterError, Goto, Fault, TypeOK

LEMMA LockInit == Init => LockInv
  BY DEF Init, LockInv, MutualExclusion, Acquiring, Working, Compacting

LEMMA LockStep == ASSUME Overlap = FALSE, TypeOK, LockInv, [Next]_vars PROVE LockInv'
<1> USE DEF LockInv, MutualExclusion
<1>0. Acquiring \cap Working = {} /\ {"new", "done", "dead"} \cap (Acquiring \cup Working) = {}
      /\ "release" \in Working /\ "break" \notin Working
  BY DEF Acquiring, Working, Compacting
<1>1. ASSUME NEW t \in Tasks, Run(t) \/ Compact(t) PROVE LockInv'
  BY <1>0, <1>1, WorkerStep
<1>2. ASSUME NEW t \in Tasks, RequestFails(t) \/ TaskDies(t) PROVE LockInv'
  BY <1>0, <1>2, FaultStep
<1>3. ASSUME NEW t \in Tasks, Start(t) PROVE LockInv'
  BY <1>0, <1>3 DEF Start, Goto, TypeOK, Acquiring
<1>4. ASSUME NEW t \in Tasks, HeadLock(t) PROVE LockInv'
  BY <1>0, <1>4 DEF HeadLock, Goto, TypeOK, Acquiring
<1>5. ASSUME NEW t \in Tasks, BreakLock(t) PROVE LockInv'
  <2>1. \A u \in Tasks : pc[u] \notin Working
    BY <1>0, <1>5 DEF BreakLock
  <2>2. pc'[t] \in {"create", "done"} /\ \A u \in Tasks \ {t} : pc'[u] = pc[u]
    BY <1>5 DEF BreakLock, Answer, Goto, AfterError, Acquiring, TypeOK
  <2>3. pc[t] \in Acquiring
    BY <1>5 DEF BreakLock, Acquiring
  <2>4. QED
    BY <1>0, <2>1, <2>2, <2>3 DEF Acquiring
<1>6. ASSUME NEW t \in Tasks, CreateLock(t) PROVE LockInv'
  <2>0. pc[t] \in Acquiring /\ pc[t] = "create"
    BY <1>6 DEF CreateLock, Acquiring
  <2>1. CASE lock = "none" /\ lock' = "fresh" /\ Answer(t, "load")
    <3>1. \A u \in Tasks : pc[u] \notin Working /\ pc[u] # "break"
      BY <2>1
    <3>2. pc'[t] \in {"load", "done"} /\ \A u \in Tasks \ {t} : pc'[u] = pc[u]
      BY <2>0, <2>1 DEF Answer, Goto, AfterError, TypeOK
    <3>3. QED
      BY <1>0, <2>0, <2>1, <3>1, <3>2 DEF Acquiring, Working
  <2>2. CASE Goto(t, "done") /\ UNCHANGED lock
    BY <1>0, <2>0, <2>2 DEF Goto, TypeOK
  <2>3. QED
    BY <1>6, <2>1, <2>2 DEF CreateLock
<1>7. ASSUME NEW t \in Tasks, ReleaseLock(t) PROVE LockInv'
  BY <1>0, <1>7 DEF ReleaseLock, Goto, TypeOK
<1>8. ASSUME NEW s \in Segments, Upload(s) \/ Reupload(s) PROVE LockInv'
  BY <1>8 DEF Upload, Reupload
<1>9. CASE HourPasses \/ LockAges \/ UNCHANGED vars
  BY <1>0, <1>9 DEF HourPasses, LockAges, vars, Acquiring
<1>10. QED
  BY <1>1, <1>2, <1>3, <1>4, <1>5, <1>6, <1>7, <1>8, <1>9 DEF Next, Acquire

\* If tasks do not acquire the lock at the same time, at most one of them works on the bucket,
\* whatever requests fail, whichever tasks die, and although a stale lock is broken.
THEOREM OneTaskWorks == ASSUME Overlap = FALSE PROVE Spec => []MutualExclusion
<1>1. Init => TypeOK /\ LockInv
  BY TypeInit, LockInit
<1>2. TypeOK /\ LockInv /\ [Next]_vars => (TypeOK /\ LockInv)'
  BY TypeStep, LockStep
<1>3. LockInv => MutualExclusion
  BY DEF LockInv
<1>4. QED
  BY <1>1, <1>2, <1>3, PTL DEF Spec

-----------------------------------------------------------------------------
(* Steps outside run_partitions and compact.                               *)

Idle == Acquiring \cup {"load", "done", "dead", "release"}
\* They add to the prefix, and change the bucket in no other way; no task enters compact.
Quiet ==
    /\ UNCHANGED <<output, copies, success, retained, checkpoint, locals>>
    /\ source \subseteq source' /\ uploaded \subseteq uploaded'
    /\ uploaded' \ source' \subseteq uploaded \ source /\ source' \ source \subseteq uploaded'
    /\ \/ reuploads' = reuploads /\ (source' \ source) \cap uploaded = {}
       \/ \E s \in Segments : /\ source' = source \cup {s} /\ s \notin source
                              /\ reuploads' = [reuploads EXCEPT ![s] = @ + 1]
    /\ Faultless' => Faultless /\ \A t \in Tasks : pc[t] \in Compacting => pc'[t] = pc[t]
    /\ \A t \in Tasks :
          /\ pc'[t] = pc[t] \/ pc'[t] \in Idle
          /\ pc'[t] \in Working => pc[t] \in Working \cup Acquiring
          /\ pc'[t] \in Acquiring => pc[t] \in {"new"} \cup Acquiring
          /\ pc'[t] = "new" => pc[t] = "new"

LEMMA StepCases ==
    ASSUME TypeOK, [Next]_vars PROVE Quiet \/ \E t \in Tasks : Run(t) \/ Compact(t)
<1>0. Acquiring \cap Working = {} /\ {"new", "done", "dead"} \cap (Acquiring \cup Working) = {}
  BY DEF Acquiring, Working, Compacting
<1>1. ASSUME NEW t \in Tasks, RequestFails(t) \/ TaskDies(t) PROVE Quiet
  <2>1. \A u \in Tasks :
          /\ pc'[u] = pc[u] \/ pc'[u] \in Idle
          /\ pc'[u] \in Working => pc[u] \in Working \cup Acquiring
          /\ pc'[u] \in Acquiring => pc[u] \in {"new"} \cup Acquiring
          /\ pc'[u] = "new" => pc[u] = "new"
    BY <1>1, FaultStep DEF Idle, Acquiring
  <2>2. UNCHANGED <<bucket, locals, history>> /\ ~Faultless'
    BY <1>1, FaultStep DEF Faultless, TypeOK
  <2>3. QED
    BY <2>1, <2>2 DEF Quiet, bucket, history
<1>2. ASSUME NEW t \in Tasks, Start(t) PROVE Quiet
  BY <1>0, <1>2
  DEF Start, Goto, Quiet, Idle, bucket, history, Acquiring, Compacting, Faultless, TypeOK
<1>3. ASSUME NEW t \in Tasks, Acquire(t) PROVE Quiet
  <2>1. UNCHANGED <<bucket, locals, history>>
    BY <1>3 DEF Acquire, HeadLock, BreakLock, CreateLock, ReleaseLock
  <2>2. /\ pc[t] \in Acquiring \cup {"release"} /\ pc'[t] \in {"break", "create", "load", "done"}
        /\ pc[t] = "release" => pc'[t] = "done"
        /\ \A u \in Tasks \ {t} : pc'[u] = pc[u]
    BY <1>3
    DEF Acquire, HeadLock, BreakLock, CreateLock, ReleaseLock, Answer, Goto, AfterError, Acquiring,
        TypeOK
  <2>3. \A u \in Tasks :
          /\ pc'[u] = pc[u] \/ pc'[u] \in Idle
          /\ pc'[u] \in Working => pc[u] \in Working \cup Acquiring
          /\ pc'[u] \in Acquiring => pc[u] \in {"new"} \cup Acquiring
          /\ pc'[u] = "new" => pc[u] = "new"
    BY <1>0, <2>2 DEF Idle, Acquiring, Working
  <2>4. /\ Faultless' => Faultless
        /\ \A u \in Tasks : pc[u] \in Compacting => pc'[u] = pc[u]
    BY <1>3, <2>1, <2>2
    DEF Acquire, HeadLock, BreakLock, CreateLock, ReleaseLock, Answer, Fault, Faultless, history,
        Acquiring, Compacting, TypeOK
  <2>5. QED
    BY <2>1, <2>3, <2>4 DEF Quiet, bucket, history
<1>4. ASSUME NEW s \in Segments, Upload(s) \/ Reupload(s) PROVE Quiet
  BY <1>4 DEF Upload, Reupload, Quiet, Faultless, TypeOK
<1>5. CASE HourPasses \/ LockAges \/ UNCHANGED vars
  BY <1>5 DEF HourPasses, LockAges, vars, Quiet, bucket, history, Faultless
<1>6. QED
  BY <1>1, <1>2, <1>3, <1>4, <1>5 DEF Next

\* A step of one task leaves what another task remembers.
LEMMA OthersKeep ==
    ASSUME TypeOK, NEW t \in Tasks, Run(t) \/ Compact(t), NEW u \in Tasks \ {t}
    PROVE  /\ memory'[u] = memory[u] /\ listing'[u] = listing[u] /\ current'[u] = current[u]
           /\ rest'[u] = rest[u] /\ merged'[u] = merged[u]
<1>1. CASE Run(t)
  BY <1>1
  DEF Run, LoadCheckpoint, ListSources, NextPartition, SaveCheckpoint, PruneCheckpoint, TypeOK, locals
<1>2. ASSUME NEW s \in Segments, MergeSource(t, s) \/ RetainSource(t, s)
      PROVE  /\ memory'[u] = memory[u] /\ listing'[u] = listing[u] /\ current'[u] = current[u]
             /\ rest'[u] = rest[u] /\ merged'[u] = merged[u]
  BY <1>2 DEF MergeSource, RetainSource, TypeOK
<1>3. CASE CheckSuccess(t) \/ MergeOutput(t) \/ Merged(t) \/ Retained(t)
  BY <1>3 DEF CheckSuccess, MergeOutput, Merged, Retained, TypeOK, locals
<1>4. CASE PutOutput(t) \/ PutSuccess(t) \/ DeleteSources(t)
  BY <1>4 DEF PutOutput, PutSuccess, DeleteSources, TypeOK, locals
<1>5. QED
  BY <1>1, <1>2, <1>3, <1>4 DEF Compact

-----------------------------------------------------------------------------
(* Listings, and the output behind every marker.                           *)

LEMMA ListedInit == Init => ListedInv
  BY DEF Init, ListedInv, Sources, Compacting

LEMMA ListedStep == ASSUME TypeOK, ListedInv, [Next]_vars PROVE ListedInv'
<1> USE DEF ListedInv, Sources
<1>0. Compacting \cap Idle = {}
  BY DEF Compacting, Idle, Acquiring
<1>1. CASE Quiet
  BY <1>0, <1>1 DEF Quiet, locals
<1>2. ASSUME NEW t \in Tasks, Run(t) \/ Compact(t),
             \A p \in Partitions : listing'[t][p] \subseteq Of(p),
             pc'[t] \in Compacting => listing'[t][current'[t]] # {}
      PROVE  ListedInv'
  BY <1>2, WorkerStep, OthersKeep
<1>3. ASSUME NEW t \in Tasks, ListSources(t) PROVE ListedInv'
  BY <1>2, <1>3 DEF ListSources, Goto, Compacting, Run, TypeOK
<1>4. ASSUME NEW t \in Tasks, NextPartition(t) PROVE ListedInv'
  BY <1>2, <1>4 DEF NextPartition, Left, Goto, Compacting, Run, TypeOK
<1>5. ASSUME NEW t \in Tasks, SaveCheckpoint(t) PROVE ListedInv'
  <2>1. current[t] \in Partitions
    BY <1>5 DEF SaveCheckpoint, TypeOK, Compacting
  <2>2. pc'[t] \notin Compacting
    BY <1>5 DEF SaveCheckpoint, Answer, AfterError, Goto, TypeOK, Compacting, Acquiring
  <2>3. \A p \in Partitions : listing'[t][p] = IF p = current[t] THEN {} ELSE listing[t][p]
    BY <1>5, <2>1 DEF SaveCheckpoint, TypeOK
  <2>4. QED
    BY <1>2, <1>5, <2>2, <2>3 DEF Run
<1>6. ASSUME NEW t \in Tasks, LoadCheckpoint(t) \/ PruneCheckpoint(t) PROVE ListedInv'
  BY <1>2, <1>6 DEF LoadCheckpoint, PruneCheckpoint, Goto, Compacting, Run, locals, TypeOK
<1>7. ASSUME NEW t \in Tasks, Compact(t) PROVE ListedInv'
  <2>1. UNCHANGED <<listing, current>> /\ pc[t] \in Compacting
    BY <1>7 DEF Compact, CheckSuccess, MergeOutput, Merged, PutOutput, Retained, PutSuccess,
                DeleteSources, MergeSource, RetainSource, locals, Compacting
  <2>2. QED
    BY <1>2, <1>7, <2>1
<1>8. QED
  BY <1>1, <1>3, <1>4, <1>5, <1>6, <1>7, StepCases DEF Run

LEMMA OutputStep == ASSUME TypeOK, OutputInv, [Next]_vars PROVE OutputInv'
<1> USE DEF OutputInv, CompletedHasOutput
<1>0. Published \cap Idle = {} /\ Published \subseteq Compacting
  BY DEF Published, Compacting, Idle, Acquiring
<1>1. CASE Quiet
  BY <1>0, <1>1 DEF Quiet, locals
<1>2. ASSUME NEW t \in Tasks, Run(t) \/ Compact(t), output \subseteq output', success' \subseteq output',
             pc'[t] \in Published => current'[t] \in output'
      PROVE  OutputInv'
  BY <1>2, WorkerStep, OthersKeep
<1>3. ASSUME NEW t \in Tasks, Run(t) PROVE OutputInv'
  <2>1. UNCHANGED <<output, success>> /\ pc'[t] \notin Published
    BY <1>3
    DEF Run, LoadCheckpoint, ListSources, NextPartition, SaveCheckpoint, PruneCheckpoint, Goto,
        Answer, AfterError, Acquiring, Published, TypeOK, bucket
  <2>2. QED
    BY <1>2, <1>3, <2>1
<1>4. ASSUME NEW t \in Tasks, PutOutput(t) PROVE OutputInv'
  BY <1>2, <1>4 DEF PutOutput, Compact
<1>5. ASSUME NEW t \in Tasks, PutSuccess(t) PROVE OutputInv'
  BY <1>2, <1>5 DEF PutSuccess, Compact, locals, Published
<1>6. ASSUME NEW t \in Tasks, NEW s \in Segments, MergeSource(t, s) \/ RetainSource(t, s)
      PROVE  OutputInv'
  BY <1>2, <1>6 DEF MergeSource, RetainSource, Compact, Goto, TypeOK, bucket, locals, Published
<1>7. ASSUME NEW t \in Tasks, CheckSuccess(t) \/ MergeOutput(t) \/ Merged(t) PROVE OutputInv'
  BY <1>2, <1>7 DEF CheckSuccess, MergeOutput, Merged, Compact, Goto, TypeOK, bucket, Published
<1>8. ASSUME NEW t \in Tasks, Retained(t) \/ DeleteSources(t) PROVE OutputInv'
  BY <1>2, <1>8 DEF Retained, DeleteSources, Compact, bucket, locals, Published
<1>9. QED
  BY <1>1, <1>3, <1>4, <1>5, <1>6, <1>7, <1>8, StepCases DEF Compact

\* A success marker never stands without its output, however tasks overlap and requests fail:
\* compact never meets the partition it reports as missing its compacted output.
THEOREM MarkersHaveOutput == Spec => []CompletedHasOutput
<1>1. Init => TypeOK /\ OutputInv
  BY TypeInit DEF Init, OutputInv, CompletedHasOutput, Published
<1>2. TypeOK /\ OutputInv /\ [Next]_vars => (TypeOK /\ OutputInv)'
  BY TypeStep, OutputStep
<1>3. OutputInv => CompletedHasOutput
  BY DEF OutputInv
<1>4. QED
  BY <1>1, <1>2, <1>3, PTL DEF Spec

-----------------------------------------------------------------------------
(* Rows: what is deleted is in the output, and the output keeps it.        *)

LEMMA BaseInit == Init => Base
  BY TypeInit, LockInit, ListedInit
  DEF Base, Init, OutputInv, CompletedHasOutput, Published

LEMMA BaseStep == ASSUME Overlap = FALSE, Base, [Next]_vars PROVE Base'
  BY TypeStep, LockStep, ListedStep, OutputStep DEF Base

\* While a task works, every other is outside the critical section.
LEMMA Alone ==
    ASSUME Base, NEW t \in Tasks, Run(t) \/ Compact(t)
    PROVE  \A u \in Tasks \ {t} : pc[u] \notin Working /\ pc'[u] \notin Working
  BY WorkerStep DEF Base, LockInv, MutualExclusion

\* So only its own stage has to be looked at.
LEMMA IdleSecured ==
    ASSUME NEW t \in Tasks, pc'[t] \notin Merging \cup Published \cup {"mergeOutput"}
    PROVE  Secured(t)'
  BY DEF Secured, MergeCovers, OutputCovers, RetentionCovers, MarkedFirst, Merging, Published

LEMMA OwnSecured ==
    ASSUME Base, NEW t \in Tasks, Run(t) \/ Compact(t), Secured(t)'
    PROVE  \A u \in Tasks : Secured(u)'
<1>1. Merging \cup Published \cup {"mergeOutput"} \subseteq Working
  BY DEF Merging, Published, Working, Compacting
<1>2. ASSUME NEW u \in Tasks \ {t} PROVE Secured(u)'
  BY <1>1, Alone, IdleSecured
<1>3. QED
  BY <1>2

LEMMA QuietRows == ASSUME Base, RowInv, Quiet PROVE RowInv'
<1>0. Merging \cup Published \cup {"mergeOutput"} \subseteq Compacting /\ Compacting \cap Idle = {}
  BY DEF Merging, Published, Compacting, Idle, Acquiring
<1>1. ASSUME NEW t \in Tasks PROVE Secured(t)'
  <2>1. CASE pc'[t] \in Idle
    BY <1>0, <2>1, IdleSecured
  <2>2. CASE pc'[t] = pc[t]
    BY <2>2
    DEF Quiet, RowInv, Secured, MergeCovers, OutputCovers, RetentionCovers, MarkedFirst, Sources,
        locals
  <2>3. QED
    BY <2>1, <2>2 DEF Quiet
<1>2. GoneMarked' /\ NoRowLost'
  BY DEF Quiet, RowInv, GoneMarked, NoRowLost
<1>3. QED
  BY <1>1, <1>2 DEF RowInv

LEMMA RunRows == ASSUME Base, RowInv, NEW t \in Tasks, Run(t) PROVE RowInv'
<1>1. UNCHANGED <<source, output, copies, success, uploaded>>
  BY DEF Run, LoadCheckpoint, ListSources, NextPartition, SaveCheckpoint, PruneCheckpoint, bucket,
         history
<1>2. pc'[t] \notin Merging \cup Published \cup {"mergeOutput"}
  BY DEF Run, LoadCheckpoint, ListSources, NextPartition, SaveCheckpoint, PruneCheckpoint, Goto,
         Answer, AfterError, Acquiring, Merging, Published, TypeOK, Base
<1>3. QED
  BY <1>1, <1>2, IdleSecured, OwnSecured DEF RowInv, GoneMarked, NoRowLost

\* merge reads: the bucket stays, the merge grows.
LEMMA MergeRows ==
    ASSUME Base, RowInv, NEW t \in Tasks,
           CheckSuccess(t) \/ MergeOutput(t) \/ Merged(t) \/ \E s \in Segments : MergeSource(t, s)
    PROVE  RowInv'
<1>1. UNCHANGED <<source, output, copies, success, retained, listing, current, uploaded>>
      /\ Compact(t) /\ current[t] \in Partitions
  BY DEF CheckSuccess, MergeOutput, Merged, MergeSource, Compact, bucket, locals, history, Base,
         TypeOK, Compacting
<1>2. SUFFICES Secured(t)'
  BY <1>1, OwnSecured DEF RowInv, GoneMarked, NoRowLost
<1> USE DEF Secured, MergeCovers, OutputCovers, RetentionCovers, MarkedFirst, Sources, Merging,
            Published
<1>3. CASE CheckSuccess(t)
  BY <1>1, <1>3 DEF CheckSuccess, Goto, Base, TypeOK
<1>4. CASE MergeOutput(t)
  BY <1>1, <1>4 DEF MergeOutput, Goto, Base, TypeOK, RowInv, Of
<1>5. CASE Merged(t)
  BY <1>1, <1>5 DEF Merged, Goto, Base, TypeOK, RowInv, locals
<1>6. ASSUME NEW s \in Segments, MergeSource(t, s) PROVE Secured(t)'
  <2>1. CASE pc'[t] = "release"
    BY <2>1
  <2>2. CASE /\ pc' = pc /\ merged' = [merged EXCEPT ![t][s] = @ + 1]
             /\ rest' = [rest EXCEPT ![t] = @ \ {s}]
    <3>1. \A r \in Segments : merged'[t][r] = IF r = s THEN merged[t][s] + 1 ELSE merged[t][r]
      BY <2>2 DEF Base, TypeOK
    <3>2. rest'[t] = rest[t] \ {s} /\ pc[t] = "merge" /\ Sources(t) \subseteq Segments
      BY <1>1, <1>6, <2>2 DEF MergeSource, Base, TypeOK
    <3>3. \A r \in Segments : merged[t][r] \in Nat
      BY DEF Base, TypeOK
    <3>4. Secured(t)
      BY DEF RowInv
    <3>5. QED
      BY <1>1, <2>2, <3>1, <3>2, <3>3, <3>4 DEF Of
  <2>3. QED
    BY <1>6, <2>1, <2>2 DEF MergeSource, Goto, Base, TypeOK
<1>7. QED
  BY <1>3, <1>4, <1>5, <1>6

\* The upload replaces the output of one partition by a merge that covers it.
LEMMA PutRows == ASSUME Base, RowInv, NEW t \in Tasks, PutOutput(t) PROVE RowInv'
<1> DEFINE p == current[t]
<1>1. /\ UNCHANGED <<source, success, retained, listing, current, merged, uploaded>>
      /\ Compact(t) /\ p \in Partitions /\ pc[t] = "put" /\ output' = output \cup {p}
      /\ pc'[t] \in {"retain", "release"} /\ rest'[t] = Sources(t)
  BY DEF PutOutput, Compact, history, Base, TypeOK, Compacting, Answer, Goto, AfterError, Acquiring,
         Sources
<1>2. \A s \in Segments : copies'[s] = IF s \in Of(p) THEN merged[t][s] ELSE copies[s]
  BY DEF PutOutput
<1>3. MergeCovers(t) /\ Sources(t) \subseteq Of(p) /\ Of(p) \subseteq Segments
  BY <1>1 DEF RowInv, Secured, Base, ListedInv, Sources, Of
<1>4. Secured(t)'
  <2>1. OutputCovers(t)'
    BY <1>1, <1>2, <1>3 DEF OutputCovers, MergeCovers, Sources
  <2>2. RetentionCovers(t)' /\ MarkedFirst(t)' /\ MergeCovers(t)'
    BY <1>1 DEF RetentionCovers, MarkedFirst, MergeCovers, Merging, Sources
  <2>3. QED
    BY <2>1, <2>2 DEF Secured
<1>5. ASSUME NEW s \in uploaded, s \notin source PROVE HourOf[s] \in output' /\ copies'[s] > 0
  <2>1. s \in Segments /\ HourOf[s] \in success /\ HourOf[s] \in output /\ copies[s] > 0
    BY <1>5 DEF RowInv, GoneMarked, NoRowLost, Base, TypeOK
  <2>2. CASE s \in Of(p)
    BY <1>1, <1>2, <1>3, <2>1, <2>2 DEF MergeCovers, Merging, Of
  <2>3. CASE s \notin Of(p)
    BY <1>1, <1>2, <2>1, <2>3
  <2>4. QED
    BY <2>2, <2>3
<1>6. GoneMarked' /\ NoRowLost'
  BY <1>1, <1>5 DEF RowInv, GoneMarked, NoRowLost
<1>7. QED
  BY <1>1, <1>4, <1>6, OwnSecured DEF RowInv

\* From the upload on the output stays; sources go only when all of that is secured.
LEMMA DeleteRows ==
    ASSUME Base, RowInv, NEW t \in Tasks,
           Retained(t) \/ PutSuccess(t) \/ DeleteSources(t) \/ \E s \in Segments : RetainSource(t, s)
    PROVE  RowInv'
<1>1. UNCHANGED <<output, copies, listing, current, merged, uploaded>> /\ success \subseteq success'
      /\ Compact(t) /\ retained \subseteq retained' /\ pc[t] \in Published
  BY DEF Retained, PutSuccess, DeleteSources, RetainSource, Compact, bucket, locals, history,
         Published
<1>2. Secured(t)'
  <2>0. Secured(t)
    BY DEF RowInv
  <2> USE <2>0 DEF Secured, MergeCovers, OutputCovers, RetentionCovers, MarkedFirst, Sources,
                   Merging, Published
  <2>1. CASE Retained(t)
    BY <1>1, <2>1 DEF Retained, Goto, Base, TypeOK, bucket, locals
  <2>2. CASE PutSuccess(t)
    BY <1>1, <2>2 DEF PutSuccess, Answer, AfterError, Acquiring, Goto, Base, TypeOK, locals
  <2>3. CASE DeleteSources(t)
    BY <1>1, <2>3 DEF DeleteSources, Answer, AfterError, Acquiring, Goto, Base, TypeOK, locals
  <2>4. ASSUME NEW s \in Segments, RetainSource(t, s) PROVE Secured(t)'
    BY <1>1, <2>4 DEF RetainSource, Goto, Base, TypeOK
  <2>5. QED
    BY <2>1, <2>2, <2>3, <2>4
<1>3. ASSUME NEW s \in source \ source' 
      PROVE  HourOf[s] \in success /\ HourOf[s] \in output /\ copies[s] > 0
  <2>1. DeleteSources(t)
    BY <1>3 DEF Retained, PutSuccess, RetainSource, bucket
  <2>2. s \in Sources(t) /\ pc[t] = "delete" /\ current[t] \in Partitions
    BY <1>3, <2>1 DEF DeleteSources, Deleted, Sources, Base, TypeOK, Compacting
  <2>3. QED
    BY <2>2 DEF RowInv, Secured, OutputCovers, MarkedFirst, Base, ListedInv, OutputInv, Published,
                Sources, Of
<1>4. GoneMarked' /\ NoRowLost'
  BY <1>1, <1>3 DEF RowInv, GoneMarked, NoRowLost
<1>5. QED
  BY <1>1, <1>2, <1>4, OwnSecured DEF RowInv

LEMMA RowInit == Init => RowInv
  BY DEF Init, RowInv, Secured, MergeCovers, OutputCovers, RetentionCovers, MarkedFirst, GoneMarked,
         NoRowLost, Merging, Published

LEMMA RowStep == ASSUME Base, RowInv, [Next]_vars PROVE RowInv'
  BY StepCases, QuietRows, RunRows, MergeRows, PutRows, DeleteRows DEF Base, Compact

\* If tasks do not acquire the lock at the same time, the rows of every uploaded segment stay in
\* the production prefix, in the segment or in its partition's output, whatever requests fail
\* (with or without their effect), wherever tasks die and whatever is uploaded late or again.
THEOREM CompactionLosesNoRow == ASSUME Overlap = FALSE PROVE Spec => []NoRowLost
<1>1. Init => Base /\ RowInv
  BY BaseInit, RowInit
<1>2. Base /\ RowInv /\ [Next]_vars => (Base /\ RowInv)'
  BY BaseStep, RowStep
<1>3. RowInv => NoRowLost
  BY DEF RowInv
<1>4. QED
  BY <1>1, <1>2, <1>3, PTL DEF Spec

\* A source object disappears only when its rows are in the output, a copy of it is retained and
\* the success marker of its partition is there: delete_sources comes last.
THEOREM CompactionDeletesSafely == ASSUME Overlap = FALSE PROVE Spec => DeletionSafe
<1>1. Init => Base /\ RowInv
  BY BaseInit, RowInit
<1>2. Base /\ RowInv /\ [Next]_vars => (Base /\ RowInv)'
  BY BaseStep, RowStep
<1>3. ASSUME Base, RowInv, [Next]_vars, NEW s \in source \ source'
      PROVE  s \in retained /\ copies[s] > 0 /\ HourOf[s] \in output \cap success
  <2>1. PICK t \in Tasks : DeleteSources(t)
    BY <1>3, StepCases
    DEF Quiet, Run, Compact, LoadCheckpoint, ListSources, NextPartition, SaveCheckpoint,
        PruneCheckpoint, CheckSuccess, MergeOutput, Merged, PutOutput, Retained, PutSuccess,
        MergeSource, RetainSource, bucket, Base
  <2>2. s \in Sources(t) /\ pc[t] = "delete" /\ current[t] \in Partitions
    BY <1>3, <2>1 DEF DeleteSources, Deleted, Sources, Base, TypeOK, Compacting
  <2>3. QED
    BY <1>3, <2>2 DEF RowInv, Secured, OutputCovers, RetentionCovers, MarkedFirst, Base, ListedInv,
                      OutputInv, Published, Sources, Of
<1>4. Base /\ RowInv /\ [Next]_vars =>
        [\A s \in source \ source' :
            s \in retained /\ copies[s] > 0 /\ HourOf[s] \in output \cap success]_vars
  BY <1>3
<1>5. QED
  BY <1>1, <1>2, <1>4, PTL DEF Spec, DeletionSafe

-----------------------------------------------------------------------------
(* The checkpoint.                                                         *)

\* Under a marker, rows that are in the output stay in it.
LEMMA MarkedRowsStay ==
    ASSUME Base, RowInv, [Next]_vars
    PROVE  /\ success \subseteq success'
           /\ \A s \in Segments : HourOf[s] \in success /\ copies[s] > 0 => copies'[s] > 0
<1>1. ASSUME NEW t \in Tasks, PutOutput(t), NEW s \in Segments, HourOf[s] \in success, copies[s] > 0
      PROVE  copies'[s] > 0
  <2>1. copies'[s] = IF s \in Of(current[t]) THEN merged[t][s] ELSE copies[s]
    BY <1>1 DEF PutOutput
  <2>2. MergeCovers(t) /\ pc[t] = "put"
    BY <1>1 DEF RowInv, Secured, PutOutput
  <2>3. QED
    BY <1>1, <2>1, <2>2 DEF MergeCovers, Merging, Of
<1>2. ASSUME NEW t \in Tasks, Run(t) \/ Compact(t), ~PutOutput(t)
      PROVE  success \subseteq success' /\ copies' = copies
  BY <1>2
  DEF Run, Compact, LoadCheckpoint, ListSources, NextPartition, SaveCheckpoint, PruneCheckpoint,
      CheckSuccess, MergeOutput, Merged, Retained, PutSuccess, DeleteSources, MergeSource,
      RetainSource, bucket
<1>3. ASSUME NEW t \in Tasks, PutOutput(t) PROVE success' = success
  BY <1>3 DEF PutOutput
<1>4. QED
  BY <1>1, <1>2, <1>3, StepCases DEF Base, Quiet

LEMMA EntryInit == Init => EntryInv
  BY DEF Init, EntryInv, Entry, Working, Compacting

LEMMA EntryStep == ASSUME Base, RowInv, EntryInv, [Next]_vars PROVE EntryInv'
<1>0. /\ success \subseteq success'
      /\ \A s \in Segments : HourOf[s] \in success /\ copies[s] > 0 => copies'[s] > 0
  BY MarkedRowsStay
<1>1. ASSUME Entry(checkpoint), checkpoint' = checkpoint PROVE Entry(checkpoint)'
  BY <1>0, <1>1 DEF Entry, Of
<1>2. ASSUME NEW t \in Tasks, Entry(memory[t]), memory'[t] = memory[t] PROVE Entry(memory[t])'
  BY <1>0, <1>2 DEF Entry, Of
<1>3. CASE Quiet
  <2>1. ASSUME NEW t \in Tasks, pc'[t] \in Working PROVE Entry(memory[t])'
    <3>1. memory'[t] = memory[t]
      BY <1>3 DEF Quiet, locals
    <3>2. CASE pc[t] \in Working
      BY <1>2, <3>1, <3>2 DEF EntryInv
    <3>3. CASE pc[t] \in Acquiring
      BY <3>1, <3>3 DEF EntryInv, Entry
    <3>4. QED
      BY <1>3, <2>1, <3>2, <3>3 DEF Quiet
  <2>2. QED
    BY <1>1, <1>3, <2>1 DEF EntryInv, Quiet, locals
<1>4. ASSUME NEW t \in Tasks, Run(t) \/ Compact(t), Entry(checkpoint)', Entry(memory[t])'
      PROVE  EntryInv'
  <2>1. \A u \in Tasks \ {t} : pc'[u] = pc[u] /\ pc'[u] \notin Working /\ memory'[u] = memory[u]
    BY <1>4, Alone, WorkerStep, OthersKeep DEF Base
  <2>2. pc'[t] \in Working /\ Working \cap ({"new"} \cup Acquiring) = {}
    BY <1>4, WorkerStep DEF Base, Working, Compacting, Acquiring
  <2>3. QED
    BY <1>4, <2>1, <2>2 DEF EntryInv
<1>5. ASSUME NEW t \in Tasks, Run(t) \/ Compact(t) PROVE Entry(memory[t]) /\ Entry(checkpoint)
  BY <1>5, WorkerStep DEF EntryInv, Base
<1>6. ASSUME NEW t \in Tasks, LoadCheckpoint(t) PROVE EntryInv'
  <2>1. Run(t) /\ checkpoint' = checkpoint /\ memory'[t] = checkpoint
    BY <1>6 DEF LoadCheckpoint, Run, bucket, Base, TypeOK
  <2>2. Entry(checkpoint)'
    BY <1>1, <1>5, <2>1
  <2>3. Entry(memory[t])'
    BY <2>1, <2>2 DEF Entry
  <2>4. QED
    BY <1>4, <2>1, <2>2, <2>3
<1>7. ASSUME NEW t \in Tasks, SaveCheckpoint(t) PROVE EntryInv'
  <2>1. Run(t) /\ checkpoint' = memory'[t] /\ pc[t] = "save" /\ current[t] \in Partitions
    BY <1>7 DEF SaveCheckpoint, Run, Base, TypeOK, Compacting
  <2>2. \A p \in Partitions : memory'[t][p] = IF p = current[t] THEN Sources(t) ELSE memory[t][p]
    BY <1>7, <2>1 DEF SaveCheckpoint, Sources, Base, TypeOK
  <2>3. \A s \in Sources(t) : s \in Of(current[t]) /\ copies[s] > 0 /\ current[t] \in success
    BY <2>1 DEF RowInv, Secured, OutputCovers, MarkedFirst, Published, Base, ListedInv, Sources
  <2>4. UNCHANGED <<copies, success>>
    BY <1>7 DEF SaveCheckpoint
  <2>5. Entry(memory[t])'
    BY <1>5, <2>1, <2>2, <2>3, <2>4 DEF Entry
  <2>6. Entry(checkpoint)'
    BY <2>1, <2>5 DEF Entry
  <2>7. QED
    BY <1>4, <2>1, <2>5, <2>6
<1>8. ASSUME NEW t \in Tasks, PruneCheckpoint(t) PROVE EntryInv'
  <2>1. /\ Run(t) /\ memory' = memory /\ UNCHANGED <<copies, success>>
        /\ \A p \in Partitions : checkpoint'[p] \subseteq memory[t][p]
    BY <1>8 DEF PruneCheckpoint, Run, locals
  <2>2. Entry(memory[t])'
    BY <1>2, <1>5, <2>1
  <2>3. Entry(checkpoint)'
    BY <1>5, <2>1 DEF Entry
  <2>4. QED
    BY <1>4, <2>1, <2>2, <2>3
<1>9. ASSUME NEW t \in Tasks, ListSources(t) \/ NextPartition(t) \/ Compact(t) PROVE EntryInv'
  <2>1. UNCHANGED <<checkpoint, memory>>
    BY <1>9
    DEF ListSources, NextPartition, Compact, CheckSuccess, MergeOutput, Merged, PutOutput, Retained,
        PutSuccess, DeleteSources, MergeSource, RetainSource, bucket, locals
  <2>2. QED
    BY <1>1, <1>2, <1>4, <1>5, <1>9, <2>1 DEF Run
<1>10. QED
  BY <1>3, <1>6, <1>7, <1>8, <1>9, StepCases DEF Run, Base

\* If tasks do not acquire the lock at the same time, a checkpoint entry, saved or in the memory
\* of the working task, lists only sources whose rows are in the output: skipping a partition
\* whose listing equals its entry hides no row, although outputs are replaced meanwhile.
THEOREM CheckpointNeverLies == ASSUME Overlap = FALSE PROVE Spec => []CheckpointHonest
<1>1. Init => Base /\ RowInv /\ EntryInv
  BY BaseInit, RowInit, EntryInit
<1>2. Base /\ RowInv /\ EntryInv /\ [Next]_vars => (Base /\ RowInv /\ EntryInv)'
  BY BaseStep, RowStep, EntryStep
<1>3. EntryInv => CheckpointHonest
  BY DEF EntryInv, Entry, CheckpointHonest
<1>4. QED
  BY <1>1, <1>2, <1>3, PTL DEF Spec

LEMMA DivBounds ==
    ASSUME NEW n \in Int, NEW d \in Nat \ {0}
    PROVE  n \div d \in Int /\ d * (n \div d) <= n /\ n < d * (n \div d) + d
  OBVIOUS

LEMMA TimesMonotone ==
    ASSUME NEW d \in Nat, NEW a \in Int, NEW b \in Int, a <= b PROVE d * a <= d * b
  OBVIOUS

\* The cutoff of prune_checkpoint lies before every date discover still walks.
LEMMA DiscoverableKept == ASSUME TypeOK, NEW p \in Partitions, Discoverable(p) PROVE Keeps(p)
<1> DEFINE b == now - Lookback
<1>1. p \in Nat /\ b \in Int /\ DayHours \in Nat \ {0} /\ Lookback \in Nat /\ now \in Nat
  BY SegmentAssumption, LimitAssumption DEF TypeOK, Partitions
<1>2. /\ p \div DayHours \in Int /\ DayHours * (p \div DayHours) <= p
      /\ b \div DayHours \in Int /\ b < DayHours * (b \div DayHours) + DayHours
  BY <1>1, DivBounds
<1>3. b \div DayHours <= p \div DayHours
  BY <1>1, <1>2 DEF Discoverable
<1>4. DayHours * (b \div DayHours) <= DayHours * (p \div DayHours)
  BY <1>1, <1>2, <1>3, TimesMonotone
<1>5. \A x, y \in Int : b < x + DayHours /\ x <= y /\ y <= p => p >= b - DayHours
  BY <1>1
<1>6. QED
  BY <1>1, <1>2, <1>4, <1>5 DEF Keeps

LEMMA MemoryStep == ASSUME Base, MemoryKnows, [Next]_vars PROVE MemoryKnows'
<1>0. (Working \ {"load", "release"}) \cap Idle = {}
  BY DEF Working, Compacting, Idle, Acquiring
<1>1. CASE Quiet
  BY <1>0, <1>1 DEF Quiet, MemoryKnows, locals
<1>2. ASSUME NEW t \in Tasks, Run(t) \/ Compact(t),
             pc'[t] # "release" => \A p \in Partitions : checkpoint'[p] # {} => memory'[t][p] # {}
      PROVE  MemoryKnows'
  BY <1>2, Alone DEF MemoryKnows
<1>3. ASSUME NEW t \in Tasks, LoadCheckpoint(t) \/ SaveCheckpoint(t) PROVE MemoryKnows'
  <2>1. checkpoint' = memory'[t]
    BY <1>3 DEF LoadCheckpoint, SaveCheckpoint, bucket, Base, TypeOK
  <2>2. QED
    BY <1>2, <1>3, <2>1 DEF Run
<1>4. ASSUME NEW t \in Tasks, PruneCheckpoint(t) PROVE MemoryKnows'
  BY <1>2, <1>4 DEF PruneCheckpoint, Goto, Run, Base, TypeOK
<1>5. ASSUME NEW t \in Tasks, ListSources(t) \/ NextPartition(t) \/ Compact(t) PROVE MemoryKnows'
  <2>1. UNCHANGED <<checkpoint, memory>> /\ pc[t] # "load"
    BY <1>5
    DEF ListSources, NextPartition, Compact, CheckSuccess, MergeOutput, Merged, PutOutput, Retained,
        PutSuccess, DeleteSources, MergeSource, RetainSource, bucket, locals
  <2>2. pc[t] \in Working \ {"load", "release"}
    BY <1>5, <2>1, WorkerStep DEF Base, Run
  <2>3. QED
    BY <1>2, <1>5, <2>1, <2>2 DEF MemoryKnows, Run
<1>6. QED
  BY <1>1, <1>3, <1>4, <1>5, StepCases DEF Run, Base

\* If tasks do not acquire the lock at the same time, an entry of the checkpoint stays as long as
\* a listing can still find its partition: no save is lost to another task's, and prune_checkpoint
\* never reaches into the dates discover walks, for any lookback and any length of a date.
THEOREM CheckpointKeepsDiscoverable == ASSUME Overlap = FALSE PROVE Spec => CheckpointKept
<1>1. Init => Base /\ MemoryKnows
  BY BaseInit DEF Init, MemoryKnows, Working, Compacting
<1>2. Base /\ MemoryKnows /\ [Next]_vars => (Base /\ MemoryKnows)'
  BY BaseStep, MemoryStep
<1>3. ASSUME Base, MemoryKnows, [Next]_vars,
             NEW p \in Partitions, Discoverable(p), checkpoint[p] # {}
      PROVE  checkpoint'[p] # {}
  <2>1. ASSUME NEW t \in Tasks, SaveCheckpoint(t) PROVE checkpoint'[p] # {}
    <3>1. /\ pc[t] = "save" /\ checkpoint' = memory'[t] /\ current[t] \in Partitions
          /\ pc[t] \in Compacting /\ pc[t] \in Working \ {"load", "release"}
      BY <1>3, <2>1 DEF SaveCheckpoint, Base, TypeOK, Compacting, Working
    <3>2. memory'[t][p] = IF p = current[t] THEN Sources(t) ELSE memory[t][p]
      BY <1>3, <2>1, <3>1 DEF SaveCheckpoint, Sources, Base, TypeOK
    <3>3. Sources(t) # {} /\ memory[t][p] # {}
      BY <1>3, <3>1 DEF Base, ListedInv, MemoryKnows
    <3>4. QED
      BY <3>1, <3>2, <3>3
  <2>2. ASSUME NEW t \in Tasks, PruneCheckpoint(t) PROVE checkpoint'[p] # {}
    <3>1. pc[t] \in Working \ {"load", "release"}
      BY <2>2 DEF PruneCheckpoint, Working
    <3>2. Keeps(p) /\ memory[t][p] # {}
      BY <1>3, <3>1, DiscoverableKept DEF Base, MemoryKnows
    <3>3. QED
      BY <2>2, <3>2 DEF PruneCheckpoint
  <2>3. ASSUME NEW t \in Tasks,
               LoadCheckpoint(t) \/ ListSources(t) \/ NextPartition(t) \/ Compact(t)
        PROVE  checkpoint' = checkpoint
    BY <2>3
    DEF LoadCheckpoint, ListSources, NextPartition, Compact, CheckSuccess, MergeOutput, Merged,
        PutOutput, Retained, PutSuccess, DeleteSources, MergeSource, RetainSource, bucket
  <2>4. QED
    BY <1>3, <2>1, <2>2, <2>3, StepCases DEF Run, Quiet, Base
<1>4. Base /\ MemoryKnows /\ [Next]_vars =>
        [\A p \in Partitions : Discoverable(p) /\ checkpoint[p] # {} => checkpoint'[p] # {}]_vars
  BY <1>3
<1>5. QED
  BY <1>1, <1>2, <1>4, PTL DEF Spec, CheckpointKept

-----------------------------------------------------------------------------
(* Rows counted once.                                                      *)

LEMMA FoundInit == Init => FoundInv
  BY DEF Init, FoundInv, Uploaded, ListedThere, MergedUploaded, NoCopies, Listed, Compacting, Merging

\* Only the stage of the task that takes the step has to be looked at.
LEMMA OwnFound ==
    ASSUME Base, NEW t \in Tasks, Run(t) \/ Compact(t),
           Uploaded', ListedThere(t)', MergedUploaded(t)'
    PROVE  FoundInv'
<1>1. Listed \cup Merging \cup {"mergeOutput", "merge", "retain"} \subseteq Working
  BY DEF Listed, Merging, Working, Compacting
<1>2. ASSUME NEW u \in Tasks \ {t} PROVE ListedThere(u)' /\ MergedUploaded(u)'
  BY <1>1, Alone DEF ListedThere, MergedUploaded
<1>3. QED
  BY <1>2 DEF FoundInv

LEMMA QuietFound == ASSUME Base, FoundInv, Quiet PROVE FoundInv'
<1>0. Listed \cap Idle = {} /\ Merging \cap Idle = {} /\ {"mergeOutput", "merge", "retain"} \cap Idle = {}
  BY DEF Listed, Merging, Compacting, Idle, Acquiring
<1>1. Uploaded'
  BY DEF FoundInv, Uploaded, Quiet
<1>2. ASSUME NEW t \in Tasks PROVE ListedThere(t)' /\ MergedUploaded(t)'
  <2>1. CASE pc'[t] \in Idle
    BY <1>0, <2>1 DEF ListedThere, MergedUploaded
  <2>2. CASE pc'[t] = pc[t]
    BY <2>2 DEF FoundInv, ListedThere, MergedUploaded, Quiet, locals, Sources
  <2>3. QED
    BY <2>1, <2>2 DEF Quiet
<1>3. QED
  BY <1>1, <1>2 DEF FoundInv

LEMMA RunFound == ASSUME Base, FoundInv, NEW t \in Tasks, Run(t) PROVE FoundInv'
<1>1. Uploaded'
  BY DEF FoundInv, Uploaded, Run, LoadCheckpoint, ListSources, NextPartition, SaveCheckpoint,
         PruneCheckpoint, bucket, history
<1>2. MergedUploaded(t)' /\ pc'[t] \notin {"mergeOutput", "merge", "retain", "save"}
  BY DEF Run, LoadCheckpoint, ListSources, NextPartition, SaveCheckpoint, PruneCheckpoint, Goto,
         Answer, AfterError, Acquiring, MergedUploaded, Merging, Base, TypeOK
<1>3. source' = source
  BY DEF Run, LoadCheckpoint, ListSources, NextPartition, SaveCheckpoint, PruneCheckpoint, bucket
<1>4. pc'[t] \in Listed => \A p \in Partitions : listing'[t][p] \subseteq source
  <2>1. CASE LoadCheckpoint(t) \/ PruneCheckpoint(t)
    BY <2>1 DEF LoadCheckpoint, PruneCheckpoint, Goto, Listed, Compacting, Base, TypeOK
  <2>2. CASE ListSources(t)
    BY <2>2 DEF ListSources, Base, TypeOK
  <2>3. CASE NextPartition(t)
    <3>1. pc[t] = "next" /\ listing' = listing
      BY <2>3 DEF NextPartition
    <3>2. QED
      BY <3>1 DEF FoundInv, ListedThere, Listed
  <2>4. CASE SaveCheckpoint(t)
    <3>1. pc[t] = "save" /\ current[t] \in Partitions
      BY <2>4 DEF SaveCheckpoint, Base, TypeOK, Compacting
    <3>2. \A p \in Partitions : listing'[t][p] = IF p = current[t] THEN {} ELSE listing[t][p]
      BY <2>4, <3>1 DEF SaveCheckpoint, Base, TypeOK
    <3>3. QED
      BY <3>1, <3>2 DEF FoundInv, ListedThere, Listed, Compacting
  <2>5. QED
    BY <2>1, <2>2, <2>3, <2>4 DEF Run
<1>5. ListedThere(t)'
  BY <1>2, <1>3, <1>4 DEF ListedThere
<1>6. QED
  BY <1>1, <1>2, <1>5, OwnFound

\* compact up to the deletion: the prefix only grows.
LEMMA CompactFound ==
    ASSUME Base, FoundInv, NEW t \in Tasks, Compact(t), ~DeleteSources(t) PROVE FoundInv'
<1>0. /\ UNCHANGED <<source, uploaded, listing, current>> /\ pc[t] \in Compacting
      /\ pc[t] # "save" /\ pc'[t] # "save"
  BY DEF Compact, CheckSuccess, MergeOutput, Merged, PutOutput, Retained, PutSuccess, MergeSource,
         RetainSource, Answer, AfterError, Goto, bucket, locals, history, Compacting, Base, TypeOK
<1>1. ASSUME pc'[t] \in {"mergeOutput", "merge", "retain"} => rest'[t] \subseteq Sources(t)
      PROVE  ListedThere(t)'
  BY <1>0, <1>1 DEF FoundInv, ListedThere, Listed, Sources
<1>2. CASE CheckSuccess(t)
  <2>1. MergedUploaded(t)' /\ Uploaded'
    BY <1>0, <1>2
    DEF CheckSuccess, FoundInv, Uploaded, MergedUploaded, NoCopies, bucket, Base, TypeOK
  <2>2. rest'[t] = Sources(t)
    BY <1>2 DEF CheckSuccess, Sources, Base, TypeOK
  <2>3. QED
    BY <1>1, <2>1, <2>2, OwnFound
<1>3. CASE MergeOutput(t)
  <2>1. MergedUploaded(t)' /\ Uploaded'
    BY <1>0, <1>3 DEF MergeOutput, FoundInv, Uploaded, MergedUploaded, bucket, Base, TypeOK
  <2>2. rest' = rest /\ pc[t] = "mergeOutput"
    BY <1>3 DEF MergeOutput
  <2>3. ListedThere(t)'
    BY <1>1, <2>2 DEF FoundInv, ListedThere
  <2>4. QED
    BY <2>1, <2>3, OwnFound
<1>4. ASSUME NEW s \in Segments, MergeSource(t, s) PROVE FoundInv'
  <2>1. Uploaded' /\ pc[t] = "merge"
    BY <1>0, <1>4 DEF MergeSource, FoundInv, Uploaded, bucket
  <2>2. rest'[t] \subseteq rest[t]
    BY <1>4 DEF MergeSource, Base, TypeOK
  <2>3. ListedThere(t)'
    BY <1>1, <2>1, <2>2 DEF FoundInv, ListedThere
  <2>4. ASSUME NEW r \in Segments, merged'[t][r] > 0 PROVE r \in uploaded
    <3>1. merged'[t][r] = merged[t][r] \/ (r = s /\ s \in source)
      BY <1>4 DEF MergeSource, Base, TypeOK
    <3>2. QED
      BY <2>1, <2>4, <3>1 DEF FoundInv, Uploaded, MergedUploaded, Merging
  <2>5. MergedUploaded(t)'
    BY <1>0, <2>4 DEF MergedUploaded
  <2>6. QED
    BY <2>1, <2>3, <2>5, OwnFound
<1>5. CASE Merged(t)
  BY <1>0, <1>1, <1>5, OwnFound
  DEF Merged, Goto, FoundInv, Uploaded, MergedUploaded, Merging, bucket, locals, Base, TypeOK
<1>6. CASE PutOutput(t)
  <2>1. pc[t] = "put" /\ pc'[t] \in {"retain", "release"}
    BY <1>6 DEF PutOutput, Answer, Goto, AfterError, Acquiring, Base, TypeOK
  <2>2. \A s \in Segments : copies'[s] > 0 => copies[s] > 0 \/ merged[t][s] > 0
    BY <1>6 DEF PutOutput
  <2>3. Uploaded'
    BY <1>0, <2>1, <2>2 DEF FoundInv, Uploaded, MergedUploaded, Merging
  <2>4. rest'[t] = Sources(t)
    BY <1>6 DEF PutOutput, Sources, Base, TypeOK
  <2>5. QED
    BY <1>1, <2>1, <2>3, <2>4, OwnFound DEF MergedUploaded, Merging
<1>7. CASE Retained(t) \/ PutSuccess(t) \/ \E s \in Segments : RetainSource(t, s)
  <2>1. Uploaded' /\ pc'[t] \notin {"mergeOutput"} \cup Merging
    BY <1>0, <1>7
    DEF Retained, PutSuccess, RetainSource, FoundInv, Uploaded, bucket, Merging, Answer, AfterError,
        Acquiring, Goto, Base, TypeOK
  <2>2. pc'[t] = "retain" => pc[t] = "retain" /\ rest'[t] \subseteq rest[t]
    BY <1>7
    DEF Retained, PutSuccess, RetainSource, Answer, AfterError, Acquiring, Goto, Base, TypeOK
  <2>3. ListedThere(t)'
    BY <1>1, <2>1, <2>2 DEF FoundInv, ListedThere, Merging
  <2>4. QED
    BY <2>1, <2>3, OwnFound DEF MergedUploaded, Merging
<1>8. QED
  BY <1>2, <1>3, <1>4, <1>5, <1>6, <1>7 DEF Compact

LEMMA DeleteFound == ASSUME Base, FoundInv, NEW t \in Tasks, DeleteSources(t) PROVE FoundInv'
<1>1. /\ UNCHANGED <<copies, uploaded, listing, current>> /\ source' \subseteq source
      /\ source \ Sources(t) \subseteq source' /\ pc[t] = "delete" /\ pc'[t] \in {"save", "release"}
  BY DEF DeleteSources, Deleted, Sources, Answer, AfterError, Acquiring, Goto, locals, history, Base,
         TypeOK
<1>2. Uploaded' /\ MergedUploaded(t)'
  BY <1>1 DEF FoundInv, Uploaded, MergedUploaded, Merging
<1>3. ASSUME NEW p \in Partitions, p # current[t] PROVE listing[t][p] \subseteq source'
  <2>1. listing[t][p] \subseteq source
    BY <1>1, <1>3 DEF FoundInv, ListedThere, Listed, Compacting
  <2>2. current[t] \in Partitions
    BY <1>1 DEF Base, TypeOK, Compacting
  <2>3. listing[t][p] \cap Sources(t) = {}
    BY <1>3, <2>2 DEF Base, ListedInv, Sources, Of
  <2>4. QED
    BY <1>1, <2>1, <2>3
<1>4. ListedThere(t)'
  BY <1>1, <1>3 DEF ListedThere, Listed, Compacting
<1>5. QED
  BY <1>2, <1>4, OwnFound DEF Compact

LEMMA FoundStep == ASSUME Base, FoundInv, [Next]_vars PROVE FoundInv'
  BY StepCases, QuietFound, RunFound, CompactFound, DeleteFound DEF Base

LEMMA OwnOnce ==
    ASSUME Base, NEW t \in Tasks, Run(t) \/ Compact(t),
           Faultless' => CopiesBound' /\ DeletedSoon' /\ MergedOnce(t)'
    PROVE  OnceInv'
<1>1. Merging \subseteq Working
  BY DEF Merging, Working, Compacting
<1>2. ASSUME NEW u \in Tasks \ {t} PROVE MergedOnce(u)'
  BY <1>1, Alone DEF MergedOnce
<1>3. QED
  BY <1>2 DEF OnceInv

LEMMA QuietOnce == ASSUME Base, TypeOK', FoundInv, OnceInv, Quiet PROVE OnceInv'
<1>0. SUFFICES ASSUME Faultless' PROVE CopiesBound' /\ DeletedSoon' /\ \A t \in Tasks : MergedOnce(t)'
  BY DEF OnceInv
<1>1. /\ CopiesBound /\ DeletedSoon /\ \A t \in Tasks : MergedOnce(t)
      /\ \A t \in Tasks : pc[t] \in Compacting => pc'[t] = pc[t]
      /\ UNCHANGED <<copies, listing, current, rest, merged>>
  BY <1>0 DEF Quiet, OnceInv, locals
<1>2. \A s \in Segments : /\ copies[s] \in Nat /\ reuploads[s] \in Nat /\ reuploads'[s] \in Nat
                          /\ \A t \in Tasks : merged[t][s] \in Nat
  BY DEF Base, TypeOK
\* A segment that appears is new, or its count of uploads has gone up.
<1>3. ASSUME NEW s \in Segments
      PROVE  /\ reuploads[s] <= reuploads'[s]
             /\ s \in source' \ source => s \notin uploaded \/ reuploads'[s] = reuploads[s] + 1
  <2>1. CASE reuploads' = reuploads /\ (source' \ source) \cap uploaded = {}
    BY <1>2, <2>1
  <2>2. ASSUME NEW r \in Segments, source' = source \cup {r},
               reuploads' = [reuploads EXCEPT ![r] = @ + 1]
        PROVE  /\ reuploads[s] <= reuploads'[s]
               /\ s \in source' \ source => reuploads'[s] = reuploads[s] + 1
    BY <1>2, <2>2 DEF Base, TypeOK
  <2>3. QED
    BY <2>1, <2>2 DEF Quiet
<1>4. CopiesBound'
  BY <1>1, <1>2, <1>3 DEF CopiesBound
<1>5. DeletedSoon'
  <2>1. SUFFICES ASSUME NEW s \in source' PROVE Doomed(s)' \/ copies[s] <= reuploads'[s]
    BY <1>1 DEF DeletedSoon
  <2>2. s \in Segments
    BY <2>1 DEF TypeOK
  <2>3. CASE s \in source
    <3>1. Doomed(s) => Doomed(s)'
      BY <1>1 DEF Doomed, Sources, Retaining, Compacting
    <3>2. QED
      BY <1>1, <1>2, <1>3, <2>2, <2>3, <3>1 DEF DeletedSoon
  <2>4. CASE s \notin source
    <3>1. CASE s \notin uploaded
      BY <1>2, <2>2, <3>1 DEF FoundInv, Uploaded
    <3>2. CASE reuploads'[s] = reuploads[s] + 1
      BY <1>1, <1>2, <2>2, <3>2 DEF CopiesBound
    <3>3. QED
      BY <1>3, <2>1, <2>2, <2>4, <3>1, <3>2
  <2>5. QED
    BY <2>3, <2>4
<1>6. ASSUME NEW t \in Tasks, pc'[t] \in Merging PROVE MergedOnce(t)'
  <2>1. pc'[t] = pc[t]
    BY <1>6 DEF Quiet, Merging, Idle, Acquiring
  <2>2. MergedUploaded(t) /\ MergedOnce(t) /\ Sources(t)' = Sources(t)
    BY <1>1 DEF FoundInv, Sources
  <2>3. ASSUME NEW s \in Segments
        PROVE  /\ merged[t][s] <= 1 + reuploads'[s]
               /\ s \in source' \ Sources(t) => merged[t][s] <= reuploads'[s]
               /\ pc[t] = "merge" /\ s \in rest[t] => merged[t][s] <= reuploads'[s]
    <3>1. /\ merged[t][s] <= 1 + reuploads[s]
          /\ s \in source \ Sources(t) => merged[t][s] <= reuploads[s]
          /\ pc[t] = "merge" /\ s \in rest[t] => merged[t][s] <= reuploads[s]
      BY <1>6, <2>1, <2>2 DEF MergedOnce
    <3>2. s \notin uploaded => merged[t][s] = 0
      BY <1>2, <1>6, <2>1, <2>2 DEF MergedUploaded
    <3>3. QED
      BY <1>2, <1>3, <3>1, <3>2
  <2>4. QED
    BY <1>1, <2>1, <2>2, <2>3 DEF MergedOnce
<1>7. QED
  BY <1>4, <1>5, <1>6 DEF MergedOnce

\* Outside the retention of its sources a working task is the only one, and so every segment in
\* the prefix has an upload left.
LEMMA NotBoth ==
    ASSUME Base, OnceInv, Faultless, NEW t \in Tasks, pc[t] \in Working \ Retaining,
           NEW s \in source
    PROVE  copies[s] <= reuploads[s]
<1>1. \A u \in Tasks : pc[u] \notin Retaining
  BY DEF Base, LockInv, MutualExclusion, Retaining, Working, Compacting
<1>2. QED
  BY <1>1 DEF OnceInv, DeletedSoon, Doomed

LEMMA RunOnce == ASSUME Base, OnceInv, NEW t \in Tasks, Run(t) PROVE OnceInv'
<1>1. /\ UNCHANGED <<source, copies, reuploads>> /\ pc[t] \notin Retaining
      /\ pc'[t] \notin Merging \cup Retaining /\ (Faultless' => Faultless)
  BY DEF Run, LoadCheckpoint, ListSources, NextPartition, SaveCheckpoint, PruneCheckpoint, Goto,
         Answer, AfterError, Acquiring, Retaining, Merging, Base, TypeOK, bucket, history, Faultless,
         Fault
<1>2. ASSUME Faultless' PROVE CopiesBound' /\ DeletedSoon' /\ MergedOnce(t)'
  <2>1. \A s \in source : copies[s] <= reuploads[s]
    BY <1>1, <1>2, NotBoth, WorkerStep DEF Base
  <2>2. QED
    BY <1>1, <1>2, <2>1 DEF OnceInv, CopiesBound, DeletedSoon, MergedOnce
<1>3. QED
  BY <1>2, OwnOnce

\* merge: a source is read that the merge does not have yet.
LEMMA MergeOnce ==
    ASSUME Base, FoundInv, OnceInv, NEW t \in Tasks,
           CheckSuccess(t) \/ MergeOutput(t) \/ Merged(t) \/ \E s \in Segments : MergeSource(t, s)
    PROVE  OnceInv'
<1>1. /\ UNCHANGED <<source, copies, listing, current, reuploads>> /\ pc[t] \in Working \ Retaining
      /\ Compact(t) /\ Faultless' = Faultless
  BY DEF CheckSuccess, MergeOutput, Merged, MergeSource, Compact, bucket, locals, history, Retaining,
         Working, Compacting, Faultless
<1>2. SUFFICES ASSUME Faultless PROVE MergedOnce(t)'
  BY <1>1, NotBoth, OwnOnce DEF OnceInv, CopiesBound, DeletedSoon
<1>3. /\ MergedOnce(t) /\ ListedThere(t) /\ \A s \in source : copies[s] <= reuploads[s]
      /\ \A s \in Segments : /\ copies[s] <= 1 + reuploads[s] /\ reuploads[s] \in Nat
                             /\ copies[s] \in Nat /\ merged[t][s] \in Nat
  BY <1>1, <1>2, NotBoth DEF OnceInv, CopiesBound, FoundInv, Base, TypeOK
<1>4. CASE CheckSuccess(t)
  <2>1. \A s \in Segments : merged'[t][s] = 0
    BY <1>4 DEF CheckSuccess, NoCopies, Base, TypeOK
  <2>2. QED
    BY <1>1, <1>3, <2>1 DEF MergedOnce
<1>5. CASE MergeOutput(t)
  <2>1. pc[t] = "mergeOutput" /\ rest'[t] = rest[t] /\ current[t] \in Partitions
    BY <1>5 DEF MergeOutput, Base, TypeOK, Compacting
  <2>2. rest[t] \subseteq source
    BY <1>3, <2>1 DEF ListedThere, Sources, Listed, Compacting
  <2>3. \A s \in Segments : merged'[t][s] = IF s \in Of(current[t]) THEN copies[s] ELSE 0
    BY <1>5 DEF MergeOutput, Base, TypeOK
  <2>4. QED
    BY <1>1, <1>3, <2>1, <2>2, <2>3 DEF MergedOnce
<1>6. CASE Merged(t)
  <2>1. pc[t] = "merge" /\ pc'[t] = "put" /\ UNCHANGED merged
    BY <1>6 DEF Merged, Goto, locals, Base, TypeOK
  <2>2. QED
    BY <1>1, <1>3, <2>1 DEF MergedOnce, Merging, Sources
<1>7. ASSUME NEW s \in Segments, MergeSource(t, s) PROVE MergedOnce(t)'
  <2>1. CASE pc'[t] = "release"
    BY <2>1 DEF MergedOnce, Merging
  <2>2. CASE /\ pc' = pc /\ merged' = [merged EXCEPT ![t][s] = @ + 1]
             /\ rest' = [rest EXCEPT ![t] = @ \ {s}]
    <3>1. /\ \A r \in Segments : merged'[t][r] = IF r = s THEN merged[t][s] + 1 ELSE merged[t][r]
          /\ rest'[t] = rest[t] \ {s}
      BY <2>2 DEF Base, TypeOK
    <3>2. pc[t] = "merge" /\ s \in rest[t]
      BY <1>7 DEF MergeSource
    <3>3. merged[t][s] <= reuploads[s] /\ s \in Sources(t)
      BY <1>3, <3>2 DEF MergedOnce, Merging, ListedThere
    <3>4. QED
      BY <1>1, <1>3, <2>2, <3>1, <3>2, <3>3 DEF MergedOnce, Sources
  <2>3. QED
    BY <1>7, <2>1, <2>2 DEF MergeSource, Goto, Base, TypeOK
<1>8. QED
  BY <1>4, <1>5, <1>6, <1>7

\* The upload: what is merged and still there is among the sources about to be deleted.
LEMMA PutOnce == ASSUME Base, OnceInv, NEW t \in Tasks, PutOutput(t) PROVE OnceInv'
<1>0. SUFFICES ASSUME Faultless' PROVE CopiesBound' /\ DeletedSoon' /\ MergedOnce(t)'
  BY OwnOnce DEF Compact
<1>1. /\ UNCHANGED <<source, listing, current, reuploads>> /\ Faultless /\ pc[t] = "put"
      /\ pc'[t] = "retain"
      /\ \A s \in Segments : copies'[s] = IF s \in Of(current[t]) THEN merged[t][s] ELSE copies[s]
  BY <1>0 DEF PutOutput, Answer, Goto, Fault, Faultless, history, Base, TypeOK
<1>2. MergedOnce(t) /\ CopiesBound /\ \A s \in source : copies[s] <= reuploads[s]
  BY <1>1, NotBoth DEF OnceInv, Working, Compacting, Retaining
<1>3. CopiesBound'
  BY <1>1, <1>2 DEF CopiesBound, MergedOnce, Merging
<1>4. ASSUME NEW s \in source' PROVE Doomed(s)' \/ copies'[s] <= reuploads'[s]
  <2>1. s \in Sources(t) => Doomed(s)'
    BY <1>1 DEF Doomed, Retaining, Sources
  <2>2. s \notin Sources(t) => copies'[s] <= reuploads'[s]
    BY <1>1, <1>2, <1>4 DEF MergedOnce, Merging, Base, TypeOK
  <2>3. QED
    BY <2>1, <2>2
<1>5. QED
  BY <1>1, <1>3, <1>4 DEF DeletedSoon, MergedOnce, Merging

\* Until the deletion the task holds on to its sources; after it they are gone.
LEMMA RetainOnce ==
    ASSUME Base, FoundInv, OnceInv, NEW t \in Tasks,
           Retained(t) \/ PutSuccess(t) \/ DeleteSources(t) \/ \E s \in Segments : RetainSource(t, s)
    PROVE  OnceInv'
<1>0. SUFFICES ASSUME Faultless' PROVE CopiesBound' /\ DeletedSoon' /\ MergedOnce(t)'
  BY OwnOnce DEF Compact
<1>1. /\ UNCHANGED <<copies, listing, current, reuploads>> /\ pc[t] \in Retaining /\ Faultless
      /\ source' \subseteq source
  BY <1>0
  DEF Retained, PutSuccess, DeleteSources, RetainSource, Retaining, Answer, Fault, Faultless,
      bucket, locals, history, Base, TypeOK
<1>2. \A s \in source : s \in Sources(t) \/ copies[s] <= reuploads[s]
  BY <1>1 DEF OnceInv, DeletedSoon, Doomed, Base, LockInv, MutualExclusion, Retaining, Working, Compacting
<1>3. /\ pc'[t] \in Retaining \cup {"save"}
      /\ pc'[t] = "save" => source' = source \ Sources(t)
  <2>1. CASE Retained(t)
    BY <2>1 DEF Retained, Goto, Retaining, Base, TypeOK
  <2>2. CASE PutSuccess(t) \/ DeleteSources(t)
    BY <1>0, <1>1, <2>2
    DEF PutSuccess, DeleteSources, Deleted, Sources, Answer, Goto, Fault, Faultless, Retaining, Base,
        TypeOK
  <2>3. ASSUME NEW s \in Segments, RetainSource(t, s) PROVE pc'[t] = "retain"
    <3>1. pc[t] = "retain" /\ s \in rest[t] /\ current[t] \in Partitions
      BY <2>3 DEF RetainSource, Base, TypeOK, Compacting
    <3>2. s \in source
      BY <3>1 DEF FoundInv, ListedThere, Sources, Listed, Compacting
    <3>3. QED
      BY <2>3, <3>1, <3>2 DEF RetainSource
  <2>4. QED
    BY <2>1, <2>2, <2>3 DEF Retaining
<1>4. DeletedSoon'
  <2>1. ASSUME NEW s \in source' PROVE Doomed(s)' \/ copies'[s] <= reuploads'[s]
    <3>1. CASE pc'[t] \in Retaining
      BY <1>1, <1>2, <2>1, <3>1 DEF Doomed, Sources
    <3>2. CASE pc'[t] = "save"
      BY <1>1, <1>2, <1>3, <2>1, <3>2
    <3>3. QED
      BY <1>3, <3>1, <3>2
  <2>2. QED
    BY <2>1 DEF DeletedSoon
<1>5. QED
  BY <1>1, <1>3, <1>4 DEF OnceInv, CopiesBound, MergedOnce, Merging, Retaining

LEMMA OnceStep == ASSUME Base, TypeOK', FoundInv, OnceInv, [Next]_vars PROVE OnceInv'
  BY StepCases, QuietOnce, RunOnce, MergeOnce, PutOnce, RetainOnce DEF Compact, Base

\* If tasks do not acquire the lock at the same time, then as long as no request fails and no task
\* dies the output holds the rows of a segment at most once for each of its uploads, over any number
\* of compactions of the same hour, with segments that come late or again: merging the previous
\* output counts nothing twice, because what it holds has been deleted.
THEOREM CompactionCountsOnce == ASSUME Overlap = FALSE PROVE Spec => []RowsOncePerUpload
<1>1. Init => Base /\ FoundInv /\ OnceInv
  BY BaseInit, FoundInit
  DEF Init, OnceInv, CopiesBound, DeletedSoon, MergedOnce, Merging, NoCopies
<1>2. Base /\ FoundInv /\ OnceInv /\ [Next]_vars => (Base /\ FoundInv /\ OnceInv)'
  BY BaseStep, FoundStep, OnceStep DEF Base
<1>3. OnceInv => RowsOncePerUpload
  BY DEF OnceInv, Faultless, CopiesBound, RowsOncePerUpload
<1>4. QED
  BY <1>1, <1>2, <1>3, PTL DEF Spec

=============================================================================
