------------------------------ MODULE Archiver ------------------------------
(***************************************************************************)
(* The archiver of coin-data-rs (src/src/archive.rs): a background task    *)
(* that uploads announced segments and rescans the data directory, calls   *)
(* of export (POST /v1/archive) that upload one hour on demand, the        *)
(* upload_lock they share, the .uploaded markers, and the clean-up of old  *)
(* segments that runs inside an upload.  The process may crash and restart *)
(* with the directory and the bucket as it left them.                      *)
(***************************************************************************)
EXTENDS Integers, Sequences, FiniteSets

CONSTANTS
    Segments,      \* segment files, each published at most once
    HourOf,        \* the hour in a segment's path
    Exports,       \* calls of Archiver::export, each made at most once
    ExportHour, ExportForce,  \* the parameters of a call
    Attempts,      \* attempts of upload_with_retry (4 in the code)
    MinRetention, MaxRetention,  \* min_retention_hours, max_retention_hours
    MaxHour,       \* bound: the last hour of the clock
    MaxCrashes,    \* bound: crashes of the process
    MayFail,       \* TRUE if a flush, a request or a file operation may fail, or the encoder end
    None           \* no segment, no lock holder

Task == "task"
Actors == {Task} \cup Exports

ASSUME SegmentAssumption == HourOf \in [Segments -> Nat] /\ None \notin Segments
ASSUME ExportAssumption ==
    /\ ExportHour \in [Exports -> Nat] /\ ExportForce \in [Exports -> BOOLEAN]
    /\ None \notin Actors /\ Task \notin Exports
\* config.rs validate: retention keeps at least one hour and max >= min.
ASSUME RetentionAssumption ==
    /\ MinRetention \in Nat \ {0} /\ MaxRetention \in Nat /\ MinRetention <= MaxRetention
    /\ Attempts \in Nat \ {0} /\ MaxHour \in Nat /\ MaxCrashes \in Nat
    /\ MayFail \in BOOLEAN

VARIABLES
    disk,     \* segment files in the data directory
    marker,   \* segments with a .uploaded marker
    stored,   \* segments the bucket has received
    channel,  \* Seq(Segments): announced by the encoder, not yet received
    lock,     \* holder of upload_lock
    step,     \* [Actors -> Steps]: where an actor's call of upload is
    item,     \* [Actors -> Segments \cup {None}]: the segment it uploads
    victims,  \* segments the running clean-up has still to remove
    due,      \* TRUE once CLEANUP_INTERVAL has passed since last_cleanup
    list,     \* [Actors -> SUBSET Segments]: the rest of an actor's parquet_files
    attempt,  \* the attempt of upload_with_retry
    export,   \* [Exports -> ExportState]
    any,      \* [Exports -> BOOLEAN]: keys is not empty
    now,      \* the current hour
    encoder,  \* TRUE while the writer's encoder thread lives; it alone holds the channel's sender
    spawned,  \* TRUE while the task of spawn has not returned
    crashes

VARIABLES     \* history, read by the properties only
    published, \* segments ever renamed into place
    wanted     \* [Exports -> SUBSET Segments]: published in its hour when it was called

Steps == {"idle", "lock", "put", "mark", "clean", "remove", "meta", "ok", "err"}
ExportState == {"new", "flush", "run", "ok", "err", "cancelled"}

files == <<disk, marker, stored>>
upload == <<lock, step, item, victims, due>>
calls == <<export, any, wanted>>
process == <<encoder, spawned, crashes>>
vars == <<files, channel, upload, list, attempt, calls, now, process, published>>

Forces(a) == a # Task /\ ExportForce[a]

Init ==
    /\ disk = {} /\ marker = {} /\ stored = {} /\ published = {}
    /\ channel = <<>> /\ lock = None /\ victims = {}
    /\ step = [a \in Actors |-> "idle"] /\ item = [a \in Actors |-> None]
    /\ list = [a \in Actors |-> {}] /\ attempt = 1
    /\ due = TRUE   \* last_cleanup starts CLEANUP_INTERVAL in the past
    /\ export = [e \in Exports |-> "new"] /\ any = [e \in Exports |-> FALSE]
    /\ wanted = [e \in Exports |-> {}]
    /\ now = 0 /\ crashes = 0 /\ encoder = TRUE /\ spawned = TRUE

-----------------------------------------------------------------------------
(* The encoder publishes segments; time passes.                            *)

\* A segment of the current or an earlier hour is renamed into place and announced; or only
\* renamed, when write_segment failed after the rename.
Publish(s) ==
    /\ encoder /\ s \notin published /\ HourOf[s] <= now
    /\ disk' = disk \cup {s} /\ published' = published \cup {s}
    /\ channel' \in {Append(channel, s), channel}
    /\ UNCHANGED <<marker, stored, upload, list, attempt, calls, now, process>>

\* The encoder thread panics; nothing starts another one.  The channel is closed with it.
EncoderEnds ==
    /\ MayFail /\ encoder
    /\ encoder' = FALSE
    /\ UNCHANGED <<files, channel, upload, list, attempt, calls, now, spawned, crashes, published>>

HourPasses ==
    /\ now < MaxHour
    /\ now' = now + 1
    /\ UNCHANGED <<files, channel, upload, list, attempt, calls, process, published>>

MinutePasses ==
    /\ ~due
    /\ due' = TRUE
    /\ UNCHANGED <<files, channel, lock, step, item, victims, list, attempt, calls, now, process,
                   published>>

-----------------------------------------------------------------------------
(* Archiver::upload, by the task or by a call of export.                   *)

\* upload returns; the guard of upload_lock is dropped.
Return(a, result) ==
    /\ step' = [step EXCEPT ![a] = result]
    /\ lock' = IF lock = a THEN None ELSE lock

\* Mutant: upload does not wait for the lock.
LockAlways == TRUE
LockFree == lock = None

\* The lock, then the file and marker tests; an upload that finds the marker reads the key in it.
Acquire(a) ==
    /\ step[a] = "lock" /\ LockFree
    /\ \/ item[a] \notin disk /\ Return(a, "err")
       \/ /\ item[a] \in disk /\ item[a] \in marker /\ ~Forces(a)
          /\ Return(a, "ok") \/ (MayFail /\ Return(a, "err"))
       \/ /\ item[a] \in disk /\ (item[a] \notin marker \/ Forces(a))
          /\ lock' = a /\ step' = [step EXCEPT ![a] = "put"]
    /\ UNCHANGED <<files, channel, item, victims, due, list, attempt, calls, now, process, published>>

PutOk(a) ==
    /\ step[a] = "put"
    /\ stored' = stored \cup {item[a]}
    /\ step' = [step EXCEPT ![a] = "mark"]
    /\ UNCHANGED <<disk, marker, channel, lock, item, victims, due, list, attempt, calls, now,
                   process, published>>

\* await_s3 failed or timed out after 90 seconds; the object may be there all the same.
\* Mutant: a timed-out request counts as done.
PutFailedTimeout(a) ==
    /\ step[a] = "put"
    /\ step' = [step EXCEPT ![a] = "mark"]
    /\ UNCHANGED <<files, channel, lock, item, victims, due, list, attempt, calls, now, process,
                   published>>
PutFailed(a) ==
    /\ MayFail /\ step[a] = "put"
    /\ stored' \in {stored, stored \cup {item[a]}}
    /\ Return(a, "err")
    /\ UNCHANGED <<disk, marker, channel, item, victims, due, list, attempt, calls, now, process,
                   published>>

Mark(a) ==
    /\ step[a] = "mark"
    /\ marker' = marker \cup {item[a]}
    /\ step' = [step EXCEPT ![a] = "clean"]
    /\ UNCHANGED <<disk, stored, channel, lock, item, victims, due, list, attempt, calls, now,
                   process, published>>

\* std::fs::write failed, before or after it created the file.
MarkFailed(a) ==
    /\ MayFail /\ step[a] = "mark"
    /\ marker' \in {marker, marker \cup {item[a]}}
    /\ Return(a, "err")
    /\ UNCHANGED <<disk, stored, channel, item, victims, due, list, attempt, calls, now, process,
                   published>>

\* The files cleanup removes for a retention of so many hours.
\* Mutants: the cutoff is an hour late; the marker test dropped.
ExpiredTooSoon(hours) == {s \in disk : HourOf[s] <= now - hours + 1 /\ s \in marker}
Expired(hours) == {s \in disk : HourOf[s] <= now - hours /\ s \in marker}

\* cleanup_if_due: nothing, or cleanup with the retention the free space asks for; the space
\* or the directory may be unreadable.
Clean(a) ==
    /\ step[a] = "clean"
    /\ \/ ~due /\ step' = [step EXCEPT ![a] = "meta"] /\ UNCHANGED <<lock, victims>>
       \/ /\ due /\ step' = [step EXCEPT ![a] = "remove"] /\ UNCHANGED lock
          /\ \E hours \in {MinRetention, MaxRetention} : victims' = Expired(hours)
       \/ due /\ MayFail /\ Return(a, "err") /\ UNCHANGED victims
    /\ UNCHANGED <<files, channel, item, due, list, attempt, calls, now, process, published>>

Remove(a, s) ==
    /\ step[a] = "remove" /\ s \in victims
    /\ disk' = disk \ {s} /\ marker' = marker \ {s} /\ victims' = victims \ {s}
    /\ UNCHANGED <<stored, channel, lock, step, item, due, list, attempt, calls, now, process,
                   published>>

\* remove_file failed, for the segment or for its marker: upload fails, last_cleanup stays.
RemoveFailed(a, s) ==
    /\ MayFail /\ step[a] = "remove" /\ s \in victims
    /\ disk' \in {disk, disk \ {s}}
    /\ victims' = {}
    /\ Return(a, "err")
    /\ UNCHANGED <<marker, stored, channel, item, due, list, attempt, calls, now, process, published>>

Cleaned(a) ==
    /\ step[a] = "remove" /\ victims = {}
    /\ due' = FALSE
    /\ step' = [step EXCEPT ![a] = "meta"]
    /\ UNCHANGED <<files, channel, lock, item, victims, list, attempt, calls, now, process, published>>

\* The file size for the log line: metadata(&item.path)? after the clean-up.
Metadata(a) ==
    /\ step[a] = "meta"
    /\ Return(a, IF item[a] \in disk THEN "ok" ELSE "err")
    /\ UNCHANGED <<files, channel, item, victims, due, list, attempt, calls, now, process, published>>

-----------------------------------------------------------------------------
(* spawn: receive an announced segment, or scan every 60 seconds.          *)

TaskIdle == spawned /\ step[Task] = "idle" /\ list[Task] = {}

\* An actor calls upload for s, and is done with it.
Begin(a, s) ==
    /\ step' = [step EXCEPT ![a] = "lock"]
    /\ item' = [item EXCEPT ![a] = s]
End(a) ==
    /\ step' = [step EXCEPT ![a] = "idle"]
    /\ item' = [item EXCEPT ![a] = None]

TaskRecv ==
    /\ TaskIdle /\ channel # <<>>
    /\ channel' = Tail(channel)
    /\ Begin(Task, Head(channel))
    /\ UNCHANGED <<files, lock, victims, due, list, attempt, calls, now, process, published>>

\* `None => return`: the channel is closed and drained.  There are no scans from here on.
TaskReturns ==
    /\ TaskIdle /\ channel = <<>> /\ ~encoder
    /\ spawned' = FALSE
    /\ UNCHANGED <<files, channel, upload, list, attempt, calls, now, encoder, crashes, published>>

\* upload_pending: the files of the directory, each skipped if it is marked by then.
\* Mutant: the rescan is missing; only announced segments are uploaded.
ScanNothing == {}
ScanFiles == disk

TaskScan ==
    /\ TaskIdle
    /\ list' = [list EXCEPT ![Task] = ScanFiles]
    /\ UNCHANGED <<files, channel, upload, attempt, calls, now, process, published>>

TaskNext(s) ==
    /\ step[Task] = "idle" /\ s \in list[Task]
    /\ list' = [list EXCEPT ![Task] = @ \ {s}]
    /\ \/ s \in marker /\ UNCHANGED <<step, item>>
       \/ s \notin marker /\ Begin(Task, s)
    /\ UNCHANGED <<files, channel, lock, victims, due, attempt, calls, now, process, published>>

\* upload_with_retry after an attempt: done, once more after 30 seconds, or given up.
\* Mutant: one attempt too many.
TaskResultOneMore ==
    /\ \/ /\ step[Task] = "err" /\ attempt <= Attempts
          /\ attempt' = attempt + 1 /\ Begin(Task, item[Task])
       \/ /\ step[Task] = "ok" \/ (step[Task] = "err" /\ attempt > Attempts)
          /\ attempt' = 1 /\ End(Task)
    /\ UNCHANGED <<files, channel, lock, victims, due, list, calls, now, process, published>>
TaskResult ==
    /\ \/ /\ step[Task] = "err" /\ attempt < Attempts
          /\ attempt' = attempt + 1 /\ Begin(Task, item[Task])
       \/ /\ step[Task] = "ok" \/ (step[Task] = "err" /\ attempt = Attempts)
          /\ attempt' = 1 /\ End(Task)
    /\ UNCHANGED <<files, channel, lock, victims, due, list, calls, now, process, published>>

-----------------------------------------------------------------------------
(* export: flush the writer, then upload every segment of the hour.        *)

OfHour(set, e) == {s \in set : HourOf[s] = ExportHour[e]}

\* A flush that starts after the encoder ended is answered with an error by every worker.
ExportCall(e) ==
    /\ export[e] = "new"
    /\ export' = [export EXCEPT ![e] = IF encoder THEN "flush" ELSE "err"]
    /\ wanted' = [wanted EXCEPT ![e] = OfHour(published, e)]
    /\ UNCHANGED <<files, channel, upload, list, attempt, any, now, process, published>>

\* self.writer.flush().await? returned.
ExportFlushed(e) ==
    /\ export[e] = "flush"
    /\ \/ MayFail /\ export' = [export EXCEPT ![e] = "err"] /\ UNCHANGED list
       \/ /\ export' = [export EXCEPT ![e] = "run"]
          /\ list' = [list EXCEPT ![e] = OfHour(disk, e)]
    /\ UNCHANGED <<files, channel, upload, attempt, any, wanted, now, process, published>>

\* One file of the loop: metadata(&path)?, then upload.
ExportNext(e, s) ==
    /\ export[e] = "run" /\ step[e] = "idle" /\ s \in list[e]
    /\ list' = [list EXCEPT ![e] = @ \ {s}]
    /\ \/ s \notin disk /\ export' = [export EXCEPT ![e] = "err"] /\ UNCHANGED <<step, item>>
       \/ s \in disk /\ Begin(e, s) /\ UNCHANGED export
    /\ UNCHANGED <<files, channel, lock, victims, due, attempt, any, wanted, now, process, published>>

\* Mutant: a failed upload is skipped and the export goes on.
ExportResultGoesOn(e) ==
    /\ export[e] = "run" /\ step[e] \in {"ok", "err"}
    /\ any' = [any EXCEPT ![e] = TRUE] /\ UNCHANGED export
    /\ End(e)
    /\ UNCHANGED <<files, channel, lock, victims, due, list, attempt, wanted, now, process,
                   published>>
ExportResult(e) ==
    /\ export[e] = "run"
    /\ \/ step[e] = "ok" /\ any' = [any EXCEPT ![e] = TRUE] /\ UNCHANGED export
       \/ step[e] = "err" /\ export' = [export EXCEPT ![e] = "err"] /\ UNCHANGED any
    /\ End(e)
    /\ UNCHANGED <<files, channel, lock, victims, due, list, attempt, wanted, now, process,
                   published>>

\* "no Parquet segments found" if there was none.
ExportDone(e) ==
    /\ export[e] = "run" /\ step[e] = "idle" /\ list[e] = {}
    /\ export' = [export EXCEPT ![e] = IF any[e] THEN "ok" ELSE "err"]
    /\ UNCHANGED <<files, channel, upload, list, attempt, any, wanted, now, process, published>>

\* The HTTP client went away: the future is dropped at an await, the lock with it.  A request
\* to S3 that was under way may have been carried out.
ExportCancelled(e) ==
    /\ export[e] = "flush" \/ (export[e] = "run" /\ step[e] \in {"lock", "put"})
    /\ export' = [export EXCEPT ![e] = "cancelled"]
    /\ stored' \in {stored, stored \cup (IF step[e] = "put" THEN {item[e]} ELSE {})}
    /\ Return(e, "idle") /\ item' = [item EXCEPT ![e] = None]
    /\ UNCHANGED <<disk, marker, channel, victims, due, list, attempt, any, wanted, now,
                   process, published>>

-----------------------------------------------------------------------------

\* The process dies and systemd restarts it: only the directory and the bucket survive, a
\* marker perhaps without the file whose removal the crash interrupted.
Crash ==
    /\ crashes < MaxCrashes
    /\ crashes' = crashes + 1 /\ encoder' = TRUE /\ spawned' = TRUE
    /\ stored' \in {stored} \cup {stored \cup {item[a]} : a \in {b \in Actors : step[b] = "put"}}
    /\ disk' \in {disk} \cup {disk \ {s} : s \in victims}
    /\ channel' = <<>> /\ lock' = None /\ victims' = {}
    /\ step' = [a \in Actors |-> "idle"] /\ item' = [a \in Actors |-> None]
    /\ list' = [a \in Actors |-> {}] /\ attempt' = 1 /\ due' = TRUE
    /\ export' = [e \in Exports |-> IF export[e] \in {"flush", "run"} THEN "cancelled" ELSE export[e]]
    /\ UNCHANGED <<marker, any, wanted, now, published>>

Upload(a) ==
    \/ Acquire(a) \/ PutOk(a) \/ PutFailed(a) \/ Mark(a) \/ MarkFailed(a) \/ Clean(a)
    \/ \E s \in Segments : Remove(a, s) \/ RemoveFailed(a, s)
    \/ Cleaned(a) \/ Metadata(a)
TaskLoop == TaskRecv \/ TaskReturns \/ TaskScan \/ TaskResult \/ \E s \in Segments : TaskNext(s)
ExportStep(e) ==
    \/ ExportFlushed(e) \/ ExportResult(e) \/ ExportDone(e)
    \/ \E s \in Segments : ExportNext(e, s)

Next ==
    \/ \E s \in Segments : Publish(s)
    \/ HourPasses \/ MinutePasses \/ EncoderEnds \/ Crash
    \/ \E a \in Actors : Upload(a)
    \/ TaskLoop
    \/ \E e \in Exports : ExportCall(e) \/ ExportStep(e) \/ ExportCancelled(e)

Spec == Init /\ [][Next]_vars

\* The runtime polls the task and the calls, and S3 does not reject a segment forever: a PUT
\* that is tried again and again succeeds.  Nothing is assumed of the marker, of the order in
\* which the task's select takes its branches, or of a manual export.
Fairness ==
    /\ WF_vars(TaskLoop)
    /\ \A s \in Segments : SF_vars(item[Task] = s /\ PutOk(Task))
    /\ \A a \in Actors : WF_vars(Upload(a))
    /\ \A e \in Exports : WF_vars(ExportStep(e))

LiveSpec == Spec /\ Fairness

-----------------------------------------------------------------------------

\* Every variable keeps its type.
TypeOK ==
    /\ disk \subseteq Segments /\ marker \subseteq Segments /\ stored \subseteq Segments
    /\ channel \in Seq(Segments) /\ lock \in Actors \cup {None}
    /\ step \in [Actors -> Steps] /\ item \in [Actors -> Segments \cup {None}]
    /\ victims \subseteq Segments /\ due \in BOOLEAN
    /\ list \in [Actors -> SUBSET Segments] /\ attempt \in 1..Attempts
    /\ export \in [Exports -> ExportState] /\ any \in [Exports -> BOOLEAN]
    /\ now \in Nat /\ crashes \in Nat /\ encoder \in BOOLEAN /\ spawned \in BOOLEAN
    /\ published \subseteq Segments /\ wanted \in [Exports -> SUBSET Segments]
    /\ \A a \in Actors : step[a] # "idle" => item[a] \in Segments

\* "Unuploaded data is never deleted": a segment that was published is still in the directory
\* or the bucket has it, through failed and timed-out requests, cancelled exports, clean-ups
\* with either retention, and crashes.
UnuploadedNeverDeleted == \A s \in published : s \in disk \/ s \in stored

\* A clean-up removes only files that are in the bucket and past the shorter retention.
RetentionRespected ==
    [][\A s \in disk \ disk' : s \in stored /\ HourOf[s] + MinRetention <= now]_vars

\* A segment is never removed while its upload is under way: the bucket is sent a file that
\* is there, though the task and the calls of export each run clean-ups.
NoRemovalDuringPut == \A a \in Actors : step[a] \in {"put", "mark"} => item[a] \in disk

\* An export that answers with success leaves nothing behind: every segment of its hour that
\* was published before the call is in the bucket.
ExportOkComplete == \A e \in Exports : export[e] = "ok" => wanted[e] \subseteq stored

\* Every published segment reaches the bucket, announced or not, crash or not, provided that from
\* some time on the encoder thread lives: once nothing more is published, the bucket has it all
\* and for good.  The proviso is the code's: when the encoder ends, the closed channel ends the
\* upload task and its scans, and what is pending waits for the next start of the process.
EventuallyStored == <>[]encoder => <>[](published \subseteq stored)

=============================================================================
