--------------------------- MODULE ArchiverProofs ---------------------------
(***************************************************************************)
(* What the archiver never does to a segment, for any number of segments   *)
(* and exports, any retention, any number of failures and crashes.         *)
(***************************************************************************)
EXTENDS Archiver, TLAPS

\* The stages of upload that run with upload_lock held.
Holding == {"put", "mark", "clean", "remove", "meta"}

StepTypes == step \in [Actors -> Steps] /\ item \in [Actors -> Segments \cup {None}]
ChannelType == channel \in Seq(Segments)
ClockType == now \in Nat
\* upload_lock works: who is past it holds it.
Owned == \A a \in Actors : step[a] \in Holding => lock = a
\* A marker is written only after the bucket has the segment.
MarkerTrue == marker \subseteq stored
SentStored == \A a \in Actors : step[a] = "mark" => item[a] \in stored
\* What a clean-up is about to remove is in the bucket and past the shorter retention.
VictimsStored == victims \subseteq stored
VictimsAged == \A s \in victims : s \in Segments /\ HourOf[s] + MinRetention <= now
DiskSegments == disk \subseteq Segments

LockInv == StepTypes /\ Owned
SafeInv == MarkerTrue /\ SentStored /\ VictimsStored /\ UnuploadedNeverDeleted
AgeInv == ClockType /\ DiskSegments /\ VictimsAged

-----------------------------------------------------------------------------
(* upload_lock.                                                            *)

LEMMA ReturnKeeps ==
    ASSUME LockInv, NEW a \in Actors, NEW result \in Steps \ Holding, Return(a, result), item' = item
    PROVE  LockInv'
  BY ExportAssumption DEF LockInv, StepTypes, Owned, Return

LEMMA MoveKeeps ==
    ASSUME LockInv, NEW a \in Actors, NEW next \in Steps, step[a] \in Holding,
           step' = [step EXCEPT ![a] = next], lock' = lock, item' = item
    PROVE  LockInv'
  BY DEF LockInv, StepTypes, Owned

LEMMA BeginKeeps ==
    ASSUME LockInv, NEW a \in Actors, NEW s \in Segments \cup {None}, Begin(a, s), lock' = lock
    PROVE  LockInv'
  BY DEF LockInv, StepTypes, Owned, Begin, Steps, Holding

LEMMA EndKeeps ==
    ASSUME LockInv, NEW a \in Actors, End(a), lock' = lock
    PROVE  LockInv'
  BY DEF LockInv, StepTypes, Owned, End, Steps, Holding

LEMMA LockInit == Init => LockInv /\ ChannelType
  BY DEF Init, LockInv, StepTypes, Owned, ChannelType, Steps, Holding

LEMMA ChannelStep == ASSUME ChannelType, Next PROVE ChannelType'
<1> USE DEF ChannelType
<1>1. ASSUME NEW s \in Segments, Publish(s) PROVE ChannelType'
  BY <1>1 DEF Publish
<1>2. CASE HourPasses \/ MinutePasses \/ EncoderEnds
  BY <1>2 DEF HourPasses, MinutePasses, EncoderEnds
<1>7. CASE Crash
  <2>1. channel' = <<>>
    BY <1>7 DEF Crash
  <2>2. QED
    BY <2>1
<1>3. ASSUME NEW a \in Actors, Upload(a) PROVE ChannelType'
  BY <1>3 DEF Upload, Acquire, PutOk, PutFailed, Mark, MarkFailed, Clean, Remove, RemoveFailed,
              Cleaned, Metadata
<1>4. CASE TaskLoop
  BY <1>4 DEF TaskLoop, TaskRecv, TaskReturns, TaskScan, TaskResult, TaskNext
<1>5. ASSUME NEW e \in Exports, ExportCall(e) \/ ExportStep(e) \/ ExportCancelled(e)
      PROVE  ChannelType'
  BY <1>5 DEF ExportCall, ExportStep, ExportCancelled, ExportFlushed, ExportResult, ExportDone,
              ExportNext
<1>6. QED
  BY <1>1, <1>2, <1>3, <1>4, <1>5, <1>7 DEF Next

\* upload, action by action.
LEMMA LockUpload == ASSUME LockInv, NEW a \in Actors, Upload(a) PROVE LockInv'
<1>0. "ok" \in Steps \ Holding /\ "err" \in Steps \ Holding
  BY DEF Steps, Holding
<1>1. CASE Acquire(a)
  <2>1. CASE Return(a, "ok") \/ Return(a, "err")
    BY <1>0, <1>1, <2>1, ReturnKeeps DEF Acquire
  <2>2. CASE LockFree /\ lock' = a /\ step' = [step EXCEPT ![a] = "put"]
    BY <1>1, <2>2, ExportAssumption
    DEF Acquire, LockFree, LockInv, StepTypes, Owned, Steps, Holding
  <2>3. QED
    BY <1>1, <2>1, <2>2 DEF Acquire
<1>2. CASE PutOk(a) \/ Mark(a) \/ Cleaned(a)
  BY <1>2, MoveKeeps DEF PutOk, Mark, Cleaned, Steps, Holding
<1>3. CASE PutFailed(a) \/ MarkFailed(a)
  BY <1>0, <1>3, ReturnKeeps DEF PutFailed, MarkFailed
<1>4. CASE Clean(a)
  <2>1. CASE Return(a, "err")
    BY <1>0, <1>4, <2>1, ReturnKeeps DEF Clean
  <2>2. CASE step' = [step EXCEPT ![a] = "meta"] /\ lock' = lock
    BY <1>4, <2>2, MoveKeeps DEF Clean, Steps, Holding
  <2>3. CASE step' = [step EXCEPT ![a] = "remove"] /\ lock' = lock
    BY <1>4, <2>3, MoveKeeps DEF Clean, Steps, Holding
  <2>4. QED
    BY <1>4, <2>1, <2>2, <2>3 DEF Clean
<1>5. ASSUME NEW s \in Segments, Remove(a, s) PROVE LockInv'
  BY <1>5 DEF Remove, LockInv, StepTypes, Owned
<1>6. ASSUME NEW s \in Segments, RemoveFailed(a, s) PROVE LockInv'
  BY <1>0, <1>6, ReturnKeeps DEF RemoveFailed
<1>7. CASE Metadata(a)
  <2>1. Return(a, "ok") \/ Return(a, "err")
    BY <1>7 DEF Metadata
  <2>2. QED
    BY <1>0, <1>7, <2>1, ReturnKeeps DEF Metadata
<1>8. QED
  BY <1>1, <1>2, <1>3, <1>4, <1>5, <1>6, <1>7 DEF Upload

LEMMA LockStep == ASSUME LockInv, ChannelType, [Next]_vars PROVE LockInv'
<1>0. ASSUME UNCHANGED <<lock, step, item>> PROVE LockInv'
  BY <1>0 DEF LockInv, StepTypes, Owned
<1>1. ASSUME NEW s \in Segments, Publish(s) PROVE LockInv'
  BY <1>0, <1>1 DEF Publish, upload
<1>2. CASE HourPasses \/ MinutePasses \/ EncoderEnds \/ UNCHANGED vars
  BY <1>0, <1>2 DEF HourPasses, MinutePasses, EncoderEnds, upload, vars
<1>3. CASE Crash
  BY <1>3 DEF Crash, LockInv, StepTypes, Owned, Steps, Holding
<1>4. ASSUME NEW a \in Actors, Upload(a) PROVE LockInv'
  BY <1>4, LockUpload
<1>5. CASE TaskLoop
  <2>0. Task \in Actors /\ item[Task] \in Segments \cup {None}
    BY DEF Actors, LockInv, StepTypes
  <2>1. CASE TaskRecv
    <3>1. Head(channel) \in Segments
      BY <2>1 DEF TaskRecv, ChannelType
    <3>2. QED
      BY <2>0, <2>1, <3>1, BeginKeeps DEF TaskRecv
  <2>2. CASE TaskReturns \/ TaskScan
    BY <1>0, <2>2 DEF TaskReturns, TaskScan, upload
  <2>3. CASE TaskResult
    BY <2>0, <2>3, BeginKeeps, EndKeeps DEF TaskResult
  <2>4. ASSUME NEW s \in Segments, TaskNext(s) PROVE LockInv'
    BY <1>0, <2>0, <2>4, BeginKeeps DEF TaskNext
  <2>5. QED
    BY <1>5, <2>1, <2>2, <2>3, <2>4 DEF TaskLoop
<1>6. ASSUME NEW e \in Exports, ExportCall(e) \/ ExportStep(e) \/ ExportCancelled(e)
      PROVE  LockInv'
  <2>0. e \in Actors
    BY DEF Actors
  <2>1. CASE ExportCall(e) \/ ExportFlushed(e) \/ ExportDone(e)
    BY <1>0, <2>1 DEF ExportCall, ExportFlushed, ExportDone, upload
  <2>2. ASSUME NEW s \in Segments, ExportNext(e, s) PROVE LockInv'
    BY <1>0, <2>0, <2>2, BeginKeeps DEF ExportNext
  <2>3. CASE ExportResult(e)
    BY <2>0, <2>3, EndKeeps DEF ExportResult
  <2>4. CASE ExportCancelled(e)
    BY <2>0, <2>4, ExportAssumption
    DEF ExportCancelled, Return, LockInv, StepTypes, Owned, Steps, Holding
  <2>5. QED
    BY <1>6, <2>1, <2>2, <2>3, <2>4 DEF ExportStep
<1>7. QED
  BY <1>1, <1>2, <1>3, <1>4, <1>5, <1>6 DEF Next

-----------------------------------------------------------------------------
(* Nothing that is not in the bucket is removed.                           *)

\* An actor's step is at "mark" after a step of upload only if it was, or the PUT succeeded.
LEMMA SafeUpload == ASSUME SafeInv, StepTypes, NEW a \in Actors, Upload(a) PROVE SafeInv'
<1> USE DEF SafeInv, StepTypes, MarkerTrue, SentStored, VictimsStored, UnuploadedNeverDeleted
<1>1. CASE Acquire(a)
  BY <1>1 DEF Acquire, Return, files
<1>2. CASE PutOk(a)
  BY <1>2 DEF PutOk
<1>3. CASE PutFailed(a)
  BY <1>3 DEF PutFailed, Return
<1>4. CASE Mark(a)
  BY <1>4 DEF Mark
<1>5. CASE MarkFailed(a)
  BY <1>5 DEF MarkFailed, Return
<1>6. CASE Clean(a)
  BY <1>6 DEF Clean, Return, Expired, files
<1>7. ASSUME NEW s \in Segments, Remove(a, s) PROVE SafeInv'
  BY <1>7 DEF Remove
<1>8. ASSUME NEW s \in Segments, RemoveFailed(a, s) PROVE SafeInv'
  BY <1>8 DEF RemoveFailed, Return
<1>9. CASE Cleaned(a) \/ Metadata(a)
  BY <1>9 DEF Cleaned, Metadata, Return, files
<1>10. QED
  BY <1>1, <1>2, <1>3, <1>4, <1>5, <1>6, <1>7, <1>8, <1>9 DEF Upload

LEMMA SafeStep == ASSUME SafeInv, StepTypes, [Next]_vars PROVE SafeInv'
<1> USE DEF SafeInv, StepTypes, MarkerTrue, SentStored, VictimsStored, UnuploadedNeverDeleted
<1>1. ASSUME NEW s \in Segments, Publish(s) PROVE SafeInv'
  BY <1>1 DEF Publish, upload
<1>2. CASE HourPasses \/ MinutePasses \/ EncoderEnds \/ UNCHANGED vars
  BY <1>2 DEF HourPasses, MinutePasses, EncoderEnds, upload, files, vars
<1>3. CASE Crash
  BY <1>3 DEF Crash
<1>4. ASSUME NEW a \in Actors, Upload(a) PROVE SafeInv'
  BY <1>4, SafeUpload
<1>5. CASE TaskLoop
  <2>1. CASE TaskRecv \/ TaskReturns \/ TaskScan \/ TaskResult
    BY <2>1 DEF TaskRecv, TaskReturns, TaskScan, TaskResult, Begin, End, files, upload
  <2>2. ASSUME NEW s \in Segments, TaskNext(s) PROVE SafeInv'
    BY <2>2 DEF TaskNext, Begin, files
  <2>3. QED
    BY <1>5, <2>1, <2>2 DEF TaskLoop
<1>6. ASSUME NEW e \in Exports, ExportCall(e) \/ ExportStep(e) \/ ExportCancelled(e)
      PROVE  SafeInv'
  <2>1. CASE ExportCall(e) \/ ExportFlushed(e) \/ ExportDone(e)
    BY <2>1 DEF ExportCall, ExportFlushed, ExportDone, files, upload
  <2>2. ASSUME NEW s \in Segments, ExportNext(e, s) PROVE SafeInv'
    BY <2>2 DEF ExportNext, Begin, files
  <2>3. CASE ExportResult(e)
    BY <2>3 DEF ExportResult, End, files
  <2>4. CASE ExportCancelled(e)
    BY <2>4 DEF ExportCancelled, Return
  <2>5. QED
    BY <1>6, <2>1, <2>2, <2>3, <2>4 DEF ExportStep
<1>7. QED
  BY <1>1, <1>2, <1>3, <1>4, <1>5, <1>6 DEF Next

\* Whatever requests and file operations fail, time out or are cut short by a crash, a segment
\* that was published is in the directory or in the bucket: cleanup trusts only markers, and
\* upload writes a marker only after await_s3 returned.
THEOREM NothingUnuploadedDeleted == Spec => []UnuploadedNeverDeleted
<1>1. Init => LockInv /\ ChannelType /\ SafeInv
  <2>1. Init => SafeInv
    BY DEF Init, SafeInv, MarkerTrue, SentStored, VictimsStored, UnuploadedNeverDeleted
  <2>2. QED
    BY <2>1, LockInit
<1>2. LockInv /\ ChannelType /\ SafeInv /\ [Next]_vars => LockInv' /\ ChannelType' /\ SafeInv'
  <2>1. ASSUME ChannelType, [Next]_vars PROVE ChannelType'
    BY <2>1, ChannelStep DEF ChannelType, vars
  <2>2. QED
    BY <2>1, LockStep, SafeStep DEF LockInv
<1>3. SafeInv => UnuploadedNeverDeleted
  BY DEF SafeInv
<1>4. QED
  BY <1>1, <1>2, <1>3, PTL DEF Spec

-----------------------------------------------------------------------------
(* No file disappears under an upload.                                     *)

LEMMA PresentUpload ==
    ASSUME NoRemovalDuringPut, LockInv, NEW a \in Actors, Upload(a) PROVE NoRemovalDuringPut'
<1> USE DEF NoRemovalDuringPut, LockInv, StepTypes
<1>1. CASE Acquire(a)
  BY <1>1 DEF Acquire, Return, files
<1>2. CASE PutOk(a) \/ Mark(a)
  BY <1>2 DEF PutOk, Mark
<1>3. CASE PutFailed(a) \/ MarkFailed(a)
  BY <1>3 DEF PutFailed, MarkFailed, Return
<1>4. CASE Clean(a)
  BY <1>4 DEF Clean, Return, files
\* Another actor at "put" or "mark" would hold the lock that a holds.
<1>5. ASSUME step[a] = "remove" PROVE \A b \in Actors : step[b] \notin {"put", "mark"}
  BY <1>5 DEF Owned, Holding
<1>6. ASSUME NEW s \in Segments, Remove(a, s) PROVE NoRemovalDuringPut'
  BY <1>5, <1>6 DEF Remove
<1>7. ASSUME NEW s \in Segments, RemoveFailed(a, s) PROVE NoRemovalDuringPut'
  BY <1>5, <1>7 DEF RemoveFailed, Return
<1>8. CASE Cleaned(a) \/ Metadata(a)
  BY <1>8 DEF Cleaned, Metadata, Return, files
<1>9. QED
  BY <1>1, <1>2, <1>3, <1>4, <1>6, <1>7, <1>8 DEF Upload

LEMMA PresentStep ==
    ASSUME NoRemovalDuringPut, LockInv, [Next]_vars PROVE NoRemovalDuringPut'
<1> USE DEF NoRemovalDuringPut, LockInv, StepTypes
<1>1. ASSUME NEW s \in Segments, Publish(s) PROVE NoRemovalDuringPut'
  BY <1>1 DEF Publish, upload
<1>2. CASE HourPasses \/ MinutePasses \/ EncoderEnds \/ UNCHANGED vars
  BY <1>2 DEF HourPasses, MinutePasses, EncoderEnds, upload, files, vars
<1>3. CASE Crash
  BY <1>3 DEF Crash
<1>4. ASSUME NEW a \in Actors, Upload(a) PROVE NoRemovalDuringPut'
  BY <1>4, PresentUpload
<1>5. CASE TaskLoop
  <2>1. CASE TaskRecv \/ TaskReturns \/ TaskScan \/ TaskResult
    BY <2>1 DEF TaskRecv, TaskReturns, TaskScan, TaskResult, Begin, End, files, upload
  <2>2. ASSUME NEW s \in Segments, TaskNext(s) PROVE NoRemovalDuringPut'
    BY <2>2 DEF TaskNext, Begin, files
  <2>3. QED
    BY <1>5, <2>1, <2>2 DEF TaskLoop
<1>6. ASSUME NEW e \in Exports, ExportCall(e) \/ ExportStep(e) \/ ExportCancelled(e)
      PROVE  NoRemovalDuringPut'
  <2>1. CASE ExportCall(e) \/ ExportFlushed(e) \/ ExportDone(e)
    BY <2>1 DEF ExportCall, ExportFlushed, ExportDone, files, upload
  <2>2. ASSUME NEW s \in Segments, ExportNext(e, s) PROVE NoRemovalDuringPut'
    BY <2>2 DEF ExportNext, Begin, files
  <2>3. CASE ExportResult(e)
    BY <2>3 DEF ExportResult, End, files
  <2>4. CASE ExportCancelled(e)
    BY <2>4 DEF ExportCancelled, Return
  <2>5. QED
    BY <1>6, <2>1, <2>2, <2>3, <2>4 DEF ExportStep
<1>7. QED
  BY <1>1, <1>2, <1>3, <1>4, <1>5, <1>6 DEF Next

\* A clean-up, run by the task or by any export, never removes the file an upload is sending
\* or has just sent: both happen under upload_lock, and a crash or a cancelled export that
\* drops the lock ends the upload with it.
THEOREM UploadsKeepTheirFile == Spec => []NoRemovalDuringPut
<1>1. Init => LockInv /\ ChannelType /\ NoRemovalDuringPut
  BY LockInit DEF Init, NoRemovalDuringPut
<1>2. LockInv /\ ChannelType /\ NoRemovalDuringPut /\ [Next]_vars
        => LockInv' /\ ChannelType' /\ NoRemovalDuringPut'
  <2>1. ASSUME ChannelType, [Next]_vars PROVE ChannelType'
    BY <2>1, ChannelStep DEF ChannelType, vars
  <2>2. QED
    BY <2>1, LockStep, PresentStep
<1>3. QED
  BY <1>1, <1>2, PTL DEF Spec

-----------------------------------------------------------------------------
(* Retention.                                                              *)

LEMMA AgeStep == ASSUME AgeInv, [Next]_vars PROVE AgeInv'
<1> USE SegmentAssumption, RetentionAssumption
    DEF AgeInv, ClockType, DiskSegments, VictimsAged
<1>0. ASSUME UNCHANGED <<disk, victims, now>> PROVE AgeInv'
  BY <1>0
<1>1. ASSUME NEW s \in Segments, Publish(s) PROVE AgeInv'
  BY <1>1 DEF Publish, upload
<1>2. CASE HourPasses
  BY <1>2 DEF HourPasses, upload, files
<1>3. CASE MinutePasses \/ EncoderEnds \/ UNCHANGED vars
  BY <1>3 DEF MinutePasses, EncoderEnds, upload, files, vars
<1>4. CASE Crash
  BY <1>4 DEF Crash
<1>5. ASSUME NEW a \in Actors, Upload(a) PROVE AgeInv'
  <2>1. CASE Acquire(a) \/ PutOk(a) \/ PutFailed(a) \/ Mark(a) \/ MarkFailed(a)
    BY <1>0, <2>1 DEF Acquire, PutOk, PutFailed, Mark, MarkFailed, files
  <2>2. CASE Clean(a)
    <3>1. ASSUME NEW hours \in {MinRetention, MaxRetention}, victims' = Expired(hours)
          PROVE  AgeInv'
      BY <2>2, <3>1 DEF Clean, Expired, files
    <3>2. QED
      BY <1>0, <2>2, <3>1 DEF Clean, files
  <2>3. ASSUME NEW s \in Segments, Remove(a, s) \/ RemoveFailed(a, s) PROVE AgeInv'
    BY <2>3 DEF Remove, RemoveFailed
  <2>4. CASE Cleaned(a) \/ Metadata(a)
    BY <1>0, <2>4 DEF Cleaned, Metadata, files
  <2>5. QED
    BY <1>5, <2>1, <2>2, <2>3, <2>4 DEF Upload
<1>6. CASE TaskLoop
  BY <1>0, <1>6 DEF TaskLoop, TaskRecv, TaskReturns, TaskScan, TaskResult, TaskNext, files, upload
<1>7. ASSUME NEW e \in Exports, ExportCall(e) \/ ExportStep(e) \/ ExportCancelled(e)
      PROVE  AgeInv'
  BY <1>0, <1>7 DEF ExportCall, ExportStep, ExportFlushed, ExportDone, ExportNext, ExportResult,
                    ExportCancelled, files, upload
<1>8. QED
  BY <1>1, <1>2, <1>3, <1>4, <1>5, <1>6, <1>7 DEF Next

\* Only a victim of the running clean-up can disappear.
LEMMA OnlyVictims == ASSUME [Next]_vars PROVE disk \ disk' \subseteq victims
<1>1. ASSUME NEW s \in Segments, Publish(s) PROVE disk \subseteq disk'
  BY <1>1 DEF Publish
<1>2. CASE HourPasses \/ MinutePasses \/ EncoderEnds \/ UNCHANGED vars
  BY <1>2 DEF HourPasses, MinutePasses, EncoderEnds, files, vars
<1>3. CASE Crash
  BY <1>3 DEF Crash
<1>4. ASSUME NEW a \in Actors, Upload(a) PROVE disk \ disk' \subseteq victims
  BY <1>4 DEF Upload, Acquire, PutOk, PutFailed, Mark, MarkFailed, Clean, Remove, RemoveFailed,
              Cleaned, Metadata, files
<1>5. CASE TaskLoop
  BY <1>5 DEF TaskLoop, TaskRecv, TaskReturns, TaskScan, TaskResult, TaskNext, files
<1>6. ASSUME NEW e \in Exports, ExportCall(e) \/ ExportStep(e) \/ ExportCancelled(e)
      PROVE  disk' = disk
  BY <1>6 DEF ExportCall, ExportStep, ExportFlushed, ExportDone, ExportNext, ExportResult,
              ExportCancelled, files
<1>7. QED
  BY <1>1, <1>2, <1>3, <1>4, <1>5, <1>6 DEF Next

\* No step removes a segment that is not in the bucket or is younger than the shorter
\* retention, whichever retention the free space selects and however long the clean-up takes.
THEOREM RetentionHolds == Spec => RetentionRespected
<1> DEFINE Inv == LockInv /\ ChannelType /\ SafeInv /\ AgeInv
<1>1. Init => Inv
  <2>1. Init => SafeInv
    BY DEF Init, SafeInv, MarkerTrue, SentStored, VictimsStored, UnuploadedNeverDeleted
  <2>2. Init => AgeInv
    BY DEF Init, AgeInv, ClockType, DiskSegments, VictimsAged
  <2>3. QED
    BY <2>1, <2>2, LockInit
<1>2. Inv /\ [Next]_vars => Inv'
  <2>1. ASSUME ChannelType, [Next]_vars PROVE ChannelType'
    BY <2>1, ChannelStep DEF ChannelType, vars
  <2>2. QED
    BY <2>1, LockStep, SafeStep, AgeStep DEF LockInv
<1>3. Inv /\ [Next]_vars
        => [\A s \in disk \ disk' : s \in stored /\ HourOf[s] + MinRetention <= now]_vars
  BY OnlyVictims DEF SafeInv, VictimsStored, AgeInv, VictimsAged
<1>4. QED
  BY <1>1, <1>2, <1>3, PTL DEF Spec, RetentionRespected

-----------------------------------------------------------------------------
(* Types.                                                                  *)

FileTypes ==
    /\ disk \subseteq Segments /\ marker \subseteq Segments /\ stored \subseteq Segments
    /\ victims \subseteq Segments /\ published \subseteq Segments
UploadTypes ==
    /\ lock \in Actors \cup {None} /\ step \in [Actors -> Steps]
    /\ item \in [Actors -> Segments \cup {None}]
    /\ \A a \in Actors : step[a] # "idle" => item[a] \in Segments
LoopTypes ==
    /\ due \in BOOLEAN /\ list \in [Actors -> SUBSET Segments] /\ attempt \in 1..Attempts
    /\ now \in Nat /\ crashes \in Nat /\ encoder \in BOOLEAN /\ spawned \in BOOLEAN
CallTypes ==
    /\ export \in [Exports -> ExportState] /\ any \in [Exports -> BOOLEAN]
    /\ wanted \in [Exports -> SUBSET Segments]

LEMMA TypeParts ==
    /\ TypeOK <=> FileTypes /\ UploadTypes /\ LoopTypes /\ CallTypes /\ ChannelType
    /\ TypeOK' <=> FileTypes' /\ UploadTypes' /\ LoopTypes' /\ CallTypes' /\ ChannelType'
  BY DEF TypeOK, FileTypes, UploadTypes, LoopTypes, CallTypes, ChannelType

LEMMA TypeInit == Init => TypeOK
  BY RetentionAssumption DEF Init, TypeOK, Steps, ExportState

\* What upload leaves: it moves one actor, which has a segment in hand unless it is idle.
LEMMA UploadKeepsTypes ==
    ASSUME UploadTypes, NEW a \in Actors, NEW x \in Steps, step[a] # "idle",
           step' = [step EXCEPT ![a] = x], lock' \in Actors \cup {None}, item' = item
    PROVE  UploadTypes'
  BY DEF UploadTypes

LEMMA TypeUpload == ASSUME TypeOK, NEW a \in Actors, Upload(a) PROVE TypeOK'
<1> USE TypeParts
<1>0. UNCHANGED <<list, attempt, export, any, wanted, now, process, channel, published, item>>
  BY DEF Upload, Acquire, PutOk, PutFailed, Mark, MarkFailed, Clean, Remove, RemoveFailed, Cleaned,
         Metadata, calls
<1>1. CallTypes' /\ ChannelType'
  BY <1>0 DEF CallTypes, ChannelType
<1>2. LoopTypes'
  <2>1. due' = due \/ due' = FALSE
    BY DEF Upload, Acquire, PutOk, PutFailed, Mark, MarkFailed, Clean, Remove, RemoveFailed, Cleaned,
           Metadata
  <2>2. QED
    BY <1>0, <2>1 DEF LoopTypes, process
<1>3. step[a] # "idle" /\ item[a] \in Segments
  BY DEF Upload, Acquire, PutOk, PutFailed, Mark, MarkFailed, Clean, Remove, RemoveFailed, Cleaned,
         Metadata, UploadTypes
<1>4. FileTypes'
  BY <1>0, <1>3 DEF Upload, Acquire, PutOk, PutFailed, Mark, MarkFailed, Clean, Remove, RemoveFailed,
                    Cleaned, Metadata, FileTypes, files, Expired
<1>5. lock' \in Actors \cup {None}
  BY DEF Upload, Acquire, PutOk, PutFailed, Mark, MarkFailed, Clean, Remove, RemoveFailed, Cleaned,
         Metadata, Return, UploadTypes
<1>6. \E x \in Steps : step' = [step EXCEPT ![a] = x]
  <2>1. ASSUME NEW s \in Segments, Remove(a, s) PROVE step' = [step EXCEPT ![a] = step[a]] /\ step[a] \in Steps
    BY <2>1 DEF Remove, UploadTypes
  <2>2. "ok" \in Steps /\ "err" \in Steps /\ "put" \in Steps /\ "mark" \in Steps /\ "clean" \in Steps
        /\ "remove" \in Steps /\ "meta" \in Steps
    BY DEF Steps
  <2>3. CASE Acquire(a) \/ PutOk(a) \/ PutFailed(a) \/ Mark(a) \/ MarkFailed(a)
    BY <2>2, <2>3 DEF Acquire, PutOk, PutFailed, Mark, MarkFailed, Return
  <2>4. CASE Clean(a) \/ Cleaned(a) \/ Metadata(a)
    BY <2>2, <2>4 DEF Clean, Cleaned, Metadata, Return
  <2>5. ASSUME NEW s \in Segments, RemoveFailed(a, s) PROVE \E x \in Steps : step' = [step EXCEPT ![a] = x]
    BY <2>2, <2>5 DEF RemoveFailed, Return
  <2>6. QED
    BY <2>1, <2>3, <2>4, <2>5 DEF Upload
<1>7. UploadTypes'
  BY <1>0, <1>3, <1>5, <1>6, UploadKeepsTypes
<1>8. QED
  BY <1>1, <1>2, <1>4, <1>7

LEMMA TypeStep == ASSUME TypeOK, [Next]_vars PROVE TypeOK'
<1> USE TypeParts
<1>0. ChannelType'
  BY ChannelStep DEF ChannelType, vars
<1>1. CASE UNCHANGED vars
  BY <1>0, <1>1 DEF vars, files, upload, calls, FileTypes, UploadTypes, LoopTypes, process, CallTypes
<1>2. ASSUME NEW s \in Segments, Publish(s) PROVE TypeOK'
  BY <1>0, <1>2 DEF Publish, upload, calls, FileTypes, UploadTypes, LoopTypes, process, CallTypes
<1>3. CASE HourPasses \/ MinutePasses \/ EncoderEnds
  <2>1. FileTypes' /\ UploadTypes' /\ CallTypes'
    BY <1>3 DEF HourPasses, MinutePasses, EncoderEnds, files, upload, calls, FileTypes, UploadTypes, CallTypes
  <2>2. LoopTypes'
    <3>1. now' \in Nat
      BY <1>3 DEF HourPasses, MinutePasses, EncoderEnds, LoopTypes, process
    <3>2. due' \in BOOLEAN
      BY <1>3 DEF HourPasses, MinutePasses, EncoderEnds, LoopTypes, process, upload
    <3>3. QED
      BY <1>3, <3>1, <3>2 DEF HourPasses, MinutePasses, EncoderEnds, LoopTypes, process
  <2>3. QED
    BY <1>0, <2>1, <2>2
<1>4. CASE Crash
  <2>1. FileTypes'
    BY <1>4 DEF Crash, FileTypes, UploadTypes
  <2>2. UploadTypes'
    BY <1>4 DEF Crash, UploadTypes, Steps
  <2>3. LoopTypes'
    BY <1>4, RetentionAssumption DEF Crash, LoopTypes, process
  <2>4. CallTypes'
    BY <1>4 DEF Crash, CallTypes, ExportState
  <2>5. QED
    BY <1>0, <2>1, <2>2, <2>3, <2>4
<1>5. ASSUME NEW a \in Actors, Upload(a) PROVE TypeOK'
  BY <1>5, TypeUpload
<1>6. ASSUME NEW a \in Actors, NEW s \in Segments, Begin(a, s), lock' = lock PROVE UploadTypes'
  BY <1>6 DEF Begin, UploadTypes, Steps
<1>7. ASSUME NEW a \in Actors, End(a), lock' = lock PROVE UploadTypes'
  BY <1>7 DEF End, UploadTypes, Steps
<1>8. CASE TaskLoop
  <2>0. Task \in Actors
    BY DEF Actors
  <2>1. FileTypes' /\ CallTypes' /\ UNCHANGED <<lock, now, due>>
    BY <1>8 DEF TaskLoop, TaskRecv, TaskReturns, TaskScan, TaskResult, TaskNext, files, upload, calls, FileTypes, CallTypes
  <2>2. CASE TaskRecv
    <3>1. Head(channel) \in Segments
      BY <2>2 DEF TaskRecv, ChannelType
    <3>2. QED
      BY <1>0, <1>6, <2>0, <2>1, <2>2, <3>1 DEF TaskRecv, LoopTypes, process
  <2>3. CASE TaskReturns \/ TaskScan
    BY <1>0, <2>0, <2>1, <2>3 DEF TaskReturns, TaskScan, ScanFiles, upload, UploadTypes, LoopTypes, process, FileTypes
  <2>4. CASE TaskResult
    <3>1. UploadTypes'
      <4>1. step[Task] = "err" => item[Task] \in Segments
        BY <2>0 DEF UploadTypes
      <4>2. QED
        BY <1>6, <1>7, <2>0, <2>1, <2>4, <4>1 DEF TaskResult
    <3>2. LoopTypes'
      BY <2>1, <2>4, RetentionAssumption DEF TaskResult, LoopTypes, process
    <3>3. QED
      BY <1>0, <2>1, <3>1, <3>2
  <2>5. ASSUME NEW s \in Segments, TaskNext(s) PROVE TypeOK'
    <3>1. LoopTypes'
      BY <2>0, <2>1, <2>5 DEF TaskNext, LoopTypes, process
    <3>2. UploadTypes'
      BY <1>6, <2>0, <2>1, <2>5 DEF TaskNext, UploadTypes
    <3>3. QED
      BY <1>0, <2>1, <3>1, <3>2
  <2>6. QED
    BY <1>8, <2>2, <2>3, <2>4, <2>5 DEF TaskLoop
<1>9. ASSUME NEW e \in Exports, ExportCall(e) \/ ExportStep(e) \/ ExportCancelled(e) PROVE TypeOK'
  <2>0. e \in Actors
    BY DEF Actors
  <2>1. CASE ExportCall(e)
    BY <1>0, <2>1 DEF ExportCall, files, upload, OfHour, FileTypes, UploadTypes, LoopTypes, process, CallTypes, ExportState
  <2>2. CASE ExportFlushed(e) \/ ExportDone(e)
    <3>1. FileTypes' /\ UploadTypes'
      BY <2>2 DEF ExportFlushed, ExportDone, files, upload, FileTypes, UploadTypes
    <3>2. LoopTypes'
      BY <2>0, <2>2 DEF ExportFlushed, ExportDone, upload, OfHour, LoopTypes, process, FileTypes
    <3>3. CallTypes'
      BY <2>2 DEF ExportFlushed, ExportDone, CallTypes, ExportState
    <3>4. QED
      BY <1>0, <3>1, <3>2, <3>3
  <2>3. ASSUME NEW s \in Segments, ExportNext(e, s) PROVE TypeOK'
    <3>1. FileTypes' /\ LoopTypes' /\ CallTypes'
      BY <2>0, <2>3 DEF ExportNext, files, FileTypes, LoopTypes, process, CallTypes, ExportState
    <3>2. UploadTypes'
      BY <1>6, <2>0, <2>3 DEF ExportNext, UploadTypes
    <3>3. QED
      BY <1>0, <3>1, <3>2
  <2>4. CASE ExportResult(e)
    <3>1. FileTypes' /\ LoopTypes' /\ CallTypes'
      BY <2>4 DEF ExportResult, files, FileTypes, LoopTypes, process, CallTypes, ExportState
    <3>2. UploadTypes'
      BY <1>7, <2>0, <2>4 DEF ExportResult
    <3>3. QED
      BY <1>0, <3>1, <3>2
  <2>5. CASE ExportCancelled(e)
    <3>1. FileTypes'
      BY <2>0, <2>5 DEF ExportCancelled, FileTypes, UploadTypes
    <3>2. LoopTypes' /\ CallTypes'
      BY <2>5 DEF ExportCancelled, LoopTypes, process, CallTypes, ExportState
    <3>3. UploadTypes'
      BY <2>0, <2>5 DEF ExportCancelled, Return, UploadTypes, Steps
    <3>4. QED
      BY <1>0, <3>1, <3>2, <3>3
  <2>6. QED
    BY <1>9, <2>1, <2>2, <2>3, <2>4, <2>5 DEF ExportStep
<1>10. QED
  BY <1>1, <1>2, <1>3, <1>4, <1>5, <1>8, <1>9 DEF Next

\* The archiver's state keeps its types: an upload under way always has a segment in hand, and
\* the task never counts past its last attempt.
THEOREM ArchiverTypeCorrect == Spec => []TypeOK
  BY TypeInit, TypeStep, PTL DEF Spec

-----------------------------------------------------------------------------
(* A successful export leaves nothing behind.                              *)

\* An upload that got past its request has the segment in the bucket.
UploadStored == \A a \in Actors : step[a] \in {"mark", "clean", "remove", "meta", "ok"} => item[a] \in stored
\* A segment that a running export has to deliver is in the bucket, still to come or in hand.
ExportKeeps(e) ==
    /\ \A s \in wanted[e] : s \in published /\ HourOf[s] = ExportHour[e]
    /\ export[e] = "run" => \A s \in wanted[e] : s \in stored \/ s \in list[e] \/ (step[e] # "idle" /\ item[e] = s)
    /\ export[e] = "ok" => wanted[e] \subseteq stored
ExportInv == \A e \in Exports : ExportKeeps(e)

LEMMA StoredUpload ==
    ASSUME TypeOK, SafeInv, UploadStored, NEW a \in Actors, Upload(a) PROVE UploadStored'
<1> USE DEF UploadStored
<1>0. step \in [Actors -> Steps] /\ marker \subseteq stored
  BY DEF TypeOK, SafeInv, MarkerTrue
<1>1. CASE Acquire(a)
  BY <1>0, <1>1 DEF Acquire, Return, files
<1>2. CASE PutOk(a) \/ Mark(a) \/ Cleaned(a)
  BY <1>0, <1>2 DEF PutOk, Mark, Cleaned, files
<1>3. CASE PutFailed(a) \/ MarkFailed(a)
  BY <1>0, <1>3 DEF PutFailed, MarkFailed, Return
<1>4. CASE Clean(a) \/ Metadata(a)
  BY <1>0, <1>4 DEF Clean, Metadata, Return, files
<1>5. ASSUME NEW s \in Segments, Remove(a, s) \/ RemoveFailed(a, s) PROVE UploadStored'
  BY <1>0, <1>5 DEF Remove, RemoveFailed, Return
<1>6. QED
  BY <1>1, <1>2, <1>3, <1>4, <1>5 DEF Upload

LEMMA StoredStep == ASSUME TypeOK, SafeInv, UploadStored, [Next]_vars PROVE UploadStored'
<1>0. step \in [Actors -> Steps] /\ item \in [Actors -> Segments \cup {None}]
  BY DEF TypeOK
<1>1. CASE stored' = stored /\ step' = step /\ item' = item
  BY <1>1 DEF UploadStored
<1>2. ASSUME NEW a \in Actors, Upload(a) PROVE UploadStored'
  BY <1>2, StoredUpload
<1>3. ASSUME NEW a \in Actors, NEW s \in Segments \cup {None}, Begin(a, s) \/ End(a), stored' = stored PROVE UploadStored'
  BY <1>0, <1>3 DEF Begin, End, UploadStored
<1>4. CASE Crash
  BY <1>4 DEF Crash, UploadStored
<1>5. ASSUME NEW e \in Exports, ExportCancelled(e) PROVE UploadStored'
  BY <1>0, <1>5 DEF ExportCancelled, Return, UploadStored
<1>6. CASE TaskLoop
  <2>0. Task \in Actors /\ item[Task] \in Segments \cup {None}
    BY <1>0 DEF Actors
  <2>1. CASE TaskRecv
    <3>1. Head(channel) \in Segments
      BY <2>1 DEF TaskRecv, TypeOK
    <3>2. QED
      BY <1>3, <2>0, <2>1, <3>1 DEF TaskRecv, files
  <2>2. CASE TaskReturns \/ TaskScan
    BY <1>1, <2>2 DEF TaskReturns, TaskScan, files, upload
  <2>3. CASE TaskResult
    BY <1>3, <2>0, <2>3 DEF TaskResult, files
  <2>4. ASSUME NEW s \in Segments, TaskNext(s) PROVE UploadStored'
    BY <1>1, <1>3, <2>0, <2>4 DEF TaskNext, files
  <2>5. QED
    BY <1>6, <2>1, <2>2, <2>3, <2>4 DEF TaskLoop
<1>7. ASSUME NEW e \in Exports, ExportCall(e) \/ ExportStep(e) PROVE UploadStored'
  <2>0. e \in Actors
    BY DEF Actors
  <2>1. CASE ExportCall(e) \/ ExportFlushed(e) \/ ExportDone(e)
    BY <1>1, <2>1 DEF ExportCall, ExportFlushed, ExportDone, files, upload
  <2>2. ASSUME NEW s \in Segments, ExportNext(e, s) PROVE UploadStored'
    BY <1>1, <1>3, <2>0, <2>2 DEF ExportNext, files
  <2>3. CASE ExportResult(e)
    BY <1>3, <2>0, <2>3 DEF ExportResult, files
  <2>4. QED
    BY <1>7, <2>1, <2>2, <2>3 DEF ExportStep
<1>8. ASSUME NEW s \in Segments, Publish(s) PROVE UploadStored'
  BY <1>1, <1>8 DEF Publish, upload
<1>9. CASE HourPasses \/ MinutePasses \/ EncoderEnds \/ UNCHANGED vars
  BY <1>1, <1>9 DEF HourPasses, MinutePasses, EncoderEnds, upload, files, vars
<1>10. QED
  BY <1>2, <1>4, <1>5, <1>6, <1>7, <1>8, <1>9 DEF Next

\* What the bucket has it keeps, and what was published was.
LEMMA StoredKept == ASSUME [Next]_vars PROVE stored \subseteq stored' /\ published \subseteq published'
<1>1. ASSUME NEW a \in Actors, Upload(a) PROVE stored \subseteq stored' /\ published' = published
  BY <1>1 DEF Upload, Acquire, PutOk, PutFailed, Mark, MarkFailed, Clean, Remove, RemoveFailed, Cleaned,
              Metadata, files
<1>2. ASSUME NEW s \in Segments, Publish(s) PROVE stored' = stored /\ published \subseteq published'
  BY <1>2 DEF Publish
<1>3. CASE HourPasses \/ MinutePasses \/ EncoderEnds \/ UNCHANGED vars \/ Crash
  BY <1>3 DEF HourPasses, MinutePasses, EncoderEnds, vars, Crash, files
<1>4. CASE TaskLoop
  BY <1>4 DEF TaskLoop, TaskRecv, TaskReturns, TaskScan, TaskResult, TaskNext, files
<1>5. ASSUME NEW e \in Exports, ExportCall(e) \/ ExportStep(e) \/ ExportCancelled(e)
      PROVE  stored \subseteq stored' /\ published' = published
  BY <1>5 DEF ExportCall, ExportStep, ExportFlushed, ExportDone, ExportNext, ExportResult,
              ExportCancelled, files
<1>6. QED
  BY <1>1, <1>2, <1>3, <1>4, <1>5 DEF Next

LEMMA ExportInvStep ==
    ASSUME TypeOK, SafeInv, UploadStored, ExportInv, [Next]_vars PROVE ExportInv'
<1>0. /\ step \in [Actors -> Steps] /\ item \in [Actors -> Segments \cup {None}]
      /\ list \in [Actors -> SUBSET Segments] /\ export \in [Exports -> ExportState]
      /\ wanted \in [Exports -> SUBSET Segments] /\ published \subseteq Segments
      /\ Task \notin Exports /\ \A e \in Exports : e \in Actors /\ e # Task
      /\ stored \subseteq stored' /\ published \subseteq published'
  BY StoredKept, ExportAssumption DEF TypeOK, Actors
\* A call that a step leaves alone, but for what is in the bucket.
<1>1. ASSUME NEW e \in Exports, UNCHANGED <<wanted[e], export[e], list[e], step[e], item[e]>>
      PROVE  ExportKeeps(e)'
  BY <1>0, <1>1 DEF ExportInv, ExportKeeps
<1>2. ASSUME NEW a \in Actors, Upload(a), NEW e \in Exports PROVE ExportKeeps(e)'
  <2>1. UNCHANGED <<wanted, export, list, item>> /\ step[a] # "idle" /\ step'[a] # "idle"
        /\ \A b \in Actors \ {a} : step'[b] = step[b]
    <3>1. UNCHANGED <<wanted, export, list, item>>
      BY <1>2 DEF Upload, Acquire, PutOk, PutFailed, Mark, MarkFailed, Clean, Remove, RemoveFailed,
                  Cleaned, Metadata, calls
    <3>2. step[a] # "idle" /\ step'[a] # "idle" /\ \A b \in Actors \ {a} : step'[b] = step[b]
      <4>1. CASE Acquire(a) \/ PutOk(a) \/ PutFailed(a) \/ Mark(a) \/ MarkFailed(a)
        BY <1>0, <4>1 DEF Acquire, PutOk, PutFailed, Mark, MarkFailed, Return
      <4>2. CASE Clean(a) \/ Cleaned(a) \/ Metadata(a)
        BY <1>0, <4>2 DEF Clean, Cleaned, Metadata, Return
      <4>3. ASSUME NEW s \in Segments, Remove(a, s) \/ RemoveFailed(a, s)
            PROVE  step[a] # "idle" /\ step'[a] # "idle" /\ \A b \in Actors \ {a} : step'[b] = step[b]
        BY <1>0, <4>3 DEF Remove, RemoveFailed, Return
      <4>4. QED
        BY <1>2, <4>1, <4>2, <4>3 DEF Upload
    <3>3. QED
      BY <3>1, <3>2
  <2>2. QED
    BY <1>0, <2>1 DEF ExportInv, ExportKeeps
<1>3. ASSUME TaskLoop, NEW e \in Exports PROVE ExportKeeps(e)'
  <2>1. UNCHANGED <<wanted, export>>
    BY <1>3 DEF TaskLoop, TaskRecv, TaskReturns, TaskScan, TaskResult, TaskNext, calls
  <2>2. UNCHANGED <<list[e], step[e], item[e]>>
    BY <1>0, <1>3 DEF TaskLoop, TaskRecv, TaskReturns, TaskScan, TaskResult, TaskNext, Begin, End, upload
  <2>3. QED
    BY <1>1, <2>1, <2>2
<1>4. ASSUME Crash, NEW e \in Exports PROVE ExportKeeps(e)'
  <2>1. wanted' = wanted /\ export'[e] # "run" /\ (export'[e] = "ok" => export[e] = "ok")
    BY <1>0, <1>4 DEF Crash
  <2>2. QED
    BY <1>0, <2>1 DEF ExportInv, ExportKeeps
<1>5. ASSUME NEW e \in Exports, ExportCall(e) \/ ExportStep(e) \/ ExportCancelled(e), NEW k \in Exports \ {e}
      PROVE  ExportKeeps(k)'
  <2>1. UNCHANGED <<wanted[k], export[k], list[k]>>
    BY <1>0, <1>5 DEF ExportCall, ExportStep, ExportCancelled, ExportFlushed, ExportDone, ExportNext,
                      ExportResult
  <2>2. UNCHANGED <<step[k], item[k]>>
    BY <1>0, <1>5 DEF ExportCall, ExportStep, ExportCancelled, ExportFlushed, ExportDone, ExportNext,
                      ExportResult, Begin, End, Return, upload
  <2>3. QED
    BY <1>1, <2>1, <2>2
<1>6. ASSUME NEW e \in Exports, ExportCall(e) PROVE ExportKeeps(e)'
  <2>1. export'[e] \in {"flush", "err"} /\ wanted'[e] = {s \in published : HourOf[s] = ExportHour[e]} /\ published' = published
    BY <1>0, <1>6 DEF ExportCall, OfHour
  <2>2. QED
    BY <2>1 DEF ExportKeeps
<1>7. ASSUME NEW e \in Exports, ExportFlushed(e) PROVE ExportKeeps(e)'
  <2>1. /\ wanted' = wanted /\ stored' = stored /\ published' = published
        /\ \/ export'[e] = "err"
           \/ export'[e] = "run" /\ list'[e] = {s \in disk : HourOf[s] = ExportHour[e]}
    BY <1>0, <1>7 DEF ExportFlushed, OfHour, files
  <2>2. \A s \in wanted[e] : (s \in disk \/ s \in stored) /\ HourOf[s] = ExportHour[e] /\ s \in published
    BY DEF ExportInv, ExportKeeps, SafeInv, UnuploadedNeverDeleted
  <2>3. QED
    BY <2>1, <2>2 DEF ExportKeeps
<1>8. ASSUME NEW e \in Exports, NEW s \in Segments, ExportNext(e, s) PROVE ExportKeeps(e)'
  <2>1. /\ wanted' = wanted /\ list'[e] = list[e] \ {s} /\ export[e] = "run" /\ step[e] = "idle"
        /\ \/ export'[e] = "err"
           \/ export'[e] = "run" /\ step'[e] = "lock" /\ item'[e] = s
    BY <1>0, <1>8 DEF ExportNext, Begin
  <2>2. QED
    BY <1>0, <2>1 DEF ExportInv, ExportKeeps
<1>9. ASSUME NEW e \in Exports, ExportResult(e) PROVE ExportKeeps(e)'
  <2>1. /\ wanted' = wanted /\ list' = list /\ export[e] = "run"
        /\ export'[e] = "err" \/ (export'[e] = "run" /\ step[e] = "ok")
    BY <1>0, <1>9 DEF ExportResult
  <2>2. step[e] = "ok" => item[e] \in stored
    BY <1>0 DEF UploadStored
  <2>3. QED
    BY <1>0, <2>1, <2>2 DEF ExportInv, ExportKeeps
<1>10. ASSUME NEW e \in Exports, ExportDone(e) PROVE ExportKeeps(e)'
  <2>1. wanted' = wanted /\ export[e] = "run" /\ step[e] = "idle" /\ list[e] = {} /\ export'[e] \in {"ok", "err"}
    BY <1>0, <1>10 DEF ExportDone
  <2>2. QED
    BY <1>0, <2>1 DEF ExportInv, ExportKeeps
<1>11. ASSUME NEW e \in Exports, ExportCancelled(e) PROVE ExportKeeps(e)'
  <2>1. wanted' = wanted /\ export'[e] = "cancelled"
    BY <1>0, <1>11 DEF ExportCancelled
  <2>2. QED
    BY <1>0, <2>1 DEF ExportInv, ExportKeeps
<1>12. ASSUME NEW s \in Segments, Publish(s), NEW e \in Exports PROVE ExportKeeps(e)'
  BY <1>1, <1>12 DEF Publish, upload, calls
<1>13. ASSUME HourPasses \/ MinutePasses \/ EncoderEnds \/ UNCHANGED vars, NEW e \in Exports PROVE ExportKeeps(e)'
  BY <1>1, <1>13 DEF HourPasses, MinutePasses, EncoderEnds, vars, upload, calls
<1>14. ASSUME NEW e \in Exports, ExportCall(e) \/ ExportStep(e) \/ ExportCancelled(e) PROVE ExportKeeps(e)'
  BY <1>6, <1>7, <1>8, <1>9, <1>10, <1>11, <1>14 DEF ExportStep
<1>15. QED
  BY <1>2, <1>3, <1>4, <1>5, <1>12, <1>13, <1>14 DEF Next, ExportInv

\* POST /v1/archive answers with success only when every segment of its hour that was published
\* before the call is in the bucket, for any number of exports beside the task, whatever failed
\* requests, clean-ups and removed files they meet.
THEOREM ExportsAreComplete == Spec => []ExportOkComplete
<1> DEFINE Inv == LockInv /\ ChannelType /\ SafeInv /\ UploadStored /\ ExportInv
<1>1. Init => Inv
  <2>1. Init => SafeInv
    BY DEF Init, SafeInv, MarkerTrue, SentStored, VictimsStored, UnuploadedNeverDeleted
  <2>2. Init => UploadStored /\ ExportInv
    BY DEF Init, UploadStored, ExportInv, ExportKeeps
  <2>3. QED
    BY <2>1, <2>2, LockInit
<1>2. TypeOK /\ Inv /\ [Next]_vars => Inv'
  <2>1. ASSUME ChannelType, [Next]_vars PROVE ChannelType'
    BY <2>1, ChannelStep DEF ChannelType, vars
  <2>2. QED
    BY <2>1, LockStep, SafeStep, StoredStep, ExportInvStep DEF LockInv
<1>3. Inv => ExportOkComplete
  BY DEF ExportInv, ExportKeeps, ExportOkComplete
<1>4. QED
  BY <1>1, <1>2, <1>3, ArchiverTypeCorrect, PTL DEF Spec

=============================================================================
