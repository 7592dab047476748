------------------------- MODULE RecordingLifecycle -------------------------
(***************************************************************************)
(* One clip is three things that no transaction ties together: a local     *)
(* file, a row of the recordings table and (later) an S3 object. Four      *)
(* goroutines change them, one file or database call at a time: recorders  *)
(* (recording.Recorder, TranscodeRecorder), storage.UploadWorker,          *)
(* recording.Retention, and the delete handler of the API. The database    *)
(* has one connection, so each statement is atomic; nothing else is. The   *)
(* settings (S3 enabled, delete local after upload, delete only uploaded)  *)
(* are read afresh by every tick of a worker and may have been edited      *)
(* since its last, so a tick may find any values.                          *)
(*                                                                         *)
(* Recordings are numbered in the order of their start_time, the order     *)
(* every listing uses. Each has a path, and so an S3 key, of its own.      *)
(***************************************************************************)
EXTENDS Integers, FiniteSets

CONSTANTS
  N,           \* bound: how many recordings are ever started
  BatchSize,   \* UploadWorker.BatchSize
  Faults,      \* which calls may fail: subset of FaultKinds
  MaxCrashes   \* bound: how often the process is killed and started again

ASSUME NAssumption == N \in Nat
ASSUME BatchAssumption == BatchSize \in Nat \ {0}

\* "remove": os.Remove of a file that is there
\* "db": any statement but MarkUploaded after a successful upload
\* "mark": MarkUploaded after a successful upload
\* "stat": os.Stat of a file that is there (an I/O error, an unmounted volume)
FaultKinds == {"remove", "db", "mark", "stat"}

ASSUME FaultsAssumption == Faults \subseteq FaultKinds

Recs == 1..N
None == 0

VARIABLES
  disk,         \* recordings whose local file exists
  s3,           \* recordings whose object is in the bucket
  row,          \* row[r]: the database row, or NoRow
  phase,        \* recorder of r: "idle", "file", "writing", "over"
  up,           \* the upload worker
  ret,          \* the retention worker
  del,          \* a delete request of the API
  interrupted,  \* history: clips whose deletion was cut off halfway
  crashes

vars == <<disk, s3, row, phase, up, ret, del, interrupted, crashes>>

Row == [exists : BOOLEAN, complete : BOOLEAN, uploaded : BOOLEAN, key : BOOLEAN,
        localRemoved : BOOLEAN]

NoRow == [exists |-> FALSE, complete |-> FALSE, uploaded |-> FALSE, key |-> FALSE,
          localRemoved |-> FALSE]

\* Uploaded && S3Key != ""
Archived(r) == row[r].uploaded /\ row[r].key

UpIdle == [pc |-> "idle", deleteLocal |-> FALSE, queue |-> {}, cur |-> None]
RetIdle == [pc |-> "idle", s3 |-> FALSE, only |-> FALSE, queue |-> {},
            archived |-> {}, cur |-> None]
DelIdle == [pc |-> "idle", cur |-> None]

UpPCs == {"idle", "next", "open", "send", "mark", "unlink", "flag"}
RetPCs == {"idle", "age", "until", "unlink", "row"}

TypeOK ==
  /\ disk \subseteq Recs
  /\ s3 \subseteq Recs
  /\ row \in [Recs -> Row]
  /\ phase \in [Recs -> {"idle", "file", "writing", "over"}]
  /\ up \in [pc : UpPCs, deleteLocal : BOOLEAN, queue : SUBSET Recs, cur : Recs \cup {None}]
  /\ ret \in [pc : RetPCs, s3 : BOOLEAN, only : BOOLEAN, queue : SUBSET Recs,
              archived : SUBSET Recs, cur : Recs \cup {None}]
  /\ del \in [pc : {"idle", "unlink", "row"}, cur : Recs \cup {None}]
  /\ up.pc = "next" => up.queue # {}
  /\ up.pc \notin {"idle", "next"} => up.cur \in Recs
  /\ ret.pc \in {"unlink", "row"} => ret.cur \in Recs
  /\ del.pc # "idle" => del.cur \in Recs
  /\ interrupted \subseteq Recs
  /\ crashes \in Nat

-----------------------------------------------------------------------------
(***************************************************************************)
(* The recordings table (database/recording_store.go). An UPDATE or a      *)
(* DELETE of a row that is gone changes nothing and reports no error.      *)
(***************************************************************************)
Oldest(S) == {r \in S : \A q \in S : r <= q}   \* at most one

First(S, n) == {r \in S : Cardinality({q \in S : q < r}) < n}

Create(r) == row' = [row EXCEPT ![r] = [NoRow EXCEPT !.exists = TRUE]]

Finalize(r) ==
  row' = IF row[r].exists THEN [row EXCEPT ![r].complete = TRUE] ELSE row

MarkUploaded(r, hasKey) ==
  row' = IF row[r].exists
           THEN [row EXCEPT ![r].uploaded = TRUE, ![r].key = hasKey]
           ELSE row

MarkLocalRemoved(r) ==
  row' = IF row[r].exists THEN [row EXCEPT ![r].localRemoved = TRUE] ELSE row

Delete(r) == row' = [row EXCEPT ![r] = NoRow]

PendingUploadsAll == {r \in Recs : row[r].complete /\ ~row[r].uploaded}

PendingUploads(limit) == First(PendingUploadsAll, limit)

OldestCompleteAnyRow(only) ==   \* mutant: forgets complete = 1
  {r \in Recs : row[r].exists /\ ~row[r].localRemoved /\ (only => row[r].uploaded)}

OldestCompleteIgnoringOnly(only) ==   \* mutant: forgets uploaded = 1
  {r \in Recs : row[r].complete /\ ~row[r].localRemoved}

OldestComplete(only) ==
  {r \in Recs : row[r].complete /\ ~row[r].localRemoved /\ (only => row[r].uploaded)}

-----------------------------------------------------------------------------
Init ==
  /\ disk = {}
  /\ s3 = {}
  /\ row = [r \in Recs |-> NoRow]
  /\ phase = [r \in Recs |-> "idle"]
  /\ up = UpIdle
  /\ ret = RetIdle
  /\ del = DelIdle
  /\ interrupted = {}
  /\ crashes = 0

(***************************************************************************)
(* Recorders: newMP4Writer (or ffmpeg's segment moved into place) creates  *)
(* the file, then SegmentStarted the row; finalize closes the file and     *)
(* SegmentFinalized completes the row. Cameras record concurrently.        *)
(***************************************************************************)
OpenFile(r) ==
  /\ phase[r] = "idle"
  /\ \A q \in Recs : q < r => phase[q] # "idle"
  /\ disk' = disk \cup {r}
  /\ phase' = [phase EXCEPT ![r] = "file"]
  /\ UNCHANGED <<s3, row, up, ret, del, interrupted, crashes>>

SegmentStarted(r) ==
  /\ phase[r] = "file"
  /\ \/ /\ Create(r)
        /\ phase' = [phase EXCEPT ![r] = "writing"]
     \/ /\ "db" \in Faults            \* INSERT fails: the file stays, unknown
        /\ phase' = [phase EXCEPT ![r] = "over"]
        /\ UNCHANGED row
  /\ UNCHANGED <<disk, s3, up, ret, del, interrupted, crashes>>

SegmentFinalized(r) ==
  /\ phase[r] = "writing"
  /\ phase' = [phase EXCEPT ![r] = "over"]
  /\ \/ Finalize(r)
     \/ "db" \in Faults /\ UNCHANGED row
  /\ UNCHANGED <<disk, s3, up, ret, del, interrupted, crashes>>

(***************************************************************************)
(* UploadWorker.runOnce on a tick that finds S3 enabled; "next" is the     *)
(* head of its loop over the batch.                                        *)
(***************************************************************************)
UploadTick ==
  /\ up.pc = "idle"
  /\ PendingUploads(BatchSize) # {}
  /\ \E deleteLocal \in BOOLEAN :
       up' = [UpIdle EXCEPT !.pc = "next", !.deleteLocal = deleteLocal,
                            !.queue = PendingUploads(BatchSize)]
  /\ UNCHANGED <<disk, s3, row, phase, ret, del, interrupted, crashes>>

UpAfterForgettingEnd(queue) ==   \* mutant: runs on past the last clip of the batch
  [up EXCEPT !.pc = "next", !.queue = queue, !.cur = None]

\* The loop goes on with the next clip of the batch, or ends.
UpAfter(queue) ==
  IF queue = {} THEN UpIdle ELSE [up EXCEPT !.pc = "next", !.queue = queue, !.cur = None]

UploadStatLeavingMissing ==   \* mutant: a missing file is skipped, not marked handled
  /\ up.pc = "next"
  /\ \E r \in Oldest(up.queue) :
       \/ /\ r \in disk
          /\ up' = [up EXCEPT !.pc = "open", !.queue = @ \ {r}, !.cur = r]
       \/ /\ r \notin disk
          /\ up' = UpAfter(up.queue \ {r})
  /\ UNCHANGED <<disk, s3, row, phase, ret, del, interrupted, crashes>>

UploadStat ==
  /\ up.pc = "next"
  /\ \E r \in Oldest(up.queue) :
       \/ /\ r \in disk
          /\ up' = [up EXCEPT !.pc = "open", !.queue = @ \ {r}, !.cur = r]
          /\ UNCHANGED row
       \/ /\ r \notin disk \/ "stat" \in Faults
          /\ MarkUploaded(r, FALSE) \/ ("db" \in Faults /\ UNCHANGED row)   \* its error is ignored
          /\ up' = UpAfter(up.queue \ {r})
  /\ UNCHANGED <<disk, s3, phase, ret, del, interrupted, crashes>>

UploadOpen ==
  /\ up.pc = "open"
  /\ up' = IF up.cur \in disk THEN [up EXCEPT !.pc = "send"] ELSE UpAfter(up.queue)
  /\ UNCHANGED <<disk, s3, row, phase, ret, del, interrupted, crashes>>

UploadDone ==          \* the open descriptor survives an unlink
  /\ up.pc = "send"
  /\ s3' = s3 \cup {up.cur}
  /\ up' = [up EXCEPT !.pc = "mark"]
  /\ UNCHANGED <<disk, row, phase, ret, del, interrupted, crashes>>

UploadFailsUnnoticed ==   \* mutant: no "continue" after a failed upload
  /\ up.pc = "send"
  /\ up' = [up EXCEPT !.pc = "mark"]
  /\ UNCHANGED <<disk, s3, row, phase, ret, del, interrupted, crashes>>

UploadFails ==
  /\ up.pc = "send"
  /\ up' = UpAfter(up.queue)
  /\ UNCHANGED <<disk, s3, row, phase, ret, del, interrupted, crashes>>

UploadMark ==
  /\ up.pc = "mark"
  /\ \/ MarkUploaded(up.cur, TRUE)
     \/ "mark" \in Faults /\ UNCHANGED row       \* logged, and carried on
  /\ up' = IF up.deleteLocal THEN [up EXCEPT !.pc = "unlink"] ELSE UpAfter(up.queue)
  /\ UNCHANGED <<disk, s3, phase, ret, del, interrupted, crashes>>

UploadUnlink ==
  /\ up.pc = "unlink"
  /\ \/ /\ disk' = disk \ {up.cur}
        /\ up' = [up EXCEPT !.pc = "flag"]
     \/ /\ "remove" \in Faults
        /\ up' = UpAfter(up.queue)
        /\ UNCHANGED disk
  /\ UNCHANGED <<s3, row, phase, ret, del, interrupted, crashes>>

UploadFlag ==
  /\ up.pc = "flag"
  /\ \/ MarkLocalRemoved(up.cur)
     \/ "db" \in Faults /\ UNCHANGED row
  /\ up' = UpAfter(up.queue)
  /\ UNCHANGED <<disk, s3, phase, ret, del, interrupted, crashes>>

UploadStep ==
  UploadStat \/ UploadOpen \/ UploadMark \/ UploadUnlink \/ UploadFlag

Upload == UploadTick \/ UploadStep \/ UploadDone \/ UploadFails

(***************************************************************************)
(* Retention.Enforce: an age pass over one listing, cut at the age limit,  *)
(* then deleteUntil loops that list one clip at a time while size or free  *)
(* space demand it. How old, big or full things are is left open. Each     *)
(* listed clip is deleted from the snapshot of its row: archived holds the *)
(* listed clips that had Uploaded && S3Key != "" when they were listed.    *)
(***************************************************************************)
RetentionTick ==
  /\ ret.pc = "idle"
  /\ \E s3Enabled, deleteAfterUpload \in BOOLEAN :
       ret' = [RetIdle EXCEPT !.pc = "age", !.s3 = s3Enabled,
                              !.only = deleteAfterUpload /\ s3Enabled]
  /\ UNCHANGED <<disk, s3, row, phase, up, del, interrupted, crashes>>

Take(queue, archived) ==
  \/ /\ queue = {}
     /\ ret' = [ret EXCEPT !.pc = "until", !.queue = {}, !.archived = {}, !.cur = None]
  \/ \E r \in Oldest(queue) :
       ret' = [ret EXCEPT !.pc = "unlink", !.queue = queue \ {r}, !.archived = archived,
                          !.cur = r]

\* Start on a fresh listing, remembering which of its rows said "archived".
List(queue) == Take(queue, {r \in queue : Archived(r)})

RetentionAge ==
  /\ ret.pc = "age"
  /\ \E n \in 0..N : List(First(OldestComplete(ret.only), n))
  /\ UNCHANGED <<disk, s3, row, phase, up, del, interrupted, crashes>>

RetentionUntil ==
  /\ ret.pc = "until"
  /\ \/ /\ OldestComplete(ret.only) # {}
        /\ List(First(OldestComplete(ret.only), 1))
     \/ ret' = RetIdle
  /\ UNCHANGED <<disk, s3, row, phase, up, del, interrupted, crashes>>

RetentionUnlink ==
  /\ ret.pc = "unlink"
  /\ disk' = disk \ {ret.cur}
  /\ ret' = [ret EXCEPT !.pc = "row"]
  /\ UNCHANGED <<s3, row, phase, up, del, interrupted, crashes>>

RetentionRowAlwaysKept ==   \* mutant: the row is kept whether or not S3 holds the clip
  /\ ret.pc = "row"
  /\ MarkLocalRemoved(ret.cur)
  /\ Take(ret.queue, ret.archived)
  /\ UNCHANGED <<disk, s3, phase, up, del, interrupted, crashes>>

RetentionRow ==
  /\ ret.pc = "row"
  /\ IF ret.s3 /\ ret.cur \in ret.archived
       THEN MarkLocalRemoved(ret.cur)
       ELSE Delete(ret.cur)
  /\ Take(ret.queue, ret.archived)
  /\ UNCHANGED <<disk, s3, phase, up, del, interrupted, crashes>>

\* A failed os.Remove or database call ends the pass; the clip stays as it is.
RetentionFails ==
  /\ \/ ret.pc = "unlink" /\ "remove" \in Faults
     \/ ret.pc = "row" /\ "db" \in Faults
  /\ interrupted' = interrupted \cup (IF ret.pc = "row" THEN {ret.cur} ELSE {})
  /\ ret' = RetIdle
  /\ UNCHANGED <<disk, s3, row, phase, up, del, crashes>>

Retain ==
  RetentionTick \/ RetentionAge \/ RetentionUntil \/ RetentionUnlink
  \/ RetentionRow \/ RetentionFails

(***************************************************************************)
(* handleDeleteRecording: any listed clip, in progress or not.             *)
(***************************************************************************)
ApiDelete(r) ==
  /\ del.pc = "idle"
  /\ row[r].exists
  /\ del' = [pc |-> "unlink", cur |-> r]
  /\ UNCHANGED <<disk, s3, row, phase, up, ret, interrupted, crashes>>

ApiUnlink ==
  /\ del.pc = "unlink"
  /\ disk' = disk \ {del.cur}
  /\ del' = [del EXCEPT !.pc = "row"]
  /\ UNCHANGED <<s3, row, phase, up, ret, interrupted, crashes>>

ApiRow ==
  /\ del.pc = "row"
  /\ Delete(del.cur)
  /\ del' = DelIdle
  /\ UNCHANGED <<disk, s3, phase, up, ret, interrupted, crashes>>

ApiFails ==            \* 500 to the operator, who may try again
  /\ \/ del.pc = "unlink" /\ "remove" \in Faults
     \/ del.pc = "row" /\ "db" \in Faults
  /\ interrupted' = interrupted \cup (IF del.pc = "row" THEN {del.cur} ELSE {})
  /\ del' = DelIdle
  /\ UNCHANGED <<disk, s3, row, phase, up, ret, crashes>>

Api == (\E r \in Recs : ApiDelete(r)) \/ ApiUnlink \/ ApiRow \/ ApiFails

(***************************************************************************)
(* The process killed and started again: files, rows and objects stay,     *)
(* every goroutine starts from nothing, and a clip that was being written  *)
(* is never finalized.                                                     *)
(***************************************************************************)
Crash ==
  /\ crashes < MaxCrashes
  /\ crashes' = crashes + 1
  /\ interrupted' = interrupted \cup (IF ret.pc = "row" THEN {ret.cur} ELSE {})
                                \cup (IF del.pc = "row" THEN {del.cur} ELSE {})
  /\ phase' = [r \in Recs |-> IF phase[r] = "idle" THEN "idle" ELSE "over"]
  /\ up' = UpIdle
  /\ ret' = RetIdle
  /\ del' = DelIdle
  /\ UNCHANGED <<disk, s3, row>>

Record == \E r \in Recs : OpenFile(r) \/ SegmentStarted(r) \/ SegmentFinalized(r)

Next == Record \/ Upload \/ Retain \/ Api \/ Crash

(***************************************************************************)
(* Uploads stay enabled: the ticker calls the worker for ever and its      *)
(* steps end. An upload that is tried again and again gets through, and so *)
(* does marking a clip whose file is gone.                                 *)
(***************************************************************************)
Fairness ==
  /\ WF_vars(UploadTick)
  /\ WF_vars(UploadStep)
  /\ WF_vars(UploadDone \/ UploadFails)
  /\ \A r \in Recs : SF_vars(UploadDone /\ up.cur = r) /\ SF_vars(UploadStat /\ row'[r] # row[r])

Spec == Init /\ [][Next]_vars
FairSpec == Spec /\ Fairness

-----------------------------------------------------------------------------
(***************************************************************************)
(* A row that names an S3 key names an object that is there, and it never  *)
(* does so for a clip that is still being written.                         *)
(***************************************************************************)
KeyNamesObject ==
  \A r \in Recs : Archived(r) => r \in s3 /\ row[r].complete

(***************************************************************************)
(* database/models.go on LocalRemoved: the local file is gone and the clip *)
(* is preserved on S3.                                                     *)
(***************************************************************************)
LocalRemovedIsArchived ==
  \A r \in Recs : row[r].localRemoved => Archived(r) /\ r \in s3 /\ r \notin disk

(***************************************************************************)
(* A clip that is listed is there, as a local file or on S3, unless its    *)
(* deletion is under way or was cut off by a failure or a crash.           *)
(***************************************************************************)
ListedClipPlayable ==
  \A r \in Recs :
    row[r].exists =>
      \/ r \in disk
      \/ Archived(r) /\ r \in s3
      \/ ret.pc = "row" /\ ret.cur = r
      \/ del.pc = "row" /\ del.cur = r
      \/ r \in interrupted

(***************************************************************************)
(* Neither worker removes the file of a clip that is still being written:  *)
(* only the operator can.                                                  *)
(***************************************************************************)
OpenClipUntouched ==
  [][\A r \in Recs :
       (phase[r] \in {"file", "writing"} /\ r \in disk /\ r \notin disk')
         => del.pc = "unlink" /\ del.cur = r]_vars

(***************************************************************************)
(* README: retention limited to uploaded recordings never deletes footage  *)
(* that has no backup.                                                     *)
(***************************************************************************)
OnlyBackedUpDeleted ==
  [][\A r \in Recs :
       (ret.pc = "unlink" /\ ret.only /\ ret'.pc = "row" /\ r \in disk \ disk')
         => r \in s3]_vars

(***************************************************************************)
(* Every finished clip is in the end uploaded, found to be gone, or        *)
(* deleted: no clip in front of it in the listing blocks it.               *)
(***************************************************************************)
EveryClipHandled ==
  \A r \in Recs :
    r \in PendingUploadsAll ~> r \notin PendingUploadsAll

=============================================================================
