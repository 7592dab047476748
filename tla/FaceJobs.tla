------------------------------ MODULE FaceJobs ------------------------------
(***************************************************************************)
(* The durable queue of recordings to analyse for faces, and the one       *)
(* worker that drains it (face/worker.go, FaceJobStore of                  *)
(* database/face_store.go): claim, extract, analyse batch by batch, store  *)
(* a row per face, group the rows into tracks (face/gallery.go), complete. *)
(* Around it, recordings lose their file or their row, calls fail, and the *)
(* process crashes.  What the tracks are assigned to is FaceIdentity's.    *)
(*                                                                         *)
(* A face in a recording is its number d; the row an attempt stores for it *)
(* is <<recording, d, attempt>>.                                           *)
(***************************************************************************)
EXTENDS Integers, FiniteSets

CONSTANTS
  Recordings,
  NFaces,       \* faces to be found in a recording
  BatchSize,    \* faces per sidecar call
  MaxAttempts,  \* maxAttempts
  MaxTroubles   \* bound: crashes, failing calls, files and rows lost, in all

NoRecording == "no recording"

ASSUME FaceJobsAssumption ==
  /\ NFaces \in Nat \ {0} /\ BatchSize \in Nat \ {0} /\ MaxAttempts \in Nat \ {0}
  /\ MaxTroubles \in Nat
  /\ NoRecording \notin Recordings

VARIABLES
  source,    \* per recording: "local", "remote" (no local file), "gone" (no row)
  job,       \* face_jobs.state, "none" without a row
  attempts,  \* face_jobs.attempts
  queue,     \* jobs by created_at: <<q, r>> says that the one of q is older
  rows,      \* rows of faces
  tracked,   \* those with a track_id
  grouped,   \* recordings with rows of face_tracks
  worker,    \* where the worker is: [at, rec, next, batch, todo, group]
  troubles,  \* how many of MaxTroubles
  stuck,     \* history: jobs whose closing update failed
  troubled   \* history: recordings with an attempt that ended after it had
             \* stored a face, or with a failed assignment

jobVars == <<source, job, attempts, queue, rows, tracked, grouped, worker, troubles, stuck, troubled>>

Idle == [at |-> "idle", rec |-> NoRecording, next |-> 1, batch |-> 0, todo |-> {}, group |-> {}]

JobInit ==
  /\ source = [r \in Recordings |-> "local"]
  /\ job = [r \in Recordings |-> "none"]
  /\ attempts = [r \in Recordings |-> 0]
  /\ queue = {}
  /\ rows = {} /\ tracked = {} /\ grouped = {}
  /\ worker = [Idle EXCEPT !.at = "start"]
  /\ troubles = 0 /\ stuck = {} /\ troubled = {}

Rec       == worker.rec
Present    == source[Rec] # "gone"
RowsOf(r) == {w \in rows : w[1] = r}
GoTo(at)  == worker' = [worker EXCEPT !.at = at]
Trouble   == troubles < MaxTroubles /\ troubles' = troubles + 1

-----------------------------------------------------------------------------
(* Everybody else.                                                          *)

(* SegmentFinalized and handleFaceScan: one job per recording, duplicates   *)
(* are ignored.                                                             *)
Enqueue(r) ==
  /\ source[r] # "gone" /\ job[r] = "none"
  /\ job' = [job EXCEPT ![r] = "pending"]
  /\ queue' = queue \cup {<<q, r>> : q \in {q \in Recordings : job[q] # "none"}}
  /\ UNCHANGED <<source, attempts, rows, tracked, grouped, worker, troubles, stuck, troubled>>

LoseFile(r) ==
  /\ source[r] = "local" /\ Trouble
  /\ source' = [source EXCEPT ![r] = "remote"]
  /\ UNCHANGED <<job, attempts, queue, rows, tracked, grouped, worker, stuck, troubled>>

LoseRowKeepingTracked(r) == \* mutant: the faces' rows go, what refers to them stays
  /\ source[r] # "gone" /\ Trouble
  /\ source' = [source EXCEPT ![r] = "gone"]
  /\ job' = [job EXCEPT ![r] = "none"]
  /\ queue' = {p \in queue : r \notin {p[1], p[2]}}
  /\ rows' = rows \ RowsOf(r)
  /\ UNCHANGED <<attempts, tracked, grouped, worker, stuck, troubled>>

(* Deleting a recording deletes its job, faces and tracks with it.          *)
LoseRow(r) ==
  /\ source[r] # "gone" /\ Trouble
  /\ source' = [source EXCEPT ![r] = "gone"]
  /\ job' = [job EXCEPT ![r] = "none"]
  /\ queue' = {p \in queue : r \notin {p[1], p[2]}}
  /\ rows' = rows \ RowsOf(r)
  /\ tracked' = tracked \ RowsOf(r)
  /\ grouped' = grouped \ {r}
  /\ UNCHANGED <<attempts, worker, stuck, troubled>>

Crash ==
  /\ Trouble
  /\ troubled' = IF Rec # NoRecording /\ RowsOf(Rec) # {} THEN troubled \cup {Rec} ELSE troubled
  /\ worker' = [Idle EXCEPT !.at = "start"]
  /\ UNCHANGED <<source, job, attempts, queue, rows, tracked, grouped, stuck>>

-----------------------------------------------------------------------------
(* The worker.                                                              *)

RequeueNothing == \* mutant: jobs of the process before are not requeued
  /\ worker.at = "start"
  /\ worker' = Idle
  /\ stuck' = {}
  /\ UNCHANGED <<source, job, attempts, queue, rows, tracked, grouped, troubles, troubled>>

RequeueRunning ==
  /\ worker.at = "start"
  /\ job' = [r \in Recordings |-> IF job[r] = "running" THEN "pending" ELSE job[r]]
  /\ worker' = Idle
  /\ stuck' = {}
  /\ UNCHANGED <<source, attempts, queue, rows, tracked, grouped, troubles, troubled>>

RunnableOnce(r) == job[r] = "pending" \* mutant: a failed job is not tried again

Runnable(r) == job[r] = "pending" \/ (job[r] = "failed" /\ attempts[r] < MaxAttempts)

(* SELECT and UPDATE are two statements, but nobody else writes the state   *)
(* of a job, so the update finds what was selected.                         *)
ClaimNext ==
  /\ worker.at = "idle"
  /\ \E r \in Recordings :
        /\ Runnable(r) /\ \A q \in Recordings : Runnable(q) => <<q, r>> \notin queue
        /\ job' = [job EXCEPT ![r] = "running"]
        /\ attempts' = [attempts EXCEPT ![r] = @ + 1]
        /\ worker' = [Idle EXCEPT !.at = "open", !.rec = r]
  /\ UNCHANGED <<source, queue, rows, tracked, grouped, troubles, stuck, troubled>>

(* The closing updates have no effect if the job went with its recording.   *)
Closed(state) == [job EXCEPT ![Rec] = IF @ = "none" THEN "none" ELSE state]

Calm == UNCHANGED <<source, job, attempts, queue, rows, tracked, grouped, stuck, troubled>>

(* Any error of Recordings.Get counts as a vanished recording.              *)
Skip ==
  /\ worker.at = "open"
  /\ (source[Rec] # "local" /\ UNCHANGED troubles) \/ Trouble
  /\ job' = Closed("skipped")
  /\ worker' = Idle
  /\ UNCHANGED <<source, attempts, queue, rows, tracked, grouped, stuck, troubled>>

Open    == worker.at = "open" /\ source[Rec] = "local" /\ GoTo("extract") /\ Calm /\ UNCHANGED troubles
Extract == worker.at = "extract" /\ source[Rec] = "local" /\ GoTo("analyse") /\ Calm /\ UNCHANGED troubles

(* ffmpeg fails without the file, an insert without its recording, and any  *)
(* call to the sidecar or the database when it pleases.                     *)
StepFails ==
  /\ \/ worker.at = "extract" /\ source[Rec] # "local" /\ UNCHANGED troubles
     \/ worker.at = "store" /\ ~Present /\ UNCHANGED troubles
     \/ worker.at \in {"open", "extract", "analyse", "store", "complete"} /\ Trouble
  /\ GoTo("fail")
  /\ Calm

Analyse ==
  /\ worker.at = "analyse"
  /\ worker' = [worker EXCEPT !.at = "store", !.batch = BatchSize]
  /\ Calm /\ UNCHANGED troubles

(* storeBatch, one insert per step.                                         *)
Store ==
  /\ worker.at = "store" /\ Present
  /\ rows' = rows \cup {<<Rec, worker.next, attempts[Rec]>>}
  /\ worker' = [worker EXCEPT !.next = @ + 1, !.batch = @ - 1,
                  !.at = IF worker.next = NFaces THEN "assign" ELSE IF worker.batch = 1 THEN "analyse" ELSE "store"]
  /\ UNCHANGED <<source, job, attempts, queue, tracked, grouped, troubles, stuck, troubled>>

(* AssignRecording leaves a recording alone that has tracks already.        *)
Assign ==
  /\ worker.at = "assign"
  /\ worker' = IF Rec \in grouped \/ RowsOf(Rec) = {} THEN [worker EXCEPT !.at = "complete"]
               ELSE [worker EXCEPT !.at = "group", !.todo = RowsOf(Rec)]
  /\ Calm /\ UNCHANGED troubles

(* One track of BuildTracks: never two faces of one frame.                  *)
StoreTrack ==
  /\ worker.at = "group" /\ Present
  /\ \E g \in (SUBSET worker.todo) \ {{}} :
       /\ \A v, w \in g : v[2] = w[2] => v = w
       /\ worker' = [worker EXCEPT !.at = "link", !.group = g]
  /\ grouped' = grouped \cup {Rec}
  /\ UNCHANGED <<source, job, attempts, queue, rows, tracked, troubles, stuck, troubled>>

AssignTrackFaces ==
  /\ worker.at = "link"
  /\ tracked' = tracked \cup (worker.group \cap rows)
  /\ worker' = [worker EXCEPT !.todo = @ \ worker.group,
                              !.at = IF worker.todo = worker.group THEN "complete" ELSE "group"]
  /\ UNCHANGED <<source, job, attempts, queue, rows, grouped, troubles, stuck, troubled>>

(* A failed assignment is logged, and the job completes all the same.       *)
AssignFails ==
  /\ worker.at \in {"assign", "group", "link"}
  /\ Trouble \/ (worker.at = "group" /\ ~Present /\ UNCHANGED troubles)
  /\ GoTo("complete")
  /\ troubled' = troubled \cup {Rec}
  /\ UNCHANGED <<source, job, attempts, queue, rows, tracked, grouped, stuck>>

Complete ==
  /\ worker.at = "complete"
  /\ job' = Closed("done")
  /\ worker' = Idle
  /\ UNCHANGED <<source, attempts, queue, rows, tracked, grouped, troubles, stuck, troubled>>

Fail ==
  /\ worker.at = "fail"
  /\ job' = Closed("failed")
  /\ troubled' = IF RowsOf(Rec) # {} THEN troubled \cup {Rec} ELSE troubled
  /\ worker' = Idle
  /\ UNCHANGED <<source, attempts, queue, rows, tracked, grouped, troubles, stuck>>

FailUnsaved ==
  /\ worker.at = "fail" /\ Trouble
  /\ stuck' = stuck \cup {Rec}
  /\ troubled' = IF RowsOf(Rec) # {} THEN troubled \cup {Rec} ELSE troubled
  /\ worker' = Idle
  /\ UNCHANGED <<source, job, attempts, queue, rows, tracked, grouped>>

WorkerStep ==
  \/ RequeueRunning \/ ClaimNext \/ Skip \/ Open \/ Extract \/ Analyse \/ Store \/ StepFails
  \/ Assign \/ StoreTrack \/ AssignTrackFaces \/ AssignFails \/ Complete \/ Fail \/ FailUnsaved

JobNext ==
  \/ \E r \in Recordings : Enqueue(r) \/ LoseFile(r) \/ LoseRow(r)
  \/ Crash
  \/ WorkerStep

JobSpec == JobInit /\ [][JobNext]_jobVars /\ WF_jobVars(WorkerStep)

-----------------------------------------------------------------------------
JobTypeOK ==
  /\ job \in [Recordings -> {"none", "pending", "running", "failed", "done", "skipped"}]
  /\ source \in [Recordings -> {"local", "remote", "gone"}]
  /\ attempts \in [Recordings -> 0..(MaxAttempts + MaxTroubles)]
  /\ tracked \subseteq rows
  /\ worker.rec \in Recordings \cup {NoRecording}

(* A job that says it runs is the worker's, or will be requeued at the next *)
(* start; and a recording analysed without trouble has every face stored    *)
(* once and in a track (face/worker.go process, storeBatch).                *)
AnalysedOnce ==
  \A r \in Recordings :
    /\ job[r] = "running" => r = Rec \/ worker.at = "start" \/ r \in stuck
    /\ job[r] = "done" /\ r \notin troubled =>
         /\ \A d \in 1..NFaces : Cardinality({w \in RowsOf(r) : w[2] = d}) = 1
         /\ RowsOf(r) \subseteq tracked

(* Every job that is queued ends: done, skipped, failed for good, or gone   *)
(* with its recording; troubles and failing calls do not leave it behind,   *)
(* unless the update that closes it failed, too.                            *)
Settled(r) == job[r] \in {"none", "done", "skipped"} \/ (job[r] = "failed" /\ attempts[r] >= MaxAttempts)
JobsSettle == \A r \in Recordings : job[r] = "pending" ~> Settled(r) \/ r \in stuck
=============================================================================
