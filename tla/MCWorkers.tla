------------------------------- MODULE MCWorkers ------------------------------
(***************************************************************************)
(* One run for what is made of footage in the background: segments by the  *)
(* recorder that pipes to FFmpeg, the identities of faces under operators  *)
(* and passes, the jobs that analyse recordings, and the events of the     *)
(* live detectors.  FaceIdentity takes the tracks FaceJobs leaves behind;  *)
(* the parts share no step, so a behaviour is one of a single part.        *)
(***************************************************************************)
EXTENDS TranscodeRecorder, FaceIdentity, FaceJobs, Events

VARIABLE part

WorkersInit ==
  /\ part \in {"recorder", "identity", "jobs", "events"}
  /\ TRInit /\ FaceInit /\ JobInit /\ EventsInit
  /\ part # "events" => kind = Motion

WorkersNext ==
  \/ part = "recorder" /\ TRNext     /\ UNCHANGED <<part, faceVars, jobVars, eventVars>>
  \/ part = "identity" /\ FaceNext   /\ UNCHANGED <<part, trVars, jobVars, eventVars>>
  \/ part = "jobs"     /\ JobNext    /\ UNCHANGED <<part, trVars, faceVars, eventVars>>
  \/ part = "events"   /\ EventsNext /\ UNCHANGED <<part, trVars, faceVars, jobVars>>

workersVars == <<part, trVars, faceVars, jobVars, eventVars>>

(* The fairness of FaceJobs and TranscodeRecorder, for the part that runs.  *)
WorkersFairness ==
  /\ WF_jobVars(part = "jobs" /\ WorkerStep)
  /\ \A s \in 1..MaxRuns : WF_trVars(part = "recorder" /\ RecorderStep(s))

WorkersSpec == WorkersInit /\ [][WorkersNext]_workersVars /\ WorkersFairness

(* The type invariants of the four parts.                                   *)
WorkersTypeOK == TRTypeOK /\ FaceTypeOK /\ JobTypeOK /\ EventsTypeOK

(* What is queued or running in the background ends: the jobs, and a        *)
(* recorder once its stream is over.                                        *)
WorkersSettle == JobsSettle /\ RecorderReturns
=============================================================================
