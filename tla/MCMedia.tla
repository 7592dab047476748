-------------------------------- MODULE MCMedia -------------------------------
(***************************************************************************)
(* One run for what happens to footage on its way: it comes in (RTMP       *)
(* ingest, RTSP pull, GB/T 28181 media), is recorded, is packaged for      *)
(* viewers, and is read back from the archive.  Between these lies the     *)
(* camera's stream (CoreStream) or a file (RecordingLifecycle) and no      *)
(* other state, so a behaviour is one of a single part and the others      *)
(* rest.                                                                   *)
(***************************************************************************)
EXTENDS Ingest, RtspPull, GBMedia, Recorder, Muxing, Archive

VARIABLE part

FootageInit ==
  /\ part \in {"ingest", "pull", "gb28181", "recorder", "muxing", "archive"}
  /\ IngestInit /\ PullInit /\ MediaInit /\ RecorderInit /\ MuxInit /\ ArchiveInit
  /\ part # "ingest" => clockR = 0
  /\ part # "gb28181" => codecSent = "H264" /\ El(1) = "PSM"
  /\ part # "recorder" => mode = "audio" /\ ~align
  /\ part # "muxing" => hasVid

FootageNext ==
  \/ part = "ingest"   /\ IngestNext   /\ UNCHANGED <<part, pullVars, mediaVars, recorderVars, muxVars, archiveVars>>
  \/ part = "pull"     /\ PullNext     /\ UNCHANGED <<part, ingestVars, mediaVars, recorderVars, muxVars, archiveVars>>
  \/ part = "gb28181"  /\ MediaNext    /\ UNCHANGED <<part, ingestVars, pullVars, recorderVars, muxVars, archiveVars>>
  \/ part = "recorder" /\ RecorderNext /\ UNCHANGED <<part, ingestVars, pullVars, mediaVars, muxVars, archiveVars>>
  \/ part = "muxing"   /\ MuxNext      /\ UNCHANGED <<part, ingestVars, pullVars, mediaVars, recorderVars, archiveVars>>
  \/ part = "archive"  /\ ArchiveNext  /\ UNCHANGED <<part, ingestVars, pullVars, mediaVars, recorderVars, muxVars>>

footageVars == <<part, ingestVars, pullVars, mediaVars, recorderVars, muxVars, archiveVars>>

FootageSpec == FootageInit /\ [][FootageNext]_footageVars

(* The type invariants of the six parts.                                    *)
FootageTypeOK == IngestTypeOK /\ PullTypeOK /\ MediaTypeOK /\ RecorderTypeOK /\ MuxTypeOK /\ ArchiveTypeOK

(* What comes in becomes the units that were sent (rtmp/server.go,          *)
(* rtsp/source.go, gb28181/rtp.go, ps.go, media.go).                        *)
UnitsSound == IngestSound /\ PulledInOrder /\ UnitsFaithful

(* What the recorder writes is what it was given: in order and once,        *)
(* decodable from the start, all of it that was due, cut where a segment    *)
(* ends, with its tracks starting together (recording/recorder.go).         *)
FilesSound == OnceInOrder /\ Decodable /\ NothingLost /\ CutOnTime /\ TracksStartTogether
=============================================================================
