------------------------------- MODULE MCOutputs ------------------------------
(***************************************************************************)
(* One run for what viewers share and what must end after them: the live   *)
(* transcoder, the viewers themselves, the playback sessions and the RTSP  *)
(* server's publications.  They meet in the camera's stream only           *)
(* (CoreStream) and in the reference of LiveTranscode that ViewersSound    *)
(* counts, so a behaviour is one of a single part and the others rest.     *)
(***************************************************************************)
EXTENDS LiveTranscode, Viewers, Playback, Republish

VARIABLE part

OutputsInit ==
  /\ part \in {"transcode", "viewers", "playback", "republish"}
  /\ TranscodeInit /\ WatchInit /\ PlayInit /\ RepublishInit

OutputsNext ==
  \/ part = "transcode" /\ TranscodeNext /\ UNCHANGED <<part, watchVars, playVars, republishVars>>
  \/ part = "viewers"   /\ WatchNext     /\ UNCHANGED <<part, transcodeVars, playVars, republishVars>>
  \/ part = "playback"  /\ PlaybackNext  /\ UNCHANGED <<part, transcodeVars, watchVars, republishVars>>
  \/ part = "republish" /\ RepublishNext /\ UNCHANGED <<part, transcodeVars, watchVars, playVars>>

outputsVars == <<part, transcodeVars, watchVars, playVars, republishVars>>

(* The fairness of the four modules, each for the part that runs.          *)
OutputsFairness ==
  /\ WF_transcodeVars(part = "transcode" /\ CloseDropped)
  /\ \A v \in Viewers : WF_transcodeVars(part = "transcode" /\ (ViewerStep(v) \/ GiveUp(v)))
  /\ \A i \in Transcoders : WF_transcodeVars(part = "transcode" /\ TimerStep(i))
  /\ \A n \in Procs : WF_transcodeVars(part = "transcode" /\ RunStep(n))
  /\ \A w \in Watchers : WF_watchVars(part = "viewers" /\ WatcherStep(w))
  /\ \A p \in Players : WF_playVars(part = "playback" /\ EnsureStep(p))
  /\ \A s \in Sessions : WF_playVars(part = "playback" /\ (PlaylistReady(s) \/ PlaylistLate(s)))
  /\ \A c \in Clients : WF_republishVars(part = "republish" /\ DescribeStep(c))
  /\ \A p \in Pubs : WF_republishVars(part = "republish" /\ PumpStep(p))

OutputsSpec == OutputsInit /\ [][OutputsNext]_outputsVars /\ OutputsFairness

(* The type invariants of the four parts.                                   *)
OutputsTypeOK == TranscodeTypeOK /\ PlaybackTypeOK /\ RepublishTypeOK

(* The shared transcoder (transcode/transcode.go): its reference count is   *)
(* its viewers', it never runs two processes, and the idle timer stops none *)
(* that somebody watches.                                                   *)
TranscoderSound == RefsCountViewers /\ OneProcess /\ NotIdledWhileWatched

(* What else viewers hold and share: their references and readers, the      *)
(* playback sessions and the RTSP publications (api/stream.go,              *)
(* webrtc/webrtc.go, rechls/rechls.go, rtspserver/server.go).               *)
SharedOutputsSound == ViewersSound /\ PlaybackSound /\ RepublishSound

(* Nothing shared outlives its use, and nobody waits for ever: an unwatched *)
(* transcoder stops, a viewer goes with its client or its stream, a request *)
(* for a playback session is answered and a publication ends with its       *)
(* stream.                                                                  *)
OutputsSettle == IdleStops /\ ViewersEnd /\ EnsureReturns /\ PubsEnd
=============================================================================
