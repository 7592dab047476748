-------------------------------- MODULE Events --------------------------------
(***************************************************************************)
(* The events of one camera.  Each stream the camera is connected to gets  *)
(* a motion detector (motion/motion.go, detect.go) and a live face         *)
(* detector (face/live.go).  They turn frames into the start and the end   *)
(* of an event; the runtime keeps the current event of each kind in a      *)
(* field of its own (manager/runtime.go 52-158) and writes it to a row     *)
(* (database/event_store.go).  Nobody waits for the detectors of the       *)
(* stream before when the camera reconnects.  The two kinds share no state, *)
(* so that a behaviour follows the detectors of one of them.               *)
(***************************************************************************)
EXTENDS Integers, FiniteSets

CONSTANTS
  Attachments,   \* bound: streams the camera is connected to, one after another
  Cooldown,      \* frames without activity that end an event
  MaxFrames,     \* bound: frames the detectors look at
  MaxWriteFaults \* bound: writes of rows that fail

ASSUME EventsAssumption ==
  /\ Attachments \in Nat \ {0} /\ Cooldown \in Nat \ {0}
  /\ MaxFrames \in Nat /\ MaxWriteFaults \in Nat

Motion == "motion"
Face   == "face"
EventKinds == {Motion, Face}
Still  == 0      \* ratio < endRatio; no face in the frame
Some   == 1      \* endRatio <= ratio < startRatio: motion only
Much   == 2      \* ratio >= startRatio; a face
NoEvent    == 0
EventIDs   == 1..MaxFrames

VARIABLES
  kind,         \* the detectors and the field this behaviour follows
  stream,       \* the attachment the camera is connected by, 0 before the first
  detector,     \* per attachment
  motionActive,
  eventID,      \* motionEventID and faceEventID
  row,          \* per event: "none", "open", "ended" or "pruned"
  frames,       \* frames looked at; an event is named after the frame that starts it
  faults,       \* how many of MaxWriteFaults
  overlapped,   \* history: kinds of which two detectors ran at once
  excused       \* history: events a failed write, a crash or the pruning met

eventVars == <<kind, stream, detector, motionActive, eventID, row, frames, faults, overlapped, excused>>

NoDetector == [at |-> "none", active |-> FALSE, silent |-> 0, id |-> NoEvent]

EventsInit ==
  /\ kind \in EventKinds
  /\ stream = 0
  /\ detector = [a \in 1..Attachments |-> NoDetector]
  /\ motionActive = FALSE
  /\ eventID = NoEvent
  /\ row = [e \in EventIDs |-> "none"]
  /\ frames = 0 /\ faults = 0
  /\ overlapped = FALSE /\ excused = {}

Ratios     == IF kind = Motion THEN {Still, Some, Much} ELSE {Still, Much}
Goes(a, d) == detector' = [detector EXCEPT ![a] = d]
Runs(a)    == detector[a].at \notin {"none", "done"}

-----------------------------------------------------------------------------
(* The camera is connected to its next stream; the contexts of the          *)
(* detectors before have been cancelled, and they may still run.            *)
Attach ==
  /\ stream < Attachments
  /\ stream' = stream + 1
  /\ detector' = [detector EXCEPT ![stream + 1].at = "watch"]
  /\ overlapped' = (overlapped \/ \E a \in 1..stream : Runs(a))
  /\ UNCHANGED <<kind, motionActive, eventID, row, frames, faults, excused>>

(* analyzer.update and presence.update: motion has two thresholds, and only *)
(* a frame can end an event.                                                *)
silentAfter(d, ratio, dt) ==
  IF ratio = Still THEN IF d.silent + dt > Cooldown THEN Cooldown ELSE d.silent + dt ELSE 0
startsAt(d, ratio) == ~d.active /\ ratio = Much
endsAt(d, silent)  == d.active /\ silent >= Cooldown

Frame(a) ==
  /\ detector[a].at = "watch" /\ frames < MaxFrames
  /\ frames' = frames + 1
  /\ \E ratio \in Ratios, dt \in {1, Cooldown} :
       LET d == detector[a]
           silent == silentAfter(d, ratio, dt)
       IN Goes(a, [d EXCEPT !.silent = silent,
                               !.active = startsAt(d, ratio) \/ (d.active /\ ~endsAt(d, silent)),
                               !.id = IF startsAt(d, ratio) THEN frames + 1 ELSE @,
                               !.at = IF startsAt(d, ratio) THEN "start"
                                      ELSE IF endsAt(d, silent) THEN "end" ELSE "watch"])
  /\ UNCHANGED <<kind, stream, motionActive, eventID, row, faults, overlapped, excused>>

(* onMotionStart, onFaceStart: the fields first, then the row.              *)
OnStart(a) ==
  /\ detector[a].at = "start"
  /\ motionActive' = (motionActive \/ kind = Motion)
  /\ eventID' = detector[a].id
  /\ Goes(a, [detector[a] EXCEPT !.at = "create"])
  /\ UNCHANGED <<kind, stream, row, frames, faults, overlapped, excused>>

(* The error of a write is dropped.                                         *)
Writes(id, from, to) ==
  \/ row' = (IF row[id] = from THEN [row EXCEPT ![id] = to] ELSE row) /\ UNCHANGED <<faults, excused>>
  \/ faults < MaxWriteFaults /\ faults' = faults + 1 /\ excused' = excused \cup {id} /\ UNCHANGED row

Create(a) ==
  /\ detector[a].at = "create"
  /\ Writes(detector[a].id, "none", "open")
  /\ Goes(a, [detector[a] EXCEPT !.at = "watch"])
  /\ UNCHANGED <<kind, stream, motionActive, eventID, frames, overlapped>>

(* onMotionEnd, onFaceEnd: whatever event the runtime's field names.        *)
OnEnd(a) ==
  /\ detector[a].at \in {"end", "finish"}
  /\ motionActive' = (motionActive /\ kind # Motion)
  /\ eventID' = NoEvent
  /\ Goes(a, [detector[a] EXCEPT !.id = eventID,
                                !.at = IF @ = "end" THEN "finalize" ELSE "finalizeLast"])
  /\ UNCHANGED <<kind, stream, row, frames, faults, overlapped, excused>>

Finalize(a) ==
  LET d == detector[a]
  IN /\ d.at \in {"finalize", "finalizeLast"}
     /\ IF d.id = NoEvent THEN UNCHANGED <<row, faults, excused>> ELSE Writes(d.id, "open", "ended")
     /\ Goes(a, [d EXCEPT !.id = NoEvent, !.at = IF @ = "finalize" THEN "watch" ELSE "done"])
     /\ UNCHANGED <<kind, stream, motionActive, eventID, frames, overlapped>>

OutputEndsDangling(a) == \* mutant: an event in progress is left open
  /\ detector[a].at = "watch"
  /\ Goes(a, [detector[a] EXCEPT !.at = "done", !.active = FALSE])
  /\ UNCHANGED <<kind, stream, motionActive, eventID, row, frames, faults, overlapped, excused>>

(* FFmpeg's output ends, with the stream, on cancellation or on its own:    *)
(* an event in progress is closed.                                          *)
OutputEnds(a) ==
  /\ detector[a].at = "watch"
  /\ Goes(a, [detector[a] EXCEPT !.at = IF detector[a].active THEN "finish" ELSE "done", !.active = FALSE])
  /\ UNCHANGED <<kind, stream, motionActive, eventID, row, frames, faults, overlapped, excused>>

-----------------------------------------------------------------------------
(* DeleteOlderThan goes by the start of an event, ended or not.             *)
runEventCleanup ==
  \E cutoff \in EventIDs :
    /\ \E e \in 1..cutoff : row[e] \in {"open", "ended"}
    /\ row' = [e \in EventIDs |-> IF e <= cutoff /\ row[e] # "none" THEN "pruned" ELSE row[e]]
    /\ excused' = excused \cup {e \in 1..cutoff : row[e] = "open"}
    /\ UNCHANGED <<kind, stream, detector, motionActive, eventID, frames, faults, overlapped>>

EventsCrash ==
  /\ \E a \in 1..Attachments : Runs(a)
  /\ excused' = excused \cup {e \in EventIDs : row[e] = "open"}
  /\ detector' = [a \in 1..Attachments |-> IF a <= stream THEN [NoDetector EXCEPT !.at = "done"] ELSE NoDetector]
  /\ motionActive' = FALSE
  /\ eventID' = NoEvent
  /\ UNCHANGED <<kind, stream, row, frames, faults, overlapped>>

EventsNext ==
  \/ Attach \/ runEventCleanup \/ EventsCrash
  \/ \E a \in 1..Attachments :
       Frame(a) \/ OnStart(a) \/ Create(a) \/ OnEnd(a) \/ Finalize(a) \/ OutputEnds(a)

-----------------------------------------------------------------------------
EventsTypeOK ==
  /\ kind \in EventKinds
  /\ stream \in 0..Attachments
  /\ motionActive \in BOOLEAN
  /\ eventID \in EventIDs \cup {NoEvent}
  /\ \A a \in 1..Attachments : detector[a].id \in EventIDs \cup {NoEvent}
  /\ \A e \in EventIDs : row[e] \in {"none", "open", "ended", "pruned"}
  /\ excused \subseteq EventIDs

(* While a detector that watches sees activity, its event is the current    *)
(* one, its row is open and so is the gate of the recorder; the gate closes *)
(* with the event; and an open row belongs to a detector that will end it,  *)
(* "so a dangling event is always closed" (detect.go 96).  All this unless  *)
(* the detectors of two streams overlapped, and except for rows a failed    *)
(* write, a crash or the pruning met (manager/runtime.go 108-158).          *)
EventsSound == ~overlapped =>
  /\ \A a \in 1..Attachments : detector[a].at = "watch" =>
       /\ detector[a].active => eventID = detector[a].id /\ (row[eventID] = "open" \/ eventID \in excused)
       /\ kind = Motion => motionActive = detector[a].active
  /\ \A e \in EventIDs \ excused : row[e] = "open" => \E a \in 1..Attachments : Runs(a) /\ detector[a].id = e
=============================================================================
