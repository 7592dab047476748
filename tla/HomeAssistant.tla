----------------------------- MODULE HomeAssistant -----------------------------
(***************************************************************************)
(* What Home Assistant sees of the cameras: retained messages on an MQTT   *)
(* broker (hadiscovery/hadiscovery.go).  The cameras' runtimes publish     *)
(* their changes, the API's handlers the cameras they create and remove,   *)
(* and a goroutine publishes everything again every 30 seconds; nothing    *)
(* orders them, and a publish may fail.  A camera that pushes over RTMP is  *)
(* the publishers' connections to it: they set and clear its stream, and    *)
(* whoever stops the camera does not wait for them.                        *)
(***************************************************************************)
EXTENDS Integers, FiniteSets

CONSTANTS
  HACameras,
  MaxFlips,     \* bound: changes of a camera's stream, of motion, and requests, in all
  MaxUnsent     \* bound: publishes that fail

ASSUME HAAssumption == MaxFlips \in Nat /\ MaxUnsent \in Nat

VARIABLES
  stored,      \* the camera's row: "on", "off" (disabled) or "none"
  push,        \* the cameras that push over RTMP
  running,     \* there is a runtime for it, in the manager's map or being stopped
  live,        \* what the runtime is at: stream set, motion active
  due,         \* what its goroutines have changed and not yet published
  late,        \* what connections publish that a later one, or a stop, has overtaken
  handler,     \* the request about the camera
  resync,      \* the periodic goroutine
  retained,    \* the broker's messages
  flips, unsent,
  unsure       \* history: removed cameras a failed publish, a resync under way or a late connection met

haVars == <<stored, push, running, live, due, late, handler, resync, retained, flips, unsent, unsure>>

pushVars == <<push, late>>

Off       == [online |-> FALSE, motion |-> FALSE]
Fields    == {"online", "motion"}
Asleep    == [at |-> "asleep", left |-> {}, states |-> [c \in HACameras |-> Off], cam |-> "none"]

HAInit ==
  /\ stored = [c \in HACameras |-> "none"]
  /\ push \in SUBSET HACameras
  /\ running = {}
  /\ live = [c \in HACameras |-> Off]
  /\ due = [c \in HACameras |-> {}]
  /\ late = [c \in HACameras |-> {}]
  /\ handler = [c \in HACameras |-> "idle"]
  /\ resync = Asleep
  /\ retained = [c \in HACameras |-> [config |-> FALSE, online |-> FALSE, motion |-> FALSE]]
  /\ flips = 0 /\ unsent = 0 /\ unsure = {}

Flip == flips < MaxFlips /\ flips' = flips + 1

(* pub: PublishRaw, its error logged.                                       *)
pub(c, field, value) ==
  \/ retained' = [retained EXCEPT ![c][field] = value] /\ UNCHANGED unsent
  \/ unsent < MaxUnsent /\ unsent' = unsent + 1 /\ UNCHANGED retained

-----------------------------------------------------------------------------
(* setStream, clearStream, onMotionStart and onMotionEnd: the change, then  *)
(* SetAvailability or SetMotion with its value.  Motion starts in a stream, *)
(* and may end after it.  One goroutine sets and clears a pulled stream;    *)
(* a push camera's next connection may do so while the one before has not   *)
(* published, and then either may come last.                               *)
Change(c, field, value) ==
  /\ live[c][field] # value
  /\ field \in due[c] => c \in push /\ field = "online"
  /\ live' = [live EXCEPT ![c][field] = value]
  /\ due' = [due EXCEPT ![c] = @ \cup {field}]
  /\ late' = IF field \in due[c] THEN [late EXCEPT ![c] = @ \cup {<<field, ~value>>}] ELSE late
  /\ UNCHANGED <<stored, push, running, handler, resync, retained, unsent, unsure>>

Up(c, field) ==
  /\ c \in running /\ Flip
  /\ field = "motion" => live[c].online
  /\ Change(c, field, TRUE)

Down(c, field) == Change(c, field, FALSE) /\ UNCHANGED flips

SetState(c, field) ==
  /\ field \in due[c]
  /\ pub(c, field, live[c][field])
  /\ due' = [due EXCEPT ![c] = @ \ {field}]
  /\ UNCHANGED <<stored, push, running, live, late, handler, resync, flips, unsure>>

(* A connection's publish that was overtaken: for a camera that is gone, no *)
(* resync makes up for it.                                                  *)
Late(c, m) ==
  /\ m \in late[c]
  /\ pub(c, m[1], m[2])
  /\ late' = [late EXCEPT ![c] = @ \ {m}]
  /\ unsure' = IF m = <<"online", TRUE>> /\ (handler[c] = "row" \/ stored[c] = "none")
               THEN unsure \cup {c} ELSE unsure
  /\ UNCHANGED <<stored, push, running, live, due, handler, resync, flips>>

-----------------------------------------------------------------------------
(* Requests: one at a time for a camera.                                    *)

(* A camera is created, enabled, or changed.                                *)
handleCreateCamera(c) ==
  /\ handler[c] = "idle" /\ Flip
  /\ stored' = [stored EXCEPT ![c] = "on"]
  /\ handler' = [handler EXCEPT ![c] = "configure"]
  /\ unsure' = unsure \ {c}
  /\ UNCHANGED <<running, live, due, resync, retained, unsent, pushVars>>

(* ApplyCamera of an enabled camera: haConfigure, then startCamera, which   *)
(* stops the runtime it replaces.                                           *)
Configure(c) ==
  /\ handler[c] = "configure"
  /\ pub(c, "config", TRUE)
  /\ handler' = [handler EXCEPT ![c] = "start"]
  /\ UNCHANGED <<stored, running, live, due, resync, flips, unsure, pushVars>>

(* stop waits for the runtime's own goroutines: the detector, and the one   *)
(* that pulls, which clears the stream.                                     *)
Stopped(c) ==
  /\ ~live[c].motion /\ "motion" \notin due[c]
  /\ c \notin push => ~live[c].online /\ "online" \notin due[c]

(* What connections of a runtime that has been stopped still publish: what  *)
(* they had changed, or, when one found the runtime before and attaches     *)
(* only now, anything a stream brings.                                      *)
Orphans(c) ==
  IF c \in push \cap running THEN {{<<f, live[c][f]>> : f \in due[c]}, Fields \X BOOLEAN} ELSE {{}}

Forget(c) ==
  /\ c \in running => Stopped(c)
  /\ live' = [live EXCEPT ![c] = Off]
  /\ due' = [due EXCEPT ![c] = {}]
  /\ \E left \in Orphans(c) : late' = [late EXCEPT ![c] = @ \cup left]
  /\ UNCHANGED push

startCamera(c) ==
  /\ handler[c] = "start"
  /\ Forget(c)
  /\ running' = running \cup {c}
  /\ handler' = [handler EXCEPT ![c] = "idle"]
  /\ UNCHANGED <<stored, resync, retained, flips, unsent, unsure>>

(* handleUpdateCamera disabling it, and handleDeleteCamera: RemoveCamera    *)
(* takes the runtime out of the map and stops it ...                        *)
RemoveCamera(c, what) ==
  /\ handler[c] = "idle" /\ Flip
  /\ stored[c] = "on" \/ (stored[c] = "off" /\ what = "delete")
  /\ stored' = IF what = "disable" THEN [stored EXCEPT ![c] = "off"] ELSE stored
  /\ handler' = [handler EXCEPT ![c] = what]
  /\ UNCHANGED <<running, live, due, resync, retained, unsent, unsure, pushVars>>

(* ... then Remove clears the configs and says it is offline ...            *)
Clear(c) ==
  /\ handler[c] \in {"disable", "delete"}
  /\ Forget(c)
  /\ running' = running \ {c}
  /\ pub(c, "config", FALSE)
  /\ handler' = [handler EXCEPT ![c] = IF @ = "delete" THEN "deleteOffline" ELSE "offline"]
  /\ unsure' = IF unsent' # unsent THEN unsure \cup {c} ELSE unsure
  /\ UNCHANGED <<stored, resync, flips>>

SayOffline(c) ==
  /\ handler[c] \in {"offline", "deleteOffline"}
  /\ pub(c, "online", FALSE)
  /\ handler' = [handler EXCEPT ![c] = IF @ = "offline" THEN "idle" ELSE "row"]
  /\ unsure' = IF unsent' # unsent THEN unsure \cup {c} ELSE unsure
  /\ UNCHANGED <<stored, running, live, due, resync, flips, pushVars>>

(* ... and only then is the row deleted.                                    *)
DeleteRow(c) ==
  /\ handler[c] = "row"
  /\ stored' = [stored EXCEPT ![c] = "none"]
  /\ handler' = [handler EXCEPT ![c] = "idle"]
  /\ UNCHANGED <<running, live, due, resync, retained, flips, unsent, unsure, pushVars>>

-----------------------------------------------------------------------------
(* resync: all rows, disabled ones included; then HAStates; then camera by  *)
(* camera its configs and its states.                                       *)
List ==
  /\ resync.at = "asleep"
  /\ resync' = [Asleep EXCEPT !.at = "states", !.left = {c \in HACameras : stored[c] # "none"}]
  /\ UNCHANGED <<stored, running, live, due, handler, retained, flips, unsent, unsure, pushVars>>

(* RemoveCamera takes a runtime out of the map before it stops it.          *)
InMap(c) == c \in running /\ handler[c] \notin {"disable", "delete"}

HAStates ==
  /\ resync.at = "states"
  /\ resync' = [resync EXCEPT !.at = "config", !.states = [c \in HACameras |-> IF InMap(c) THEN live[c] ELSE Off]]
  /\ UNCHANGED <<stored, running, live, due, handler, retained, flips, unsent, unsure, pushVars>>

Doubted(c) == IF handler[c] \in {"deleteOffline", "row"} \/ stored[c] = "none" THEN unsure \cup {c} ELSE unsure

publishConfig ==
  /\ resync.at = "config" /\ resync.left # {}
  /\ LET c == CHOOSE x \in resync.left : TRUE
     IN /\ pub(c, "config", TRUE)
        /\ resync' = [resync EXCEPT !.at = "online", !.cam = c]
        /\ unsure' = Doubted(c)
  /\ UNCHANGED <<stored, running, live, due, handler, flips, pushVars>>

publishState ==
  /\ resync.at \in Fields
  /\ pub(resync.cam, resync.at, resync.states[resync.cam][resync.at])
  /\ resync' = IF resync.at = "online" THEN [resync EXCEPT !.at = "motion"]
               ELSE [resync EXCEPT !.at = "config", !.left = @ \ {resync.cam}]
  /\ unsure' = Doubted(resync.cam)
  /\ UNCHANGED <<stored, running, live, due, handler, flips, pushVars>>

Rest ==
  /\ resync.at = "config" /\ resync.left = {}
  /\ resync' = Asleep
  /\ UNCHANGED <<stored, running, live, due, handler, retained, flips, unsent, unsure, pushVars>>

ResyncStep  == List \/ HAStates \/ publishConfig \/ publishState \/ Rest
HandlerStep == \E c \in HACameras : Configure(c) \/ startCamera(c) \/ Clear(c) \/ SayOffline(c) \/ DeleteRow(c)
Publishes   == \E c \in HACameras : (\E f \in Fields : SetState(c, f)) \/ (\E m \in Fields \X BOOLEAN : Late(c, m))
GoesDown    ==
  \E c \in running, f \in Fields :
    /\ handler[c] \in {"start", "disable", "delete"}
    /\ f = "motion" \/ c \notin push
    /\ Down(c, f)

HANext ==
  \/ ResyncStep \/ HandlerStep \/ Publishes
  \/ \E c \in HACameras : \E f \in Fields : Up(c, f) \/ Down(c, f)
  \/ \E c \in HACameras : handleCreateCamera(c) \/ RemoveCamera(c, "disable") \/ RemoveCamera(c, "delete")

(* The ticker ticks, requests are carried through, and goroutines that      *)
(* somebody waits for end, having cleared their stream or ended the motion. *)
HAFairness == WF_haVars(ResyncStep) /\ WF_haVars(HandlerStep) /\ WF_haVars(Publishes) /\ WF_haVars(GoesDown)
HASpec == HAInit /\ [][HANext]_haVars /\ HAFairness

-----------------------------------------------------------------------------
HATypeOK ==
  /\ running \subseteq HACameras /\ push \subseteq HACameras
  /\ \A c \in HACameras :
       /\ stored[c] \in {"on", "off", "none"}
       /\ due[c] \subseteq Fields
       /\ late[c] \subseteq Fields \X BOOLEAN
  /\ resync.left \subseteq HACameras /\ unsure \subseteq HACameras

(* The broker tells the state of every enabled camera, of a disabled one    *)
(* that it is offline and still, and has no config of a deleted one, nor    *)
(* shows it online, unless a publish of its removal failed, a resync under  *)
(* way published it again or a connection of its publisher came late.       *)
Agrees ==
  \A c \in HACameras :
    CASE stored[c] = "none" -> c \in unsure \/ (~retained[c].config /\ ~retained[c].online)
      [] stored[c] = "off"  -> ~retained[c].online /\ ~retained[c].motion
      [] stored[c] = "on"   -> retained[c] = [config |-> TRUE, online |-> live[c].online, motion |-> live[c].motion]

(* Whatever was lost or published out of order, the broker's picture is     *)
(* right in the end, once nothing changes any more (hadiscovery.go 44-79).  *)
HASettles == <>[]Agrees
=============================================================================
