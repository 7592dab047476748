---------------------------- MODULE CameraManager ----------------------------
(***************************************************************************)
(* The control plane around one camera (package manager): the handlers of  *)
(* the API and of the settings create, replace and remove its runtime; the *)
(* runtime connects it to a stream and starts consumers (HLS muxer,        *)
(* recorder, detectors) on it. A "pull" camera has a supervisor goroutine  *)
(* that dials, serves and reconnects; an "rtmp" camera is attached to and  *)
(* detached from by the goroutines of the RTMP connections that publish    *)
(* under its key.                                                          *)
(*                                                                         *)
(* Runtimes are numbered as they are created. A stream is numbered by the  *)
(* connection that brings it: a dial attempt or an RTMP connection.        *)
(***************************************************************************)
EXTENDS Integers, FiniteSets

CONSTANTS
  SourceType,    \* "pull" or "rtmp"
  Operators,     \* API goroutines
  MaxRequests,   \* bound: requests made
  MaxStreams,    \* bound: dial attempts, or RTMP connections
  Consumers      \* goroutines startConsumers starts; "hls" is the muxer's

ASSUME SourceTypeAssumption == SourceType \in {"pull", "rtmp"}
ASSUME BoundsAssumption == MaxRequests \in Nat /\ MaxStreams \in Nat
ASSUME OperatorsAssumption == "free" \notin Operators

Runtimes == 1..(MaxRequests + 1)   \* a request creates at most one
Streams == 1..MaxStreams
None == 0

VARIABLES
  mu,        \* who holds m.mu across a blocking call, or "free"
  cams,      \* m.cams[id]: the camera's runtime, or None
  made,      \* runtimes created so far
  op,        \* the operators' requests
  requests,  \* requests made so far
  rt,        \* the camRuntime structs
  sup,       \* the supervisor of each runtime, and its current attempt
  src,       \* the source goroutine of each attempt
  pub,       \* the RTMP connections
  closed,    \* streams closed
  ctxDone,   \* streams whose consumers' own context is cancelled
  owner,     \* the runtime whose WaitGroup counts the stream's consumers
  cons,      \* the consumers of each stream
  stopped,   \* history: runtimes that a stop() which cancelled them has waited for
  unseen,    \* history: streams attached after stop() had looked, or taken out of view open
  raced      \* history: a request acted on the camera while another was halfway

opVars == <<mu, cams, made, op, requests, raced>>
streamVars == <<closed, ctxDone, owner, cons>>
vars == <<mu, cams, made, op, requests, rt, sup, src, pub, closed, ctxDone, owner, cons,
          stopped, unseen, raced>>

OpPCs == {"idle", "lock", "relock", "remove", "cancel", "close", "wait", "insert", "start", "go"}
SupPCs == {"none", "loop", "dialing", "ready", "serving", "clear", "backoff", "drain", "done"}
PubPCs == {"idle", "read", "cancel", "clear", "connecting", "context", "attach",
           "consume", "publishing", "close", "gone"}
States == {"idle", "connecting", "running", "error"}

TypeOK ==
  /\ mu \in Operators \cup {"free"}
  /\ cams \in Runtimes \cup {None}
  /\ made \in Runtimes
  /\ requests \in 0..MaxRequests
  /\ made <= requests + 1
  /\ op \in [Operators -> [pc : OpPCs, rt : Runtimes \cup {None}]]
  /\ rt \in [Runtimes -> [started : BOOLEAN, cancelled : BOOLEAN,
                          stream : Streams \cup {None}, muxer : Streams \cup {None},
                          state : States, pushCancel : Streams \cup {None}]]
  /\ sup \in [Runtimes -> [pc : SupPCs, attempt : Streams \cup {None}]]
  /\ src \in [Streams -> {"none", "dial", "up", "failed", "ended"}]
  /\ pub \in [Streams -> [pc : PubPCs, starting : BOOLEAN, rt : Runtimes \cup {None},
                          cancel : Streams \cup {None}, stream : Streams \cup {None}]]
  /\ closed \subseteq Streams
  /\ ctxDone \subseteq Streams
  /\ owner \in [Streams -> Runtimes \cup {None}]
  /\ cons \in [Streams -> [Consumers -> {"none", "started", "reading", "late"}]]
  /\ stopped \subseteq Runtimes
  /\ unseen \subseteq Streams
  /\ raced \in BOOLEAN
  /\ mu # "free" => op[mu].pc \in {"cancel", "close", "wait", "insert"}

-----------------------------------------------------------------------------
Fresh == [started |-> FALSE, cancelled |-> FALSE, stream |-> None, muxer |-> None,
          state |-> "idle", pushCancel |-> None]

\* Goroutines of runtime r that its WaitGroup counts.
Supervised(r) == sup[r].pc \notin {"none", "done"}

Alive(s) == {c \in Consumers : cons[s][c] # "none"}

WaitGroupZero(r) == ~Supervised(r) /\ \A s \in Streams : owner[s] = r => Alive(s) = {}

\* The context startConsumers was given for stream s.
Cancelled(s) ==
  s \in ctxDone \/ (SourceType = "pull" /\ owner[s] # None /\ rt[owner[s]].cancelled)

\* Just after Manager.Start: the camera was enabled, its runtime is started.
Init ==
  /\ mu = "free"
  /\ cams = 1
  /\ made = 1
  /\ requests = 0
  /\ op = [o \in Operators |-> [pc |-> "idle", rt |-> None]]
  /\ rt = [r \in Runtimes |->
             IF r = 1 THEN [Fresh EXCEPT !.started = TRUE,
                                         !.state = IF SourceType = "rtmp" THEN "connecting"
                                                                          ELSE "idle"]
                      ELSE Fresh]
  /\ sup = [r \in Runtimes |->
              [pc |-> IF r = 1 /\ SourceType = "pull" THEN "loop" ELSE "none",
               attempt |-> None]]
  /\ src = [s \in Streams |-> "none"]
  /\ pub = [s \in Streams |-> [pc |-> "idle", starting |-> FALSE, rt |-> None,
                               cancel |-> None, stream |-> None]]
  /\ closed = {}
  /\ ctxDone = {}
  /\ owner = [s \in Streams |-> None]
  /\ cons = [s \in Streams |-> [c \in Consumers |-> "none"]]
  /\ stopped = {}
  /\ unseen = {}
  /\ raced = FALSE

-----------------------------------------------------------------------------
(***************************************************************************)
(* Requests. ApplyCamera of an enabled camera and restartGB28181Cameras    *)
(* end in startCamera, which holds m.mu while it stops the old runtime but *)
(* starts the new one after it let go; RemoveCamera stops it without m.mu. *)
(***************************************************************************)
Goto(o, pc) == op' = [op EXCEPT ![o].pc = pc]

\* Another request is between two of its critical sections: it put a runtime into the
\* map and has not started it yet, took one out and has not stopped it yet, or listed
\* the camera for a restart and has not restarted it yet.
Halfway(o) == \E q \in Operators \ {o} : op[q].pc \notin {"idle", "lock", "remove"}

Request(o) ==
  /\ op[o].pc = "idle"
  /\ requests < MaxRequests
  /\ requests' = requests + 1
  /\ \/ Goto(o, "lock")                                 \* ApplyCamera, enabled
     \/ Goto(o, "remove")                               \* RemoveCamera
     \/ /\ SourceType = "pull" /\ cams # None /\ mu = "free"
        /\ Goto(o, "relock")                           \* restartGB28181Cameras
  /\ UNCHANGED <<mu, cams, made, rt, sup, src, pub, streamVars, stopped, unseen, raced>>

StartCameraKeepingOld(o) ==   \* mutant: the runtime in the map is replaced, not stopped
  /\ op[o].pc \in {"lock", "relock"}
  /\ mu = "free"
  /\ mu' = o
  /\ raced' = (raced \/ Halfway(o))
  /\ op' = [op EXCEPT ![o] = [pc |-> "insert", rt |-> None]]
  /\ UNCHANGED <<cams, made, requests, rt, sup, src, pub, streamVars, stopped, unseen>>

StartCamera(o) ==
  /\ op[o].pc \in {"lock", "relock"}
  /\ mu = "free"
  /\ mu' = o
  /\ raced' = (raced \/ Halfway(o))
  /\ op' = [op EXCEPT ![o] = [pc |-> IF cams # None THEN "cancel" ELSE "insert", rt |-> cams]]
  /\ UNCHANGED <<cams, made, requests, rt, sup, src, pub, streamVars, stopped, unseen>>

RemoveCamera(o) ==
  /\ op[o].pc = "remove"
  /\ mu = "free"
  /\ raced' = (raced \/ Halfway(o))
  /\ cams' = None
  /\ op' = [op EXCEPT ![o] = [pc |-> IF cams # None THEN "cancel" ELSE "idle", rt |-> cams]]
  /\ UNCHANGED <<mu, made, requests, rt, sup, src, pub, streamVars, stopped, unseen>>

\* camRuntime.stop: rt.cancel is nil until the runtime was started.
StopCancel(o) ==
  /\ op[o].pc = "cancel"
  /\ rt' = [rt EXCEPT ![op[o].rt].cancelled = rt[op[o].rt].started]
  /\ Goto(o, "close")
  /\ UNCHANGED <<mu, cams, made, requests, sup, src, pub, streamVars, stopped, unseen, raced>>

StopCloseNothing(o) ==   \* mutant: stop leaves the stream open
  /\ op[o].pc = "close"
  /\ Goto(o, "wait")
  /\ UNCHANGED <<mu, cams, made, requests, rt, sup, src, pub, streamVars, stopped, unseen, raced>>

StopClose(o) ==
  /\ op[o].pc = "close"
  /\ closed' = closed \cup ({rt[op[o].rt].stream} \ {None})
  /\ Goto(o, "wait")
  /\ UNCHANGED <<mu, cams, made, requests, rt, sup, src, pub, ctxDone, owner, cons, stopped, unseen, raced>>

StopNotWaiting(o) ==   \* mutant: stop does not wait for the goroutines
  /\ op[o].pc = "wait"
  /\ stopped' = stopped \cup (IF rt[op[o].rt].cancelled THEN {op[o].rt} ELSE {})
  /\ op' = [op EXCEPT ![o] = [pc |-> IF mu = o THEN "insert" ELSE "idle", rt |-> None]]
  /\ UNCHANGED <<mu, cams, made, requests, rt, sup, src, pub, streamVars, raced, unseen>>

StopWait(o) ==
  /\ op[o].pc = "wait"
  /\ WaitGroupZero(op[o].rt)
  /\ stopped' = stopped \cup (IF rt[op[o].rt].cancelled THEN {op[o].rt} ELSE {})
  /\ op' = [op EXCEPT ![o] = [pc |-> IF mu = o THEN "insert" ELSE "idle", rt |-> None]]
  /\ UNCHANGED <<mu, cams, made, requests, rt, sup, src, pub, streamVars, raced, unseen>>

InsertKeepingLock(o) ==   \* mutant: m.mu is never unlocked
  /\ op[o].pc = "insert"
  /\ made' = made + 1
  /\ cams' = made + 1
  /\ op' = [op EXCEPT ![o] = [pc |-> "start", rt |-> made + 1]]
  /\ UNCHANGED <<mu, requests, rt, sup, src, pub, streamVars, stopped, unseen, raced>>

Insert(o) ==
  /\ op[o].pc = "insert"
  /\ made' = made + 1
  /\ cams' = made + 1
  /\ mu' = "free"
  /\ op' = [op EXCEPT ![o] = [pc |-> "start", rt |-> made + 1]]
  /\ UNCHANGED <<requests, rt, sup, src, pub, streamVars, stopped, unseen, raced>>

\* camRuntime.start: from here on there is a context to cancel.
StartContext(o) ==
  /\ op[o].pc = "start"
  /\ rt' = [rt EXCEPT ![op[o].rt].started = TRUE,
                      ![op[o].rt].state = IF SourceType = "rtmp" THEN "connecting" ELSE @]
  /\ op' = [op EXCEPT ![o] = IF SourceType = "rtmp" THEN [pc |-> "idle", rt |-> None]
                                                    ELSE [@ EXCEPT !.pc = "go"]]
  /\ UNCHANGED <<mu, cams, made, requests, sup, src, pub, streamVars, stopped, unseen, raced>>

StartSupervisor(o) ==
  /\ op[o].pc = "go"
  /\ sup' = [sup EXCEPT ![op[o].rt].pc = "loop"]
  /\ op' = [op EXCEPT ![o] = [pc |-> "idle", rt |-> None]]
  /\ UNCHANGED <<mu, cams, made, requests, rt, src, pub, streamVars, stopped, unseen, raced>>

Operator(o) ==
  \/ StartCamera(o) \/ RemoveCamera(o) \/ StopCancel(o) \/ StopClose(o) \/ StopWait(o)
  \/ Insert(o) \/ StartContext(o) \/ StartSupervisor(o)

-----------------------------------------------------------------------------
(***************************************************************************)
(* camRuntime.supervise. The attempt's own goroutine runs the source,      *)
(* which hands over its stream when it is ready and later returns.         *)
(***************************************************************************)
SupGoto(r, pc) == sup' = [sup EXCEPT ![r].pc = pc]
SetState(r, state) == rt' = [rt EXCEPT ![r].state = state]

attempts == Cardinality({s \in Streams : src[s] # "none"})

Dial(r) ==
  /\ sup[r].pc = "loop"
  /\ ~rt[r].cancelled
  /\ \/ /\ attempts < MaxStreams
        /\ sup' = [sup EXCEPT ![r] = [pc |-> "dialing", attempt |-> attempts + 1]]
        /\ src' = [src EXCEPT ![attempts + 1] = "dial"]
        /\ owner' = [owner EXCEPT ![attempts + 1] = r]
        /\ SetState(r, "connecting")
     \/ /\ SupGoto(r, "done")               \* buildPullSource found no SIP platform
        /\ SetState(r, "error")
        /\ UNCHANGED <<src, owner>>
  /\ UNCHANGED <<opVars, pub, closed, ctxDone, cons, stopped, unseen>>

\* ctx.Done, before dialing or while waiting to dial again.
Quit(r) ==
  /\ sup[r].pc \in {"loop", "backoff"}
  /\ rt[r].cancelled
  /\ SupGoto(r, "done")
  /\ SetState(r, "idle")
  /\ UNCHANGED <<opVars, src, pub, streamVars, stopped, unseen>>

SourceReady(s) ==
  /\ src[s] = "dial"
  /\ src' = [src EXCEPT ![s] = "up"]
  /\ UNCHANGED <<opVars, rt, sup, pub, streamVars, stopped, unseen>>

\* The source returns: "failed" before it had a stream, "ended" after.
SourceEnds(s) ==
  /\ src[s] \in {"dial", "up"}
  /\ src' = [src EXCEPT ![s] = IF @ = "dial" THEN "failed" ELSE "ended"]
  /\ UNCHANGED <<opVars, rt, sup, pub, streamVars, stopped, unseen>>

\* The select over ctx.Done, readyCh and errCh takes any case that is ready.
SelectDone(r) ==
  /\ sup[r].pc = "dialing"
  /\ rt[r].cancelled
  /\ ctxDone' = ctxDone \cup {sup[r].attempt}
  /\ SupGoto(r, "drain")
  /\ UNCHANGED <<opVars, rt, src, pub, closed, owner, cons, stopped, unseen>>

SelectReady(r) ==
  /\ sup[r].pc = "dialing"
  /\ src[sup[r].attempt] \in {"up", "ended"}
  /\ rt' = [rt EXCEPT ![r].stream = sup[r].attempt]
  /\ SupGoto(r, "ready")
  /\ UNCHANGED <<opVars, src, pub, streamVars, stopped, unseen>>

SelectErr(r) ==
  /\ sup[r].pc = "dialing"
  /\ src[sup[r].attempt] \in {"failed", "ended"}
  /\ ctxDone' = ctxDone \cup {sup[r].attempt}
  /\ SetState(r, "error")
  /\ SupGoto(r, "backoff")
  /\ UNCHANGED <<opVars, src, pub, closed, owner, cons, stopped, unseen>>

Drain(r) ==            \* <-errCh after ctx.Done
  /\ sup[r].pc = "drain"
  /\ src[sup[r].attempt] \in {"failed", "ended"}
  /\ SetState(r, "idle")
  /\ SupGoto(r, "done")
  /\ UNCHANGED <<opVars, src, pub, streamVars, stopped, unseen>>

\* setState(running), then startConsumers: hls.New may fail, the others are optional.
StartConsumers(s, r) ==
  \E started \in SUBSET Consumers :
    /\ owner' = [owner EXCEPT ![s] = r]
    /\ cons' = [cons EXCEPT ![s] = [c \in Consumers |->
                                      IF c \in started THEN "started" ELSE "none"]]
    /\ rt' = [rt EXCEPT ![r].muxer = IF "hls" \in started THEN s ELSE @,
                        ![r].state = "running"]

Serve(r) ==
  /\ sup[r].pc = "ready"
  /\ StartConsumers(sup[r].attempt, r)
  /\ SupGoto(r, "serving")
  /\ UNCHANGED <<opVars, src, pub, closed, ctxDone, stopped, unseen>>

ServeEnds(r) ==
  /\ sup[r].pc = "serving"
  /\ src[sup[r].attempt] = "ended"
  /\ closed' = closed \cup {sup[r].attempt}
  /\ SupGoto(r, "clear")
  /\ UNCHANGED <<opVars, rt, src, pub, ctxDone, owner, cons, stopped, unseen>>

ClearKeepingContext(r) ==   \* mutant: runCtx is not cancelled when the source ended
  /\ sup[r].pc = "clear"
  /\ rt' = [rt EXCEPT ![r].stream = None,
                      ![r].state = IF rt[r].cancelled THEN @ ELSE "error"]
  /\ SupGoto(r, "backoff")
  /\ UNCHANGED <<opVars, src, pub, closed, ctxDone, owner, cons, stopped, unseen>>

Clear(r) ==            \* clearStream, cancel of the attempt, the offline alert
  /\ sup[r].pc = "clear"
  /\ rt' = [rt EXCEPT ![r].stream = None,
                      ![r].state = IF rt[r].cancelled THEN @ ELSE "error"]
  /\ ctxDone' = ctxDone \cup {sup[r].attempt}
  /\ SupGoto(r, "backoff")
  /\ UNCHANGED <<opVars, src, pub, closed, owner, cons, stopped, unseen>>

Redial(r) ==           \* the backoff timer
  /\ sup[r].pc = "backoff"
  /\ ~rt[r].cancelled
  /\ SupGoto(r, "loop")
  /\ UNCHANGED <<opVars, rt, src, pub, streamVars, stopped, unseen>>

Supervisor(r) ==
  \/ Dial(r) \/ Quit(r) \/ SelectDone(r) \/ SelectReady(r) \/ SelectErr(r) \/ Drain(r)
  \/ Serve(r) \/ ServeEnds(r) \/ Clear(r) \/ Redial(r)

-----------------------------------------------------------------------------
(***************************************************************************)
(* RTMP connections: publish offers a stream (on every frame until it is   *)
(* accepted), OnClose ends it. OnPublishStart and OnPublishStop look the   *)
(* runtime up by the stream key; attachPush begins with a detachPush, and  *)
(* both take rt.mu for a moment at a time.                                 *)
(***************************************************************************)
PubGoto(p, pc) == pub' = [pub EXCEPT ![p].pc = pc]

Offer(p) ==
  /\ SourceType = "rtmp"
  /\ pub[p].pc = "idle"
  /\ mu = "free"
  /\ cams # None                  \* else rejected, and offered again
  /\ pub' = [pub EXCEPT ![p] = [@ EXCEPT !.pc = "read", !.starting = TRUE, !.rt = cams]]
  /\ UNCHANGED <<opVars, rt, sup, src, streamVars, stopped, unseen>>

DetachRead(p) ==
  /\ pub[p].pc = "read"
  /\ LET r == pub[p].rt IN
       /\ pub' = [pub EXCEPT ![p] = [@ EXCEPT !.pc = "cancel", !.cancel = rt[r].pushCancel,
                                              !.stream = rt[r].stream]]
       /\ rt' = [rt EXCEPT ![r].pushCancel = None]
  /\ UNCHANGED <<opVars, sup, src, streamVars, stopped, unseen>>

DetachCancel(p) ==
  /\ pub[p].pc = "cancel"
  /\ ctxDone' = ctxDone \cup ({pub[p].cancel} \ {None})
  /\ closed' = closed \cup ({pub[p].stream} \ {None})
  /\ pub' = [pub EXCEPT ![p] = [@ EXCEPT !.pc = "clear", !.cancel = None, !.stream = None]]
  /\ UNCHANGED <<opVars, rt, sup, src, owner, cons, stopped, unseen>>

\* An open stream that is about to be taken out of view (two connections attach at once).
Displaced(r) == {rt[r].stream} \ ({None} \cup closed)

\* A stop() that waits has already looked for a stream to close.
LookedAt(r) == \E o \in Operators : op[o].pc = "wait" /\ op[o].rt = r

DetachClear(p) ==
  /\ pub[p].pc = "clear"
  /\ unseen' = unseen \cup Displaced(pub[p].rt)
  /\ rt' = [rt EXCEPT ![pub[p].rt].stream = None]
  /\ PubGoto(p, "connecting")
  /\ UNCHANGED <<opVars, sup, src, streamVars, stopped>>

DetachState(p) ==
  /\ pub[p].pc = "connecting"
  /\ SetState(pub[p].rt, "connecting")
  /\ PubGoto(p, IF pub[p].starting THEN "context" ELSE "close")
  /\ UNCHANGED <<opVars, sup, src, streamVars, stopped, unseen>>

AttachContext(p) ==
  /\ pub[p].pc = "context"
  /\ rt' = [rt EXCEPT ![pub[p].rt].pushCancel = p]
  /\ PubGoto(p, "attach")
  /\ UNCHANGED <<opVars, sup, src, streamVars, stopped, unseen>>

AttachStream(p) ==
  /\ pub[p].pc = "attach"
  /\ rt' = [rt EXCEPT ![pub[p].rt].stream = p]
  /\ unseen' = unseen \cup Displaced(pub[p].rt) \cup {s \in {p} : LookedAt(pub[p].rt)}
  /\ PubGoto(p, "consume")
  /\ UNCHANGED <<opVars, sup, src, streamVars, stopped>>

AttachConsumers(p) ==
  /\ pub[p].pc = "consume"
  /\ StartConsumers(p, pub[p].rt)
  /\ pub' = [pub EXCEPT ![p] = [@ EXCEPT !.pc = "publishing", !.rt = None]]
  /\ UNCHANGED <<opVars, sup, src, closed, ctxDone, stopped, unseen>>

DisconnectOnlyClosing(p) ==   \* mutant: OnClose does not call OnPublishStop
  /\ pub[p].pc = "publishing"
  /\ pub' = [pub EXCEPT ![p] = [@ EXCEPT !.pc = "close", !.starting = FALSE, !.rt = cams]]
  /\ UNCHANGED <<opVars, rt, sup, src, streamVars, stopped, unseen>>

\* OnClose: OnPublishStop of whatever runtime has the key now, then the stream.
Disconnect(p) ==
  /\ pub[p].pc = "publishing"
  /\ mu = "free"
  /\ pub' = [pub EXCEPT ![p] = [@ EXCEPT !.pc = IF cams = None THEN "close" ELSE "read",
                                         !.starting = FALSE, !.rt = cams]]
  /\ UNCHANGED <<opVars, rt, sup, src, streamVars, stopped, unseen>>

OnClose(p) ==
  /\ pub[p].pc = "close"
  /\ closed' = closed \cup {p}
  /\ pub' = [pub EXCEPT ![p] = [@ EXCEPT !.pc = "gone", !.rt = None]]
  /\ UNCHANGED <<opVars, rt, sup, src, ctxDone, owner, cons, stopped, unseen>>

Publisher(p) ==
  \/ DetachRead(p) \/ DetachCancel(p) \/ DetachClear(p) \/ DetachState(p)
  \/ AttachContext(p) \/ AttachStream(p) \/ AttachConsumers(p)
  \/ OnClose(p)

-----------------------------------------------------------------------------
(***************************************************************************)
(* Consumers: AddReader, then units until the context is cancelled or the  *)
(* reader's channel is closed. A reader that was added to a stream already *)
(* closed is "late": its channel is never closed.                          *)
(***************************************************************************)
Consume(s, c) ==
  /\ cons[s][c] = "started"
  /\ cons' = [cons EXCEPT ![s][c] = IF s \in closed THEN "late" ELSE "reading"]
  /\ UNCHANGED <<opVars, rt, sup, src, pub, closed, ctxDone, owner, stopped, unseen>>

\* The muxer's goroutine ends with setMuxer(nil).
Return(s, c) ==
  /\ cons' = [cons EXCEPT ![s][c] = "none"]
  /\ rt' = [rt EXCEPT ![owner[s]].muxer = IF c = "hls" THEN None ELSE @]
  /\ UNCHANGED <<opVars, sup, src, pub, closed, ctxDone, owner, stopped, unseen>>

ConsumerEnds(s, c) ==
  /\ \/ cons[s][c] = "reading" /\ (s \in closed \/ Cancelled(s))
     \/ cons[s][c] = "late" /\ Cancelled(s)
  /\ Return(s, c)

ConsumerFails(s, c) ==      \* ffmpeg, the muxer or the disk gave up
  /\ cons[s][c] \in {"started", "reading"}
  /\ Return(s, c)

Next ==
  \/ \E o \in Operators : Request(o) \/ Operator(o)
  \/ \E r \in Runtimes : Supervisor(r)
  \/ \E s \in Streams : SourceReady(s) \/ SourceEnds(s)
  \/ \E p \in Streams : Offer(p) \/ Publisher(p) \/ Disconnect(p)
  \/ \E s \in Streams, c \in Consumers :
       Consume(s, c) \/ ConsumerEnds(s, c) \/ ConsumerFails(s, c)

(***************************************************************************)
(* Every goroutine that can go on does. A source returns once its context  *)
(* is cancelled; otherwise nothing says when it is ready or lost, when an  *)
(* RTMP peer connects or leaves, or when a request is made.                *)
(***************************************************************************)
Fairness ==
  /\ \A o \in Operators : WF_vars(Operator(o))
  /\ \A r \in Runtimes : WF_vars(Supervisor(r))
  /\ \A s \in Streams : WF_vars(Cancelled(s) /\ SourceEnds(s))
  /\ \A p \in Streams : WF_vars(Publisher(p))
  /\ \A s \in Streams, c \in Consumers : WF_vars(Consume(s, c) \/ ConsumerEnds(s, c))

Spec == Init /\ [][Next]_vars
FairSpec == Spec /\ Fairness

-----------------------------------------------------------------------------
(***************************************************************************)
(* A runtime whose stop() returned has no goroutine left, and never gets   *)
(* one again.                                                              *)
(***************************************************************************)
StoppedIsGoneUnlessRaced == raced \/ \A r \in stopped : WaitGroupZero(r)

(***************************************************************************)
(* A supervisor that runs belongs to the runtime in the map, or to one a   *)
(* request still has in hand.                                              *)
(***************************************************************************)
InHand(r) == r = cams \/ \E o \in Operators : op[o].rt = r

OneRuntimeUnlessRaced == raced \/ \A r \in Runtimes : Supervised(r) => InHand(r)

(***************************************************************************)
(* Package comment of manager: it supervises one runtime per camera. No    *)
(* runtime goes on connecting that nobody can stop any more.               *)
(***************************************************************************)
NoOrphan == \A r \in Runtimes : Supervised(r) /\ ~rt[r].cancelled => InHand(r)

(***************************************************************************)
(* Footage is taken from one stream at a time: no two open streams of the  *)
(* camera have consumers, across reconnects and restarts.                  *)
(***************************************************************************)
ServedOnceUnlessRaced ==
  \/ raced
  \/ \A s, t \in Streams :
       s # t /\ Alive(s) # {} /\ Alive(t) # {} => s \in closed \/ t \in closed

(***************************************************************************)
(* One source per camera, as long as no request meets another halfway: one *)
(* runtime that dials and one stream that is consumed (manager.go 241-281, *)
(* runtime.go 249-326).                                                    *)
(***************************************************************************)
OneSourceUnlessRaced == OneRuntimeUnlessRaced /\ ServedOnceUnlessRaced

(***************************************************************************)
(* runtime.go on startConsumers: they stop when the stream closes or ctx   *)
(* is cancelled.                                                           *)
(***************************************************************************)
ConsumersStop ==
  \A s \in Streams, c \in Consumers :
    (c \in Alive(s) /\ (s \in closed \/ Cancelled(s))) ~> c \notin Alive(s)

\* The same for a pull camera whose requests do not meet halfway: what a late reader
\* misses, the cancelled context of its attempt makes up for.
ConsumersStopUnlessRaced ==
  \A s \in Streams, c \in Consumers :
    (c \in Alive(s) /\ (s \in closed \/ Cancelled(s))) ~> (c \notin Alive(s) \/ raced)

(***************************************************************************)
(* A request returns: stop() waits for goroutines that all end.            *)
(***************************************************************************)
RequestsReturnUnlessRaced ==
  \A o \in Operators : op[o].pc # "idle" ~> (op[o].pc = "idle" \/ raced)

(***************************************************************************)
(* What was told to stop does, and who waits for it goes on (runtime.go    *)
(* 179-195, 328-437).                                                      *)
(***************************************************************************)
SettlesUnlessRaced == ConsumersStopUnlessRaced /\ RequestsReturnUnlessRaced

(***************************************************************************)
(* When no publisher is left, the camera says so: whatever the order in    *)
(* which attaches and detaches met, the last one out leaves it not live.   *)
(***************************************************************************)
SettledWhenGone ==
  (SourceType = "rtmp" /\ \A p \in Streams : pub[p].pc \in {"idle", "close", "gone"})
    => \A r \in Runtimes : r = cams => rt[r].stream = None /\ rt[r].state # "running"

(***************************************************************************)
(* What keeps a request or an RTMP connection waiting for ever on m.mu or  *)
(* a WaitGroup is one of two things only: a consumer that was added late   *)
(* to a closed stream, or a publisher that goes on publishing a stream     *)
(* stop() could not see: it attached after stop() had looked (runtime.go   *)
(* 187-194), or another connection that attached at the same time took it  *)
(* out of view. A publisher stop() could see is no excuse: its stream is   *)
(* closed, and the request goes on.                                        *)
(***************************************************************************)
HeldUp ==
  \/ \E s \in Streams, c \in Consumers : cons[s][c] = "late"
  \/ \E o \in Operators, p \in Streams :
       op[o].pc = "wait" /\ owner[p] = op[o].rt /\ pub[p].pc = "publishing" /\ p \in unseen

ReturnsUnlessHeldUp ==
  /\ \A o \in Operators : op[o].pc # "idle" ~> (op[o].pc = "idle" \/ HeldUp)
  /\ \A p \in Streams :
       pub[p].pc \notin {"idle", "publishing", "gone"}
         ~> (pub[p].pc \in {"publishing", "gone"} \/ HeldUp)

(***************************************************************************)
(* manager.go on ServeHLS: serves the live HLS playlist and segments for a *)
(* camera, if it is live. The muxer of the attached stream is running and  *)
(* no other muxer goroutine is left: it is the one that is served.         *)
(***************************************************************************)
LiveHasMuxer ==
  \A p \in Streams :
    (/\ cams # None /\ rt[cams].stream = p
     /\ p \notin closed /\ cons[p]["hls"] = "reading"
     /\ \A s \in Streams \ {p} : cons[s]["hls"] = "none")
      => rt[cams].muxer = p

=============================================================================
