-------------------------------- MODULE Viewers -------------------------------
(***************************************************************************)
(* Live viewers (api/stream.go, api/mse.go, api/webrtc.go with             *)
(* webrtc/webrtc.go, tsfeed/tsfeed.go): a handler takes the camera's       *)
(* stream, with a reference to the shared transcoder that it must give     *)
(* back exactly once (manager/manager.go 318), adds a reader of its own    *)
(* and copies units until its client leaves, the stream ends or a write    *)
(* fails.  A WebRTC handler hands reference and reader over to a goroutine *)
(* and returns.  One stream; LiveTranscode has the transcoder's side.      *)
(***************************************************************************)
EXTENDS Integers, FiniteSets

CONSTANT Watchers   \* requests to watch, each made once

Kinds == {"http", "ts", "webrtc"}   \* FLV and MSE alike; MPEG-TS takes no reference

VARIABLES
  over,     \* the stream has been closed
  watcher,  \* per request: [kind, at, gone, late]
  held,     \* per request, references taken and not given back
  readers   \* requests with a reader at the stream

watchVars == <<over, watcher, held, readers>>

WatchInit ==
  /\ over = FALSE
  /\ watcher = [w \in Watchers |-> [kind |-> "none", at |-> "idle", gone |-> FALSE, late |-> FALSE]]
  /\ held = [w \in Watchers |-> 0]
  /\ readers = {}

At(w, place) == watcher[w].at = place
Goes(w, place) == watcher' = [watcher EXCEPT ![w].at = place]

StreamOver ==
  /\ ~over
  /\ over' = TRUE
  /\ UNCHANGED <<watcher, held, readers>>

(* The connection breaks, or a WebRTC connection fails or is never made.    *)
WatcherLeaves(w) ==
  /\ ~At(w, "idle") /\ ~At(w, "done") /\ ~watcher[w].gone
  /\ watcher' = [watcher EXCEPT ![w].gone = TRUE]
  /\ UNCHANGED <<over, held, readers>>

(* StreamFor, LiveStreamFor.                                                *)
Open(w, kind) ==
  /\ At(w, "idle") /\ ~over
  /\ watcher' = [watcher EXCEPT ![w].kind = kind, ![w].at = "setup"]
  /\ held' = [held EXCEPT ![w] = IF kind = "ts" THEN 0 ELSE 1]
  /\ UNCHANGED <<over, readers>>

(* No muxer for these tracks, no upgrade, a header that cannot be written,  *)
(* an offer that is not accepted: the handler gives the reference back.     *)
SetupFails(w) ==
  /\ At(w, "setup")
  /\ Goes(w, "closed")
  /\ UNCHANGED <<over, held, readers>>

(* The header is out, or the answer: the loop is next, in the goroutine of  *)
(* Offer for WebRTC.                                                        *)
Started(w) ==
  /\ At(w, "setup")
  /\ Goes(w, "attach")
  /\ UNCHANGED <<over, held, readers>>

(* AddReader.  Nobody closes a reader that is added after its stream was    *)
(* closed (core/stream.go 68-81).                                           *)
Attach(w) ==
  /\ At(w, "attach")
  /\ watcher' = [watcher EXCEPT ![w].at = "copying", ![w].late = over]
  /\ readers' = readers \cup {w}
  /\ UNCHANGED <<over, held>>

Detach(w) ==
  /\ readers' = readers \ {w}
  /\ Goes(w, "closed")
  /\ UNCHANGED <<over, held>>

SeeEnd(w) ==
  /\ At(w, "copying")
  /\ watcher[w].gone \/ (over /\ ~watcher[w].late)
  /\ Detach(w)

WriteFails(w) ==
  /\ At(w, "copying") /\ ~watcher[w].late
  /\ Detach(w)

GiveBack(w) ==
  /\ At(w, "closed")
  /\ held' = [held EXCEPT ![w] = IF watcher[w].kind = "ts" THEN @ ELSE @ - 1]
  /\ Goes(w, "done")
  /\ UNCHANGED <<over, readers>>

WatcherStep(w) == SetupFails(w) \/ Started(w) \/ Attach(w) \/ SeeEnd(w) \/ GiveBack(w)

WatchNext ==
  \/ StreamOver
  \/ \E w \in Watchers :
       WatcherStep(w) \/ WriteFails(w) \/ WatcherLeaves(w) \/ \E kind \in Kinds : Open(w, kind)

WatchFairness == \A w \in Watchers : WF_watchVars(WatcherStep(w))

WatchSpec == WatchInit /\ [][WatchNext]_watchVars /\ WatchFairness

-----------------------------------------------------------------------------
(* On every way out a viewer has given its reference back once, and until   *)
(* then it keeps it; no reader stays behind at the stream                   *)
(* (manager/manager.go 317-331, webrtc/webrtc.go 25-29).                    *)
ViewersSound ==
  \A w \in Watchers :
    /\ held[w] = IF watcher[w].kind = "ts" \/ At(w, "idle") \/ At(w, "done") THEN 0 ELSE 1
    /\ w \in readers <=> At(w, "copying")

(* A viewer whose client has left, or whose stream has ended, is cleaned up *)
(* after; save one that came to a stream just closed, which then waits for  *)
(* its client to leave.  (A request is made once: this is `leads to' for    *)
(* every request.)                                                          *)
ViewersEnd ==
  <>[](\A w \in Watchers : watcher[w].gone \/ (over /\ ~At(w, "idle") /\ ~watcher[w].late) => At(w, "done"))
=============================================================================
