--------------------------- MODULE LiveTranscode ---------------------------
(***************************************************************************)
(* Viewers of a camera whose codec browsers cannot play, on a server that  *)
(* has an encoder: camRuntime.liveStream picks the runtime's shared        *)
(* transcode.LiveTranscoder, Acquire and Release count its viewers, and    *)
(* one ffmpeg process per transcoder lives from its first viewer to a      *)
(* grace period after its last. The camera loses and regains its source    *)
(* meanwhile.                                                              *)
(*                                                                         *)
(* Source streams, visits, transcoders and processes (with the output      *)
(* stream each produces) are numbered as they appear; a visit creates at   *)
(* most one of each of the latter two.                                     *)
(***************************************************************************)
EXTENDS Integers, FiniteSets

CONSTANTS
  MaxVisits,    \* bound: visits of viewers
  MaxStreams,   \* bound: source streams
  MaxDeaths     \* bound: how often ffmpeg dies or fails to start

ASSUME BoundsAssumption == MaxVisits \in Nat /\ MaxStreams \in Nat /\ MaxDeaths \in Nat

Streams == 1..MaxStreams
Viewers == 1..MaxVisits
Transcoders == 1..MaxVisits
Procs == 1..MaxVisits
None == 0

VARIABLES
  stream,    \* rt.stream, or None
  ended,     \* source streams that were closed
  shared,    \* rt.liveTC and rt.liveTCStream
  dropped,   \* the transcoder that clearStream has taken and will close, or None
  tc,        \* the LiveTranscoder structs
  proc,      \* their runs: goroutine, context and ffmpeg process
  viewer,    \* the requests
  count      \* transcoders and processes so far, visits and deaths

transcodeVars == <<stream, ended, shared, dropped, tc, proc, viewer, count>>

ViewerPCs == {"idle", "pick", "acquire", "wait", "take", "drop", "watch"}

TranscodeTypeOK ==
  /\ stream \in Streams \cup {None}
  /\ ended \subseteq Streams
  /\ shared \in [tc : Transcoders \cup {None}, of : Streams \cup {None}]
  /\ dropped \in Transcoders \cup {None}
  /\ tc \in [Transcoders -> [source : Streams \cup {None}, refs : Nat,
                             run : Procs \cup {None}, out : Procs \cup {None},
                             cancel : BOOLEAN, timer : BOOLEAN, fired : Nat]]
  /\ proc \in [Procs -> [tc : Transcoders \cup {None},
                         pc : {"none", "starting", "live", "exited", "over"},
                         feed : {"none", "reading", "late"},
                         cancelled : {"no", "idle", "closed"}]]
  /\ viewer \in [Viewers -> [pc : ViewerPCs, stream : Streams \cup {None},
                             tc : Transcoders \cup {None}, proc : Procs \cup {None},
                             early : BOOLEAN]]
  /\ count \in [tc : 0..MaxVisits, proc : 0..MaxVisits, visits : 0..MaxVisits,
                streams : 0..MaxStreams, deaths : 0..MaxDeaths]

NoTranscoder == [source |-> None, refs |-> 0, run |-> None, out |-> None,
                 cancel |-> FALSE, timer |-> FALSE, fired |-> 0]
NoProc == [tc |-> None, pc |-> "none", feed |-> "none", cancelled |-> "no"]
NoViewer == [pc |-> "idle", stream |-> None, tc |-> None, proc |-> None, early |-> FALSE]

TranscodeInit ==
  /\ stream = None
  /\ ended = {}
  /\ shared = [tc |-> None, of |-> None]
  /\ dropped = None
  /\ tc = [i \in Transcoders |-> NoTranscoder]
  /\ proc = [n \in Procs |-> NoProc]
  /\ viewer = [v \in Viewers |-> NoViewer]
  /\ count = [tc |-> 0, proc |-> 0, visits |-> 0, streams |-> 0, deaths |-> 0]

-----------------------------------------------------------------------------
(***************************************************************************)
(* The source: setStream, the stream's end, clearStream.                   *)
(***************************************************************************)
SetStream ==
  /\ stream = None /\ dropped = None
  /\ count.streams < MaxStreams
  /\ stream' = count.streams + 1
  /\ count' = [count EXCEPT !.streams = @ + 1]
  /\ UNCHANGED <<ended, shared, dropped, tc, proc, viewer>>

SourceEnds ==
  /\ stream # None
  /\ ended' = ended \cup {stream}
  /\ UNCHANGED <<stream, shared, dropped, tc, proc, viewer, count>>

ClearStream ==
  /\ stream \in ended
  /\ stream' = None
  /\ dropped' = shared.tc
  /\ shared' = [tc |-> None, of |-> None]
  /\ UNCHANGED <<ended, tc, proc, viewer, count>>

\* Cancelling the context of a transcoder's run, for the reason why.
Cancelling(i, why) ==
  [n \in Procs |-> IF n = tc[i].run /\ tc[i].cancel /\ proc[n].cancelled = "no"
                     THEN [proc[n] EXCEPT !.cancelled = why] ELSE proc[n]]

CloseUncancelled(i) ==   \* mutant: looks at t.cancel after having cleared it
  /\ tc' = [tc EXCEPT ![i].timer = FALSE, ![i].cancel = FALSE]
  /\ proc' = proc

\* LiveTranscoder.Close
Close(i) ==
  /\ tc' = [tc EXCEPT ![i].timer = FALSE, ![i].cancel = FALSE]
  /\ proc' = Cancelling(i, "closed")

CloseDropped ==
  /\ dropped # None
  /\ Close(dropped)
  /\ dropped' = None
  /\ UNCHANGED <<stream, ended, shared, viewer, count>>

-----------------------------------------------------------------------------
(***************************************************************************)
(* A visit: liveStream, Acquire, watching, Release.                        *)
(***************************************************************************)
Goto(v, pc) == viewer' = [viewer EXCEPT ![v].pc = pc]

\* The viewer has left, or watches the source itself.
Gone(v) == viewer' = [viewer EXCEPT ![v] = NoViewer]

Visit(v) ==
  /\ v = count.visits + 1
  /\ stream # None
  /\ viewer' = [viewer EXCEPT ![v] = [NoViewer EXCEPT !.pc = "pick", !.stream = stream]]
  /\ count' = [count EXCEPT !.visits = @ + 1]
  /\ UNCHANGED <<stream, ended, shared, dropped, tc, proc>>

\* Under rt.mu: the shared transcoder if it is of this stream, else a new one.
PickShared(v) ==
  /\ viewer[v].pc = "pick"
  /\ shared.tc # None /\ shared.of = viewer[v].stream
  /\ viewer' = [viewer EXCEPT ![v].pc = "acquire", ![v].tc = shared.tc]
  /\ UNCHANGED <<stream, ended, shared, dropped, tc, proc, count>>

PickNew(v) ==
  LET i == count.tc + 1
      closed == IF shared.tc = None THEN tc
                ELSE [tc EXCEPT ![shared.tc].timer = FALSE, ![shared.tc].cancel = FALSE]
  IN  /\ viewer[v].pc = "pick"
      /\ shared.tc = None \/ shared.of # viewer[v].stream
      /\ tc' = [closed EXCEPT ![i].source = viewer[v].stream]
      /\ proc' = IF shared.tc = None THEN proc ELSE Cancelling(shared.tc, "closed")
      /\ shared' = [tc |-> i, of |-> viewer[v].stream]
      /\ viewer' = [viewer EXCEPT ![v].pc = "acquire", ![v].tc = i]
      /\ count' = [count EXCEPT !.tc = i]
      /\ UNCHANGED <<stream, ended, dropped>>

\* What joining makes of a transcoder: its grace timer stops, one viewer more.
Joined(i) == [tc[i] EXCEPT !.timer = FALSE, !.refs = @ + 1]

\* A viewer who takes the output of a run that was told to stop is not early.
AcquireOutput(v) ==
  LET i == viewer[v].tc
  IN  /\ viewer[v].pc = "acquire"
      /\ tc[i].out # None
      /\ tc' = [tc EXCEPT ![i] = Joined(i)]
      /\ viewer' = [viewer EXCEPT ![v].pc = "watch", ![v].proc = tc[i].out,
                                  ![v].early = proc[tc[i].out].cancelled = "no"]
      /\ UNCHANGED <<stream, ended, shared, dropped, proc, count>>

AcquireWaiting(v) ==
  LET i == viewer[v].tc
  IN  /\ viewer[v].pc = "acquire"
      /\ tc[i].out = None /\ tc[i].run # None
      /\ tc' = [tc EXCEPT ![i] = Joined(i)]
      /\ viewer' = [viewer EXCEPT ![v].pc = "wait", ![v].proc = tc[i].run,
                                  ![v].early = proc[tc[i].run].cancelled = "no"]
      /\ UNCHANGED <<stream, ended, shared, dropped, proc, count>>

\* The guard of starting a run, apart so that its loss can be considered.
NotRunning(i) == tc[i].out = None /\ tc[i].run = None

AcquireStarting(v) ==
  LET i == viewer[v].tc
      n == count.proc + 1
  IN  /\ viewer[v].pc = "acquire"
      /\ NotRunning(i)
      /\ tc' = [tc EXCEPT ![i] = [Joined(i) EXCEPT !.run = n, !.cancel = TRUE]]
      /\ proc' = [proc EXCEPT ![n] = [NoProc EXCEPT !.tc = i, !.pc = "starting"]]
      /\ viewer' = [viewer EXCEPT ![v].pc = "wait", ![v].proc = n, ![v].early = TRUE]
      /\ count' = [count EXCEPT !.proc = n]
      /\ UNCHANGED <<stream, ended, shared, dropped>>

\* Release: the last one out starts the grace timer.
Released(i) ==
  IF tc[i].refs = 0 THEN tc[i]
  ELSE [tc[i] EXCEPT !.refs = @ - 1, !.timer = IF tc[i].refs = 1 THEN TRUE ELSE @]

ReadyClosed(v) ==
  /\ viewer[v].pc = "wait"
  /\ proc[viewer[v].proc].pc = "over" \/ tc[viewer[v].tc].out = viewer[v].proc
  /\ Goto(v, "take")
  /\ UNCHANGED <<stream, ended, shared, dropped, tc, proc, count>>

\* The client has gone, or twenty seconds are over.
GiveUpKeepingRef(v) ==   \* mutant: returns without Release
  /\ viewer[v].pc = "wait"
  /\ Gone(v)
  /\ UNCHANGED <<stream, ended, shared, dropped, tc, proc, count>>

GiveUp(v) ==
  /\ viewer[v].pc = "wait"
  /\ tc' = [tc EXCEPT ![viewer[v].tc] = Released(viewer[v].tc)]
  /\ Gone(v)
  /\ UNCHANGED <<stream, ended, shared, dropped, proc, count>>

TakeRetrying(v) ==   \* mutant: a start that failed is tried again at once
  /\ viewer[v].pc = "take"
  /\ Goto(v, IF tc[viewer[v].tc].out = None THEN "acquire" ELSE "watch")
  /\ UNCHANGED <<stream, ended, shared, dropped, tc, proc, count>>

\* The output of whatever run there is now.
Take(v) ==
  LET out == tc[viewer[v].tc].out
  IN  /\ viewer[v].pc = "take"
      /\ viewer' = IF out = None THEN [viewer EXCEPT ![v].pc = "drop"]
                   ELSE [viewer EXCEPT ![v].pc = "watch", ![v].proc = out,
                                       ![v].early = proc[out].cancelled = "no"
                                                      \/ (@ /\ viewer[v].proc = out)]
      /\ UNCHANGED <<stream, ended, shared, dropped, tc, proc, count>>

Drop(v) ==
  /\ viewer[v].pc = "drop"
  /\ tc' = [tc EXCEPT ![viewer[v].tc] = Released(viewer[v].tc)]
  /\ Gone(v)
  /\ UNCHANGED <<stream, ended, shared, dropped, proc, count>>

Leave(v) ==
  /\ viewer[v].pc = "watch"
  /\ tc' = [tc EXCEPT ![viewer[v].tc] = Released(viewer[v].tc)]
  /\ Gone(v)
  /\ UNCHANGED <<stream, ended, shared, dropped, proc, count>>

-----------------------------------------------------------------------------
(***************************************************************************)
(* The grace timer: Stop does not recall a callback that already runs.     *)
(***************************************************************************)
TimerFires(i) ==
  /\ tc[i].timer
  /\ tc' = [tc EXCEPT ![i].timer = FALSE, ![i].fired = @ + 1]
  /\ UNCHANGED <<stream, ended, shared, dropped, proc, viewer, count>>

StopIfIdle(i) ==
  /\ tc[i].fired > 0
  /\ tc' = [tc EXCEPT ![i].fired = @ - 1, ![i].cancel = IF tc[i].refs > 0 THEN @ ELSE FALSE]
  /\ proc' = IF tc[i].refs > 0 THEN proc ELSE Cancelling(i, "idle")
  /\ UNCHANGED <<stream, ended, shared, dropped, viewer, count>>

-----------------------------------------------------------------------------
(***************************************************************************)
(* One run: pump feeds ffmpeg from a reader of the source and republishes  *)
(* what it writes; when pump returns, run resets the transcoder.           *)
(***************************************************************************)
Source(n) == tc[proc[n].tc].source
Up(n) == proc[n].pc \in {"starting", "live"}

ProcGoto(n, pc) == proc' = [proc EXCEPT ![n].pc = pc]

\* AddReader; on a stream that is closed already nothing ever comes, not even its end.
FeedSource(n) ==
  /\ Up(n) /\ proc[n].feed = "none"
  /\ proc' = [proc EXCEPT ![n].feed = IF Source(n) \in ended THEN "late" ELSE "reading"]
  /\ UNCHANGED <<stream, ended, shared, dropped, tc, viewer, count>>

\* The first keyframe comes out: onReady.
Ready(n) ==
  /\ proc[n].pc = "starting" /\ proc[n].feed = "reading"
  /\ ProcGoto(n, "live")
  /\ tc' = [tc EXCEPT ![proc[n].tc].out = n]
  /\ UNCHANGED <<stream, ended, shared, dropped, viewer, count>>

\* ffmpeg exits: its context is cancelled or its input has ended.
Exit(n) ==
  /\ Up(n)
  /\ \/ proc[n].cancelled # "no"
     \/ proc[n].feed = "reading" /\ Source(n) \in ended
  /\ ProcGoto(n, "exited")
  /\ UNCHANGED <<stream, ended, shared, dropped, tc, viewer, count>>

Die(n) ==
  /\ Up(n)
  /\ count.deaths < MaxDeaths
  /\ count' = [count EXCEPT !.deaths = @ + 1]
  /\ ProcGoto(n, "exited")
  /\ UNCHANGED <<stream, ended, shared, dropped, tc, viewer>>

\* The end of run: the output is closed, the struct is ready for another run.
EndRun(n) ==
  /\ proc[n].pc = "exited"
  /\ ProcGoto(n, "over")
  /\ tc' = [tc EXCEPT ![proc[n].tc].out = None, ![proc[n].tc].run = None,
                      ![proc[n].tc].cancel = FALSE]
  /\ UNCHANGED <<stream, ended, shared, dropped, viewer, count>>

ViewerStep(v) ==
  \/ PickShared(v) \/ PickNew(v)
  \/ AcquireOutput(v) \/ AcquireWaiting(v) \/ AcquireStarting(v)
  \/ ReadyClosed(v) \/ Take(v) \/ Drop(v)

TimerStep(i) == TimerFires(i) \/ StopIfIdle(i)

RunStep(n) == FeedSource(n) \/ Exit(n) \/ EndRun(n)

TranscodeNext ==
  \/ SetStream \/ SourceEnds \/ ClearStream \/ CloseDropped
  \/ \E v \in Viewers : Visit(v) \/ ViewerStep(v) \/ GiveUp(v) \/ Leave(v)
  \/ \E i \in Transcoders : TimerStep(i)
  \/ \E n \in Procs : RunStep(n) \/ Ready(n) \/ Die(n)

(***************************************************************************)
(* Goroutines go on, timers fire, and ffmpeg ends when it is told to (it   *)
(* is killed after ten seconds at the latest). Nothing says when a source  *)
(* ends, a first frame comes out or a viewer leaves; a wait times out.     *)
(***************************************************************************)
Fairness ==
  /\ WF_transcodeVars(CloseDropped)
  /\ \A v \in Viewers : WF_transcodeVars(ViewerStep(v) \/ GiveUp(v))
  /\ \A i \in Transcoders : WF_transcodeVars(TimerStep(i))
  /\ \A n \in Procs : WF_transcodeVars(RunStep(n))

TranscodeSpec == TranscodeInit /\ [][TranscodeNext]_transcodeVars
FairSpec == TranscodeSpec /\ Fairness

-----------------------------------------------------------------------------
(***************************************************************************)
(* The reference count is the number of viewers who have acquired and not  *)
(* released, whatever way a wait ended and however often the process was   *)
(* replaced under them: it never strands a process nor stops a watched one. *)
(***************************************************************************)
RefsCountViewers ==
  \A i \in Transcoders :
    tc[i].refs = Cardinality({v \in Viewers :
                   viewer[v].tc = i /\ viewer[v].pc \in {"wait", "take", "drop", "watch"}})

(***************************************************************************)
(* Package comment: a single ffmpeg process however many are watching. A   *)
(* transcoder never runs two, and what it hands out is its own run's.      *)
(***************************************************************************)
OneProcess ==
  \A i \in Transcoders :
    LET mine == {n \in Procs : proc[n].tc = i /\ proc[n].pc \notin {"none", "over"}}
    IN  mine = (IF tc[i].run = None THEN {} ELSE {tc[i].run}) /\ tc[i].out \in mine \cup {None}

(***************************************************************************)
(* The grace timer never stops a process that somebody is watching or      *)
(* waiting for, however its callback meets those who come and go: only a   *)
(* viewer who joined a process already told to stop can lose it that way.  *)
(***************************************************************************)
NotIdledWhileWatched ==
  \A v \in Viewers :
    viewer[v].pc \in {"wait", "watch"} /\ viewer[v].early
      => proc[viewer[v].proc].cancelled # "idle"

(***************************************************************************)
(* A process nobody watches ends: after the last Release, unless a viewer  *)
(* comes back, and even when its source had ended before it was started.   *)
(* (The visits are bounded, so that this is `leads to' for every process.) *)
(***************************************************************************)
IdleStops == <>[](\A n \in Procs : Up(n) => tc[proc[n].tc].refs > 0)

=============================================================================
