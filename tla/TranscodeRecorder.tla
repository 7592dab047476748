--------------------------- MODULE TranscodeRecorder ---------------------------
(***************************************************************************)
(* recording.TranscodeRecorder (recording/transcode.go): each stream of a  *)
(* camera is piped to an FFmpeg process that cuts it into segments in a    *)
(* work directory all of them share, named after the second they start in, *)
(* and reports each finished one on its output.  The recorder renames it   *)
(* to the place the template gives it and registers it.  Nobody waits for  *)
(* the recorder of the stream before.                                      *)
(***************************************************************************)
EXTENDS Integers, Sequences, FiniteSets

CONSTANTS
  MaxRuns,       \* bound: streams recorded, one after another
  NameGrain,     \* seconds the path template tells apart
  MaxSeconds,    \* bound: the clock
  MaxFilmed,     \* bound: segments
  MaxDiskFaults  \* bound: failures of the file system and of the database

ASSUME TranscodeRecorderAssumption ==
  /\ MaxRuns \in Nat \ {0} /\ NameGrain \in Nat \ {0}
  /\ MaxSeconds \in Nat /\ MaxFilmed \in Nat /\ MaxDiskFaults \in Nat

Segments == 1..MaxFilmed
NoSegment == 0

VARIABLES
  second,
  runs,     \* per run: the recorder and its FFmpeg
  filmed,      \* segments begun; begun[g] is the second segment g began in
  begun,
  work,        \* the work directory: per second, the segment in that file
  tree,        \* the recordings: per rendered name, the segment in that file
  filed,       \* rows: [name, of, done]
  diskFaults,
  spared       \* history: segments a fault, a kill, a crash or a name met

trVars == <<second, runs, filmed, begun, work, tree, filed, diskFaults, spared>>

NoRun == [at |-> "none", cancelled |-> FALSE, ended |-> FALSE, stdin |-> FALSE, ffmpeg |-> "none",
              cuts |-> NoSegment, lines |-> <<>>]

TRInit ==
  /\ second = 0
  /\ runs = [s \in 1..MaxRuns |-> NoRun]
  /\ filmed = 0 /\ begun = [g \in Segments |-> 0]
  /\ work = [t \in 0..MaxSeconds |-> NoSegment]
  /\ tree = [n \in 0..MaxSeconds |-> NoSegment]
  /\ filed = {} /\ diskFaults = 0 /\ spared = {}

RenderPath(t) == t \div NameGrain
DiskFault     == diskFaults < MaxDiskFaults /\ diskFaults' = diskFaults + 1
Turns(s, q)  == runs' = [runs EXCEPT ![s] = q]

-----------------------------------------------------------------------------
(* Run starts FFmpeg once the camera has its next stream.                   *)
RunTR(s) ==
  /\ runs[s].at = "none"
  /\ s = 1 \/ (s > 1 /\ runs[s - 1].ended)
  /\ Turns(s, [NoRun EXCEPT !.at = "scan", !.stdin = TRUE, !.ffmpeg = "runs"])
  /\ UNCHANGED <<second, filmed, begun, work, tree, filed, diskFaults, spared>>

(* The stream ends; its context is cancelled soon after (runtime.go 292).   *)
InputEnds(s) ==
  /\ runs[s].at # "none" /\ ~runs[s].ended
  /\ Turns(s, [runs[s] EXCEPT !.ended = TRUE])
  /\ UNCHANGED <<second, filmed, begun, work, tree, filed, diskFaults, spared>>

CancelTR(s) ==
  /\ runs[s].ended /\ ~runs[s].cancelled
  /\ Turns(s, [runs[s] EXCEPT !.cancelled = TRUE])
  /\ UNCHANGED <<second, filmed, begun, work, tree, filed, diskFaults, spared>>

(* The pump closes stdin when the stream or the context ends.               *)
Pump(s) ==
  /\ runs[s].ended /\ runs[s].stdin
  /\ Turns(s, [runs[s] EXCEPT !.stdin = FALSE])
  /\ UNCHANGED <<second, filmed, begun, work, tree, filed, diskFaults, spared>>

-----------------------------------------------------------------------------
(* FFmpeg (external) opens a segment, and finishes and reports it.          *)
Opens(s) ==
  LET q == runs[s]
      g == filmed + 1
  IN /\ q.ffmpeg = "runs" /\ q.stdin /\ q.cuts = NoSegment /\ filmed < MaxFilmed
     /\ filmed' = g /\ begun' = [begun EXCEPT ![g] = second]
     /\ work' = [work EXCEPT ![second] = g]
     /\ spared' = spared \cup ({work[second]} \ {NoSegment})
     /\ Turns(s, [q EXCEPT !.cuts = g])
     /\ UNCHANGED <<second, tree, filed, diskFaults>>

Cuts(s) ==
  LET q == runs[s]
  IN /\ q.ffmpeg = "runs" /\ q.cuts # NoSegment
     /\ Turns(s, [q EXCEPT !.lines = Append(@, q.cuts), !.cuts = NoSegment])
     /\ UNCHANGED <<second, filmed, begun, work, tree, filed, diskFaults, spared>>

Exits(s) ==
  /\ runs[s].ffmpeg = "runs" /\ ~runs[s].stdin /\ runs[s].cuts = NoSegment
  /\ Turns(s, [runs[s] EXCEPT !.ffmpeg = "exited"])
  /\ UNCHANGED <<second, filmed, begun, work, tree, filed, diskFaults, spared>>

(* It may hang, or die; what it was writing stays in the work directory.    *)
Hangs(s) ==
  /\ runs[s].ffmpeg = "runs" /\ DiskFault
  /\ \E how \in {"hung", "exited"} : Turns(s, [runs[s] EXCEPT !.ffmpeg = how, !.cuts = NoSegment])
  /\ spared' = spared \cup ({runs[s].cuts} \ {NoSegment})
  /\ UNCHANGED <<second, filmed, begun, work, tree, filed>>

(* The backstop, fifteen seconds after the cancellation, unless Run is      *)
(* over (a running FFmpeg may be that slow, too).                           *)
Backstop(s) ==
  /\ runs[s].cancelled /\ runs[s].at # "over" /\ runs[s].ffmpeg \in {"runs", "hung"}
  /\ runs[s].ffmpeg = "hung" \/ ~runs[s].stdin
  /\ Turns(s, [runs[s] EXCEPT !.ffmpeg = "exited", !.cuts = NoSegment])
  /\ spared' = spared \cup ({runs[s].cuts} \ {NoSegment})
  /\ UNCHANGED <<second, filmed, begun, work, tree, filed, diskFaults>>

-----------------------------------------------------------------------------
(* handleSegment: rename, register, finalize; a step that fails ends it.    *)
AfterLineReturning(s) == \* mutant: handleSegment ends the scan
  [runs[s] EXCEPT !.at = "scan", !.lines = <<>>]

AfterLine(s) == [runs[s] EXCEPT !.at = "scan", !.lines = Tail(@)]

Rename(s) ==
  LET q == runs[s]
      g == Head(q.lines)
      n == RenderPath(begun[g])
  IN /\ q.at = "scan" /\ q.lines # <<>>
     /\ \/ /\ work[begun[g]] # NoSegment
           /\ work' = [work EXCEPT ![begun[g]] = NoSegment]
           /\ tree' = [tree EXCEPT ![n] = work[begun[g]]]
           /\ spared' = spared \cup ({tree[n]} \ {NoSegment})
           /\ Turns(s, [q EXCEPT !.at = "register"])
           /\ UNCHANGED diskFaults
        \/ /\ \/ DiskFault
              \/ work[begun[g]] = NoSegment /\ UNCHANGED diskFaults
           /\ spared' = spared \cup {g}
           /\ Turns(s, AfterLine(s))
           /\ UNCHANGED <<work, tree>>
     /\ UNCHANGED <<second, filmed, begun, filed>>

Register(s) ==
  LET g == Head(runs[s].lines)
  IN /\ runs[s].at = "register"
     /\ \/ /\ filed' = filed \cup {[name |-> RenderPath(begun[g]), of |-> g, done |-> FALSE]}
           /\ Turns(s, [runs[s] EXCEPT !.at = "finalize"])
           /\ UNCHANGED <<diskFaults, spared>>
        \/ DiskFault /\ spared' = spared \cup {g} /\ Turns(s, AfterLine(s)) /\ UNCHANGED filed
     /\ UNCHANGED <<second, filmed, begun, work, tree>>

FinalizeSegment(s) ==
  LET g == Head(runs[s].lines)
  IN /\ runs[s].at = "finalize"
     /\ \/ /\ filed' = {IF row.of = g THEN [row EXCEPT !.done = TRUE] ELSE row : row \in filed}
           /\ UNCHANGED <<diskFaults, spared>>
        \/ DiskFault /\ spared' = spared \cup {g} /\ UNCHANGED filed
     /\ Turns(s, AfterLine(s))
     /\ UNCHANGED <<second, filmed, begun, work, tree>>

(* FFmpeg's output is at its end: Wait, and Run returns.                    *)
Returns(s) ==
  /\ runs[s].at = "scan" /\ runs[s].lines = <<>> /\ runs[s].ffmpeg = "exited"
  /\ Turns(s, [runs[s] EXCEPT !.at = "over"])
  /\ UNCHANGED <<second, filmed, begun, work, tree, filed, diskFaults, spared>>

Second ==
  /\ second < MaxSeconds /\ second' = second + 1
  /\ UNCHANGED <<runs, filmed, begun, work, tree, filed, diskFaults, spared>>

RecorderStep(s) == CancelTR(s) \/ Pump(s) \/ Backstop(s) \/ Rename(s) \/ Register(s) \/ FinalizeSegment(s) \/ Returns(s)

TRNext ==
  \/ Second
  \/ \E s \in 1..MaxRuns : RunTR(s) \/ InputEnds(s) \/ Opens(s) \/ Cuts(s) \/ Exits(s) \/ Hangs(s) \/ RecorderStep(s)

(* The goroutines of a recorder run, and the backstop's time comes.         *)
TRFairness == \A s \in 1..MaxRuns : WF_trVars(RecorderStep(s))
TRSpec == TRInit /\ [][TRNext]_trVars /\ TRFairness

-----------------------------------------------------------------------------
TRTypeOK ==
  /\ second \in 0..MaxSeconds /\ filmed \in 0..MaxFilmed
  /\ \A s \in 1..MaxRuns : \A i \in DOMAIN runs[s].lines : runs[s].lines[i] \in Segments
  /\ \A row \in filed : row.of \in Segments /\ row.done \in BOOLEAN
  /\ spared \subseteq Segments

(* A segment FFmpeg finished is on its way, or has a completed row and its  *)
(* own file where the row says, unless a step failed, FFmpeg died over it,  *)
(* or another segment took its name.                                        *)
SegmentsFiled ==
  \A g \in 1..filmed \ spared :
    \/ \E s \in 1..MaxRuns : runs[s].cuts = g \/ \E i \in DOMAIN runs[s].lines : runs[s].lines[i] = g
    \/ /\ [name |-> RenderPath(begun[g]), of |-> g, done |-> TRUE] \in filed
       /\ tree[RenderPath(begun[g])] = g

(* Once the stream has ended, Run returns even if FFmpeg hangs.  (Both stay *)
(* true: this is `leads to' for every recorder at once.)                    *)
RecorderReturns == <>[](\A s \in 1..MaxRuns : runs[s].ended => runs[s].at = "over")
=============================================================================
