------------------------------ MODULE Recorder ------------------------------
(***************************************************************************)
(* recording.Recorder: units of one stream become rotating segment files.  *)
(* Units are numbered in the order they arrive; a file, a buffered GOP and *)
(* the buffers of the tracks hold unit numbers. The recorder writes whole  *)
(* GOPs: at each keyframe it closes the GOP before, then decides whether   *)
(* to open, rotate or close the file.                                      *)
(*                                                                         *)
(* The manager runs it continuously, or gated by motion with pre-roll (a   *)
(* gate without pre-roll is never configured), or on an audio-only stream. *)
(***************************************************************************)
EXTENDS Integers, Sequences, FiniteSets, SequencesExt, FiniteSetsExt

CONSTANTS
  SegmentDur,    \* in clock ticks
  PreRoll,       \* in clock ticks
  AudioBatch,    \* audio frames per second of an audio-only stream
  MaxUnits,      \* bound: units of the stream
  Faults         \* subset of FaultKinds

\* "create": the file cannot be created; "row": SegmentStarted fails;
\* "write": a fragment cannot be written
FaultKinds == {"create", "row", "write", "complete"}

ASSUME RecorderAssumption ==
  /\ SegmentDur \in Nat \ {0} /\ PreRoll \in Nat \ {0} /\ AudioBatch \in Nat \ {0}
  /\ MaxUnits \in Nat
  /\ Faults \subseteq FaultKinds

VARIABLES
  mode,      \* "continuous", "gated" or "audio"
  align,     \* AlignToClock
  now,       \* the clock, sampled at keyframes and audio flushes
  units,     \* history: the units so far, each with its GOP's gate and time
  r,         \* the recorder: buffers and files
  run        \* "running", "failed" (Run returned an error) or "over"

recorderVars == <<mode, align, now, units, r, run>>

Files == [start : Nat, trigger : Nat, video : Seq(Nat), audio : Seq(Nat),
          row : {"none", "open", "final", "incomplete"}]

RecorderTypeOK ==
  /\ mode \in {"continuous", "gated", "audio"}
  /\ align \in BOOLEAN
  /\ now \in Nat
  /\ units \in Seq([kind : {"key", "inter", "audio"}, on : BOOLEAN, at : Nat])
  /\ r.video \in Seq(Nat) /\ r.audio \in Seq(Nat)
  /\ r.files \in Seq(Files)
  /\ r.gops \in Seq([wall : Nat, video : Seq(Nat), audio : Seq(Nat)])
  /\ r.wall \in Nat /\ r.end \in Nat
  /\ r.open \in BOOLEAN /\ r.torn \in BOOLEAN
  /\ run \in {"running", "failed", "over"}

RecorderInit ==
  /\ mode \in {"continuous", "gated", "audio"}
  /\ align \in BOOLEAN
  /\ now = 0
  /\ units = <<>>
  /\ r = [video |-> <<>>, audio |-> <<>>,        \* pending samples of each track
          gops |-> <<>>, wall |-> 0,             \* gopCache, gopWall
          files |-> <<>>, open |-> FALSE, end |-> 0,
          torn |-> FALSE]                        \* history: a tail flush failed
  /\ run = "running"

-----------------------------------------------------------------------------
(***************************************************************************)
(* The steps of the handlers, as functions of the recorder's state.        *)
(***************************************************************************)
Extended(f, video, audio) == [f EXCEPT !.video = @ \o video, !.audio = @ \o audio]

InLastFile(s, video, audio) ==
  [s EXCEPT !.files[Len(s.files)] = Extended(@, video, audio)]

FlushKeepingAudio(s) ==   \* mutant: only the video buffer is cleared
  IF s.open THEN [InLastFile(s, s.video, s.audio) EXCEPT !.video = <<>>] ELSE s

Flush(s) ==
  IF s.open THEN [InLastFile(s, s.video, s.audio) EXCEPT !.video = <<>>, !.audio = <<>>]
            ELSE s

PruneBelowWindow(gops, newest) ==   \* mutant: drops the GOP that covers the window's start
  SelectSeq(gops, LAMBDA g : newest - g.wall < PreRoll)

\* The oldest GOPs go while the second-oldest still covers the window.
Prune(gops, newest) ==
  LET covering == {i \in DOMAIN gops : newest - gops[i].wall >= PreRoll}
  IN  IF covering = {} THEN gops ELSE SubSeq(gops, Max(covering), Len(gops))

StashGOP(s) ==
  [s EXCEPT !.gops = Prune(Append(@, [wall |-> s.wall, video |-> s.video,
                                      audio |-> s.audio]), s.wall),
            !.video = <<>>, !.audio = <<>>]

\* What is held of the GOP that a keyframe ends goes into the file or the pre-roll.
CloseGOP(s) ==
  IF s.video = <<>> THEN s ELSE IF s.open THEN Flush(s)
  ELSE IF mode = "gated" THEN StashGOP(s) ELSE [s EXCEPT !.video = <<>>, !.audio = <<>>]

SegmentEnd(start) ==
  IF align THEN (start \div SegmentDur + 1) * SegmentDur ELSE start + SegmentDur

RotateDue(s, t) == t >= s.end

\* trigger: the unit that had the file opened.
NewFile(start, row) ==
  [start |-> start, trigger |-> Len(units) + 1, video |-> <<>>, audio |-> <<>>, row |-> row]

OpenSegment(s, start) ==
  [s EXCEPT !.files = Append(@, NewFile(start, "open")), !.open = TRUE,
            !.end = SegmentEnd(start)]

\* What each fault leaves of openSegment: nothing, or a file that has no row.
FailedOpen(s, start, fault) ==
  IF fault = "row" THEN [s EXCEPT !.files = Append(@, NewFile(start, "none"))] ELSE s

\* The k oldest buffered GOPs are written.
WriteGOPs(s, k) ==
  InLastFile(s, FlattenSeq([i \in 1..k |-> s.gops[i].video]),
                FlattenSeq([i \in 1..k |-> s.gops[i].audio]))

WritePreroll(s) == [WriteGOPs(s, Len(s.gops)) EXCEPT !.gops = <<>>]

\* finalize, once flushTail is done: the file is closed and its row completed,
\* or, when SegmentFinalized fails, left as it is, which is only logged.
Completions == {"final"} \cup (IF "complete" \in Faults THEN {"incomplete"} ELSE {})

FinalizeUnflushed(s, row) ==
  IF s.open THEN [s EXCEPT !.files[Len(s.files)].row = row, !.open = FALSE] ELSE s

Finalize(s, row) == FinalizeUnflushed(Flush(s), row)

\* finalize ignores the error of flushTail, which keeps the samples.
Finalizations(s) ==
  {Finalize(s, row) : row \in Completions} \cup
  (IF "write" \in Faults /\ s.open
   THEN {[FinalizeUnflushed(s, row) EXCEPT !.torn = TRUE] : row \in Completions} ELSE {})

-----------------------------------------------------------------------------
(***************************************************************************)
(* The steps. A handler's error ends Run, whose deferred finalize closes   *)
(* the open file.                                                          *)
(***************************************************************************)
ReturnUnfinalized(s, outcome) ==   \* mutant: no deferred finalize
  run' = outcome /\ r' = s

Return(s, outcome) == run' = outcome /\ r' \in Finalizations(s)

Continue(s) == r' = s /\ UNCHANGED run

WriteError(s) == "write" \in Faults /\ Return(s, "failed")

\* openSegment fails: Run returns with no file open.
OpenError(s, start) ==
  \E fault \in Faults \cap {"create", "row"} : Return(FailedOpen(s, start, fault), "failed")

Arrives(kind, on, at) ==
  /\ run = "running"
  /\ Len(units) < MaxUnits
  /\ units' = Append(units, [kind |-> kind, on |-> on, at |-> at])
  /\ now' = at
  /\ UNCHANGED <<mode, align>>

Push(s) == [s EXCEPT !.video = Append(@, Len(units) + 1)]

PrerollStartByWindow(s) == s.wall - PreRoll   \* mutant

PrerollStart(s) == IF s.gops = <<>> THEN s.wall ELSE s.gops[1].wall

\* The keyframe opens a segment, which begins with the buffered pre-roll.
KeyOpens(s) ==
  LET start  == PrerollStart(s)
      opened == OpenSegment(s, start)
  IN  \/ Continue(Push(WritePreroll(opened)))
      \/ OpenError(s, start)
      \/ \E k \in 0..Len(s.gops) - 1 : WriteError(WriteGOPs(opened, k))

KeyRotates(s) ==
  \E closed \in Finalizations(s) :
     \/ Continue(Push(OpenSegment(closed, s.wall)))
     \/ OpenError(closed, s.wall)

Key ==
  /\ mode # "audio"
  /\ \E on \in (IF mode = "gated" THEN BOOLEAN ELSE {TRUE}), tick \in {0, 1} :
       LET s == [CloseGOP(r) EXCEPT !.wall = now + tick]
       IN  /\ Arrives("key", on, now + tick)
           /\ \/ r.open /\ r.video # <<>> /\ WriteError(r)     \* flush
              \/ on /\ ~s.open /\ KeyOpens(s)
              \/ on /\ s.open /\ RotateDue(s, s.wall) /\ KeyRotates(s)
              \/ on /\ s.open /\ ~RotateDue(s, s.wall) /\ Continue(Push(s))
              \/ ~on /\ \E closed \in Finalizations(s) : Continue(Push(closed))

Inter ==
  /\ mode # "audio"
  /\ \E i \in DOMAIN units : units[i].kind = "key"   \* before, there is no decode order
  /\ Arrives("inter", Last(units).on, now)
  /\ Continue(IF r.open \/ (mode = "gated" /\ r.video # <<>>) THEN Push(r) ELSE r)

\* One frame. Without a video track to drive it, audio flushes itself each second.
Audio ==
  LET s     == [r EXCEPT !.audio = Append(@, Len(units) + 1)]
      batch == mode = "audio" /\ Len(s.audio) >= AudioBatch
      Flushing(t) == Continue(Flush(t)) \/ (t.audio # <<>> /\ WriteError(t))
      Opening(t)  == Flushing(OpenSegment(t, now')) \/ OpenError(t, now')
  IN  /\ Arrives("audio", IF units = <<>> THEN mode # "gated" ELSE Last(units).on,
                 IF batch THEN now + 1 ELSE now)
      /\ \/ ~batch /\ Continue(s)
         \/ batch /\ ~s.open /\ Opening(s)
         \/ batch /\ s.open /\ RotateDue(s, now') /\ \E t \in Finalizations(s) : Opening(t)
         \/ batch /\ s.open /\ ~RotateDue(s, now') /\ Flushing(s)

\* The stream ends or the context is cancelled.
Stop ==
  /\ run = "running"
  /\ Return(r, "over")
  /\ UNCHANGED <<mode, align, now, units>>

RecorderNext == Key \/ Inter \/ Audio \/ Stop

RecorderSpec == RecorderInit /\ [][RecorderNext]_recorderVars

-----------------------------------------------------------------------------
(***************************************************************************)
(* Properties.                                                             *)
(***************************************************************************)
VideoOf(parts) == FlattenSeq([i \in DOMAIN parts |-> parts[i].video])
AudioOf(parts) == FlattenSeq([i \in DOMAIN parts |-> parts[i].audio])
Increasing(s) == \A i \in 1..Len(s) - 1 : s[i] < s[i + 1]
IsKey(i) == units[i].kind = "key"
IsVideo(i) == units[i].kind # "audio"

(***************************************************************************)
(* Nothing is recorded twice or out of order: the files one after the      *)
(* other and, while Run lasts, the pre-roll and what is pending hold each  *)
(* track's units in the order they arrived (flush, stashGOP and            *)
(* writePreroll move samples and clear where they took them from).         *)
(***************************************************************************)
OnceInOrder ==
  LET buffers == IF run = "running" THEN r.gops ELSE <<>>
      pending == IF run = "running" THEN r ELSE [video |-> <<>>, audio |-> <<>>]
  IN  /\ Increasing(VideoOf(r.files) \o VideoOf(buffers) \o pending.video)
      /\ Increasing(AudioOf(r.files) \o AudioOf(buffers) \o pending.audio)

(***************************************************************************)
(* Every file that has video begins with a keyframe and lacks no frame     *)
(* between its first and its last, whatever write failed: it can be        *)
(* decoded from its start to its end.                                      *)
(***************************************************************************)
Decodable ==
  \A n \in DOMAIN r.files :
    LET video == r.files[n].video
    IN  video # <<>> =>
          /\ IsKey(video[1])
          /\ \A i \in video[1]..Last(video) : IsVideo(i) => i \in Range(video)

(***************************************************************************)
(* No footage is lost: a frame of a GOP that began with the gate open (any *)
(* frame, in continuous mode) is in a file or waits for the open one; once *)
(* the recorder has ended normally it is in a file. Only a recorder that   *)
(* failed, or whose last flush failed, may lose some.                      *)
(***************************************************************************)
NothingLost ==
  run # "failed" /\ ~r.torn /\ mode # "audio" =>
    \A i \in DOMAIN units : IsVideo(i) /\ units[i].on =>
      i \in Range(VideoOf(r.files)) \cup (IF r.open THEN Range(r.video) ELSE {})

(***************************************************************************)
(* Motion pre-roll reaches back: a keyframe between the file before and    *)
(* the trigger is in the file, unless a later one that is in the file is   *)
(* already a whole pre-roll window before the trigger.                     *)
(***************************************************************************)
PreRollReaches ==
  run # "failed" /\ ~r.torn /\ mode = "gated" =>
    \A n \in DOMAIN r.files : LET f == r.files[n] IN
      \A i \in 1..f.trigger - 1 :
        IsKey(i) /\ (\A j \in Range(VideoOf(SubSeq(r.files, 1, n - 1))) : j < i) =>
          \/ i \in Range(f.video)
          \/ \E k \in Range(f.video) :
               k > i /\ IsKey(k) /\ units[k].at + PreRoll <= units[f.trigger].at

(***************************************************************************)
(* A segment is cut at the first keyframe on or after its boundary: apart  *)
(* from the GOP that opened it, which may follow a pre-roll older than the *)
(* boundary, no GOP of a file began past it.                               *)
(***************************************************************************)
CutOnTime ==
  mode # "audio" =>
    \A n \in DOMAIN r.files : LET f == r.files[n] IN
      \A i \in Range(f.video) : IsKey(i) /\ i > f.trigger =>
        IF align THEN units[i].at \div SegmentDur = f.start \div SegmentDur
                 ELSE units[i].at - f.start < SegmentDur

(***************************************************************************)
(* The tracks of a file start together: its first audio frame came after   *)
(* its first keyframe, so that the tracks' separate time anchors agree.    *)
(* The one exception is the file that holds the stream's first keyframe,   *)
(* which also gets the audio that came before it.                          *)
(***************************************************************************)
TracksStartTogether ==
  \A n \in DOMAIN r.files : LET f == r.files[n] IN
    f.audio # <<>> /\ f.video # <<>> =>
      \/ f.video[1] < f.audio[1]
      \/ \A i \in 1..f.video[1] - 1 : ~IsKey(i)

(***************************************************************************)
(* A row is never forgotten: one is open only while the recorder runs and   *)
(* has its file, the last, open. However Run ends, deferred finalize closes *)
(* the file and has its row completed; the row of a file that is closed is  *)
(* incomplete only if that failed (complete = 0, which nothing tries again  *)
(* before the next start).                                                  *)
(***************************************************************************)
RowsCompleted ==
  \A n \in DOMAIN r.files :
    (r.files[n].row = "open") <=> (n = Len(r.files) /\ r.open /\ run = "running")

=============================================================================
