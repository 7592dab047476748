----------------------------- MODULE WorkersProofs -----------------------------
(***************************************************************************)
(* What is made of footage in the background, for any number of segments,  *)
(* recorders, recordings, faces, streams and events: the segments FFmpeg   *)
(* closed are filed or about to be, a recording analysed without trouble   *)
(* has every face once and in a track, a reclustering pass moves only what *)
(* it found free, and a camera's event is in step with its detector.  One  *)
(* invariant per part, of its states alone; the parts of MCWorkers share   *)
(* no variable.                                                            *)
(***************************************************************************)
EXTENDS MCWorkers, DataFacts, FiniteSetTheorems, TLAPS

-----------------------------------------------------------------------------
(* Segments of the recorder that pipes to FFmpeg.                           *)
RunStates == {"none", "scan", "register", "finalize", "over"}
RunSet    == [at : RunStates, cancelled : BOOLEAN, ended : BOOLEAN, stdin : BOOLEAN,
              ffmpeg : {"none", "runs", "hung", "exited"}, cuts : Segments \cup {NoSegment}, lines : Seq(Segments)]
Seconds   == 0..MaxSeconds
FiledRows == [name : Seconds, of : Segments, done : BOOLEAN]

TRTyping ==
  /\ second \in Seconds /\ filmed \in 0..MaxFilmed
  /\ runs \in [1..MaxRuns -> RunSet]
  /\ begun \in [Segments -> Seconds]
  /\ work \in [Seconds -> Segments \cup {NoSegment}]
  /\ tree \in [Seconds -> Segments \cup {NoSegment}]
  /\ filed \subseteq FiledRows
  /\ spared \subseteq Segments

(* A recorder that has not begun holds nothing, and lines tell of segments  *)
(* that were begun.                                                         *)
BegunRun(q) ==
  /\ q.at = "none" => q = NoRun
  /\ q.cuts <= filmed
  /\ \A i \in DOMAIN q.lines : q.lines[i] <= filmed

RunsBegun == \A s \in 1..MaxRuns : BegunRun(runs[s])

(* A file has the name its segment is given.                                *)
FilesNamed ==
  /\ \A t \in Seconds : work[t] # NoSegment => work[t] <= filmed /\ begun[work[t]] = t
  /\ \A n \in Seconds : tree[n] # NoSegment => tree[n] <= filmed /\ RenderPath(begun[tree[n]]) = n

FiledAs(g, done) == [name |-> RenderPath(begun[g]), of |-> g, done |-> done]
InTree(g)    == tree[RenderPath(begun[g])] = g
Unspared     == 1..filmed \ spared
Carries(q, g) == q.cuts = g \/ \E i \in DOMAIN q.lines : q.lines[i] = g
IsFiled(g)   == FiledAs(g, TRUE) \in filed /\ InTree(g)

(* A segment has its file in one of the two places; a line that is being    *)
(* handled has its file in the tree, and then its row.                      *)
FileKept == \A g \in Unspared : work[begun[g]] = g \/ InTree(g)

HandledLine(q) ==
  q.at \in {"register", "finalize"} =>
    /\ q.lines # <<>>
    /\ Head(q.lines) \notin spared => InTree(Head(q.lines))
    /\ q.at = "finalize" => \E done \in BOOLEAN : FiledAs(Head(q.lines), done) \in filed

LineInHand == \A s \in 1..MaxRuns : HandledLine(runs[s])

FiledOrComing == \A g \in Unspared : (\E s \in 1..MaxRuns : Carries(runs[s], g)) \/ IsFiled(g)

TRInv == TRTyping /\ RunsBegun /\ FilesNamed /\ FileKept /\ LineInHand /\ FiledOrComing

(* A name is one of the seconds.                                            *)
LEMMA RenderedNames == \A t \in Seconds : RenderPath(t) \in Seconds
PROOF
  <1>1. ASSUME NEW t \in Nat, t <= MaxSeconds PROVE t \div NameGrain \in Nat /\ t \div NameGrain <= t
    BY <1>1, TranscodeRecorderAssumption
  <1> QED
    BY <1>1, TranscodeRecorderAssumption DEF Seconds, RenderPath

(* The types hold at the start.                                             *)
LEMMA TRTypingInit == ASSUME TRInit PROVE TRTyping
PROOF
  <1>1. NoRun \in RunSet
    BY DEF NoRun, RunSet, RunStates
  <1>2. runs \in [1..MaxRuns -> RunSet]
    BY <1>1 DEF TRInit
  <1>3. second \in Seconds /\ filmed \in 0..MaxFilmed /\ begun \in [Segments -> Seconds]
    BY TranscodeRecorderAssumption DEF TRInit, Seconds
  <1>4. work \in [Seconds -> Segments \cup {NoSegment}] /\ tree \in [Seconds -> Segments \cup {NoSegment}]
    BY DEF TRInit, Seconds
  <1>5. filed \subseteq FiledRows /\ spared \subseteq Segments
    BY DEF TRInit
  <1> QED
    BY <1>2, <1>3, <1>4, <1>5 DEF TRTyping

(* Nothing is filmed: the invariant holds at the start.                     *)
LEMMA TRInvInit == ASSUME TRInit PROVE TRInv
PROOF
  <1>1. TRTyping
    BY TRTypingInit
  <1>2. RunsBegun
    BY TranscodeRecorderAssumption DEF TRInit, RunsBegun, BegunRun, NoRun, NoSegment
  <1>3. FilesNamed
    BY DEF TRInit, FilesNamed, Seconds
  <1>4. Unspared = {}
    BY DEF TRInit, Unspared
  <1>5. LineInHand
    BY DEF TRInit, LineInHand, HandledLine, NoRun
  <1> QED
    BY <1>1, <1>2, <1>3, <1>4, <1>5 DEF TRInv, FileKept, FiledOrComing

(* The fields of a run, and what becomes of a run and of the others when it *)
(* goes on.                                                                 *)
LEMMA RunFits ==
  ASSUME TRTyping, NEW s \in 1..MaxRuns
  PROVE  /\ runs[s] \in RunSet /\ runs[s].at \in RunStates
         /\ runs[s].cancelled \in BOOLEAN /\ runs[s].ended \in BOOLEAN /\ runs[s].stdin \in BOOLEAN
         /\ runs[s].ffmpeg \in {"none", "runs", "hung", "exited"}
         /\ runs[s].cuts \in Segments \cup {NoSegment} /\ runs[s].lines \in Seq(Segments)
PROOF
  BY DEF TRTyping, RunSet

(* The run that goes on, and those that do not.                             *)
LEMMA RunMoves ==
  ASSUME TRTyping, NEW s \in 1..MaxRuns, NEW q \in RunSet, Turns(s, q)
  PROVE  /\ runs' \in [1..MaxRuns -> RunSet] /\ runs'[s] = q
         /\ \A u \in 1..MaxRuns : u # s => runs'[u] = runs[u]
PROOF
  BY DEF TRTyping, Turns

(* Lines are read from the front and appended at the end.                   *)
LEMMA TailCarries ==
  ASSUME NEW lines \in Seq(Segments), lines # <<>>
  PROVE  /\ Head(lines) \in Segments /\ Tail(lines) \in Seq(Segments) /\ Head(lines) = lines[1] /\ 1 \in DOMAIN lines
         /\ \A i \in DOMAIN Tail(lines) : i + 1 \in DOMAIN lines /\ Tail(lines)[i] = lines[i + 1]
         /\ \A i \in DOMAIN lines : lines[i] = Head(lines) \/ \E k \in DOMAIN Tail(lines) : Tail(lines)[k] = lines[i]
PROOF
  <1>1. /\ Head(lines) \in Segments /\ Tail(lines) \in Seq(Segments) /\ Head(lines) = lines[1] /\ 1 \in DOMAIN lines
        /\ \A i \in DOMAIN Tail(lines) : i + 1 \in DOMAIN lines /\ Tail(lines)[i] = lines[i + 1]
    OBVIOUS
  <1>2. ASSUME NEW i \in DOMAIN lines, i # 1 PROVE \E k \in DOMAIN Tail(lines) : Tail(lines)[k] = lines[i]
    <2>1. i - 1 \in DOMAIN Tail(lines) /\ Tail(lines)[i - 1] = lines[i]
      BY <1>2
    <2> QED
      BY <2>1
  <1> QED
    BY <1>1, <1>2

(* A line more is carried.                                                  *)
LEMMA AppendCarries ==
  ASSUME NEW lines \in Seq(Segments), NEW g \in Segments
  PROVE  /\ Append(lines, g) \in Seq(Segments)
         /\ \E k \in DOMAIN Append(lines, g) : Append(lines, g)[k] = g
         /\ \A i \in DOMAIN lines : i \in DOMAIN Append(lines, g) /\ Append(lines, g)[i] = lines[i]
         /\ \A i \in DOMAIN Append(lines, g) : Append(lines, g)[i] = g \/ (i \in DOMAIN lines /\ Append(lines, g)[i] = lines[i])
         /\ lines # <<>> => Append(lines, g) # <<>> /\ Head(Append(lines, g)) = Head(lines)
PROOF
  <1>1. Append(lines, g) \in Seq(Segments) /\ Len(lines) + 1 \in DOMAIN Append(lines, g) /\ Append(lines, g)[Len(lines) + 1] = g
    OBVIOUS
  <1>2. \A i \in DOMAIN lines : i \in DOMAIN Append(lines, g) /\ Append(lines, g)[i] = lines[i]
    OBVIOUS
  <1>3. \A i \in DOMAIN Append(lines, g) : Append(lines, g)[i] = g \/ (i \in DOMAIN lines /\ Append(lines, g)[i] = lines[i])
    OBVIOUS
  <1>4. lines # <<>> => Append(lines, g) # <<>> /\ Head(Append(lines, g)) = Head(lines)
    OBVIOUS
  <1> QED
    BY <1>1, <1>2, <1>3, <1>4

(* One run goes on, and files and rows stay: it still carries what it       *)
(* carried, or that is spared.                                              *)
LEMMA RunGoesOn ==
  ASSUME TRInv, NEW s \in 1..MaxRuns, NEW q \in RunSet, Turns(s, q),
         UNCHANGED <<filmed, begun, work, tree, filed>>, second' \in Seconds,
         spared \subseteq spared', spared' \subseteq Segments,
         BegunRun(q), HandledLine(q),
         \A g \in Segments \ spared' : Carries(runs[s], g) => Carries(q, g) \/ IsFiled(g)
  PROVE  TRInv'
PROOF
  <1>1. TRTyping
    BY DEF TRInv
  <1>2. /\ runs' \in [1..MaxRuns -> RunSet] /\ runs'[s] = q
        /\ \A u \in 1..MaxRuns : u # s => runs'[u] = runs[u]
    BY <1>1, RunMoves
  <1>3. TRTyping'
    BY <1>1, <1>2 DEF TRTyping
  <1>4. ASSUME NEW u \in 1..MaxRuns PROVE BegunRun(runs[u])' /\ HandledLine(runs[u])'
    <2>1. BegunRun(runs'[u]) /\ HandledLine(runs'[u])
      BY <1>2 DEF TRInv, RunsBegun, LineInHand
    <2> QED
      BY <2>1 DEF BegunRun, HandledLine, InTree, FiledAs
  <1>5. RunsBegun' /\ LineInHand'
    BY <1>4 DEF RunsBegun, LineInHand
  <1>6. FilesNamed'
    BY DEF TRInv, FilesNamed
  <1>7. FileKept'
    BY DEF TRInv, FileKept, Unspared, InTree
  <1>8. ASSUME NEW g \in Unspared' PROVE (\E u \in 1..MaxRuns : Carries(runs[u], g)') \/ IsFiled(g)'
    <2>1. g \in Unspared /\ g \in Segments \ spared'
      BY <1>1, <1>8, TranscodeRecorderAssumption DEF Unspared, Segments, TRTyping
    <2>2. CASE IsFiled(g)
      BY <2>2 DEF IsFiled, InTree, FiledAs
    <2>3. ASSUME NEW u \in 1..MaxRuns, Carries(runs[u], g)
          PROVE  Carries(runs'[u], g) \/ IsFiled(g)
      BY <1>2, <2>1, <2>3
    <2>4. \A u \in 1..MaxRuns : Carries(runs'[u], g) => Carries(runs[u], g)'
      BY DEF Carries
    <2> QED
      BY <2>1, <2>2, <2>3, <2>4 DEF TRInv, FiledOrComing
  <1>9. FiledOrComing'
    BY <1>8 DEF FiledOrComing
  <1> QED
    BY <1>3, <1>5, <1>6, <1>7, <1>9 DEF TRInv

(* A step of a run that changes nothing it carries.                         *)
LEMMA SameCargo ==
  ASSUME TRInv, NEW s \in 1..MaxRuns, NEW q \in RunSet, Turns(s, q),
         UNCHANGED <<second, filmed, begun, work, tree, filed, spared>>,
         runs[s].at # "none", q.at = runs[s].at \/ q.at \in {"scan", "over"},
         q.cuts = runs[s].cuts, q.lines = runs[s].lines
  PROVE  TRInv'
PROOF
  <1>1. TRTyping /\ BegunRun(runs[s]) /\ HandledLine(runs[s])
    BY DEF TRInv, RunsBegun, LineInHand
  <1>2. BegunRun(q) /\ HandledLine(q)
    BY <1>1 DEF BegunRun, HandledLine
  <1>3. \A g \in Segments : Carries(runs[s], g) => Carries(q, g)
    BY DEF Carries
  <1> QED
    BY <1>1, <1>2, <1>3, RunGoesOn DEF TRTyping

(* A recorder begins, with nothing in hand.                                 *)
LEMMA RunTRKeeps == ASSUME TRInv, NEW s \in 1..MaxRuns, RunTR(s) PROVE TRInv'
PROOF
  <1>1. TRTyping /\ BegunRun(runs[s])
    BY DEF TRInv, RunsBegun
  <1>2. NoRun \in RunSet /\ NoRun.cuts = NoSegment /\ NoRun.lines = <<>>
    BY DEF NoRun, RunSet, RunStates
  <1>3. PICK q \in RunSet : Turns(s, q) /\ q.at = "scan" /\ q.cuts = NoSegment /\ q.lines = <<>>
    <2>1. [NoRun EXCEPT !.at = "scan", !.stdin = TRUE, !.ffmpeg = "runs"] \in RunSet
      BY <1>2 DEF RunSet, RunStates
    <2> QED
      BY <1>2, <2>1 DEF RunTR, RunSet
  <1>4. runs[s] = NoRun
    BY <1>1 DEF BegunRun, RunTR
  <1>5. BegunRun(q) /\ HandledLine(q)
    BY <1>1, <1>3, TranscodeRecorderAssumption DEF BegunRun, HandledLine, NoSegment, TRTyping
  <1>6. \A g \in Segments : ~Carries(runs[s], g)
    BY <1>2, <1>4, TranscodeRecorderAssumption DEF Carries, NoSegment, Segments
  <1>7. UNCHANGED <<second, filmed, begun, work, tree, filed, spared>>
    BY DEF RunTR
  <1> QED
    BY <1>1, <1>3, <1>5, <1>6, <1>7, RunGoesOn DEF TRTyping

(* Steps that touch neither what a run carries nor where it is.             *)
LEMMA QuietStepsKeep ==
  ASSUME TRInv, NEW s \in 1..MaxRuns, InputEnds(s) \/ CancelTR(s) \/ Pump(s) \/ Exits(s) \/ Returns(s)
  PROVE  TRInv'
PROOF
  <1> DEFINE r == runs[s]
  <1>1. /\ TRTyping /\ BegunRun(r)
        /\ r \in RunSet /\ r.at \in RunStates
        /\ r.cancelled \in BOOLEAN /\ r.ended \in BOOLEAN /\ r.stdin \in BOOLEAN
        /\ r.ffmpeg \in {"none", "runs", "hung", "exited"}
        /\ r.cuts \in Segments \cup {NoSegment} /\ r.lines \in Seq(Segments)
    BY RunFits DEF TRInv, RunsBegun
  <1>2. r.at # "none"
    BY <1>1 DEF BegunRun, InputEnds, CancelTR, Pump, Exits, Returns, NoRun
  <1>3. UNCHANGED <<second, filmed, begun, work, tree, filed, spared>>
    BY DEF InputEnds, CancelTR, Pump, Exits, Returns
  <1>4. PICK q \in RunSet : /\ Turns(s, q)
                            /\ q.at = r.at \/ q.at = "over"
                            /\ q.cuts = r.cuts /\ q.lines = r.lines
    <2>1. CASE InputEnds(s)
      BY <1>1, <2>1, [r EXCEPT !.ended = TRUE] \in RunSet DEF InputEnds, RunSet
    <2>2. CASE CancelTR(s)
      BY <1>1, <2>2, [r EXCEPT !.cancelled = TRUE] \in RunSet DEF CancelTR, RunSet
    <2>3. CASE Pump(s)
      BY <1>1, <2>3, [r EXCEPT !.stdin = FALSE] \in RunSet DEF Pump, RunSet
    <2>4. CASE Exits(s)
      BY <1>1, <2>4, [r EXCEPT !.ffmpeg = "exited"] \in RunSet DEF Exits, RunSet
    <2>5. CASE Returns(s)
      BY <1>1, <2>5, [r EXCEPT !.at = "over"] \in RunSet DEF Returns, RunSet, RunStates
    <2> QED
      BY <2>1, <2>2, <2>3, <2>4, <2>5
  <1> QED
    BY <1>1, <1>2, <1>3, <1>4, SameCargo

(* Time passes.                                                             *)
LEMMA SecondKeeps == ASSUME TRInv, Second PROVE TRInv'
PROOF
  <1>1. TRTyping'
    BY TranscodeRecorderAssumption DEF TRInv, TRTyping, Second, Seconds
  <1>2. UNCHANGED <<runs, filmed, begun, work, tree, filed, spared>>
    BY DEF Second
  <1>3. RunsBegun' /\ FilesNamed' /\ FileKept' /\ LineInHand' /\ FiledOrComing'
    BY <1>2 DEF TRInv, RunsBegun, BegunRun, FilesNamed, FileKept, LineInHand, HandledLine, FiledOrComing, Carries, IsFiled, InTree, FiledAs, Unspared
  <1> QED
    BY <1>1, <1>3 DEF TRInv

(* What FFmpeg was writing is lost with it, and noted.                      *)
LEMMA DiesKeeps ==
  ASSUME TRInv, NEW s \in 1..MaxRuns, Hangs(s) \/ Backstop(s)
  PROVE  TRInv'
PROOF
  <1> DEFINE r == runs[s]
  <1>1. /\ TRTyping /\ BegunRun(r) /\ HandledLine(r)
        /\ r \in RunSet /\ r.at \in RunStates
        /\ r.cuts \in Segments \cup {NoSegment} /\ r.lines \in Seq(Segments)
    BY RunFits DEF TRInv, RunsBegun, LineInHand
  <1>2. /\ UNCHANGED <<second, filmed, begun, work, tree, filed>>
        /\ spared' = spared \cup ({r.cuts} \ {NoSegment})
    BY DEF Hangs, Backstop
  <1>3. PICK q \in RunSet : /\ Turns(s, q)
                            /\ q.at = r.at /\ q.cuts = NoSegment /\ q.lines = r.lines
    <2>1. \A how \in {"hung", "exited"} :
            LET q == [r EXCEPT !.ffmpeg = how, !.cuts = NoSegment]
            IN  q \in RunSet /\ q.at = r.at /\ q.cuts = NoSegment /\ q.lines = r.lines
      BY <1>1 DEF RunSet
    <2>2. \E how \in {"hung", "exited"} : Turns(s, [r EXCEPT !.ffmpeg = how, !.cuts = NoSegment])
      BY DEF Hangs, Backstop
    <2> QED
      BY <2>1, <2>2
  <1>4. spared' \subseteq Segments /\ spared \subseteq spared'
    BY <1>1, <1>2 DEF TRTyping
  <1>5. r.at # "none"
    BY <1>1 DEF BegunRun, Hangs, Backstop, NoRun
  <1>6. BegunRun(q) /\ HandledLine(q)
    BY <1>1, <1>3, <1>5, TranscodeRecorderAssumption DEF BegunRun, HandledLine, NoSegment, TRTyping
  <1>7. \A g \in Segments \ spared' : Carries(r, g) => Carries(q, g)
    BY <1>2, <1>3, TranscodeRecorderAssumption DEF Carries, Segments, NoSegment
  <1> QED
    BY <1>1, <1>2, <1>3, <1>4, <1>6, <1>7, RunGoesOn DEF TRTyping

(* FFmpeg is done with a segment, and says so in a line.                    *)
LEMMA CutsKeeps == ASSUME TRInv, NEW s \in 1..MaxRuns, Cuts(s) PROVE TRInv'
PROOF
  <1> DEFINE r == runs[s]
             new == [r EXCEPT !.lines = Append(r.lines, r.cuts), !.cuts = NoSegment]
  <1>1. /\ TRTyping /\ BegunRun(r) /\ HandledLine(r)
        /\ r \in RunSet /\ r.at \in RunStates
        /\ r.cuts \in Segments /\ r.lines \in Seq(Segments)
    BY RunFits DEF TRInv, RunsBegun, LineInHand, Cuts
  <1>2. UNCHANGED <<second, filmed, begun, work, tree, filed, spared>>
    BY DEF Cuts
  <1>3. PICK q \in RunSet : /\ Turns(s, q)
                            /\ q.at = r.at /\ q.cuts = NoSegment /\ q.lines = Append(r.lines, r.cuts)
    <2>1. Append(r.lines, r.cuts) \in Seq(Segments)
      BY <1>1, AppendCarries
    <2>2. new \in RunSet /\ new.at = r.at /\ new.cuts = NoSegment /\ new.lines = Append(r.lines, r.cuts)
      BY <1>1, <2>1 DEF RunSet
    <2>3. Turns(s, new)
      BY <1>1 DEF Cuts, RunSet
    <2> QED
      BY <2>2, <2>3
  <1>4. r.at # "none"
    BY <1>1, TranscodeRecorderAssumption DEF BegunRun, Cuts, NoRun
  <1> HIDE DEF new
  <1>5. /\ \E k \in DOMAIN q.lines : q.lines[k] = r.cuts
        /\ \A i \in DOMAIN r.lines : i \in DOMAIN q.lines /\ q.lines[i] = r.lines[i]
        /\ \A i \in DOMAIN q.lines : q.lines[i] = r.cuts \/ (i \in DOMAIN r.lines /\ q.lines[i] = r.lines[i])
        /\ r.lines # <<>> => q.lines # <<>> /\ Head(q.lines) = Head(r.lines)
    <2> PICK lines \in Seq(Segments), g \in Segments : lines = r.lines /\ g = r.cuts
      BY <1>1
    <2> PICK app : app = Append(lines, g)
      OBVIOUS
    <2>1. /\ \E k \in DOMAIN app : app[k] = g
          /\ \A i \in DOMAIN lines : i \in DOMAIN app /\ app[i] = lines[i]
          /\ \A i \in DOMAIN app : app[i] = g \/ (i \in DOMAIN lines /\ app[i] = lines[i])
          /\ lines # <<>> => app # <<>> /\ Head(app) = Head(lines)
      BY AppendCarries
    <2>2. q.lines = app
      BY <1>3
    <2> QED
      BY <2>1, <2>2, Zenon
  <1>6. BegunRun(q)
    BY <1>1, <1>3, <1>4, <1>5, TranscodeRecorderAssumption DEF BegunRun, NoSegment, TRTyping
  <1>7. HandledLine(q)
    BY <1>1, <1>3, <1>5 DEF HandledLine
  <1>8. \A g \in Segments : Carries(r, g) => Carries(q, g)
    BY <1>5 DEF Carries
  <1> QED
    BY <1>1, <1>2, <1>3, <1>6, <1>7, <1>8, RunGoesOn DEF TRTyping

-----------------------------------------------------------------------------
(* A line is over: the segment it names is spared, or it is filed.          *)
LEMMA LineOver ==
  ASSUME TRInv, NEW s \in 1..MaxRuns, runs[s].at # "none", runs[s].lines # <<>>
  PROVE  \E q \in RunSet :
           /\ AfterLine(s) = q
           /\ BegunRun(q) /\ q.at = "scan"
           /\ \A g \in Segments : Carries(runs[s], g) => Carries(q, g) \/ g = Head(runs[s].lines)
PROOF
  <1> DEFINE r == runs[s]
             q == [r EXCEPT !.at = "scan", !.lines = Tail(r.lines)]
  <1>1. /\ TRTyping /\ BegunRun(r) /\ r \in RunSet
        /\ r.cuts \in Segments \cup {NoSegment} /\ r.lines \in Seq(Segments)
    BY RunFits DEF TRInv, RunsBegun
  <1>2. /\ Head(r.lines) \in Segments /\ Tail(r.lines) \in Seq(Segments)
        /\ \A i \in DOMAIN Tail(r.lines) : i + 1 \in DOMAIN r.lines /\ Tail(r.lines)[i] = r.lines[i + 1]
        /\ \A i \in DOMAIN r.lines : r.lines[i] = Head(r.lines) \/ \E k \in DOMAIN Tail(r.lines) : Tail(r.lines)[k] = r.lines[i]
    BY <1>1, TailCarries
  <1>3. q \in RunSet /\ q.at = "scan" /\ q.cuts = r.cuts /\ q.lines = Tail(r.lines)
    BY <1>1, <1>2 DEF RunSet, RunStates
  <1>4. AfterLine(s) = q
    BY <1>1 DEF AfterLine, RunSet
  <1>5. BegunRun(q)
    BY <1>1, <1>2, <1>3 DEF BegunRun
  <1>6. \A g \in Segments : Carries(runs[s], g) => Carries(q, g) \/ g = Head(runs[s].lines)
    BY <1>2, <1>3 DEF Carries
  <1> QED
    BY <1>3, <1>4, <1>5, <1>6

(* A step of handleSegment that fails leaves the segment where it is.       *)
LEMMA SegmentSpared ==
  ASSUME TRInv, NEW s \in 1..MaxRuns, runs[s].at # "none", runs[s].lines # <<>>,
         Turns(s, AfterLine(s)), spared' = spared \cup {Head(runs[s].lines)},
         UNCHANGED <<second, filmed, begun, work, tree, filed>>
  PROVE  TRInv'
PROOF
  <1>1. PICK q \in RunSet :
          /\ AfterLine(s) = q
          /\ BegunRun(q) /\ q.at = "scan"
          /\ \A g \in Segments : Carries(runs[s], g) => Carries(q, g) \/ g = Head(runs[s].lines)
    BY LineOver
  <1>2. TRTyping /\ Head(runs[s].lines) \in Segments
    BY RunFits, TailCarries DEF TRInv
  <1>3. HandledLine(q)
    BY <1>1 DEF HandledLine
  <1> QED
    BY <1>1, <1>2, <1>3, RunGoesOn DEF TRTyping

(* FFmpeg opens a segment: what was in its file of the work directory is    *)
(* replaced, and noted.                                                     *)
LEMMA OpensKeeps == ASSUME TRInv, NEW s \in 1..MaxRuns, Opens(s) PROVE TRInv'
PROOF
  <1> DEFINE r == runs[s]
  <1>1. /\ TRTyping /\ BegunRun(r) /\ HandledLine(r)
        /\ r \in RunSet /\ r.at \in RunStates
        /\ r.cuts = NoSegment /\ r.lines \in Seq(Segments)
    BY RunFits DEF TRInv, RunsBegun, LineInHand, Opens
  <1>2. PICK g \in Segments : g = filmed + 1 /\ filmed' = g /\ filmed \in Nat
    BY <1>1, TranscodeRecorderAssumption DEF Opens, TRTyping, Segments
  <1>3. /\ begun' = [begun EXCEPT ![g] = second] /\ work' = [work EXCEPT ![second] = g]
        /\ spared' = spared \cup ({work[second]} \ {NoSegment})
        /\ UNCHANGED <<second, tree, filed, diskFaults>>
    BY <1>2 DEF Opens
  <1>4. PICK q \in RunSet : Turns(s, q) /\ q.at = r.at /\ q.cuts = g /\ q.lines = r.lines
    <2>1. [r EXCEPT !.cuts = g] \in RunSet
      BY <1>1, <1>2 DEF RunSet
    <2>2. Turns(s, [r EXCEPT !.cuts = g])
      BY <1>2 DEF Opens
    <2> QED
      BY <1>1, <2>1, <2>2 DEF RunSet
  <1>5. /\ runs' \in [1..MaxRuns -> RunSet] /\ runs'[s] = q
        /\ \A u \in 1..MaxRuns : u # s => runs'[u] = runs[u]
    BY <1>1, <1>4, RunMoves
  <1>6. second \in Seconds /\ work[second] \in Segments \cup {NoSegment}
    BY <1>1 DEF TRTyping
  <1>7. /\ TRTyping'
        /\ begun'[g] = second /\ \A h \in Segments : h # g => begun'[h] = begun[h]
        /\ work'[second] = g /\ \A t \in Seconds : t # second => work'[t] = work[t]
    <2>1. begun' \in [Segments -> Seconds] /\ begun'[g] = second /\ \A h \in Segments : h # g => begun'[h] = begun[h]
      BY <1>1, <1>2, <1>3, <1>6 DEF TRTyping
    <2>2. work' \in [Seconds -> Segments \cup {NoSegment}] /\ work'[second] = g /\ \A t \in Seconds : t # second => work'[t] = work[t]
      BY <1>1, <1>2, <1>3, <1>6 DEF TRTyping
    <2>3. spared' \subseteq Segments /\ filmed' \in 0..MaxFilmed
      <3>1. spared' \subseteq Segments
        BY <1>1, <1>3, <1>6 DEF TRTyping
      <3>2. filmed' \in 0..MaxFilmed
        BY <1>2, TranscodeRecorderAssumption DEF Segments
      <3> QED
        BY <3>1, <3>2
    <2> QED
      BY <1>1, <1>3, <1>5, <2>1, <2>2, <2>3 DEF TRTyping
  <1>8. r.at # "none" /\ NoSegment <= filmed
    BY <1>1, <1>2 DEF BegunRun, Opens, NoRun, NoSegment
  <1>9. \A h \in Segments : h <= filmed => h # g /\ begun'[h] = begun[h] /\ h <= filmed'
    BY <1>2, <1>7, TranscodeRecorderAssumption DEF Segments
  <1>10. ASSUME NEW u \in 1..MaxRuns
         PROVE  BegunRun(runs[u])' /\ HandledLine(runs[u])' /\ \A h \in Segments : Carries(runs[u], h) => Carries(runs'[u], h)
    <2>1. /\ BegunRun(runs[u]) /\ HandledLine(runs[u]) /\ runs[u] \in RunSet
          /\ runs[u].lines \in Seq(Segments) /\ runs[u].cuts \in Segments \cup {NoSegment}
      BY RunFits DEF TRInv, RunsBegun, LineInHand
    <2>2. PICK v \in RunSet : v = runs'[u] /\ v.at = runs[u].at /\ v.lines = runs[u].lines
                              /\ (v.cuts = g \/ v.cuts = runs[u].cuts) /\ (u # s => v = runs[u])
      BY <1>4, <1>5, <2>1
    <2>3. BegunRun(v)'
      <3>1. \A i \in DOMAIN v.lines : v.lines[i] \in Segments /\ v.lines[i] <= filmed
        BY <2>1, <2>2 DEF BegunRun
      <3>2. v.cuts <= filmed'
        BY <1>2, <1>9, <2>1, <2>2, TranscodeRecorderAssumption DEF BegunRun, Segments, NoSegment
      <3>3. v.at = "none" => v = NoRun
        BY <1>8, <2>1, <2>2 DEF BegunRun
      <3> QED
        BY <1>9, <3>1, <3>2, <3>3 DEF BegunRun
    <2>4. HandledLine(v)'
      <3>1. CASE v.at \in {"register", "finalize"}
        <4>1. v.lines # <<>> /\ Head(v.lines) \in Segments /\ Head(v.lines) <= filmed
          BY <2>1, <2>2, <3>1, TailCarries DEF HandledLine, BegunRun
        <4>2. begun'[Head(v.lines)] = begun[Head(v.lines)]
          BY <1>9, <4>1
        <4>3. HandledLine(v)
          BY <2>1, <2>2 DEF HandledLine
        <4> QED
          BY <1>3, <4>2, <4>3 DEF HandledLine, InTree, FiledAs
      <3> QED
        BY <3>1 DEF HandledLine
    <2>5. \A h \in Segments : Carries(runs[u], h) => Carries(v, h)
      <3>1. \A h \in Segments : h # NoSegment
        BY TranscodeRecorderAssumption DEF Segments, NoSegment
      <3> QED
        BY <1>1, <2>2, <3>1 DEF Carries
    <2> QED
      BY <2>2, <2>3, <2>4, <2>5
  <1>11. FilesNamed'
    <2>1. ASSUME NEW t \in Seconds, work'[t] # NoSegment PROVE work'[t] <= filmed' /\ begun'[work'[t]] = t
      <3>1. CASE t = second
        BY <1>2, <1>7, <3>1
      <3>2. CASE t # second
        BY <1>1, <1>7, <1>9, <2>1, <3>2 DEF TRInv, FilesNamed, TRTyping
      <3> QED
        BY <3>1, <3>2
    <2>2. ASSUME NEW n \in Seconds, tree[n] # NoSegment PROVE tree[n] <= filmed' /\ RenderPath(begun'[tree[n]]) = n
      BY <1>1, <1>9, <2>2 DEF TRInv, FilesNamed, TRTyping
    <2> QED
      BY <1>3, <2>1, <2>2 DEF FilesNamed
  <1>12. ASSUME NEW h \in Unspared' PROVE h = g \/ (h \in Unspared /\ h <= filmed /\ h \in Segments)
    <2>1. h \in 1..(filmed + 1) /\ h \notin spared
      BY <1>2, <1>3, <1>12 DEF Unspared
    <2> QED
      BY <1>1, <1>2, <2>1, TranscodeRecorderAssumption DEF Unspared, TRTyping, Segments
  <1>13. FileKept'
    <2>1. ASSUME NEW h \in Unspared' PROVE work'[begun'[h]] = h \/ InTree(h)'
      <3>1. CASE h = g
        BY <1>7, <3>1
      <3>2. CASE h \in Unspared /\ h <= filmed /\ h \in Segments
        <4>1. begun'[h] = begun[h] /\ begun[h] \in Seconds
          BY <1>1, <1>9, <3>2 DEF TRTyping
        <4>2. CASE InTree(h)
          BY <1>3, <4>1, <4>2 DEF InTree
        <4>3. CASE work[begun[h]] = h
          <5>1. begun[h] # second
            BY <1>3, <2>1, <3>2, <4>3, TranscodeRecorderAssumption DEF Unspared, Segments, NoSegment
          <5> QED
            BY <1>7, <4>1, <4>3, <5>1
        <4> QED
          BY <3>2, <4>2, <4>3 DEF TRInv, FileKept
      <3> QED
        BY <1>12, <2>1, <3>1, <3>2
    <2> QED
      BY <2>1 DEF FileKept
  <1>14. FiledOrComing'
    <2>1. ASSUME NEW h \in Unspared' PROVE (\E u \in 1..MaxRuns : Carries(runs[u], h)') \/ IsFiled(h)'
      <3>1. CASE h = g
        BY <1>4, <1>5, <3>1 DEF Carries
      <3>2. CASE h \in Unspared /\ h <= filmed /\ h \in Segments
        <4>1. \A u \in 1..MaxRuns : Carries(runs[u], h) => Carries(runs[u], h)'
          BY <1>10, <3>2 DEF Carries
        <4>2. IsFiled(h) => IsFiled(h)'
          <5>1. begun'[h] = begun[h] /\ filed' = filed /\ tree' = tree
            BY <1>3, <1>9, <3>2
          <5> QED
            BY <5>1 DEF IsFiled, FiledAs, InTree
        <4> QED
          BY <3>2, <4>1, <4>2 DEF TRInv, FiledOrComing
      <3> QED
        BY <1>12, <2>1, <3>1, <3>2
    <2> QED
      BY <2>1 DEF FiledOrComing
  <1> QED
    BY <1>7, <1>10, <1>11, <1>13, <1>14 DEF TRInv, RunsBegun, LineInHand

(* The file of a line moves to the tree, and replaces what had its name.    *)
LEMMA RenamedKeeps ==
  ASSUME TRInv, NEW s \in 1..MaxRuns, NEW g \in Segments, NEW h \in Segments, NEW q \in RunSet, NEW n \in Seconds,
         runs[s].at = "scan", runs[s].lines # <<>>, g = Head(runs[s].lines),
         h = work[begun[g]], n = RenderPath(begun[g]),
         work' = [work EXCEPT ![begun[g]] = NoSegment], tree' = [tree EXCEPT ![n] = h],
         spared' = spared \cup ({tree[n]} \ {NoSegment}),
         Turns(s, q), q.at = "register", q.cuts = runs[s].cuts, q.lines = runs[s].lines,
         UNCHANGED <<second, filmed, begun, filed>>
  PROVE  TRInv'
PROOF
  <1>1. TRTyping /\ begun[g] \in Seconds /\ tree[n] \in Segments \cup {NoSegment}
    BY DEF TRInv, TRTyping
  <1>2. /\ runs' \in [1..MaxRuns -> RunSet] /\ runs'[s] = q
        /\ \A u \in 1..MaxRuns : u # s => runs'[u] = runs[u]
    BY <1>1, RunMoves
  <1>3. /\ work' \in [Seconds -> Segments \cup {NoSegment}] /\ work'[begun[g]] = NoSegment
        /\ \A t \in Seconds : t # begun[g] => work'[t] = work[t]
    BY <1>1 DEF TRTyping
  <1>4. /\ tree' \in [Seconds -> Segments \cup {NoSegment}] /\ tree'[n] = h
        /\ \A m \in Seconds : m # n => tree'[m] = tree[m]
    BY <1>1 DEF TRTyping
  <1>5. TRTyping'
    BY <1>1, <1>2, <1>3, <1>4 DEF TRTyping
  <1>6. h <= filmed /\ begun[h] = begun[g] /\ h # NoSegment
    <2>1. h # NoSegment
      BY TranscodeRecorderAssumption DEF Segments, NoSegment
    <2> QED
      BY <1>1, <2>1 DEF TRInv, FilesNamed
  <1>7. FilesNamed'
    <2>1. \A t \in Seconds : work'[t] # NoSegment => work'[t] <= filmed /\ begun[work'[t]] = t
      BY <1>3 DEF TRInv, FilesNamed
    <2>2. \A m \in Seconds : tree'[m] # NoSegment => tree'[m] <= filmed /\ RenderPath(begun[tree'[m]]) = m
      BY <1>4, <1>6 DEF TRInv, FilesNamed
    <2> QED
      BY <2>1, <2>2 DEF FilesNamed
  (* Who is not noted is still in the tree under its name.                  *)
  <1>8. ASSUME NEW k \in Segments, k \notin spared', InTree(k) PROVE tree'[RenderPath(begun[k])] = k
    <2>1. RenderPath(begun[k]) \in Seconds
      BY <1>1, RenderedNames DEF TRTyping
    <2>2. k # NoSegment
      BY TranscodeRecorderAssumption DEF Segments, NoSegment
    <2>3. RenderPath(begun[k]) # n
      BY <1>8, <2>2 DEF InTree
    <2> QED
      BY <1>4, <1>8, <2>1, <2>3 DEF InTree
  <1>9. ASSUME NEW k \in Unspared' PROVE k \in Segments /\ k \notin spared' /\ k \in Unspared
    BY <1>1, <1>9, TranscodeRecorderAssumption DEF Unspared, TRTyping, Segments
  <1>10. FileKept'
    <2>1. ASSUME NEW k \in Unspared' PROVE work'[begun[k]] = k \/ tree'[RenderPath(begun[k])] = k
      <3>1. k \in Segments /\ k \notin spared' /\ k \in Unspared /\ begun[k] \in Seconds
        BY <1>1, <1>9, <2>1 DEF TRTyping
      <3>2. CASE InTree(k)
        BY <1>8, <3>1, <3>2
      <3>3. CASE work[begun[k]] = k /\ begun[k] # begun[g]
        BY <1>3, <3>1, <3>3
      <3>4. CASE work[begun[k]] = k /\ begun[k] = begun[g]
        BY <1>4, <3>4
      <3> QED
        BY <3>1, <3>2, <3>3, <3>4 DEF TRInv, FileKept
    <2> QED
      BY <2>1 DEF FileKept, InTree
  <1>11. BegunRun(q)
    BY DEF TRInv, RunsBegun, BegunRun
  <1>12. RunsBegun'
    <2>1. \A u \in 1..MaxRuns : BegunRun(runs'[u])
      BY <1>2, <1>11 DEF TRInv, RunsBegun
    <2> QED
      BY <2>1 DEF RunsBegun, BegunRun
  <1>13. ASSUME NEW u \in 1..MaxRuns PROVE HandledLine(runs[u])'
    <2>1. CASE u = s
      <3>1. runs'[u].lines # <<>> /\ Head(runs'[u].lines) = g /\ runs'[u].at = "register"
        BY <1>2, <2>1
      <3>2. ASSUME g \notin spared' PROVE tree'[RenderPath(begun[g])] = g
        <4>1. g \in 1..filmed
          <5>1. 1 \in DOMAIN runs[s].lines /\ g = runs[s].lines[1]
            BY <1>1, RunFits, TailCarries
          <5> QED
            BY <1>1, <5>1, TranscodeRecorderAssumption DEF TRInv, RunsBegun, BegunRun, TRTyping, Segments
        <4>2. g \in Unspared
          BY <3>2, <4>1 DEF Unspared
        <4>3. CASE work[begun[g]] = g
          BY <1>4, <4>3
        <4>4. CASE InTree(g)
          BY <1>8, <3>2, <4>4
        <4> QED
          BY <4>2, <4>3, <4>4 DEF TRInv, FileKept
      <3> QED
        BY <3>1, <3>2 DEF HandledLine, InTree
    <2>2. CASE u # s
      <3>1. runs'[u] = runs[u] /\ HandledLine(runs[u]) /\ runs[u].lines \in Seq(Segments)
        BY <1>1, <1>2, <2>2, RunFits DEF TRInv, LineInHand
      <3>2. CASE runs[u].at \in {"register", "finalize"}
        <4>1. runs[u].lines # <<>> /\ Head(runs[u].lines) \in Segments
          BY <3>1, <3>2, TailCarries DEF HandledLine
        <4>2. Head(runs[u].lines) \notin spared' => tree'[RenderPath(begun[Head(runs[u].lines)])] = Head(runs[u].lines)
          BY <1>8, <3>1, <3>2, <4>1 DEF HandledLine
        <4> QED
          BY <3>1, <4>1, <4>2 DEF HandledLine, InTree, FiledAs
      <3> QED
        BY <3>1, <3>2 DEF HandledLine
    <2> QED
      BY <2>1, <2>2
  <1>14. FiledOrComing'
    <2>1. ASSUME NEW k \in Unspared' PROVE (\E u \in 1..MaxRuns : Carries(runs[u], k)') \/ IsFiled(k)'
      <3>1. k \in Segments /\ k \notin spared' /\ k \in Unspared
        BY <1>9, <2>1
      <3>2. IsFiled(k) => IsFiled(k)'
        BY <1>8, <3>1 DEF IsFiled, FiledAs, InTree
      <3>3. ASSUME NEW u \in 1..MaxRuns, Carries(runs[u], k) PROVE Carries(runs'[u], k)
        BY <1>2, <3>3 DEF Carries
      <3>4. \A u \in 1..MaxRuns : Carries(runs'[u], k) => Carries(runs[u], k)'
        BY DEF Carries
      <3> QED
        BY <3>1, <3>2, <3>3, <3>4 DEF TRInv, FiledOrComing
    <2> QED
      BY <2>1 DEF FiledOrComing
  <1>15. LineInHand'
    BY <1>13 DEF LineInHand
  <1> QED
    BY <1>5, <1>7, <1>10, <1>12, <1>14, <1>15 DEF TRInv

(* The file that is replaced in the tree is noted.                          *)
LEMMA RenameKeeps == ASSUME TRInv, NEW s \in 1..MaxRuns, Rename(s) PROVE TRInv'
PROOF
  <1> DEFINE r == runs[s]
             new == [r EXCEPT !.at = "register"]
  <1>1. /\ TRTyping /\ r \in RunSet /\ r.lines \in Seq(Segments) /\ r.at = "scan" /\ r.lines # <<>>
    BY RunFits DEF TRInv, Rename
  <1>2. PICK g \in Segments : g = Head(r.lines)
    BY <1>1, TailCarries
  <1>3. begun[g] \in Seconds
    BY <1>1 DEF TRTyping
  <1>4. PICK n \in Seconds : n = RenderPath(begun[g])
    BY <1>3, RenderedNames
  <1>5. PICK q \in RunSet : new = q /\ q.at = "register" /\ q.cuts = r.cuts /\ q.lines = r.lines
    <2>1. new \in RunSet
      BY <1>1 DEF RunSet, RunStates
    <2> QED
      BY <1>1, <2>1 DEF RunSet
  <1>6. UNCHANGED <<second, filmed, begun, filed>>
    BY DEF Rename
  <1>7. CASE /\ work[begun[g]] # NoSegment
             /\ work' = [work EXCEPT ![begun[g]] = NoSegment]
             /\ tree' = [tree EXCEPT ![n] = work[begun[g]]]
             /\ spared' = spared \cup ({tree[n]} \ {NoSegment})
             /\ Turns(s, q)
    <2>1. PICK h \in Segments : h = work[begun[g]]
      BY <1>1, <1>3, <1>7 DEF TRTyping
    <2> QED
      BY <1>1, <1>2, <1>4, <1>5, <1>6, <1>7, <2>1, RenamedKeeps
  <1>8. CASE spared' = spared \cup {g} /\ Turns(s, AfterLine(s)) /\ UNCHANGED <<work, tree>>
    BY <1>1, <1>2, <1>6, <1>8, SegmentSpared
  <1> QED
    BY <1>2, <1>4, <1>5, <1>7, <1>8 DEF Rename

(* A row is added, or rows are marked done: no row goes, and no file.       *)
LEMMA RowsGrow ==
  ASSUME TRInv, NEW s \in 1..MaxRuns, NEW q \in RunSet, Turns(s, q),
         UNCHANGED <<second, filmed, begun, work, tree, spared>>, filed' \subseteq FiledRows,
         \A g \in Segments : FiledAs(g, TRUE) \in filed => FiledAs(g, TRUE) \in filed',
         \A g \in Segments : (\E done \in BOOLEAN : FiledAs(g, done) \in filed)
                              => \E done \in BOOLEAN : FiledAs(g, done) \in filed',
         BegunRun(q), HandledLine(q)',
         \A g \in Unspared : Carries(runs[s], g) => Carries(q, g) \/ IsFiled(g)'
  PROVE  TRInv'
PROOF
  <1>1. TRTyping
    BY DEF TRInv
  <1>2. /\ runs' \in [1..MaxRuns -> RunSet] /\ runs'[s] = q
        /\ \A u \in 1..MaxRuns : u # s => runs'[u] = runs[u]
    BY <1>1, RunMoves
  <1>3. TRTyping'
    BY <1>1, <1>2 DEF TRTyping
  <1>4. RunsBegun'
    <2>1. \A u \in 1..MaxRuns : BegunRun(runs'[u])
      BY <1>2 DEF TRInv, RunsBegun
    <2> QED
      BY <2>1 DEF RunsBegun, BegunRun
  <1>5. FilesNamed' /\ FileKept'
    BY DEF TRInv, FilesNamed, FileKept, Unspared, InTree
  <1>6. ASSUME NEW u \in 1..MaxRuns PROVE HandledLine(runs[u])'
    <2>1. CASE u = s
      BY <1>2, <2>1 DEF HandledLine
    <2>2. CASE u # s
      <3>1. runs'[u] = runs[u] /\ HandledLine(runs[u]) /\ runs[u].lines \in Seq(Segments)
        BY <1>1, <1>2, <2>2, RunFits DEF TRInv, LineInHand
      <3>2. CASE runs[u].at \in {"register", "finalize"}
        <4>1. PICK g \in Segments : runs[u].lines # <<>> /\ g = Head(runs[u].lines)
          BY <3>1, <3>2, TailCarries DEF HandledLine
        <4>2. g \notin spared => InTree(g)'
          BY <3>1, <3>2, <4>1 DEF HandledLine, InTree
        <4>3. runs[u].at = "finalize" => \E done \in BOOLEAN : FiledAs(g, done) \in filed
          BY <3>1, <4>1 DEF HandledLine
        <4>4. runs[u].at = "finalize" => \E done \in BOOLEAN : FiledAs(g, done) \in filed'
          BY <4>3
        <4>5. runs[u].at = "finalize" => \E done \in BOOLEAN : FiledAs(g, done)' \in filed'
          BY <4>4 DEF FiledAs
        <4> QED
          BY <3>1, <4>1, <4>2, <4>5 DEF HandledLine
      <3> QED
        BY <3>1, <3>2 DEF HandledLine
    <2> QED
      BY <2>1, <2>2
  <1>7. FiledOrComing'
    <2>1. ASSUME NEW k \in Unspared' PROVE (\E u \in 1..MaxRuns : Carries(runs[u], k)') \/ IsFiled(k)'
      <3>1. k \in Unspared /\ k \in Segments
        BY <1>1, <2>1, TranscodeRecorderAssumption DEF Unspared, TRTyping, Segments
      <3>2. IsFiled(k) => IsFiled(k)'
        BY <3>1 DEF IsFiled, FiledAs, InTree
      <3>3. ASSUME NEW u \in 1..MaxRuns, Carries(runs[u], k) PROVE Carries(runs'[u], k) \/ IsFiled(k)'
        BY <1>2, <3>1, <3>3
      <3>4. \A u \in 1..MaxRuns : Carries(runs'[u], k) => Carries(runs[u], k)'
        BY DEF Carries
      <3> QED
        BY <3>1, <3>2, <3>3, <3>4 DEF TRInv, FiledOrComing
    <2> QED
      BY <2>1 DEF FiledOrComing
  <1>8. LineInHand'
    BY <1>6 DEF LineInHand
  <1> QED
    BY <1>3, <1>4, <1>5, <1>7, <1>8 DEF TRInv

(* A segment gets its row.                                                  *)
LEMMA RegisterKeeps == ASSUME TRInv, NEW s \in 1..MaxRuns, Register(s) PROVE TRInv'
PROOF
  <1> DEFINE r == runs[s]
             new == [r EXCEPT !.at = "finalize"]
  <1>1. /\ TRTyping /\ BegunRun(r) /\ HandledLine(r)
        /\ r \in RunSet /\ r.lines \in Seq(Segments) /\ r.at = "register" /\ r.lines # <<>>
    BY RunFits DEF TRInv, RunsBegun, LineInHand, Register, HandledLine
  <1>2. PICK g \in Segments : g = Head(r.lines)
    BY <1>1, TailCarries
  <1>3. PICK q \in RunSet : new = q /\ q.at = "finalize" /\ q.cuts = r.cuts /\ q.lines = r.lines
    <2>1. new \in RunSet
      BY <1>1 DEF RunSet, RunStates
    <2> QED
      BY <1>1, <2>1 DEF RunSet
  <1>4. UNCHANGED <<second, filmed, begun, work, tree>>
    BY DEF Register
  <1>5. CASE filed' = filed \cup {FiledAs(g, FALSE)} /\ Turns(s, q) /\ UNCHANGED spared
    <2>1. FiledAs(g, FALSE) \in FiledRows
      BY <1>1, RenderedNames DEF FiledAs, FiledRows, TRTyping
    <2>2. filed' \subseteq FiledRows /\ filed \subseteq filed'
      BY <1>1, <1>5, <2>1 DEF TRTyping
    <2>3. BegunRun(q)
      BY <1>1, <1>3 DEF BegunRun
    <2>4. FiledAs(g, FALSE)' \in filed'
      BY <1>4, <1>5 DEF FiledAs
    <2>5. Head(q.lines) = g /\ q.lines # <<>> /\ (g \notin spared' => InTree(g)')
      BY <1>1, <1>2, <1>3, <1>4, <1>5 DEF HandledLine, InTree
    <2>6. HandledLine(q)'
      BY <1>3, <2>4, <2>5 DEF HandledLine
    <2>7. \A k \in Unspared : Carries(r, k) => Carries(q, k)
      BY <1>3 DEF Carries
    <2> QED
      BY <1>4, <1>5, <2>2, <2>3, <2>6, <2>7, RowsGrow
  <1>6. CASE spared' = spared \cup {g} /\ Turns(s, AfterLine(s)) /\ UNCHANGED filed
    BY <1>1, <1>2, <1>4, <1>6, SegmentSpared
  <1> QED
    BY <1>2, <1>3, <1>5, <1>6 DEF Register, FiledAs

(* The row of a segment is marked done, and its line is over.               *)
LEMMA FinalizeSegmentKeeps == ASSUME TRInv, NEW s \in 1..MaxRuns, FinalizeSegment(s) PROVE TRInv'
PROOF
  <1> DEFINE r == runs[s]
  <1>1. /\ TRTyping /\ BegunRun(r) /\ HandledLine(r)
        /\ r \in RunSet /\ r.lines \in Seq(Segments) /\ r.at = "finalize" /\ r.lines # <<>>
    BY RunFits DEF TRInv, RunsBegun, LineInHand, FinalizeSegment, HandledLine
  <1>2. PICK g \in Segments : g = Head(r.lines)
    BY <1>1, TailCarries
  <1>3. UNCHANGED <<second, filmed, begun, work, tree>> /\ Turns(s, AfterLine(s))
    BY DEF FinalizeSegment
  <1>4. CASE filed' = {IF entry.of = g THEN [entry EXCEPT !.done = TRUE] ELSE entry : entry \in filed} /\ UNCHANGED spared
    <2>1. PICK q \in RunSet :
            /\ AfterLine(s) = q
            /\ BegunRun(q) /\ q.at = "scan"
            /\ \A k \in Segments : Carries(r, k) => Carries(q, k) \/ k = Head(r.lines)
      BY <1>1, LineOver
    <2>2. \A entry \in FiledRows : [entry EXCEPT !.done = TRUE] \in FiledRows
      BY DEF FiledRows
    <2>3. filed' \subseteq FiledRows
      BY <1>1, <1>4, <2>2 DEF TRTyping
    <2>4. \A k \in Segments, done \in BOOLEAN :
            /\ FiledAs(k, done).of = k
            /\ [FiledAs(k, done) EXCEPT !.done = TRUE] = FiledAs(k, TRUE)
      <3> TAKE k \in Segments, done \in BOOLEAN
      <3>1. FiledAs(k, done) \in FiledRows /\ FiledAs(k, TRUE) \in FiledRows
        BY <1>1, RenderedNames DEF FiledAs, FiledRows, TRTyping
      <3>2. /\ FiledAs(k, done).name = FiledAs(k, TRUE).name
            /\ FiledAs(k, done).of = k /\ FiledAs(k, TRUE).of = k /\ FiledAs(k, TRUE).done = TRUE
        BY DEF FiledAs
      <3>3. ASSUME NEW a \in FiledRows, NEW b \in FiledRows, a.name = b.name, a.of = b.of, b.done = TRUE
            PROVE  [a EXCEPT !.done = TRUE] = b
        BY <3>3 DEF FiledRows
      <3> QED
        BY <3>1, <3>2, <3>3
    <2>5. ASSUME NEW k \in Segments, NEW done \in BOOLEAN, FiledAs(k, done) \in filed
          PROVE  IF k = g THEN FiledAs(k, TRUE) \in filed' ELSE FiledAs(k, done) \in filed'
      BY <1>4, <2>4, <2>5
    <2>6. \A k \in Segments : FiledAs(k, TRUE) \in filed => FiledAs(k, TRUE) \in filed'
      BY <2>5
    <2>7. \A k \in Segments : (\E done \in BOOLEAN : FiledAs(k, done) \in filed)
                               => \E done \in BOOLEAN : FiledAs(k, done) \in filed'
      BY <2>5
    <2>8. HandledLine(q)'
      BY <2>1 DEF HandledLine
    <2>9. FiledAs(g, TRUE) \in filed' /\ (g \notin spared => InTree(g))
      BY <1>1, <1>2, <2>5 DEF HandledLine
    <2>10. g \in Unspared => IsFiled(g)'
      BY <1>3, <2>9 DEF IsFiled, FiledAs, InTree, Unspared
    <2>11. \A k \in Unspared : k \in Segments
      BY <1>1, TranscodeRecorderAssumption DEF Unspared, TRTyping, Segments
    <2> QED
      BY <1>2, <1>3, <1>4, <2>1, <2>3, <2>6, <2>7, <2>8, <2>10, <2>11, RowsGrow
  <1>5. CASE spared' = spared \cup {g} /\ UNCHANGED filed
    BY <1>1, <1>2, <1>3, <1>5, SegmentSpared
  <1> QED
    BY <1>2, <1>4, <1>5 DEF FinalizeSegment

(* Every step keeps the invariant of the segments.                          *)
LEMMA TRNextKeeps == ASSUME TRInv, TRNext PROVE TRInv'
PROOF
  <1>1. CASE Second
    BY <1>1, SecondKeeps
  <1>2. ASSUME NEW s \in 1..MaxRuns, RunTR(s) \/ InputEnds(s) \/ Opens(s) \/ Cuts(s) \/ Exits(s) \/ Hangs(s)
        PROVE  TRInv'
    BY <1>2, RunTRKeeps, QuietStepsKeep, OpensKeeps, CutsKeeps, DiesKeeps
  <1>3. ASSUME NEW s \in 1..MaxRuns, RecorderStep(s)
        PROVE  TRInv'
    BY <1>3, QuietStepsKeep, DiesKeeps, RenameKeeps, RegisterKeeps, FinalizeSegmentKeeps DEF RecorderStep
  <1> QED
    BY <1>1, <1>2, <1>3 DEF TRNext

(* A step of another part keeps it.                                         *)
LEMMA TRRestKeeps == ASSUME TRInv, UNCHANGED trVars PROVE TRInv'
PROOF
  <1>1. UNCHANGED <<second, filmed, runs, begun, work, tree, filed, spared>>
    BY DEF trVars
  <1>2. TRTyping' /\ RunsBegun' /\ FilesNamed'
    BY <1>1 DEF TRInv, TRTyping, RunsBegun, BegunRun, FilesNamed
  <1>3. FileKept' /\ LineInHand'
    BY <1>1 DEF TRInv, FileKept, LineInHand, HandledLine, InTree, FiledAs, Unspared
  <1>4. FiledOrComing'
    BY <1>1 DEF TRInv, FiledOrComing, Carries, IsFiled, InTree, FiledAs, Unspared
  <1> QED
    BY <1>2, <1>3, <1>4 DEF TRInv

(* The invariant is what the run checks of the segments.                    *)
LEMMA TRInvSound == ASSUME TRInv PROVE TRTypeOK /\ SegmentsFiled
PROOF
  <1>1. TRTyping
    BY DEF TRInv
  <1>2. ASSUME NEW s \in 1..MaxRuns, NEW i \in DOMAIN runs[s].lines PROVE runs[s].lines[i] \in Segments
    BY <1>1, RunFits
  <1>3. TRTypeOK
    BY <1>1, <1>2 DEF TRTyping, TRTypeOK, Seconds, FiledRows
  <1>4. SegmentsFiled
    BY DEF TRInv, FiledOrComing, Carries, IsFiled, FiledAs, InTree, Unspared, SegmentsFiled
  <1> QED
    BY <1>3, <1>4

-----------------------------------------------------------------------------
(* The jobs that analyse recordings.                                        *)
JobStates     == {"none", "pending", "running", "failed", "done", "skipped"}
SourceStates  == {"local", "remote", "gone"}
WorkerSteps   == {"start", "idle", "open", "extract", "analyse", "store", "assign", "group", "link",
                  "complete", "fail"}
FaceRows      == Recordings \X (1..NFaces) \X Nat
WorkerSet     == [at : WorkerSteps, rec : Recordings \cup {NoRecording}, next : Nat \ {0}, batch : Int,
                  todo : SUBSET FaceRows, group : SUBSET FaceRows]

JobTyping ==
  /\ source \in [Recordings -> SourceStates]
  /\ job \in [Recordings -> JobStates]
  /\ attempts \in [Recordings -> Nat]
  /\ rows \subseteq FaceRows /\ tracked \subseteq rows
  /\ grouped \subseteq Recordings
  /\ worker \in WorkerSet
  /\ troubles \in 0..MaxTroubles
  /\ stuck \subseteq Recordings /\ troubled \subseteq Recordings

(* A job is claimed once per trouble more than maxAttempts, because only    *)
(* one that was left running comes back.                                    *)
AttemptsPaid ==
  \A r \in Recordings :
    /\ attempts[r] <= MaxAttempts + troubles
    /\ job[r] \in {"none", "pending"} \/ (job[r] = "running" /\ r # Rec) =>
         source[r] = "gone" \/ attempts[r] <= MaxAttempts + troubles - 1

(* Who runs what.                                                           *)
WorkerHasJob ==
  /\ worker.at \in {"start", "idle"} <=> Rec = NoRecording
  /\ Rec # NoRecording => job[Rec] = "running" \/ (job[Rec] = "none" /\ source[Rec] = "gone")
  /\ \A r \in Recordings : job[r] = "running" => r = Rec \/ worker.at = "start" \/ r \in stuck

(* What goes with a recording is gone with it, and who has tracks has faces.*)
RowsHaveRecording ==
  /\ \A r \in Recordings : source[r] = "gone" => RowsOf(r) = {} /\ job[r] = "none"
  /\ \A r \in grouped : RowsOf(r) # {}

Stored(r, n) == {<<r, d, attempts[r]>> : d \in 1..n}
Untroubled(r) == r \in Recordings \ troubled /\ source[r] # "gone"

(* A recording no attempt failed over has no faces before it is claimed,    *)
(* and all of them, each in a track, when it is done.                       *)
FacesOutside ==
  \A r \in Recordings : r # Rec /\ Untroubled(r) =>
    IF job[r] = "done" THEN RowsOf(r) = Stored(r, NFaces) /\ RowsOf(r) \subseteq tracked
    ELSE RowsOf(r) = {}

(* The worker stores faces the recording has, and groups faces it stored.   *)
WorkInRange(w) ==
  /\ w.at \in {"open", "extract", "analyse", "store"} => w.next <= NFaces
  /\ w.at \in {"open", "extract"} => w.next = 1
  /\ w.at \in {"group", "link"} /\ source[w.rec] # "gone" =>
       /\ w.todo \subseteq RowsOf(w.rec)
       /\ w.at = "link" => w.group \subseteq w.todo

(* The recording at hand: what is stored is what the worker has passed, and *)
(* it is grouped, or else it is to be.                                      *)
FacesAtHand(w) ==
  Untroubled(w.rec) =>
    /\ w.at \in {"open", "extract", "analyse", "store"} =>
         RowsOf(w.rec) = Stored(w.rec, w.next - 1)
    /\ w.at \in {"assign", "group", "link", "complete"} => RowsOf(w.rec) = Stored(w.rec, NFaces)
    /\ w.at \in {"open", "extract", "analyse", "store", "assign"} => w.rec \notin grouped
    /\ w.at \in {"group", "link"} => RowsOf(w.rec) \ w.todo \subseteq tracked
    /\ w.at = "complete" => RowsOf(w.rec) \subseteq tracked

JobInv ==
  /\ JobTyping /\ AttemptsPaid /\ WorkerHasJob /\ RowsHaveRecording
  /\ FacesOutside /\ WorkInRange(worker) /\ FacesAtHand(worker)

(* The worker without a job.                                                *)
LEMMA IdleFits == /\ Idle \in WorkerSet /\ Idle.at = "idle" /\ Idle.rec = NoRecording /\ Idle.next = 1
                  /\ [Idle EXCEPT !.at = "start"] \in WorkerSet
                  /\ [Idle EXCEPT !.at = "start"].at = "start" /\ [Idle EXCEPT !.at = "start"].rec = NoRecording
PROOF
  <1>1. Idle \in WorkerSet /\ Idle.at = "idle" /\ Idle.rec = NoRecording /\ Idle.next = 1
    BY DEF Idle, WorkerSet, WorkerSteps
  <1>2. [Idle EXCEPT !.at = "start"] \in WorkerSet
    BY <1>1 DEF WorkerSet, WorkerSteps
  <1>3. [Idle EXCEPT !.at = "start"].at = "start" /\ [Idle EXCEPT !.at = "start"].rec = NoRecording
    BY <1>1 DEF WorkerSet
  <1> QED
    BY <1>1, <1>2, <1>3

(* The fields of the worker.                                                *)
LEMMA WorkerFits ==
  ASSUME JobTyping
  PROVE  /\ worker.at \in WorkerSteps /\ worker.rec \in Recordings \cup {NoRecording} /\ worker.next \in Nat \ {0}
         /\ worker.batch \in Int /\ worker.todo \subseteq FaceRows /\ worker.group \subseteq FaceRows
PROOF
  BY DEF JobTyping, WorkerSet

(* No job is queued: the invariant holds at the start.                      *)
LEMMA JobInvInit == ASSUME JobInit PROVE JobInv
PROOF
  <1>1. worker \in WorkerSet /\ worker.at = "start" /\ worker.rec = NoRecording
    BY IdleFits DEF JobInit
  <1>2. JobTyping
    <2>1. source \in [Recordings -> SourceStates] /\ job \in [Recordings -> JobStates] /\ attempts \in [Recordings -> Nat]
      BY DEF JobInit, SourceStates, JobStates
    <2>2. troubles \in 0..MaxTroubles
      BY FaceJobsAssumption DEF JobInit
    <2> QED
      BY <1>1, <2>1, <2>2 DEF JobInit, JobTyping
  <1>3. AttemptsPaid
    BY FaceJobsAssumption DEF JobInit, AttemptsPaid
  <1>4. WorkerHasJob
    BY <1>1 DEF JobInit, WorkerHasJob, Rec
  <1>5. RowsHaveRecording
    BY DEF JobInit, RowsHaveRecording, RowsOf
  <1>6. FacesOutside
    BY DEF JobInit, FacesOutside, RowsOf
  <1>7. WorkInRange(worker) /\ FacesAtHand(worker)
    BY <1>1, FaceJobsAssumption DEF WorkInRange, FacesAtHand, Untroubled
  <1> QED
    BY <1>2, <1>3, <1>4, <1>5, <1>6, <1>7 DEF JobInv

(* Whose job is at hand.                                                    *)
LEMMA RecFits == ASSUME JobTyping, Rec # NoRecording PROVE Rec \in Recordings
PROOF
  BY WorkerFits DEF Rec

-----------------------------------------------------------------------------
(* The worker goes on with the job at hand, and writes nothing.             *)
LEMMA WorkerGoesOn ==
  ASSUME JobInv, Rec # NoRecording, NEW w \in WorkerSet, worker' = w, w.rec = Rec, w.at \notin {"start", "idle"},
         UNCHANGED <<source, job, attempts, rows, tracked, grouped, stuck>>,
         troubles' \in troubles..MaxTroubles, troubled \subseteq troubled', troubled' \subseteq Recordings,
         WorkInRange(w), Untroubled(Rec)' => FacesAtHand(w)
  PROVE  JobInv'
PROOF
  <1>1. JobTyping /\ Rec \in Recordings /\ Rec' = Rec /\ troubles \in Nat /\ troubles' \in Nat /\ troubles <= troubles'
    BY RecFits, FaceJobsAssumption DEF JobInv, JobTyping, Rec
  <1>2. JobTyping'
    BY <1>1, FaceJobsAssumption DEF JobTyping
  <1>3. AttemptsPaid'
    BY <1>1, FaceJobsAssumption DEF JobInv, JobTyping, AttemptsPaid
  <1>4. WorkerHasJob'
    BY <1>1, WorkerFits DEF JobInv, WorkerHasJob, Rec
  <1>5. RowsHaveRecording'
    BY DEF JobInv, RowsHaveRecording, RowsOf
  <1>6. FacesOutside'
    BY <1>1 DEF JobInv, FacesOutside, RowsOf, Untroubled, Stored
  <1>7. WorkInRange(w)'
    BY DEF WorkInRange, RowsOf
  <1>8. FacesAtHand(w)'
    BY DEF FacesAtHand, RowsOf, Untroubled, Stored, Rec
  <1> QED
    BY <1>2, <1>3, <1>4, <1>5, <1>6, <1>7, <1>8 DEF JobInv

(* The worker is done with the job at hand, one way or the other.           *)
LEMMA WorkerLeaves ==
  ASSUME JobInv, Rec # NoRecording, worker' = Idle,
         UNCHANGED <<source, attempts, rows, tracked, grouped>>,
         troubles' \in troubles..MaxTroubles,
         stuck \subseteq stuck', stuck' \subseteq Recordings,
         troubled \subseteq troubled', troubled' \subseteq Recordings,
         NEW state \in {"skipped", "done", "failed", "running"},
         job' \in [Recordings -> JobStates],
         job'[Rec] = IF job[Rec] = "none" THEN "none" ELSE state,
         \A r \in Recordings : r # Rec => job'[r] = job[r],
         state = "running" => Rec \in stuck' /\ troubles' = troubles + 1,
         \/ Rec \in troubled' \/ source[Rec] = "gone"
         \/ state = "done" /\ RowsOf(Rec) = Stored(Rec, NFaces) /\ RowsOf(Rec) \subseteq tracked
         \/ state # "done" /\ RowsOf(Rec) = {}
  PROVE  JobInv'
PROOF
  <1>1. JobTyping /\ Rec \in Recordings /\ troubles \in Nat /\ troubles' \in Nat /\ troubles <= troubles'
    BY RecFits, FaceJobsAssumption DEF JobInv, JobTyping
  <1>2. worker' \in WorkerSet /\ worker'.at = "idle" /\ worker'.rec = NoRecording /\ Rec' = NoRecording
    BY IdleFits DEF Rec
  <1>3. JobTyping'
    BY <1>1, <1>2, FaceJobsAssumption DEF JobTyping
  <1>4. AttemptsPaid'
    <2>1. ASSUME NEW r \in Recordings
          PROVE  /\ attempts[r] <= MaxAttempts + troubles'
                 /\ job'[r] \in {"none", "pending"} \/ job'[r] = "running" =>
                      source[r] = "gone" \/ attempts[r] <= MaxAttempts + troubles' - 1
      <3>1. /\ attempts[r] \in Nat /\ attempts[r] <= MaxAttempts + troubles
            /\ job[r] \in {"none", "pending"} \/ (job[r] = "running" /\ r # Rec) =>
                 source[r] = "gone" \/ attempts[r] <= MaxAttempts + troubles - 1
        BY <1>1 DEF JobInv, JobTyping, AttemptsPaid
      <3>2. CASE r = Rec
        <4>1. job'[r] \in {"none", "pending", "running"} => source[r] = "gone" \/ troubles' = troubles + 1
          BY <1>1, <3>2 DEF JobInv, WorkerHasJob, RowsHaveRecording
        <4> QED
          BY <1>1, <3>1, <4>1, FaceJobsAssumption
      <3>3. CASE r # Rec
        BY <1>1, <3>1, <3>3, FaceJobsAssumption
      <3> QED
        BY <3>2, <3>3
    <2> QED
      BY <2>1 DEF AttemptsPaid
  <1>5. WorkerHasJob'
    <2>1. ASSUME NEW r \in Recordings, job'[r] = "running" PROVE r \in stuck'
      <3>1. CASE r = Rec
        BY <2>1, <3>1
      <3>2. CASE r # Rec
        <4>1. job[r] = "running" /\ worker.at # "start"
          BY <2>1, <3>2 DEF JobInv, WorkerHasJob
        <4> QED
          BY <3>2, <4>1 DEF JobInv, WorkerHasJob
      <3> QED
        BY <3>1, <3>2
    <2> QED
      BY <1>2, <2>1 DEF WorkerHasJob
  <1>6. RowsHaveRecording'
    <2>1. ASSUME NEW r \in Recordings, source[r] = "gone" PROVE RowsOf(r) = {} /\ job'[r] = "none"
      BY <2>1 DEF JobInv, RowsHaveRecording
    <2> QED
      BY <2>1 DEF JobInv, RowsHaveRecording, RowsOf
  <1>7. FacesOutside'
    <2>1. ASSUME NEW r \in Recordings, r \notin troubled', source[r] # "gone"
          PROVE  IF job'[r] = "done" THEN RowsOf(r) = Stored(r, NFaces) /\ RowsOf(r) \subseteq tracked ELSE RowsOf(r) = {}
      <3>1. CASE r = Rec
        <4>1. job[Rec] = "running" /\ job'[Rec] = state
          BY <2>1, <3>1 DEF JobInv, WorkerHasJob
        <4> QED
          BY <2>1, <3>1, <4>1
      <3>2. CASE r # Rec
        BY <2>1, <3>2 DEF JobInv, FacesOutside, Untroubled
      <3> QED
        BY <3>1, <3>2
    <2> QED
      BY <2>1 DEF FacesOutside, RowsOf, Untroubled, Stored
  <1>8. WorkInRange(worker)' /\ FacesAtHand(worker)'
    BY <1>2, FaceJobsAssumption DEF WorkInRange, FacesAtHand, Untroubled
  <1> QED
    BY <1>3, <1>4, <1>5, <1>6, <1>7, <1>8 DEF JobInv
-----------------------------------------------------------------------------
(* A recording that is queued has no faces, or an attempt that is noted.    *)
LEMMA EnqueueKeeps == ASSUME JobInv, NEW r \in Recordings, Enqueue(r) PROVE JobInv'
PROOF
  <1>1. JobTyping
    BY DEF JobInv
  <1>2. /\ UNCHANGED <<source, attempts, rows, tracked, grouped, worker, troubles, stuck, troubled>>
        /\ source[r] # "gone" /\ job[r] = "none"
        /\ job' \in [Recordings -> JobStates] /\ job'[r] = "pending" /\ \A q \in Recordings : q # r => job'[q] = job[q]
    BY <1>1 DEF Enqueue, JobTyping, JobStates
  <1>3. r # Rec
    BY <1>2, FaceJobsAssumption DEF JobInv, WorkerHasJob
  <1>4. JobTyping' /\ Rec' = Rec
    BY <1>1, <1>2 DEF JobTyping, Rec
  <1>5. AttemptsPaid'
    BY <1>2, <1>3, <1>4 DEF JobInv, AttemptsPaid
  <1>6. WorkerHasJob'
    <2>1. Rec # NoRecording => job'[Rec] = job[Rec]
      BY <1>1, <1>2, <1>3, RecFits
    <2> QED
      BY <1>2, <1>4, <2>1 DEF JobInv, WorkerHasJob
  <1>7. RowsHaveRecording'
    BY <1>2 DEF JobInv, RowsHaveRecording, RowsOf
  <1>8. FacesOutside'
    BY <1>2, <1>4 DEF JobInv, FacesOutside, RowsOf, Untroubled, Stored
  <1>9. WorkInRange(worker)' /\ FacesAtHand(worker)'
    BY <1>2 DEF JobInv, WorkInRange, FacesAtHand, RowsOf, Untroubled, Stored
  <1> QED
    BY <1>4, <1>5, <1>6, <1>7, <1>8, <1>9 DEF JobInv

(* Without its file a recording keeps its faces.                            *)
LEMMA LoseFileKeeps == ASSUME JobInv, NEW r \in Recordings, LoseFile(r) PROVE JobInv'
PROOF
  <1>1. JobTyping
    BY DEF JobInv
  <1>2. /\ UNCHANGED <<job, attempts, rows, tracked, grouped, worker, stuck, troubled>>
        /\ troubles \in Nat /\ troubles' = troubles + 1 /\ troubles' \in 0..MaxTroubles
        /\ source' \in [Recordings -> SourceStates]
        /\ \A q \in Recordings : source[q] = "gone" <=> source'[q] = "gone"
    BY <1>1, FaceJobsAssumption DEF LoseFile, Trouble, JobTyping, SourceStates
  <1>3. JobTyping' /\ Rec' = Rec
    BY <1>1, <1>2 DEF JobTyping, Rec
  <1>4. AttemptsPaid'
    BY <1>1, <1>2, <1>3, FaceJobsAssumption DEF JobInv, JobTyping, AttemptsPaid
  <1>5. WorkerHasJob'
    BY <1>1, <1>2, <1>3, RecFits DEF JobInv, WorkerHasJob
  <1>6. RowsHaveRecording'
    BY <1>2 DEF JobInv, RowsHaveRecording, RowsOf
  <1>7. FacesOutside'
    BY <1>2, <1>3 DEF JobInv, FacesOutside, RowsOf, Untroubled, Stored
  <1>8. WorkInRange(worker)' /\ FacesAtHand(worker)'
    <2>1. worker.at \in {"group", "link"} => worker.rec \in Recordings
      BY <1>1, RecFits DEF JobInv, WorkerHasJob, Rec
    <2> QED
      BY <1>2, <2>1 DEF JobInv, WorkInRange, FacesAtHand, RowsOf, Untroubled, Stored
  <1> QED
    BY <1>3, <1>4, <1>5, <1>6, <1>7, <1>8 DEF JobInv

(* With the row all that is about the recording goes.                       *)
LEMMA LoseRowKeeps == ASSUME JobInv, NEW r \in Recordings, LoseRow(r) PROVE JobInv'
PROOF
  <1>1. JobTyping
    BY DEF JobInv
  <1>2. /\ UNCHANGED <<attempts, worker, stuck, troubled>>
        /\ troubles \in Nat /\ troubles' = troubles + 1 /\ troubles' \in 0..MaxTroubles
        /\ rows' = rows \ RowsOf(r) /\ tracked' = tracked \ RowsOf(r) /\ grouped' = grouped \ {r}
    BY <1>1, FaceJobsAssumption DEF LoseRow, Trouble, JobTyping
  <1>3. /\ source' \in [Recordings -> SourceStates] /\ source'[r] = "gone"
        /\ \A q \in Recordings : q # r => source'[q] = source[q]
    BY <1>1 DEF LoseRow, JobTyping, SourceStates
  <1>4. /\ job' \in [Recordings -> JobStates] /\ job'[r] = "none"
        /\ \A q \in Recordings : q # r => job'[q] = job[q]
    BY <1>1 DEF LoseRow, JobTyping, JobStates
  <1>5. JobTyping' /\ Rec' = Rec
    BY <1>1, <1>2, <1>3, <1>4 DEF JobTyping, Rec
  <1>6. /\ RowsOf(r)' = {}
        /\ \A q : q # r => RowsOf(q)' = RowsOf(q) /\ (RowsOf(q) \subseteq tracked => RowsOf(q) \subseteq tracked')
        /\ \A q, S : q # r /\ RowsOf(q) \ S \subseteq tracked => RowsOf(q) \ S \subseteq tracked'
    BY <1>2 DEF RowsOf
  <1>7. AttemptsPaid'
    BY <1>1, <1>2, <1>3, <1>4, <1>5, FaceJobsAssumption DEF JobInv, JobTyping, AttemptsPaid
  <1>8. WorkerHasJob'
    <2>1. Rec # NoRecording => job'[Rec] = "running" \/ (job'[Rec] = "none" /\ source'[Rec] = "gone")
      BY <1>1, <1>3, <1>4, RecFits DEF JobInv, WorkerHasJob
    <2>2. \A q \in Recordings : job'[q] = "running" => q = Rec \/ worker.at = "start" \/ q \in stuck
      BY <1>4 DEF JobInv, WorkerHasJob
    <2> QED
      BY <1>2, <1>5, <2>1, <2>2 DEF JobInv, WorkerHasJob
  <1>9. RowsHaveRecording'
    BY <1>1, <1>2, <1>3, <1>4, <1>6 DEF JobInv, JobTyping, RowsHaveRecording
  <1>10. FacesOutside'
    <2>1. ASSUME NEW q \in Recordings, q # Rec, q \notin troubled, source'[q] # "gone"
          PROVE  IF job'[q] = "done" THEN RowsOf(q)' = Stored(q, NFaces)' /\ RowsOf(q)' \subseteq tracked' ELSE RowsOf(q)' = {}
      <3>1. q # r /\ Untroubled(q)
        BY <1>3, <2>1 DEF Untroubled
      <3>2. Stored(q, NFaces)' = Stored(q, NFaces)
        BY <1>2 DEF Stored
      <3> QED
        BY <1>4, <1>6, <2>1, <3>1, <3>2 DEF JobInv, FacesOutside
    <2> QED
      BY <1>2, <1>5, <2>1 DEF FacesOutside, Untroubled
  <1>11. WorkInRange(worker)' /\ FacesAtHand(worker)'
    <2>1. CASE worker.rec = r
      BY <1>2, <1>3, <2>1 DEF JobInv, WorkInRange, FacesAtHand, Untroubled
    <2>2. CASE worker.rec # r /\ worker.rec \in Recordings
      <3>1. PICK q \in Recordings : q = worker.rec /\ q # r
        BY <2>2
      <3>2. /\ WorkInRange(worker) /\ FacesAtHand(worker)
            /\ RowsOf(q)' = RowsOf(q) /\ Untroubled(q)' = Untroubled(q)
            /\ (q \in grouped' <=> q \in grouped)
        BY <1>2, <1>3, <1>6, <3>1 DEF JobInv, Untroubled
      <3>3. \A n : Stored(q, n)' = Stored(q, n)
        BY <1>2 DEF Stored
      <3>4. WorkInRange(worker)'
        BY <1>2, <1>3, <3>1, <3>2 DEF WorkInRange
      <3>5. FacesAtHand(worker)'
        BY <1>2, <1>6, <3>1, <3>2, <3>3 DEF FacesAtHand
      <3> QED
        BY <3>4, <3>5
    <2>3. CASE worker.rec = NoRecording
      BY <1>2, <2>3, FaceJobsAssumption DEF JobInv, WorkerHasJob, Rec, WorkInRange, FacesAtHand, Untroubled
    <2> QED
      BY <1>1, <2>1, <2>2, <2>3, WorkerFits
  <1> QED
    BY <1>5, <1>7, <1>8, <1>9, <1>10, <1>11 DEF JobInv

(* What the attempt had stored is noted, and its job still says it runs.    *)
LEMMA CrashKeeps == ASSUME JobInv, Crash PROVE JobInv'
PROOF
  <1>1. JobTyping
    BY DEF JobInv
  <1>2. /\ UNCHANGED <<source, job, attempts, rows, tracked, grouped, stuck>>
        /\ troubles \in Nat /\ troubles' = troubles + 1 /\ troubles' \in 0..MaxTroubles
        /\ worker' \in WorkerSet /\ worker'.at = "start" /\ worker'.rec = NoRecording /\ Rec' = NoRecording
    BY <1>1, IdleFits, FaceJobsAssumption DEF Crash, Trouble, JobTyping, Rec
  <1>3. /\ troubled' \subseteq Recordings /\ troubled \subseteq troubled'
        /\ Rec # NoRecording /\ RowsOf(Rec) # {} => Rec \in troubled'
    BY <1>1, RecFits DEF Crash, JobTyping
  <1>4. JobTyping'
    BY <1>1, <1>2, <1>3 DEF JobTyping
  <1>5. AttemptsPaid'
    BY <1>1, <1>2, FaceJobsAssumption DEF JobInv, JobTyping, AttemptsPaid
  <1>6. WorkerHasJob'
    BY <1>2 DEF WorkerHasJob
  <1>7. RowsHaveRecording'
    BY <1>2 DEF JobInv, RowsHaveRecording, RowsOf
  <1>8. FacesOutside'
    <2>1. ASSUME NEW r \in Recordings, r \notin troubled', source[r] # "gone"
          PROVE  IF job[r] = "done" THEN RowsOf(r) = Stored(r, NFaces) /\ RowsOf(r) \subseteq tracked ELSE RowsOf(r) = {}
      <3>1. CASE r = Rec
        <4>1. job[r] # "done" /\ Rec # NoRecording
          BY <3>1, FaceJobsAssumption DEF JobInv, WorkerHasJob
        <4> QED
          BY <1>3, <2>1, <3>1, <4>1
      <3>2. CASE r # Rec
        BY <1>3, <2>1, <3>2 DEF JobInv, FacesOutside, Untroubled
      <3> QED
        BY <3>1, <3>2
    <2> QED
      BY <1>2, <2>1 DEF FacesOutside, RowsOf, Untroubled, Stored
  <1>9. WorkInRange(worker)' /\ FacesAtHand(worker)'
    BY <1>2, FaceJobsAssumption DEF WorkInRange, FacesAtHand, Untroubled
  <1> QED
    BY <1>4, <1>5, <1>6, <1>7, <1>8, <1>9 DEF JobInv
-----------------------------------------------------------------------------
(* Jobs that say they run are queued again, and nobody runs one.            *)
LEMMA RequeueKeeps == ASSUME JobInv, RequeueRunning PROVE JobInv'
PROOF
  <1>1. JobTyping /\ Rec = NoRecording
    BY DEF JobInv, WorkerHasJob, RequeueRunning
  <1>2. /\ UNCHANGED <<source, attempts, rows, tracked, grouped, troubles, troubled>> /\ stuck' = {}
        /\ worker' \in WorkerSet /\ worker'.at = "idle" /\ worker'.rec = NoRecording /\ Rec' = NoRecording
    BY IdleFits DEF RequeueRunning, Rec
  <1>3. /\ job' \in [Recordings -> JobStates]
        /\ \A r \in Recordings : job'[r] = IF job[r] = "running" THEN "pending" ELSE job[r]
    BY <1>1 DEF RequeueRunning, JobTyping, JobStates
  <1>4. JobTyping'
    BY <1>1, <1>2, <1>3 DEF JobTyping
  <1>5. AttemptsPaid'
    <2>1. ASSUME NEW r \in Recordings
          PROVE  /\ attempts[r] <= MaxAttempts + troubles
                 /\ job'[r] \in {"none", "pending"} => source[r] = "gone" \/ attempts[r] <= MaxAttempts + troubles - 1
                 /\ job'[r] # "running"
      BY <1>1, <1>3, FaceJobsAssumption DEF JobInv, AttemptsPaid
    <2> QED
      BY <1>2, <2>1 DEF AttemptsPaid
  <1>6. WorkerHasJob'
    BY <1>2, <1>3 DEF WorkerHasJob
  <1>7. RowsHaveRecording'
    BY <1>2, <1>3 DEF JobInv, RowsHaveRecording, RowsOf
  <1>8. FacesOutside'
    <2>1. ASSUME NEW r \in Recordings, Untroubled(r)
          PROVE  IF job'[r] = "done" THEN RowsOf(r) = Stored(r, NFaces) /\ RowsOf(r) \subseteq tracked ELSE RowsOf(r) = {}
      BY <1>1, <1>3, <2>1, FaceJobsAssumption DEF JobInv, FacesOutside
    <2> QED
      BY <1>2, <2>1 DEF FacesOutside, RowsOf, Untroubled, Stored
  <1>9. WorkInRange(worker)' /\ FacesAtHand(worker)'
    BY <1>2, FaceJobsAssumption DEF WorkInRange, FacesAtHand, Untroubled
  <1> QED
    BY <1>4, <1>5, <1>6, <1>7, <1>8, <1>9 DEF JobInv

(* A job that is claimed has no faces, or that is noted.                    *)
LEMMA ClaimKeeps == ASSUME JobInv, ClaimNext PROVE JobInv'
PROOF
  <1>1. JobTyping /\ Rec = NoRecording
    BY DEF JobInv, WorkerHasJob, ClaimNext
  <1>2. PICK r \in Recordings :
          /\ Runnable(r)
          /\ job' = [job EXCEPT ![r] = "running"] /\ attempts' = [attempts EXCEPT ![r] = attempts[r] + 1]
          /\ worker' = [Idle EXCEPT !.at = "open", !.rec = r]
    BY <1>1 DEF ClaimNext, JobTyping
  <1>3. UNCHANGED <<source, rows, tracked, grouped, troubles, stuck, troubled>>
    BY DEF ClaimNext
  <1>4. worker' \in WorkerSet /\ worker'.at = "open" /\ worker'.rec = r /\ worker'.next = 1 /\ Rec' = r
    BY <1>2, IdleFits DEF WorkerSet, WorkerSteps, Rec
  <1>5. /\ job' \in [Recordings -> JobStates] /\ job'[r] = "running" /\ \A q \in Recordings : q # r => job'[q] = job[q]
        /\ attempts' \in [Recordings -> Nat] /\ attempts'[r] = attempts[r] + 1
        /\ \A q \in Recordings : q # r => attempts'[q] = attempts[q]
    BY <1>1, <1>2 DEF JobTyping, JobStates
  <1>6. JobTyping'
    BY <1>1, <1>3, <1>4, <1>5 DEF JobTyping
  <1>7. job[r] \in {"pending", "failed"} /\ r # Rec /\ source[r] # "gone"
    BY <1>1, <1>2, FaceJobsAssumption DEF Runnable, JobInv, RowsHaveRecording
  <1>8. AttemptsPaid'
    <2>1. attempts[r] \in Nat /\ troubles \in Nat /\ attempts'[r] <= MaxAttempts + troubles
      BY <1>1, <1>2, <1>5, <1>7, FaceJobsAssumption DEF JobInv, JobTyping, AttemptsPaid, Runnable
    <2>2. ASSUME NEW q \in Recordings, q # r
          PROVE  /\ attempts'[q] <= MaxAttempts + troubles
                 /\ job'[q] \in {"none", "pending", "running"} => source[q] = "gone" \/ attempts'[q] <= MaxAttempts + troubles - 1
      BY <1>1, <1>5, <2>2, FaceJobsAssumption DEF JobInv, AttemptsPaid
    <2> QED
      BY <1>3, <1>4, <1>5, <2>1, <2>2 DEF AttemptsPaid
  <1>9. WorkerHasJob'
    BY <1>1, <1>3, <1>4, <1>5, FaceJobsAssumption DEF JobInv, WorkerHasJob, ClaimNext
  <1>10. RowsHaveRecording'
    BY <1>3, <1>5, <1>7 DEF JobInv, RowsHaveRecording, RowsOf
  <1>11. FacesOutside'
    <2>1. ASSUME NEW q \in Recordings, q # r, Untroubled(q)
          PROVE  IF job'[q] = "done" THEN RowsOf(q) = Stored(q, NFaces)' /\ RowsOf(q) \subseteq tracked ELSE RowsOf(q) = {}
      <3>1. Stored(q, NFaces)' = Stored(q, NFaces)
        BY <1>5, <2>1 DEF Stored
      <3> QED
        BY <1>1, <1>5, <2>1, <3>1, FaceJobsAssumption DEF JobInv, FacesOutside
    <2> QED
      BY <1>3, <1>4, <2>1 DEF FacesOutside, RowsOf, Untroubled
  <1>12. WorkInRange(worker)'
    BY <1>4, FaceJobsAssumption DEF WorkInRange
  <1>13. FacesAtHand(worker)'
    <2>1. ASSUME r \notin troubled PROVE RowsOf(r) = {} /\ r \notin grouped
      BY <1>7, <2>1 DEF JobInv, FacesOutside, Untroubled, RowsHaveRecording
    <2>2. Stored(r, 0)' = {}
      BY DEF Stored
    <2>3. RowsOf(r)' = RowsOf(r) /\ worker'.next - 1 = 0 /\ worker'.next <= NFaces
      BY <1>3, <1>4, FaceJobsAssumption DEF RowsOf
    <2> QED
      BY <1>3, <1>4, <2>1, <2>2, <2>3 DEF FacesAtHand, Untroubled
  <1> QED
    BY <1>6, <1>8, <1>9, <1>10, <1>11, <1>12, <1>13 DEF JobInv

(* Steps that store nothing.                                                *)
LEMMA NextStepKeeps == ASSUME JobInv, Open \/ Extract \/ Analyse \/ StepFails PROVE JobInv'
PROOF
  <1>1. JobTyping /\ Rec # NoRecording /\ worker \in WorkerSet
    BY DEF JobInv, JobTyping, WorkerHasJob, Open, Extract, Analyse, StepFails
  <1>2. UNCHANGED <<source, job, attempts, rows, tracked, grouped, stuck, troubled>> /\ troubles' \in troubles..MaxTroubles
    BY <1>1, FaceJobsAssumption DEF Open, Extract, Analyse, StepFails, Calm, Trouble, JobTyping
  <1>3. PICK w \in WorkerSet :
          /\ worker' = w /\ w.rec = Rec /\ w.next = worker.next
          /\ \/ worker.at \in {"open", "extract"} /\ w.at \in {"extract", "analyse"}
             \/ worker.at = "analyse" /\ w.at = "store"
             \/ w.at = "fail"
    <2>1. CASE Open
      <3>1. [worker EXCEPT !.at = "extract"] \in WorkerSet
        BY <1>1 DEF WorkerSet, WorkerSteps
      <3> QED
        BY <1>1, <2>1, <3>1 DEF Open, GoTo, WorkerSet, Rec
    <2>2. CASE Extract
      <3>1. [worker EXCEPT !.at = "analyse"] \in WorkerSet
        BY <1>1 DEF WorkerSet, WorkerSteps
      <3> QED
        BY <1>1, <2>2, <3>1 DEF Extract, GoTo, WorkerSet, Rec
    <2>3. CASE Analyse
      <3>1. [worker EXCEPT !.at = "store", !.batch = BatchSize] \in WorkerSet
        <4>1. BatchSize \in Int
          BY FaceJobsAssumption
        <4> QED
          BY <1>1, <4>1 DEF WorkerSet, WorkerSteps
      <3> QED
        BY <1>1, <2>3, <3>1 DEF Analyse, WorkerSet, Rec
    <2>4. CASE StepFails
      <3>1. [worker EXCEPT !.at = "fail"] \in WorkerSet
        BY <1>1 DEF WorkerSet, WorkerSteps
      <3> QED
        BY <1>1, <2>4, <3>1 DEF StepFails, GoTo, WorkerSet, Rec
    <2> QED
      BY <2>1, <2>2, <2>3, <2>4
  <1>4. WorkInRange(w) /\ FacesAtHand(w)
    BY <1>3 DEF JobInv, WorkInRange, FacesAtHand, Rec
  <1> QED
    BY <1>1, <1>2, <1>3, <1>4, WorkerGoesOn DEF JobTyping

(* All the faces are there to be grouped.                                   *)
LEMMA AssignKeeps == ASSUME JobInv, Assign PROVE JobInv'
PROOF
  <1>1. JobTyping /\ Rec # NoRecording /\ worker \in WorkerSet /\ worker.at = "assign"
    BY DEF JobInv, JobTyping, WorkerHasJob, Assign
  <1>2. UNCHANGED <<source, job, attempts, rows, tracked, grouped, stuck, troubled>> /\ troubles' \in troubles..MaxTroubles
    BY <1>1, FaceJobsAssumption DEF Assign, Calm, JobTyping
  <1>3. CASE Rec \in grouped \/ RowsOf(Rec) = {}
    <2>1. PICK w \in WorkerSet : worker' = w /\ w.rec = Rec /\ w.at = "complete"
      <3>1. [worker EXCEPT !.at = "complete"] \in WorkerSet
        BY <1>1 DEF WorkerSet, WorkerSteps
      <3> QED
        BY <1>1, <1>3, <3>1 DEF Assign, WorkerSet, Rec
    <2>2. WorkInRange(w) /\ FacesAtHand(w)
      BY <1>1, <1>3, <2>1 DEF JobInv, WorkInRange, FacesAtHand, Rec
    <2> QED
      BY <1>1, <1>2, <2>1, <2>2, WorkerGoesOn DEF JobTyping
  <1>4. CASE Rec \notin grouped /\ RowsOf(Rec) # {}
    <2>1. PICK w \in WorkerSet : worker' = w /\ w.rec = Rec /\ w.at = "group" /\ w.todo = RowsOf(Rec)
      <3>1. RowsOf(Rec) \subseteq FaceRows
        BY <1>1 DEF JobTyping, RowsOf
      <3>2. [worker EXCEPT !.at = "group", !.todo = RowsOf(Rec)] \in WorkerSet
        BY <1>1, <3>1 DEF WorkerSet, WorkerSteps
      <3> QED
        BY <1>1, <1>4, <3>2 DEF Assign, WorkerSet, Rec
    <2>2. WorkInRange(w) /\ FacesAtHand(w)
      BY <1>1, <2>1 DEF JobInv, WorkInRange, FacesAtHand, Rec
    <2> QED
      BY <1>1, <1>2, <2>1, <2>2, WorkerGoesOn DEF JobTyping
  <1> QED
    BY <1>3, <1>4

(* One face is stored.                                                      *)
LEMMA StoreKeeps == ASSUME JobInv, Store PROVE JobInv'
PROOF
  <1>1. JobTyping /\ Rec # NoRecording /\ worker \in WorkerSet /\ worker.at = "store" 
    BY RecFits DEF JobInv, JobTyping, WorkerHasJob, Store
  <1> PICK r \in Recordings : r = Rec
    BY <1>1, RecFits
  <1>2. UNCHANGED <<source, job, attempts, tracked, grouped, troubles, stuck, troubled>> /\ source[r] # "gone"
    BY DEF Store, Present
  <1> DEFINE step == IF worker.next = NFaces THEN "assign" ELSE IF worker.batch = 1 THEN "analyse" ELSE "store"
             new == [worker EXCEPT !.next = worker.next + 1, !.batch = worker.batch - 1, !.at = step]
             face == <<r, worker.next, attempts[r]>>
  <1>3. worker.next \in Nat \ {0} /\ worker.batch \in Int /\ job[r] = "running"
    BY <1>1, <1>2, WorkerFits, FaceJobsAssumption DEF JobInv, WorkerHasJob
  <1>4. PICK w \in WorkerSet : worker' = w /\ w.rec = r /\ w.next = worker.next + 1 /\ w.at = step
    <2>1. worker.next + 1 \in Nat \ {0} /\ worker.batch - 1 \in Int
      BY <1>3
    <2>2. step \in WorkerSteps
      BY DEF WorkerSteps
    <2> HIDE DEF step
    <2>3. new \in WorkerSet /\ new.rec = worker.rec /\ new.next = worker.next + 1 /\ new.at = step
      BY <1>1, <2>1, <2>2 DEF WorkerSet
    <2>4. worker' = new
      BY <1>1 DEF Store, step
    <2> QED
      BY <2>3, <2>4 DEF Rec
  <1>5. rows' = rows \cup {face}
    BY DEF Store
  <1> HIDE DEF step, new
  <1>6. /\ RowsOf(r)' = RowsOf(r) \cup {face}
        /\ \A q \in Recordings : q # r => RowsOf(q)' = RowsOf(q)
    <2>1. PICK f : f = face
      OBVIOUS
    <2>2. f[1] = r /\ rows' = rows \cup {f}
      BY <1>5, <2>1
    <2> HIDE DEF face
    <2> QED
      BY <2>1, <2>2 DEF RowsOf
  <1>7. worker.next \in 1..NFaces
    BY <1>1, <1>3, FaceJobsAssumption DEF JobInv, WorkInRange
  <1>8. face \in FaceRows
    BY <1>1, <1>7 DEF FaceRows, JobTyping
  <1>9. Rec' = r /\ w.at \in {"assign", "analyse", "store"}
    BY <1>4 DEF Rec, step
  <1>10. JobTyping'
    BY <1>1, <1>2, <1>4, <1>5, <1>8 DEF JobTyping
  <1>11. AttemptsPaid'
    BY <1>2, <1>9 DEF JobInv, AttemptsPaid
  <1>12. WorkerHasJob'
    BY <1>1, <1>2, <1>4, <1>9 DEF JobInv, WorkerHasJob
  <1>13. RowsHaveRecording'
    <2>1. ASSUME NEW q \in Recordings, source[q] = "gone" PROVE RowsOf(q)' = {} /\ job[q] = "none"
      BY <1>2, <1>6, <2>1 DEF JobInv, RowsHaveRecording
    <2>2. ASSUME NEW q \in grouped PROVE RowsOf(q)' # {}
      <3>1. q \in Recordings /\ RowsOf(q) # {}
        BY <1>1, <2>2 DEF JobInv, JobTyping, RowsHaveRecording
      <3>2. RowsOf(q) \subseteq RowsOf(q)'
        BY <1>6, <3>1
      <3> QED
        BY <3>1, <3>2
    <2> QED
      BY <1>2, <2>1, <2>2 DEF RowsHaveRecording
  <1>14. \A q \in Recordings, n \in Int : Stored(q, n)' = Stored(q, n)
    BY <1>2 DEF Stored
  <1>15. FacesOutside'
    <2>1. ASSUME NEW q \in Recordings, q # r, Untroubled(q)
          PROVE  IF job[q] = "done" THEN RowsOf(q)' = Stored(q, NFaces)' /\ RowsOf(q)' \subseteq tracked ELSE RowsOf(q)' = {}
      BY <1>6, <1>14, <2>1, FaceJobsAssumption DEF JobInv, FacesOutside
    <2> QED
      BY <1>2, <1>9, <2>1 DEF FacesOutside, Untroubled
  <1>16. w.at # "assign" => w.next <= NFaces
    BY <1>4, <1>7, FaceJobsAssumption DEF step
  <1>17. WorkInRange(w)'
    BY <1>9, <1>16 DEF WorkInRange
  <1>18. Untroubled(r) => RowsOf(r)' = Stored(r, worker.next)
    <2>1. Untroubled(r) => RowsOf(r) = Stored(r, worker.next - 1)
      BY <1>1 DEF JobInv, FacesAtHand, Rec
    <2>2. Stored(r, worker.next) = Stored(r, worker.next - 1) \cup {face}
      <3>1. 1..worker.next = (1..(worker.next - 1)) \cup {worker.next}
        BY <1>7, FaceJobsAssumption
      <3> QED
        BY <3>1 DEF Stored, face
    <2> QED
      BY <1>6, <2>1, <2>2
  <1>19. w.at = "assign" => worker.next = NFaces
    BY <1>4 DEF step
  <1>20. FacesAtHand(w)'
    <2>1. CASE Untroubled(r)
      <3>1. r \notin grouped
        BY <1>1, <2>1 DEF JobInv, FacesAtHand, Rec
      <3>2. w.next - 1 = worker.next
        BY <1>3, <1>4
      <3>3. RowsOf(w.rec)' = Stored(w.rec, w.next - 1)'
        <4>1. PICK n \in Int : n = worker.next
          BY <1>3
        <4>2. RowsOf(r)' = Stored(r, n) /\ Stored(r, n)' = Stored(r, n)
          BY <1>14, <1>18, <2>1, <4>1
        <4> QED
          BY <1>4, <3>2, <4>1, <4>2
      <3>4. w.at = "assign" => RowsOf(w.rec)' = Stored(w.rec, NFaces)'
        BY <1>4, <1>19, <3>2, <3>3
      <3> QED
        BY <1>2, <1>4, <1>9, <3>1, <3>3, <3>4 DEF FacesAtHand
    <2>2. CASE ~Untroubled(r)
      BY <1>2, <1>4, <2>2 DEF FacesAtHand, Untroubled
    <2> QED
      BY <2>1, <2>2
  <1> QED
    BY <1>4, <1>10, <1>11, <1>12, <1>13, <1>15, <1>17, <1>20 DEF JobInv

(* A track is of faces that are yet to be grouped.                          *)
LEMMA StoreTrackKeeps == ASSUME JobInv, StoreTrack PROVE JobInv'
PROOF
  <1>1. JobTyping /\ Rec # NoRecording /\ worker \in WorkerSet /\ worker.at = "group"
    BY DEF JobInv, JobTyping, WorkerHasJob, StoreTrack
  <1> PICK r \in Recordings : r = Rec
    BY <1>1, RecFits
  <1>2. /\ UNCHANGED <<source, job, attempts, rows, tracked, troubles, stuck, troubled>> /\ grouped' = grouped \cup {r}
        /\ source[r] # "gone"
    BY DEF StoreTrack, Present
  <1>3. PICK g \in (SUBSET worker.todo) \ {{}} : worker' = [worker EXCEPT !.at = "link", !.group = g]
    BY DEF StoreTrack
  <1>4. worker.todo \subseteq RowsOf(r) /\ RowsOf(r) # {}
    <2>1. WorkInRange(worker) /\ worker.rec = r
      BY DEF JobInv, Rec
    <2>2. worker.todo \subseteq RowsOf(r)
      BY <1>1, <1>2, <2>1 DEF WorkInRange
    <2>3. g \subseteq worker.todo /\ g # {}
      BY <1>3
    <2> QED
      BY <2>2, <2>3
  <1>5. PICK w \in WorkerSet : worker' = w /\ w.rec = r /\ w.at = "link" /\ w.todo = worker.todo /\ w.group = g
    <2>1. g \subseteq FaceRows
      BY <1>1, WorkerFits
    <2>2. [worker EXCEPT !.at = "link", !.group = g] \in WorkerSet
      BY <1>1, <2>1 DEF WorkerSet, WorkerSteps
    <2> QED
      BY <1>1, <1>3, <2>2 DEF WorkerSet, Rec
  <1>6. JobTyping' /\ Rec' = r
    BY <1>1, <1>2, <1>5 DEF JobTyping, Rec
  <1>7. AttemptsPaid' /\ WorkerHasJob'
    BY <1>1, <1>2, <1>5, <1>6 DEF JobInv, AttemptsPaid, WorkerHasJob
  <1>8. RowsHaveRecording'
    BY <1>2, <1>4 DEF JobInv, RowsHaveRecording, RowsOf
  <1>9. FacesOutside'
    BY <1>2, <1>6 DEF JobInv, FacesOutside, RowsOf, Untroubled, Stored
  <1>10. WorkInRange(w)'
    BY <1>2, <1>3, <1>4, <1>5 DEF WorkInRange, RowsOf
  <1>11. FacesAtHand(w)'
    <2>1. Untroubled(r) => RowsOf(r) = Stored(r, NFaces) /\ RowsOf(r) \ worker.todo \subseteq tracked
      BY <1>1 DEF JobInv, FacesAtHand, Rec
    <2>2. RowsOf(r)' = RowsOf(r) /\ Stored(r, NFaces)' = Stored(r, NFaces) /\ Untroubled(r)' = Untroubled(r)
      BY <1>2 DEF RowsOf, Stored, Untroubled
    <2> QED
      BY <1>2, <1>5, <2>1, <2>2 DEF FacesAtHand
  <1> QED
    BY <1>5, <1>6, <1>7, <1>8, <1>9, <1>10, <1>11 DEF JobInv

(* The faces of the track are in it, if they are there.                     *)
LEMMA AssignTrackFacesKeeps == ASSUME JobInv, AssignTrackFaces PROVE JobInv'
PROOF
  <1>1. JobTyping /\ Rec # NoRecording /\ worker \in WorkerSet /\ worker.at = "link"
    BY DEF JobInv, JobTyping, WorkerHasJob, AssignTrackFaces
  <1> PICK r \in Recordings : r = Rec
    BY <1>1, RecFits
  <1>2. /\ UNCHANGED <<source, job, attempts, rows, grouped, troubles, stuck, troubled>>
        /\ tracked' = tracked \cup (worker.group \cap rows)
    BY DEF AssignTrackFaces
  <1> DEFINE step == IF worker.todo = worker.group THEN "complete" ELSE "group"
             left == worker.todo \ worker.group
             new == [worker EXCEPT !.todo = left, !.at = step]
  <1>3. PICK w \in WorkerSet : worker' = w /\ w.rec = r /\ w.at = step /\ w.todo = left
    <2>1. left \subseteq FaceRows /\ step \in WorkerSteps
      BY <1>1, WorkerFits DEF WorkerSteps
    <2> HIDE DEF step, left
    <2>2. new \in WorkerSet /\ new.rec = worker.rec /\ new.at = step /\ new.todo = left
      BY <1>1, <2>1 DEF WorkerSet
    <2>3. worker' = new
      BY DEF AssignTrackFaces, step, left
    <2> QED
      BY <2>2, <2>3 DEF Rec
  <1>4. w.at \in {"complete", "group"}
    BY <1>3
  <1>5. JobTyping' /\ Rec' = r
    BY <1>1, <1>2, <1>3 DEF JobTyping, Rec
  <1>6. AttemptsPaid' /\ WorkerHasJob'
    BY <1>1, <1>2, <1>3, <1>4, <1>5 DEF JobInv, AttemptsPaid, WorkerHasJob
  <1>7. RowsHaveRecording'
    BY <1>2 DEF JobInv, RowsHaveRecording, RowsOf
  <1>8. FacesOutside'
    BY <1>2, <1>5 DEF JobInv, FacesOutside, RowsOf, Untroubled, Stored
  <1>9. WorkInRange(w)'
    <2>1. source[r] # "gone" => worker.todo \subseteq RowsOf(r)
      BY <1>1 DEF JobInv, WorkInRange, Rec
    <2> QED
      BY <1>2, <1>3, <1>4, <2>1 DEF WorkInRange, RowsOf
  <1>10. FacesAtHand(w)'
    <2>1. Untroubled(r) => /\ RowsOf(r) = Stored(r, NFaces) /\ RowsOf(r) \ worker.todo \subseteq tracked
                           /\ worker.todo \subseteq RowsOf(r) /\ worker.group \subseteq worker.todo
      BY <1>1 DEF JobInv, FacesAtHand, WorkInRange, Rec, Untroubled
    <2>2. RowsOf(r)' = RowsOf(r) /\ Stored(r, NFaces)' = Stored(r, NFaces) /\ Untroubled(r)' = Untroubled(r) /\ RowsOf(r) \subseteq rows
      BY <1>2 DEF RowsOf, Stored, Untroubled
    <2>3. Untroubled(r) => RowsOf(r) \ left \subseteq tracked'
      BY <1>2, <2>1, <2>2
    <2>4. w.at = "complete" => left = {}
      BY <1>3
    <2> QED
      BY <1>3, <1>4, <2>1, <2>2, <2>3, <2>4 DEF FacesAtHand
  <1> QED
    BY <1>3, <1>5, <1>6, <1>7, <1>8, <1>9, <1>10 DEF JobInv

(* An assignment that fails is noted.                                       *)
LEMMA AssignFailsKeeps == ASSUME JobInv, AssignFails PROVE JobInv'
PROOF
  <1>1. JobTyping /\ Rec # NoRecording /\ worker \in WorkerSet /\ Rec \in Recordings
    BY RecFits DEF JobInv, JobTyping, WorkerHasJob, AssignFails
  <1>2. /\ UNCHANGED <<source, job, attempts, rows, tracked, grouped, stuck>> /\ troubles' \in troubles..MaxTroubles
        /\ troubled' = troubled \cup {Rec}
    BY <1>1, FaceJobsAssumption DEF AssignFails, Trouble, JobTyping
  <1>3. PICK w \in WorkerSet : worker' = w /\ w.rec = Rec /\ w.at = "complete"
    <2>1. [worker EXCEPT !.at = "complete"] \in WorkerSet
      BY <1>1 DEF WorkerSet, WorkerSteps
    <2> QED
      BY <1>1, <2>1 DEF AssignFails, GoTo, WorkerSet, Rec
  <1>4. troubled \subseteq troubled' /\ troubled' \subseteq Recordings /\ Rec' = Rec
    BY <1>1, <1>2, <1>3 DEF JobTyping, Rec
  <1>5. WorkInRange(w) /\ ~Untroubled(Rec)'
    BY <1>2, <1>3, <1>4 DEF WorkInRange, Untroubled
  <1> QED
    BY <1>1, <1>2, <1>3, <1>4, <1>5, WorkerGoesOn

(* The updates that close a job.                                            *)
LEMMA ClosedJob ==
  ASSUME JobTyping, Rec \in Recordings, NEW state \in JobStates, job' = Closed(state)
  PROVE  /\ job' \in [Recordings -> JobStates]
         /\ job'[Rec] = IF job[Rec] = "none" THEN "none" ELSE state
         /\ \A r \in Recordings : r # Rec => job'[r] = job[r]
PROOF
  BY DEF JobTyping, Closed, JobStates

(* A job is done with all its faces, or failed and that is noted.           *)
LEMMA ClosingKeeps == ASSUME JobInv, Skip \/ Complete \/ Fail PROVE JobInv'
PROOF
  <1>1. JobTyping /\ Rec # NoRecording /\ Rec \in Recordings
    BY RecFits DEF JobInv, JobTyping, WorkerHasJob, Skip, Complete, Fail
  <1>2. /\ UNCHANGED <<source, attempts, rows, tracked, grouped, stuck>> /\ troubles' \in troubles..MaxTroubles
        /\ worker' = Idle /\ stuck \subseteq Recordings
    BY <1>1, FaceJobsAssumption DEF Skip, Complete, Fail, Trouble, JobTyping
  <1>3. CASE Skip
    <2>1. worker.at = "open" /\ job' = Closed("skipped") /\ troubled' = troubled
      BY <1>3 DEF Skip
    <2>2. Rec \in troubled \/ source[Rec] = "gone" \/ RowsOf(Rec) = {}
      <3>1. worker.next = 1 /\ worker.rec = Rec
        BY <2>1 DEF JobInv, WorkInRange, Rec
      <3>2. Stored(Rec, worker.next - 1) = {}
        BY <3>1 DEF Stored
      <3>3. Untroubled(Rec) => RowsOf(Rec) = Stored(Rec, worker.next - 1)
        BY <2>1, <3>1 DEF JobInv, FacesAtHand
      <3> QED
        BY <1>1, <3>2, <3>3 DEF Untroubled
    <2> QED
      BY <1>1, <1>2, <2>1, <2>2, ClosedJob, WorkerLeaves DEF JobTyping, JobStates
  <1>4. CASE Complete
    <2>1. worker.at = "complete" /\ job' = Closed("done") /\ troubled' = troubled
      BY <1>4 DEF Complete
    <2>2. Rec \in troubled \/ source[Rec] = "gone" \/ (RowsOf(Rec) = Stored(Rec, NFaces) /\ RowsOf(Rec) \subseteq tracked)
      BY <1>1, <2>1 DEF JobInv, FacesAtHand, Untroubled, Rec
    <2> QED
      BY <1>1, <1>2, <2>1, <2>2, ClosedJob, WorkerLeaves DEF JobTyping, JobStates
  <1>5. CASE Fail
    <2>1. job' = Closed("failed") /\ troubled' = IF RowsOf(Rec) # {} THEN troubled \cup {Rec} ELSE troubled
      BY <1>5 DEF Fail
    <2>2. troubled \subseteq troubled' /\ troubled' \subseteq Recordings /\ (Rec \in troubled' \/ RowsOf(Rec) = {})
      BY <1>1, <2>1 DEF JobTyping
    <2> QED
      BY <1>1, <1>2, <2>1, <2>2, ClosedJob, WorkerLeaves DEF JobTyping, JobStates
  <1> QED
    BY <1>3, <1>4, <1>5

(* A job that cannot be closed still says it runs, and is noted.            *)
LEMMA FailUnsavedKeeps == ASSUME JobInv, FailUnsaved PROVE JobInv'
PROOF
  <1>1. JobTyping /\ Rec # NoRecording /\ Rec \in Recordings
    BY RecFits DEF JobInv, JobTyping, WorkerHasJob, FailUnsaved
  <1>2. /\ UNCHANGED <<source, job, attempts, rows, tracked, grouped>>
        /\ troubles' = troubles + 1 /\ troubles' \in troubles..MaxTroubles
        /\ worker' = Idle /\ stuck' = stuck \cup {Rec}
        /\ troubled' = IF RowsOf(Rec) # {} THEN troubled \cup {Rec} ELSE troubled
    BY <1>1, FaceJobsAssumption DEF FailUnsaved, Trouble, JobTyping
  <1>3. /\ troubled \subseteq troubled' /\ troubled' \subseteq Recordings /\ (Rec \in troubled' \/ RowsOf(Rec) = {})
        /\ stuck \subseteq stuck' /\ stuck' \subseteq Recordings
    BY <1>1, <1>2 DEF JobTyping
  <1>4. /\ job' \in [Recordings -> JobStates]
        /\ job'[Rec] = IF job[Rec] = "none" THEN "none" ELSE "running"
        /\ \A r \in Recordings : r # Rec => job'[r] = job[r]
    BY <1>1, <1>2 DEF JobInv, JobTyping, WorkerHasJob
  <1> QED
    BY <1>1, <1>2, <1>3, <1>4, WorkerLeaves

(* Every step keeps the invariant of the jobs.                              *)
LEMMA JobNextKeeps == ASSUME JobInv, JobNext PROVE JobInv'
PROOF
  <1>1. ASSUME NEW r \in Recordings, Enqueue(r) \/ LoseFile(r) \/ LoseRow(r) PROVE JobInv'
    BY <1>1, EnqueueKeeps, LoseFileKeeps, LoseRowKeeps
  <1>2. CASE Crash
    BY <1>2, CrashKeeps
  <1>3. CASE WorkerStep
    BY <1>3, RequeueKeeps, ClaimKeeps, NextStepKeeps, StoreKeeps, AssignKeeps, StoreTrackKeeps,
       AssignTrackFacesKeeps, AssignFailsKeeps, ClosingKeeps, FailUnsavedKeeps DEF WorkerStep
  <1> QED
    BY <1>1, <1>2, <1>3 DEF JobNext

(* A step of another part keeps it.                                         *)
LEMMA JobRestKeeps == ASSUME JobInv, UNCHANGED jobVars PROVE JobInv'
PROOF
  BY DEF JobInv, jobVars, JobTyping, AttemptsPaid, WorkerHasJob, RowsHaveRecording, FacesOutside, WorkInRange,
         FacesAtHand, RowsOf, Untroubled, Stored, Rec

(* The invariant is what the run checks of the jobs.                        *)
LEMMA JobInvSound == ASSUME JobInv PROVE JobTypeOK /\ AnalysedOnce
PROOF
  <1>1. JobTyping
    BY DEF JobInv
  <1>2. attempts \in [Recordings -> 0..(MaxAttempts + MaxTroubles)]
    <2>1. \A r \in Recordings : attempts[r] \in 0..(MaxAttempts + MaxTroubles)
      BY <1>1, FaceJobsAssumption DEF JobInv, JobTyping, AttemptsPaid
    <2> QED
      BY <1>1, <2>1 DEF JobTyping
  <1>3. JobTypeOK
    BY <1>1, <1>2, WorkerFits DEF JobTyping, JobTypeOK, JobStates, SourceStates
  <1>4. ASSUME NEW r \in Recordings, job[r] = "done", r \notin troubled
        PROVE  /\ \A d \in 1..NFaces : Cardinality({w \in RowsOf(r) : w[2] = d}) = 1
               /\ RowsOf(r) \subseteq tracked
    <2>1. r # Rec /\ Untroubled(r)
      BY <1>4, FaceJobsAssumption DEF JobInv, WorkerHasJob, RowsHaveRecording, Untroubled
    <2>2. RowsOf(r) = Stored(r, NFaces) /\ RowsOf(r) \subseteq tracked
      BY <1>4, <2>1 DEF JobInv, FacesOutside
    <2>3. ASSUME NEW d \in 1..NFaces PROVE Cardinality({w \in RowsOf(r) : w[2] = d}) = 1
      <3>1. {w \in RowsOf(r) : w[2] = d} = {<<r, d, attempts[r]>>}
        BY <2>2 DEF Stored
      <3> QED
        BY <3>1, FS_Singleton
    <2> QED
      BY <2>2, <2>3
  <1>5. AnalysedOnce
    BY <1>4 DEF JobInv, WorkerHasJob, AnalysedOnce
  <1> QED
    BY <1>3, <1>5

-----------------------------------------------------------------------------
(* The events of the live detectors.                                        *)
DetectorStates == {"none", "watch", "start", "create", "end", "finalize", "finish", "finalizeLast", "done"}
Detectors      == [at : DetectorStates, active : BOOLEAN, silent : Int, id : EventIDs \cup {NoEvent}]
RowStates      == {"none", "open", "ended", "pruned"}

EventsTyping ==
  /\ kind \in EventKinds
  /\ stream \in 0..Attachments
  /\ detector \in [1..Attachments -> Detectors]
  /\ motionActive \in BOOLEAN
  /\ eventID \in EventIDs \cup {NoEvent}
  /\ row \in [EventIDs -> RowStates]
  /\ frames \in 0..MaxFrames
  /\ overlapped \in BOOLEAN
  /\ excused \subseteq EventIDs

(* An event is named by the frame that started it, so that the next name is *)
(* a fresh one, and a detector is as it was made until its stream comes.    *)
EventsFit ==
  /\ motionActive => kind = Motion
  /\ \A e \in EventIDs : row[e] # "none" => e <= frames
  /\ eventID <= frames
  /\ \A a \in 1..Attachments :
       /\ a > stream => detector[a] = NoDetector
       /\ detector[a].id <= frames
       /\ detector[a].at \in {"start", "create"} => detector[a].id # NoEvent

NoMotion == ~motionActive /\ eventID = NoEvent

(* The detector's event is the current one, and so is the gate.             *)
Current(d) == /\ d.id # NoEvent /\ eventID = d.id
              /\ kind = Motion => motionActive

InDatabase(e) == row[e] = "open" \/ e \in excused

(* What a detector that is the only one knows of the runtime at each of its *)
(* steps: between the frame that starts an event and the frame that ends    *)
(* it, field and row follow one after the other.                            *)
InHand(d) ==
  \/ d.at = "watch" /\ d.active /\ Current(d) /\ InDatabase(d.id)
  \/ d.at = "watch" /\ ~d.active /\ d.id = NoEvent /\ NoMotion
  \/ d.at = "start" /\ d.active /\ d.id # NoEvent /\ row[d.id] = "none" /\ NoMotion
  \/ d.at = "create" /\ d.active /\ Current(d) /\ row[d.id] = "none"
  \/ d.at \in {"end", "finish"} /\ ~d.active /\ Current(d) /\ InDatabase(d.id)
  \/ d.at \in {"finalize", "finalizeLast"} /\ ~d.active /\ d.id # NoEvent /\ InDatabase(d.id) /\ NoMotion

LoneDetector ==
  /\ \A a \in 1..Attachments : Runs(a) => a = stream /\ InHand(detector[a])
  /\ (\A a \in 1..Attachments : ~Runs(a)) => NoMotion

OpenIsOwned ==
  \A e \in EventIDs \ excused : row[e] = "open" =>
    \E a \in 1..Attachments : Runs(a) /\ detector[a].id = e

EventsInv == EventsTyping /\ EventsFit /\ (~overlapped => LoneDetector /\ OpenIsOwned)

eventsStep == [EventsNext]_eventVars

(* Nothing is there: the types hold at the start.                           *)
LEMMA EventsTypingInit == ASSUME EventsInit PROVE EventsTyping
PROOF
  <1>1. NoDetector \in Detectors
    BY DEF NoDetector, Detectors, DetectorStates
  <1>2. detector \in [1..Attachments -> Detectors]
    BY <1>1 DEF EventsInit
  <1>3. row \in [EventIDs -> RowStates]
    BY DEF EventsInit, RowStates
  <1>4. kind \in EventKinds /\ motionActive \in BOOLEAN /\ eventID \in EventIDs \cup {NoEvent}
    BY DEF EventsInit
  <1>5. overlapped \in BOOLEAN /\ excused \subseteq EventIDs
    BY DEF EventsInit
  <1>6. stream \in 0..Attachments /\ frames \in 0..MaxFrames
    BY EventsAssumption DEF EventsInit
  <1> QED
    BY <1>2, <1>3, <1>4, <1>5, <1>6 DEF EventsTyping

(* No detector runs, and no event is open.                                  *)
LEMMA EventsInvInit == ASSUME EventsInit PROVE EventsInv
PROOF
  <1>1. EventsTyping
    BY EventsTypingInit
  <1>2. EventsFit
    BY DEF EventsInit, EventsFit, NoDetector, NoEvent
  <1>3. LoneDetector
    BY DEF EventsInit, LoneDetector, Runs, NoDetector, NoMotion
  <1>4. OpenIsOwned
    BY DEF EventsInit, OpenIsOwned
  <1> QED
    BY <1>1, <1>2, <1>3, <1>4 DEF EventsInv

(* One detector goes on, and the others stay as they are.                   *)
LEMMA DetectorMoves ==
  ASSUME EventsTyping, NEW a \in 1..Attachments, NEW rec \in Detectors, Goes(a, rec)
  PROVE  /\ detector' \in [1..Attachments -> Detectors]
         /\ detector'[a] = rec
         /\ \A b \in 1..Attachments : b # a => detector'[b] = detector[b]
PROOF
  BY DEF EventsTyping, Goes

(* The fields of a detector.                                                *)
LEMMA DetectorFits ==
  ASSUME EventsTyping, NEW a \in 1..Attachments
  PROVE  /\ detector[a] \in Detectors
         /\ detector[a].at \in DetectorStates /\ detector[a].active \in BOOLEAN
         /\ detector[a].silent \in Int /\ detector[a].id \in EventIDs \cup {NoEvent}
PROOF
  BY DEF EventsTyping, Detectors

(* If the one that runs is in hand after its step, no other is there to be. *)
LEMMA LoneGoesOn ==
  ASSUME EventsInv, ~overlapped, NEW a \in 1..Attachments, Runs(a), NEW rec \in Detectors, Goes(a, rec),
         stream' = stream, rec.at \notin {"none", "done"} => InHand(rec)',
         rec.at \in {"none", "done"} => NoMotion'
  PROVE  LoneDetector'
PROOF
  <1>1. /\ detector'[a] = rec
        /\ \A b \in 1..Attachments : b # a => detector'[b] = detector[b]
    BY DetectorMoves DEF EventsInv
  <1>2. a = stream /\ \A b \in 1..Attachments : b # a => ~Runs(b)
    BY DEF EventsInv, LoneDetector
  <1>3. \A b \in 1..Attachments : Runs(b)' => b = stream' /\ InHand(detector[b])'
    BY <1>1, <1>2 DEF Runs, InHand, Current, NoMotion, InDatabase
  <1>4. ASSUME \A b \in 1..Attachments : ~Runs(b)' PROVE NoMotion'
    BY <1>1, <1>4 DEF Runs
  <1> QED
    BY <1>3, <1>4 DEF LoneDetector

(* An event stays owned if its row and its owner stay.                      *)
LEMMA OwnerGoesOn ==
  ASSUME EventsInv, ~overlapped, NEW a \in 1..Attachments, Runs(a), NEW rec \in Detectors, Goes(a, rec),
         \A e \in EventIDs \ excused' : row'[e] = "open" =>
           \/ e \notin excused /\ row[e] = "open" /\ e # detector[a].id
           \/ rec.id = e /\ rec.at \notin {"none", "done"}
  PROVE  OpenIsOwned'
PROOF
  <1>1. detector'[a] = rec
    BY DetectorMoves DEF EventsInv
  <1>2. \A b \in 1..Attachments : Runs(b) => b = a
    BY DEF EventsInv, LoneDetector
  <1>3. ASSUME NEW e \in EventIDs \ excused', row'[e] = "open"
        PROVE  \E b \in 1..Attachments : Runs(b)' /\ (detector[b].id)' = e
    <2>1. CASE e \notin excused /\ row[e] = "open" /\ e # detector[a].id
      BY <1>2, <2>1 DEF EventsInv, OpenIsOwned
    <2>2. CASE rec.id = e /\ rec.at \notin {"none", "done"}
      BY <1>1, <2>2 DEF Runs
    <2> QED
      BY <1>3, <2>1, <2>2
  <1> QED
    BY <1>3 DEF OpenIsOwned

(* Events are numbers, with a smallest that is none.                        *)
LEMMA EventIDsAreNumbers == EventIDs \subseteq Nat /\ NoEvent \in Nat /\ \A e \in EventIDs : e # NoEvent
PROOF
  BY EventsAssumption DEF EventIDs, NoEvent

-----------------------------------------------------------------------------
(* A stream comes: its detector is the only one, or overlap is noted.       *)
LEMMA AttachKeeps == ASSUME EventsInv, Attach PROVE EventsInv'
PROOF
  <1>1. EventsTyping /\ EventsFit
    BY DEF EventsInv
  <1>2. PICK n \in 1..Attachments : n = stream + 1 /\ stream \in Nat /\ detector[n] = NoDetector
    BY <1>1, EventsAssumption DEF Attach, EventsTyping, EventsFit
  <1>3. PICK rec \in Detectors :
          /\ rec = [NoDetector EXCEPT !.at = "watch"]
          /\ rec.at = "watch" /\ ~rec.active /\ rec.id = NoEvent
    <2>1. NoDetector \in Detectors /\ ~NoDetector.active /\ NoDetector.id = NoEvent
      BY DEF Detectors, DetectorStates, NoDetector
    <2>2. [NoDetector EXCEPT !.at = "watch"] \in Detectors
      BY <2>1 DEF Detectors, DetectorStates
    <2> QED
      BY <2>1, <2>2 DEF Detectors
  <1>4. Goes(n, rec)
    <2>2. detector' = [detector EXCEPT ![n] = [detector[n] EXCEPT !.at = "watch"]]
      BY <1>1, <1>2 DEF Attach, EventsTyping
    <2> QED
      BY <1>2, <1>3, <2>2 DEF Goes
  <1>5. /\ detector' \in [1..Attachments -> Detectors] /\ detector'[n] = rec
        /\ \A b \in 1..Attachments : b # n => detector'[b] = detector[b]
    BY <1>1, <1>2, <1>3, <1>4, DetectorMoves
  <1>6. EventsTyping'
    BY <1>1, <1>2, <1>5 DEF Attach, EventsTyping
  <1>7. EventsFit'
    <2>1. \A b \in 1..Attachments : /\ b > stream' => detector'[b] = NoDetector
                                    /\ detector'[b].id <= frames'
                                    /\ detector'[b].at \in {"start", "create"} => detector'[b].id # NoEvent
      BY <1>1, <1>2, <1>3, <1>5, EventsAssumption DEF Attach, EventsTyping, EventsFit, NoEvent
    <2> QED
      BY <1>1, <2>1 DEF Attach, EventsFit
  <1>8. ASSUME ~overlapped' PROVE LoneDetector' /\ OpenIsOwned'
    <2>1. LoneDetector /\ OpenIsOwned /\ \A a \in 1..stream : ~Runs(a)
      BY <1>8 DEF Attach, EventsInv
    <2>2. \A a \in 1..Attachments : ~Runs(a)
      BY <1>1, <1>2, <2>1 DEF EventsFit, Runs, NoDetector
    <2>3. NoMotion
      BY <2>1, <2>2 DEF LoneDetector
    <2>4. \A b \in 1..Attachments : Runs(b)' => b = n
      BY <1>5, <2>2 DEF Runs
    <2>5. InHand(detector[n])'
      BY <1>3, <1>5, <2>3 DEF InHand, NoMotion, Attach
    <2>6. LoneDetector'
      BY <1>2, <1>3, <1>5, <2>4, <2>5 DEF LoneDetector, Attach, Runs
    <2>7. OpenIsOwned'
      BY <2>1, <2>2 DEF OpenIsOwned, Attach
    <2> QED
      BY <2>6, <2>7
  <1> QED
    BY <1>6, <1>7, <1>8 DEF EventsInv

(* What is common to the steps of one detector.                             *)
LEMMA OneGoesOn ==
  ASSUME EventsInv, NEW a \in 1..Attachments, Runs(a), NEW rec \in Detectors, Goes(a, rec),
         UNCHANGED <<kind, stream, overlapped>>,
         motionActive' \in BOOLEAN, motionActive' => kind = Motion, eventID' \in EventIDs \cup {NoEvent},
         row' \in [EventIDs -> RowStates], frames' \in frames..MaxFrames, excused' \subseteq EventIDs,
         eventID' <= frames', rec.id <= frames', rec.at \in {"start", "create"} => rec.id # NoEvent,
         \A e \in EventIDs : row'[e] # "none" => e <= frames',
         ~overlapped =>
           /\ rec.at \notin {"none", "done"} => InHand(rec)'
           /\ rec.at \in {"none", "done"} => NoMotion'
           /\ \A e \in EventIDs \ excused' : row'[e] = "open" =>
                \/ e \notin excused /\ row[e] = "open" /\ e # detector[a].id
                \/ rec.id = e /\ rec.at \notin {"none", "done"}
  PROVE  EventsInv'
PROOF
  <1>1. EventsTyping /\ EventsFit
    BY DEF EventsInv
  <1>2. /\ detector' \in [1..Attachments -> Detectors] /\ detector'[a] = rec
        /\ \A b \in 1..Attachments : b # a => detector'[b] = detector[b]
    BY <1>1, DetectorMoves
  <1>3. EventsTyping'
    BY <1>1, <1>2, EventsAssumption DEF EventsTyping
  <1>4. a <= stream
    BY <1>1 DEF EventsTyping, EventsFit, Runs, NoDetector
  <1>5. ASSUME NEW b \in 1..Attachments
        PROVE  /\ b > stream' => detector'[b] = NoDetector
               /\ detector'[b].id <= frames'
               /\ detector'[b].at \in {"start", "create"} => detector'[b].id # NoEvent
    <2>1. CASE b = a
      BY <1>2, <1>4, <2>1, <1>1, EventsAssumption DEF EventsTyping
    <2>2. CASE b # a
      <3>1. detector'[b] = detector[b] /\ detector[b].id \in EventIDs \cup {NoEvent}
        BY <1>1, <1>2, <2>2, DetectorFits
      <3> QED
        BY <3>1, <1>1, EventsAssumption DEF EventsTyping, EventsFit, EventIDs, NoEvent
    <2> QED
      BY <2>1, <2>2
  <1>7. EventsFit'
    BY <1>5 DEF EventsFit, EventsTyping
  <1>6. ASSUME ~overlapped PROVE LoneDetector' /\ OpenIsOwned'
    BY <1>6, LoneGoesOn, OwnerGoesOn
  <1> QED
    BY <1>3, <1>6, <1>7 DEF EventsInv

(* What a detector that is alone has in hand before its step.               *)
LEMMA HandOfLone ==
  ASSUME EventsInv, ~overlapped, NEW a \in 1..Attachments, Runs(a)
  PROVE  InHand(detector[a]) /\ OpenIsOwned /\ \A e \in EventIDs \ excused : row[e] = "open" => e = detector[a].id
PROOF
  BY DEF EventsInv, LoneDetector, OpenIsOwned

(* A frame begins an event, ends it, or changes nothing.                    *)
LEMMA FrameKeeps == ASSUME EventsInv, NEW a \in 1..Attachments, Frame(a) PROVE EventsInv'
PROOF
  <1>1. EventsTyping /\ EventsFit
    BY DEF EventsInv
  <1>2. PICK ratio \in Ratios, dt \in {1, Cooldown} :
          LET d == detector[a]
              silent == silentAfter(d, ratio, dt)
          IN Goes(a, [d EXCEPT !.silent = silent,
                               !.active = startsAt(d, ratio) \/ (d.active /\ ~endsAt(d, silent)),
                               !.id = IF startsAt(d, ratio) THEN frames + 1 ELSE d.id,
                               !.at = IF startsAt(d, ratio) THEN "start"
                                      ELSE IF endsAt(d, silent) THEN "end" ELSE "watch"])
    BY DEF Frame
  <1> DEFINE d == detector[a]
             silent == silentAfter(d, ratio, dt)
             starts == startsAt(d, ratio)
             ends == endsAt(d, silent)
             new == [d EXCEPT !.silent = silent, !.active = starts \/ (d.active /\ ~ends),
                              !.id = IF starts THEN frames + 1 ELSE d.id,
                              !.at = IF starts THEN "start" ELSE IF ends THEN "end" ELSE "watch"]
  <1>3. d \in Detectors /\ d.at = "watch" /\ d.active \in BOOLEAN /\ d.silent \in Int /\ d.id \in EventIDs \cup {NoEvent}
    BY <1>1, DetectorFits DEF Frame
  <1>4. frames \in Nat /\ frames + 1 \in EventIDs /\ frames + 1 # NoEvent /\ frames' \in frames..MaxFrames
    BY <1>1, EventsAssumption DEF Frame, EventsTyping, EventIDs, NoEvent
  <1>5. silent \in Int
    BY <1>3, EventsAssumption DEF silentAfter
  <1>6. starts \in BOOLEAN /\ ends \in BOOLEAN /\ (starts => ~d.active) /\ (ends => d.active)
    BY DEF startsAt, endsAt
  <1>7. new \in Detectors
    <2> HIDE DEF silent, starts, ends
    <2> QED
      BY <1>3, <1>4, <1>5, <1>6 DEF Detectors, DetectorStates
  <1>8. /\ new.at = IF starts THEN "start" ELSE IF ends THEN "end" ELSE "watch"
        /\ new.active = (starts \/ (d.active /\ ~ends))
        /\ new.id = IF starts THEN frames + 1 ELSE d.id
    BY <1>3 DEF Detectors
  <1> HIDE DEF silent, starts, ends
  <1>9. PICK rec \in Detectors :
          /\ Goes(a, rec)
          /\ rec.at = IF starts THEN "start" ELSE IF ends THEN "end" ELSE "watch"
          /\ rec.active = (starts \/ (d.active /\ ~ends))
          /\ rec.id = IF starts THEN frames + 1 ELSE d.id
    <2>1. Goes(a, new)
      BY <1>2 DEF silent, starts, ends
    <2> QED
      BY <1>7, <1>8, <2>1
  <1> HIDE DEF new, d
  <1>10. Runs(a)
    BY <1>3 DEF Runs, d
  <1>11. UNCHANGED <<kind, stream, overlapped, motionActive, eventID, row, excused>> /\ frames' = frames + 1
    BY DEF Frame
  <1>12. row[frames + 1] = "none"
    BY <1>1, <1>4 DEF EventsFit
  <1>13. ASSUME ~overlapped
         PROVE  /\ rec.at \notin {"none", "done"} => InHand(rec)'
                /\ rec.at \in {"none", "done"} => NoMotion'
                /\ \A e \in EventIDs \ excused' : row'[e] = "open" =>
                     \/ e \notin excused /\ row[e] = "open" /\ e # detector[a].id
                     \/ rec.id = e /\ rec.at \notin {"none", "done"}
    <2>1. InHand(d) /\ \A e \in EventIDs \ excused : row[e] = "open" => e = d.id
      BY <1>10, <1>13, HandOfLone DEF d
    <2>2. CASE d.active
      <3>1. Current(d) /\ InDatabase(d.id) /\ ~starts
        BY <1>3, <1>6, <2>1, <2>2 DEF InHand
      <3>2. rec.id = d.id /\ rec.at \in {"end", "watch"} /\ rec.active = (rec.at = "watch")
        BY <1>6, <1>9, <2>2, <3>1
      <3>3. InHand(rec)'
        BY <3>1, <3>2, <1>11 DEF InHand, Current, InDatabase
      <3> QED
        BY <2>1, <3>2, <3>3, <1>11
    <2>3. CASE ~d.active
      <3>1. NoMotion /\ d.id = NoEvent /\ ~ends
        BY <1>3, <1>6, <2>1, <2>3 DEF InHand
      <3>2. \A e \in EventIDs \ excused : row[e] # "open"
        BY <2>1, <3>1, EventIDsAreNumbers
      <3>3. InHand(rec)'
        BY <1>4, <1>6, <1>9, <1>11, <1>12, <2>3, <3>1 DEF InHand, NoMotion
      <3>4. rec.at \in {"start", "watch"}
        BY <1>9, <3>1
      <3> QED
        BY <3>2, <3>3, <3>4, <1>11
    <2> QED
      BY <2>2, <2>3
  <1>14. /\ motionActive' \in BOOLEAN /\ (motionActive' => kind = Motion) /\ eventID' \in EventIDs \cup {NoEvent}
         /\ row' \in [EventIDs -> RowStates] /\ excused' \subseteq EventIDs
         /\ \A e \in EventIDs : row'[e] # "none" => e <= frames'
    BY <1>1, <1>4, <1>11, EventIDsAreNumbers DEF EventsTyping, EventsFit
  <1>15. d.id <= frames
    BY <1>1 DEF EventsFit, d
  <1>16. eventID' <= frames' /\ rec.id <= frames' /\ (rec.at \in {"start", "create"} => rec.id # NoEvent)
    <2>1. eventID \in Nat /\ d.id \in Nat /\ eventID <= frames
      BY <1>1, <1>3, EventIDsAreNumbers DEF EventsTyping, EventsFit
    <2>2. rec.id = frames + 1 \/ rec.id = d.id
      BY <1>9
    <2>3. rec.at \in {"start", "create"} => rec.id = frames + 1
      BY <1>9
    <2> QED
      BY <1>4, <1>11, <1>15, <2>1, <2>2, <2>3
  <1> QED
    BY <1>4, <1>9, <1>10, <1>11, <1>13, <1>14, <1>16, OneGoesOn

(* A write of a row, and what the row is for.                               *)
LEMMA WriteKeeps ==
  ASSUME EventsTyping, EventsFit, NEW id \in EventIDs, NEW from \in RowStates, NEW to \in RowStates,
         Writes(id, from, to), frames' = frames, id <= frames
  PROVE  /\ row' \in [EventIDs -> RowStates] /\ excused' \subseteq EventIDs /\ excused \subseteq excused'
         /\ \A e \in EventIDs : row'[e] # "none" => e <= frames'
         /\ \A e \in EventIDs \ {id} : row'[e] = row[e]
         /\ id \in excused' \/ (row[id] = from /\ row'[id] = to) \/ (row[id] # from /\ row'[id] = row[id])
PROOF
  <1>1. CASE row' = IF row[id] = from THEN [row EXCEPT ![id] = to] ELSE row
    <2>1. CASE row[id] = from
      BY <1>1, <2>1 DEF EventsTyping, EventsFit, Writes
    <2>2. CASE row[id] # from
      BY <1>1, <2>2 DEF EventsTyping, EventsFit, Writes
    <2> QED
      BY <2>1, <2>2
  <1>2. CASE excused' = excused \cup {id} /\ UNCHANGED row
    BY <1>2 DEF EventsTyping, EventsFit
  <1> QED
    BY <1>1, <1>2 DEF Writes

(* The events of detectors have begun.                                      *)
LEMMA OnStartKeeps == ASSUME EventsInv, NEW a \in 1..Attachments, OnStart(a) PROVE EventsInv'
PROOF
  <1>1. EventsTyping /\ EventsFit
    BY DEF EventsInv
  <1> DEFINE d == detector[a]
  <1>2. d \in Detectors /\ d.at = "start" /\ d.active \in BOOLEAN /\ d.silent \in Int /\ d.id \in EventIDs \cup {NoEvent}
    BY <1>1, DetectorFits DEF OnStart
  <1>3. PICK rec \in Detectors : /\ Goes(a, rec)
                                 /\ rec.at = "create" /\ rec.active = d.active /\ rec.id = d.id
    <2>1. [d EXCEPT !.at = "create"] \in Detectors
      BY <1>2 DEF Detectors, DetectorStates
    <2>2. Goes(a, [d EXCEPT !.at = "create"])
      BY DEF OnStart
    <2> QED
      BY <1>2, <2>1, <2>2 DEF Detectors
  <1>4. UNCHANGED <<kind, stream, overlapped, row, frames, excused>>
    BY DEF OnStart
  <1>5. eventID' = d.id /\ motionActive' = (motionActive \/ kind = Motion)
    BY DEF OnStart
  <1> HIDE DEF d
  <1>6. Runs(a)
    BY <1>2 DEF Runs, d
  <1>7. ASSUME ~overlapped
        PROVE  InHand(rec)' /\ \A e \in EventIDs \ excused' : row'[e] = "open" => rec.id = e
    <2>1. InHand(d) /\ \A e \in EventIDs \ excused : row[e] = "open" => e = d.id
      BY <1>6, <1>7, HandOfLone DEF d
    <2>2. d.active /\ d.id # NoEvent /\ row[d.id] = "none"
      BY <1>2, <2>1 DEF InHand
    <2>3. InHand(rec)'
      BY <1>3, <1>4, <1>5, <2>2 DEF InHand, Current
    <2> QED
      BY <1>3, <1>4, <2>1, <2>3
  <1>8. motionActive' \in BOOLEAN /\ (motionActive' => kind = Motion) /\ eventID' \in EventIDs \cup {NoEvent} /\ frames' \in frames..MaxFrames
    BY <1>1, <1>2, <1>4, <1>5, EventsAssumption DEF EventsTyping, EventsFit
  <1>10. d.id <= frames /\ d.id # NoEvent
    BY <1>1, <1>2 DEF EventsFit, d
  <1>9. /\ row' \in [EventIDs -> RowStates] /\ excused' \subseteq EventIDs
        /\ \A e \in EventIDs : row'[e] # "none" => e <= frames'
    BY <1>1, <1>4 DEF EventsTyping, EventsFit
  <1> QED
    BY <1>3, <1>4, <1>5, <1>6, <1>7, <1>8, <1>9, <1>10, OneGoesOn

(* The row of the current event is written, or its loss noted.              *)
LEMMA CreateKeeps == ASSUME EventsInv, NEW a \in 1..Attachments, Create(a) PROVE EventsInv'
PROOF
  <1>1. EventsTyping /\ EventsFit
    BY DEF EventsInv
  <1> DEFINE d == detector[a]
  <1>2. d \in Detectors /\ d.at = "create" /\ d.active \in BOOLEAN /\ d.silent \in Int /\ d.id \in EventIDs \cup {NoEvent}
    BY <1>1, DetectorFits DEF Create
  <1>3. PICK rec \in Detectors : /\ Goes(a, rec)
                                 /\ rec.at = "watch" /\ rec.active = d.active /\ rec.id = d.id
    <2>1. [d EXCEPT !.at = "watch"] \in Detectors
      BY <1>2 DEF Detectors, DetectorStates
    <2>2. Goes(a, [d EXCEPT !.at = "watch"])
      BY DEF Create
    <2> QED
      BY <1>2, <2>1, <2>2 DEF Detectors
  <1>4. UNCHANGED <<kind, stream, overlapped, motionActive, eventID, frames>> /\ Writes(d.id, "none", "open")
    BY DEF Create
  <1>5. d.id <= frames /\ d.id \in EventIDs
    BY <1>1, <1>2 DEF EventsFit, d
  <1>6. Runs(a)
    BY <1>2 DEF Runs
  <1> HIDE DEF d
  <1>7. /\ row' \in [EventIDs -> RowStates] /\ excused' \subseteq EventIDs /\ excused \subseteq excused'
        /\ \A e \in EventIDs : row'[e] # "none" => e <= frames'
        /\ \A e \in EventIDs \ {d.id} : row'[e] = row[e]
        /\ d.id \in excused' \/ (row[d.id] = "none" /\ row'[d.id] = "open") \/ row[d.id] # "none"
    BY <1>1, <1>4, <1>5, WriteKeeps DEF RowStates
  <1>8. ASSUME ~overlapped
        PROVE  InHand(rec)' /\ \A e \in EventIDs \ excused' : row'[e] = "open" => rec.id = e
    <2>1. InHand(d) /\ \A e \in EventIDs \ excused : row[e] = "open" => e = d.id
      BY <1>6, <1>8, HandOfLone DEF d
    <2>2. d.active /\ Current(d) /\ row[d.id] = "none"
      BY <1>2, <2>1 DEF InHand
    <2>3. row'[rec.id] = "open" \/ rec.id \in excused'
      BY <1>3, <1>7, <2>2
    <2>4. InHand(rec)'
      BY <1>3, <1>4, <2>2, <2>3 DEF InHand, Current, InDatabase
    <2> QED
      BY <1>3, <1>7, <2>1, <2>4
  <1>9. motionActive' \in BOOLEAN /\ (motionActive' => kind = Motion) /\ eventID' \in EventIDs \cup {NoEvent} /\ frames' \in frames..MaxFrames /\ eventID' <= frames'
    BY <1>1, <1>4, EventsAssumption DEF EventsTyping, EventsFit
  <1> QED
    BY <1>3, <1>4, <1>5, <1>6, <1>7, <1>8, <1>9, OneGoesOn

(* The event is no more the current one, its row yet to be closed.          *)
LEMMA OnEndKeeps == ASSUME EventsInv, NEW a \in 1..Attachments, OnEnd(a) PROVE EventsInv'
PROOF
  <1>1. EventsTyping /\ EventsFit
    BY DEF EventsInv
  <1> DEFINE d == detector[a]
             new == [d EXCEPT !.id = eventID, !.at = IF d.at = "end" THEN "finalize" ELSE "finalizeLast"]
  <1>2. d \in Detectors /\ d.at \in {"end", "finish"} /\ d.active \in BOOLEAN /\ d.silent \in Int /\ d.id \in EventIDs \cup {NoEvent}
    BY <1>1, DetectorFits DEF OnEnd
  <1>3. PICK rec \in Detectors : /\ Goes(a, rec)
                                 /\ rec.at \in {"finalize", "finalizeLast"} /\ rec.active = d.active /\ rec.id = eventID
    <2>1. new \in Detectors
      BY <1>1, <1>2 DEF Detectors, DetectorStates, EventsTyping
    <2>2. Goes(a, new)
      BY <1>2 DEF OnEnd, Detectors
    <2>3. new.at \in {"finalize", "finalizeLast"} /\ new.active = d.active /\ new.id = eventID
      BY <1>2 DEF Detectors
    <2> QED
      BY <2>1, <2>2, <2>3
  <1>4. /\ UNCHANGED <<kind, stream, overlapped, row, frames, excused>>
        /\ motionActive' = (motionActive /\ kind # Motion) /\ eventID' = NoEvent
    BY DEF OnEnd
  <1>5. Runs(a)
    BY <1>2 DEF Runs
  <1> HIDE DEF d, new
  <1>6. ASSUME ~overlapped
        PROVE  InHand(rec)' /\ \A e \in EventIDs \ excused' : row'[e] = "open" => rec.id = e
    <2>1. InHand(d) /\ \A e \in EventIDs \ excused : row[e] = "open" => e = d.id
      BY <1>5, <1>6, HandOfLone DEF d
    <2>2. ~d.active /\ Current(d) /\ InDatabase(d.id)
      BY <1>2, <2>1 DEF InHand
    <2>3. NoMotion'
      BY <1>1, <1>4 DEF NoMotion, EventsFit
    <2>4. InHand(rec)'
      BY <1>3, <1>4, <2>2, <2>3 DEF InHand, Current, InDatabase
    <2> QED
      BY <1>3, <1>4, <2>1, <2>2, <2>4 DEF Current
  <1>7. motionActive' \in BOOLEAN /\ (motionActive' => kind = Motion) /\ eventID' \in EventIDs \cup {NoEvent} /\ frames' \in frames..MaxFrames /\ eventID' <= frames'
    BY <1>1, <1>4, EventsAssumption DEF EventsTyping, EventsFit, NoEvent
  <1>8. /\ row' \in [EventIDs -> RowStates] /\ excused' \subseteq EventIDs
        /\ \A e \in EventIDs : row'[e] # "none" => e <= frames'
    BY <1>1, <1>4 DEF EventsTyping, EventsFit
  <1>9. rec.id <= frames'
    BY <1>1, <1>3, <1>4 DEF EventsFit
  <1> QED
    BY <1>3, <1>4, <1>5, <1>6, <1>7, <1>8, <1>9, OneGoesOn

(* The stream of a detector ends, and with it the event.                    *)
LEMMA OutputEndsKeeps == ASSUME EventsInv, NEW a \in 1..Attachments, OutputEnds(a) PROVE EventsInv'
PROOF
  <1>1. EventsTyping /\ EventsFit
    BY DEF EventsInv
  <1> DEFINE d == detector[a]
             new == [d EXCEPT !.at = IF d.active THEN "finish" ELSE "done", !.active = FALSE]
  <1>2. d \in Detectors /\ d.at = "watch" /\ d.active \in BOOLEAN /\ d.silent \in Int /\ d.id \in EventIDs \cup {NoEvent}
    BY <1>1, DetectorFits DEF OutputEnds
  <1>3. PICK rec \in Detectors : /\ Goes(a, rec)
                                 /\ rec.at = (IF d.active THEN "finish" ELSE "done") /\ ~rec.active /\ rec.id = d.id
    <2>1. new \in Detectors
      BY <1>1, <1>2 DEF Detectors, DetectorStates
    <2>2. Goes(a, new)
      BY <1>2 DEF OutputEnds
    <2>3. new.at = (IF d.active THEN "finish" ELSE "done") /\ ~new.active /\ new.id = d.id
      BY <1>2 DEF Detectors
    <2> QED
      BY <2>1, <2>2, <2>3
  <1>4. UNCHANGED <<kind, stream, overlapped, motionActive, eventID, row, frames, excused>>
    BY DEF OutputEnds
  <1>5. Runs(a)
    BY <1>2 DEF Runs
  <1>6. d.id <= frames
    BY <1>1 DEF EventsFit
  <1> HIDE DEF d, new
  <1>7. ASSUME ~overlapped
        PROVE  /\ rec.at \notin {"none", "done"} => InHand(rec)'
               /\ rec.at \in {"none", "done"} => NoMotion'
               /\ \A e \in EventIDs \ excused' : row'[e] = "open" =>
                    \/ e \notin excused /\ row[e] = "open" /\ e # detector[a].id
                    \/ rec.id = e /\ rec.at \notin {"none", "done"}
    <2>1. InHand(d) /\ \A e \in EventIDs \ excused : row[e] = "open" => e = d.id
      BY <1>5, <1>7, HandOfLone DEF d
    <2>2. CASE d.active
      <3>1. Current(d) /\ InDatabase(d.id)
        BY <1>2, <2>1, <2>2 DEF InHand
      <3>2. InHand(rec)'
        BY <1>3, <1>4, <2>2, <3>1 DEF InHand, Current, InDatabase
      <3> QED
        BY <1>3, <1>4, <2>1, <2>2, <3>2
    <2>3. CASE ~d.active
      <3>1. NoMotion /\ d.id = NoEvent
        BY <1>2, <2>1, <2>3 DEF InHand
      <3>2. \A e \in EventIDs \ excused : row[e] # "open"
        BY <2>1, <3>1, EventIDsAreNumbers
      <3>3. NoMotion'
        BY <1>4, <3>1 DEF NoMotion
      <3> QED
        BY <1>3, <1>4, <2>3, <3>2, <3>3
    <2> QED
      BY <2>2, <2>3
  <1>8. /\ motionActive' \in BOOLEAN /\ (motionActive' => kind = Motion) /\ eventID' \in EventIDs \cup {NoEvent}
        /\ frames' \in frames..MaxFrames /\ eventID' <= frames'
    BY <1>1, <1>4, EventsAssumption DEF EventsTyping, EventsFit
  <1>9. /\ row' \in [EventIDs -> RowStates] /\ excused' \subseteq EventIDs
        /\ \A e \in EventIDs : row'[e] # "none" => e <= frames'
    BY <1>1, <1>4 DEF EventsTyping, EventsFit
  <1>10. rec.id <= frames' /\ rec.at \notin {"start", "create"}
    BY <1>3, <1>4, <1>6
  <1> QED
    BY <1>3, <1>4, <1>5, <1>7, <1>8, <1>9, <1>10, OneGoesOn

(* The row of the event is closed.                                          *)
LEMMA FinalizeKeeps == ASSUME EventsInv, NEW a \in 1..Attachments, Finalize(a) PROVE EventsInv'
PROOF
  <1>1. EventsTyping /\ EventsFit
    BY DEF EventsInv
  <1> DEFINE d == detector[a]
             new == [d EXCEPT !.id = NoEvent, !.at = IF d.at = "finalize" THEN "watch" ELSE "done"]
  <1>2. /\ d \in Detectors /\ d.at \in {"finalize", "finalizeLast"} /\ d.active \in BOOLEAN /\ d.silent \in Int
        /\ d.id \in EventIDs \cup {NoEvent}
    BY <1>1, DetectorFits DEF Finalize
  <1>3. PICK rec \in Detectors : /\ Goes(a, rec)
                                 /\ rec.at \in {"watch", "done"} /\ rec.active = d.active /\ rec.id = NoEvent
    <2>1. new \in Detectors
      BY <1>2 DEF Detectors, DetectorStates
    <2>2. Goes(a, new)
      BY <1>2 DEF Finalize, Detectors
    <2>3. new.at \in {"watch", "done"} /\ new.active = d.active /\ new.id = NoEvent
      BY <1>2 DEF Detectors
    <2> QED
      BY <2>1, <2>2, <2>3
  <1>4. /\ UNCHANGED <<kind, stream, overlapped, motionActive, eventID, frames>>
        /\ IF d.id = NoEvent THEN UNCHANGED <<row, faults, excused>> ELSE Writes(d.id, "open", "ended")
    BY DEF Finalize
  <1>5. Runs(a) /\ d.id <= frames
    BY <1>1, <1>2 DEF Runs, EventsFit
  <1> HIDE DEF d, new
  <1>6. /\ row' \in [EventIDs -> RowStates] /\ excused' \subseteq EventIDs /\ excused \subseteq excused'
        /\ \A e \in EventIDs : row'[e] # "none" => e <= frames'
        /\ \A e \in EventIDs \ {d.id} : row'[e] = row[e]
        /\ d.id = NoEvent \/ d.id \in excused' \/ row'[d.id] # "open"
    <2>1. CASE d.id = NoEvent
      BY <1>1, <1>4, <2>1 DEF EventsTyping, EventsFit
    <2>2. CASE d.id # NoEvent
      BY <1>1, <1>2, <1>4, <1>5, <2>2, WriteKeeps DEF RowStates
    <2> QED
      BY <2>1, <2>2
  <1>7. ASSUME ~overlapped
        PROVE  /\ rec.at \notin {"none", "done"} => InHand(rec)'
               /\ rec.at \in {"none", "done"} => NoMotion'
               /\ \A e \in EventIDs \ excused' : row'[e] = "open" => e \notin excused /\ row[e] = "open" /\ e # detector[a].id
    <2>1. InHand(d) /\ \A e \in EventIDs \ excused : row[e] = "open" => e = d.id
      BY <1>5, <1>7, HandOfLone DEF d
    <2>2. ~d.active /\ d.id # NoEvent /\ NoMotion
      BY <1>2, <2>1 DEF InHand
    <2>3. NoMotion'
      BY <1>4, <2>2 DEF NoMotion
    <2>4. rec.at = "watch" => InHand(rec)'
      BY <1>3, <2>2, <2>3 DEF InHand
    <2>5. ASSUME NEW e \in EventIDs \ excused', row'[e] = "open"
          PROVE  e \notin excused /\ row[e] = "open" /\ e # detector[a].id
      BY <1>6, <2>2, <2>5 DEF d
    <2> QED
      BY <1>3, <2>3, <2>4, <2>5
  <1>8. /\ motionActive' \in BOOLEAN /\ (motionActive' => kind = Motion) /\ eventID' \in EventIDs \cup {NoEvent}
        /\ frames' \in frames..MaxFrames /\ eventID' <= frames'
    BY <1>1, <1>4, EventsAssumption DEF EventsTyping, EventsFit
  <1>9. rec.id <= frames' /\ rec.at \notin {"start", "create"}
    BY <1>1, <1>3, <1>4, EventsAssumption DEF NoEvent, EventsTyping
  <1> QED
    BY <1>3, <1>4, <1>5, <1>6, <1>7, <1>8, <1>9, OneGoesOn

(* The pruning takes rows that are past, and notes the open ones.           *)
LEMMA CleanupKeeps == ASSUME EventsInv, runEventCleanup PROVE EventsInv'
PROOF
  <1>1. EventsTyping /\ EventsFit
    BY DEF EventsInv
  <1>2. PICK cutoff \in EventIDs :
          /\ row' = [e \in EventIDs |-> IF e <= cutoff /\ row[e] # "none" THEN "pruned" ELSE row[e]]
          /\ excused' = excused \cup {e \in 1..cutoff : row[e] = "open"}
          /\ UNCHANGED <<kind, stream, detector, motionActive, eventID, frames, faults, overlapped>>
    BY DEF runEventCleanup
  <1>3. \A e \in 1..cutoff : e \in EventIDs
    BY <1>2, EventsAssumption DEF EventIDs
  <1>4. row' \in [EventIDs -> RowStates] /\ excused' \subseteq EventIDs /\ excused \subseteq excused'
    BY <1>1, <1>2, <1>3 DEF EventsTyping, RowStates
  <1>5. EventsTyping'
    BY <1>1, <1>2, <1>4 DEF EventsTyping
  <1>6. \A e \in EventIDs : /\ row[e] = "none" <=> row'[e] = "none"
                            /\ row'[e] = "open" => row[e] = "open"
                            /\ row[e] = "open" => row'[e] = "open" \/ e \in excused'
    BY <1>2, EventsAssumption DEF EventIDs
  <1>7. EventsFit'
    BY <1>1, <1>2, <1>6 DEF EventsFit
  <1>8. ASSUME ~overlapped' PROVE LoneDetector' /\ OpenIsOwned'
    <2>1. LoneDetector /\ OpenIsOwned
      BY <1>2, <1>8 DEF EventsInv
    <2>2. \A e \in EventIDs : (InDatabase(e) => InDatabase(e)')
      BY <1>4, <1>6 DEF InDatabase
    <2>3. ASSUME NEW b \in 1..Attachments, Runs(b)' PROVE b = stream' /\ InHand(detector[b])'
      <3>1. Runs(b) /\ detector' = detector /\ b = stream /\ InHand(detector[b])
        BY <1>2, <2>1, <2>3 DEF Runs, LoneDetector
      <3>2. PICK d \in Detectors : d = detector[b]
        BY <1>1, DetectorFits
      <3>3. d.id \in EventIDs \cup {NoEvent} /\ InHand(d)
        BY <3>1, <3>2 DEF Detectors
      <3>4. InDatabase(d.id) /\ d.id # NoEvent => InDatabase(d.id)'
        BY <2>2, <3>3
      <3>5. d.id # NoEvent /\ row[d.id] = "none" => row'[d.id] = "none"
        BY <1>6, <3>3
      <3>6. InHand(d)'
        BY <1>2, <3>3, <3>4, <3>5 DEF InHand, Current, NoMotion
      <3> QED
        BY <1>2, <3>1, <3>2, <3>6
    <2>4. LoneDetector'
      BY <1>2, <2>1, <2>3 DEF LoneDetector, NoMotion, Runs
    <2>5. OpenIsOwned'
      BY <1>2, <1>4, <1>6, <2>1 DEF OpenIsOwned, Runs
    <2> QED
      BY <2>4, <2>5
  <1> QED
    BY <1>5, <1>7, <1>8 DEF EventsInv

(* A restart: what is open is noted, and no detector runs.                  *)
LEMMA EventsCrashKeeps == ASSUME EventsInv, EventsCrash PROVE EventsInv'
PROOF
  <1>1. EventsTyping /\ EventsFit
    BY DEF EventsInv
  <1>2. PICK over \in Detectors : /\ over = [NoDetector EXCEPT !.at = "done"]
                                  /\ over.at = "done" /\ over.id = NoEvent
    <2>1. NoDetector \in Detectors /\ NoDetector.id = NoEvent
      BY DEF Detectors, DetectorStates, NoDetector
    <2>2. [NoDetector EXCEPT !.at = "done"] \in Detectors
      BY <2>1 DEF Detectors, DetectorStates
    <2> QED
      BY <2>1, <2>2 DEF Detectors
  <1>3. NoDetector \in Detectors /\ NoDetector.id = NoEvent /\ NoDetector.at = "none"
    BY DEF Detectors, DetectorStates, NoDetector
  <1>4. /\ detector' = [a \in 1..Attachments |-> IF a <= stream THEN over ELSE NoDetector]
        /\ excused' = excused \cup {e \in EventIDs : row[e] = "open"}
        /\ motionActive' = FALSE /\ eventID' = NoEvent
        /\ UNCHANGED <<kind, stream, row, frames, faults, overlapped>>
    BY <1>2 DEF EventsCrash
  <1>5. EventsTyping'
    BY <1>1, <1>2, <1>3, <1>4 DEF EventsTyping
  <1>6. EventsFit'
    <2>1. NoEvent <= frames
      BY <1>1, EventsAssumption DEF EventsTyping, NoEvent
    <2>2. \A a \in 1..Attachments : /\ a > stream => detector'[a] = NoDetector
                                    /\ detector'[a].id <= frames
                                    /\ detector'[a].at \notin {"start", "create"}
      BY <1>1, <1>2, <1>3, <1>4, <2>1, EventsAssumption DEF EventsTyping
    <2> QED
      BY <1>1, <1>4, <2>1, <2>2 DEF EventsFit
  <1>7. LoneDetector'
    BY <1>2, <1>3, <1>4 DEF LoneDetector, Runs, NoMotion
  <1>8. OpenIsOwned'
    BY <1>4 DEF OpenIsOwned
  <1> QED
    BY <1>5, <1>6, <1>7, <1>8 DEF EventsInv

(* Every step keeps the invariant of the events.                            *)
LEMMA EventsNextKeeps == ASSUME EventsInv, EventsNext PROVE EventsInv'
PROOF
  <1>1. CASE Attach
    BY <1>1, AttachKeeps
  <1>2. CASE runEventCleanup
    BY <1>2, CleanupKeeps
  <1>3. CASE EventsCrash
    BY <1>3, EventsCrashKeeps
  <1>4. ASSUME NEW a \in 1..Attachments,
               Frame(a) \/ OnStart(a) \/ Create(a) \/ OnEnd(a) \/ Finalize(a) \/ OutputEnds(a)
        PROVE  EventsInv'
    BY <1>4, FrameKeeps, OnStartKeeps, CreateKeeps, OnEndKeeps, FinalizeKeeps, OutputEndsKeeps
  <1> QED
    BY <1>1, <1>2, <1>3, <1>4 DEF EventsNext

(* A step of another part keeps it.                                         *)
LEMMA EventsRestKeeps == ASSUME EventsInv, UNCHANGED eventVars PROVE EventsInv'
PROOF
  <1>1. EventsTyping' /\ EventsFit'
    BY DEF EventsInv, eventVars, EventsTyping, EventsFit
  <1>2. ASSUME ~overlapped' PROVE LoneDetector' /\ OpenIsOwned'
    <2>1. LoneDetector /\ OpenIsOwned
      BY <1>2 DEF EventsInv, eventVars
    <2>2. LoneDetector'
      BY <2>1 DEF eventVars, LoneDetector, Runs, InHand, Current, NoMotion, InDatabase
    <2>3. OpenIsOwned'
      BY <2>1 DEF eventVars, OpenIsOwned, Runs
    <2> QED
      BY <2>2, <2>3
  <1> QED
    BY <1>1, <1>2 DEF EventsInv

(* The invariant is what the run checks of the events.                      *)
LEMMA EventsInvSound == ASSUME EventsInv PROVE EventsTypeOK /\ EventsSound
PROOF
  <1>1. EventsTyping
    BY DEF EventsInv
  <1>2. EventsTypeOK
    BY <1>1, DetectorFits DEF EventsTyping, EventsTypeOK, RowStates
  <1>3. ASSUME ~overlapped, NEW a \in 1..Attachments, detector[a].at = "watch"
        PROVE  /\ detector[a].active => eventID = detector[a].id /\ (row[eventID] = "open" \/ eventID \in excused)
               /\ kind = Motion => motionActive = detector[a].active
    <2>1. InHand(detector[a])
      BY <1>3 DEF EventsInv, LoneDetector, Runs
    <2>2. CASE detector[a].active
      <3>1. Current(detector[a]) /\ InDatabase(detector[a].id)
        BY <1>3, <2>1, <2>2 DEF InHand
      <3>2. detector[a].active = TRUE /\ (kind = Motion => motionActive = TRUE)
        BY <1>1, <2>2, <3>1, DetectorFits DEF EventsTyping, Current
      <3> QED
        BY <3>1, <3>2 DEF Current, InDatabase
    <2>3. CASE ~detector[a].active
      <3>1. NoMotion
        BY <1>3, <2>1, <2>3 DEF InHand
      <3>2. detector[a].active = FALSE /\ motionActive = FALSE
        BY <1>1, <2>3, <3>1, DetectorFits DEF EventsTyping, NoMotion
      <3> QED
        BY <3>2
    <2> QED
      BY <2>2, <2>3
  <1>4. ~overlapped => OpenIsOwned
    BY DEF EventsInv
  <1>5. EventsSound
    BY <1>3, <1>4 DEF EventsSound, OpenIsOwned
  <1> QED
    BY <1>2, <1>5

-----------------------------------------------------------------------------
(* Who is who: what the tables, the programs and the passes can hold.       *)
Somebody == Persons \cup {Nobody}
Ops == {"assign", "track", "faces", "exemplar", "prune", "count", "setcount", "person", "delete", "clear", "mark",
        "move", "allTracks", "allFaces", "confirm", "ignore", "split", "links", "sweep", "apply"}
PassOps == {"links", "sweep", "apply", "person", "move", "faces", "count", "setcount", "delete", "clear", "mark"}
Reading == {"links", "sweep", "apply"}

Stmt == {x \in [op : Ops, t : Nat, p : Nat, q : Nat] :
           /\ x.op # "ignore" => x.p \in Somebody
           /\ x.op \in {"allTracks", "allFaces", "split"} => x.q \in Somebody
           /\ x.op = "setcount" => x.q \in 0..NTracks}
Written == {x \in Stmt : x.op \notin Reading}
PassStmt(free) == {x \in Stmt : x.op \in PassOps /\ (x.op = "move" => x.t \in free)}

Tables == [owner : [Tracks -> Somebody \cup {NoRow}], confirmed : [Tracks -> BOOLEAN],
           holder : [Tracks -> Somebody \cup {NoRow}], ignored : [Tracks -> BOOLEAN],
           exemplar : [Tracks -> BOOLEAN], count : [Persons -> 0..NTracks \cup {NoRow}],
           links : SUBSET [kind : {"must", "cannot"}, ends : SUBSET Tracks]]

Labelling == UNION {[D -> Nat] : D \in SUBSET Tracks}
Edge == [ends : SUBSET Tracks, w : {Similar, Tie}]
Passing == [seen : Labelling, free : SUBSET Tracks, label : Labelling, edges : SUBSET Edge, cannot : SUBSET (SUBSET Tracks)]

(* What a pass read: the tracks that stay where they are have a person.     *)
SeenOK(P) ==
  /\ DOMAIN P.seen # {} /\ P.free \subseteq DOMAIN P.seen
  /\ \A t \in DOMAIN P.seen : P.seen[t] \in Somebody /\ (t \notin P.free => P.seen[t] \in Persons)

LabelOK(P) ==
  /\ DOMAIN P.label = DOMAIN P.seen /\ \A t \in DOMAIN P.seen : P.label[t] # Nobody
  /\ \A e \in P.edges : e.ends \subseteq DOMAIN P.seen

(* Before it writes, a pass reads the links and spreads the labels.         *)
PassGoes(P, todo) ==
  \/ todo = <<Own("links"), Own("sweep"), Own("apply")>> /\ SeenOK(P)
  \/ todo \in {<<Own("sweep"), Own("apply")>>, <<Own("apply")>>} /\ SeenOK(P) /\ LabelOK(P)
  \/ todo \in Seq(Written)

PassFits(P, todo, db, confirmed) ==
  P # NoPass =>
    /\ todo # <<>> /\ todo \in Seq(PassStmt(P.free))
    /\ \A t \in P.free : Anchored(db, t) => t \in confirmed

FaceInv ==
  /\ faceDB \in Tables /\ made \in 0..MaxPersons /\ gallery \subseteq Persons
  /\ prog \in [Actors -> Seq(Stmt)] /\ pass \in [Actors -> Passing] /\ pass[Worker] = NoPass
  /\ \A a \in Actors : PassGoes(pass[a], prog[a]) /\ PassFits(pass[a], prog[a], faceDB, late)


-----------------------------------------------------------------------------
LEMMA Bounds ==
  /\ NTracks \in Nat /\ MaxPersons \in Nat /\ Keep \in Nat \ {0}
  /\ Tracks \subseteq Nat /\ Persons \subseteq Nat /\ Somebody \subseteq Nat
  /\ IsFiniteSet(Tracks) /\ Cardinality(Tracks) = NTracks /\ IsFiniteSet(Persons) /\ IsFiniteSet(Somebody)
PROOF
  <1>1. NTracks \in Nat /\ MaxPersons \in Nat /\ Keep \in Nat \ {0}
    BY FaceIdentityAssumption
  <1>2. IsFiniteSet(Tracks) /\ Cardinality(Tracks) = NTracks /\ IsFiniteSet(Persons) /\ IsFiniteSet(0..MaxPersons)
    BY <1>1, FS_Interval DEF Tracks, Persons
  <1>3. Somebody = 0..MaxPersons
    BY <1>1 DEF Somebody, Persons, Nobody
  <1>4. Tracks \subseteq Nat /\ Persons \subseteq Nat /\ Somebody \subseteq Nat
    BY <1>3 DEF Tracks, Persons
  <1>5. IsFiniteSet(Somebody)
    BY <1>2, <1>3, Zenon
  <1> QED
    BY <1>1, <1>2, <1>4, <1>5

LEMMA FewTracks ==
  ASSUME NEW S, S \subseteq Tracks
  PROVE  IsFiniteSet(S) /\ Cardinality(S) \in 0..NTracks
PROOF
  <1>1. IsFiniteSet(S) /\ Cardinality(S) \in Nat /\ Cardinality(S) <= Cardinality(Tracks)
    BY Bounds, PartFinite, Zenon
  <1> QED
    BY <1>1, Bounds

LEMMA HeadAndTail ==
  ASSUME NEW S, NEW x \in Seq(S), x # <<>>
  PROVE  Head(x) \in S /\ Tail(x) \in Seq(S)
PROOF
  OBVIOUS

LEMMA OneAndTheOther ==
  ASSUME NEW S, NEW x \in Seq(S), NEW y \in Seq(S)
  PROVE  x \o y \in Seq(S)
PROOF
  OBVIOUS

LEMMA EmptyIn ==
  ASSUME NEW S
  PROVE  <<>> \in Seq(S)
PROOF
  OBVIOUS

LEMMA TuplesIn ==
  ASSUME NEW S, NEW a \in S, NEW b \in S, NEW c \in S, NEW d \in S, NEW e \in S
  PROVE  <<a>> \in Seq(S) /\ <<a, b>> \in Seq(S) /\ <<a, b, c>> \in Seq(S) /\ <<a, b, c, d, e>> \in Seq(S)
PROOF
  OBVIOUS

LEMMA Wider ==
  ASSUME NEW S, NEW T, NEW x \in Seq(S \cap T)
  PROVE  x \in Seq(S) /\ x \in Seq(T)
PROOF
  OBVIOUS

LEMMA NoPassTyped == NoPass \in Passing /\ DOMAIN NoPass.seen = {}
PROOF
  <1>1. <<>> \in [{} -> Nat]
    OBVIOUS
  <1>2. {} \subseteq Tracks
    OBVIOUS
  <1>3. <<>> \in Labelling
    BY <1>1, <1>2 DEF Labelling
  <1> QED
    BY <1>3 DEF NoPass, Passing

(* One step of an actor's program.                                          *)
LEMMA ArgTyped ==
  ASSUME FaceInv, NEW a \in Actors, prog[a] # <<>>
  PROVE  /\ Arg(a) \in Stmt /\ Tail(prog[a]) \in Seq(Stmt) /\ Arg(a).t \in Nat /\ Arg(a).p \in Nat /\ Arg(a).q \in Nat
         /\ prog[a] \in Seq(Written) => Tail(prog[a]) \in Seq(Written)
         /\ Arg(a).op \notin Reading => prog[a] \in Seq(Written)
         /\ pass[a] # NoPass => Arg(a) \in PassStmt(pass[a].free) /\ Tail(prog[a]) \in Seq(PassStmt(pass[a].free))
PROOF
  <1>1. prog[a] \in Seq(Stmt) /\ PassGoes(pass[a], prog[a]) /\ PassFits(pass[a], prog[a], faceDB, late)
    BY DEF FaceInv
  <1>2. Arg(a) \in Stmt /\ Tail(prog[a]) \in Seq(Stmt)
    BY <1>1 DEF Arg
  <1>3. Arg(a).t \in Nat /\ Arg(a).p \in Nat /\ Arg(a).q \in Nat
    BY <1>2 DEF Stmt
  <1>4. prog[a] \in Seq(Written) => Tail(prog[a]) \in Seq(Written)
    OBVIOUS
  <1>5. Arg(a).op \notin Reading => prog[a] \in Seq(Written)
    BY <1>1 DEF PassGoes, Arg, Reading, Own, OfPerson
  <1>6. pass[a] # NoPass => Arg(a) \in PassStmt(pass[a].free) /\ Tail(prog[a]) \in Seq(PassStmt(pass[a].free))
    <2>1. pass[a] # NoPass => prog[a] \in Seq(PassStmt(pass[a].free))
      BY <1>1, Zenon DEF PassFits
    <2>2. pass[a] # NoPass => Head(prog[a]) \in PassStmt(pass[a].free) /\ Tail(prog[a]) \in Seq(PassStmt(pass[a].free))
      BY <2>1, HeadAndTail, Zenon
    <2> QED
      BY <2>2, Zenon DEF Arg
  <1> QED
    BY <1>2, <1>3, <1>4, <1>5, <1>6

LEMMA DoKeeps ==
  ASSUME FaceInv, NEW a \in Actors, NEW db \in Tables, NEW more \in Seq(Written), Do(a, db, more),
         prog[a] # <<>>, Tail(prog[a]) \in Seq(Written),
         pass[a] # NoPass => more \in Seq(PassStmt(pass[a].free)),
         made' \in 0..MaxPersons, gallery' \subseteq Persons
  PROVE  FaceInv'
PROOF
  <1>1. /\ prog \in [Actors -> Seq(Stmt)] /\ pass \in [Actors -> Passing] /\ pass[Worker] = NoPass
        /\ \A b \in Actors : PassGoes(pass[b], prog[b]) /\ PassFits(pass[b], prog[b], faceDB, late)
    BY DEF FaceInv
  <1>2. /\ faceDB' = db /\ prog' = [prog EXCEPT ![a] = more \o Tail(@)]
        /\ pass' = IF prog'[a] = <<>> THEN [pass EXCEPT ![a] = NoPass] ELSE pass
        /\ late' = IF \A b \in Actors : pass[b] = NoPass THEN late
                   ELSE late \cup {t \in Tracks : Anchored(db, t) /\ ~Anchored(faceDB, t)}
    BY DEF Do
  <1>3. prog'[a] = more \o Tail(prog[a]) /\ prog'[a] \in Seq(Written)
    <2>1. prog'[a] = more \o Tail(prog[a])
      BY <1>1, <1>2
    <2>2. more \o Tail(prog[a]) \in Seq(Written)
      OBVIOUS
    <2> QED
      BY <2>1, <2>2, Zenon
  <1>4. prog' \in [Actors -> Seq(Stmt)]
    <2>1. Written \subseteq Stmt
      BY DEF Written
    <2>2. Seq(Written) \subseteq Seq(Stmt)
      BY <2>1
    <2>3. prog'[a] \in Seq(Stmt)
      BY <1>3, <2>2
    <2> QED
      BY <1>1, <1>2, <2>3
  <1>5. NoPass \in Passing
    BY NoPassTyped
  <1>6. pass' \in [Actors -> Passing] /\ pass'[Worker] = NoPass /\ \A b \in Actors : b # a => pass'[b] = pass[b] /\ prog'[b] = prog[b]
    BY <1>1, <1>2, <1>5
  <1>7. pass'[a] = pass[a] \/ pass'[a] = NoPass
    BY <1>1, <1>2
  <1>8. PassGoes(pass'[a], prog'[a])
    BY <1>3 DEF PassGoes
  <1>9. \A b \in Actors : PassGoes(pass'[b], prog'[b])
    BY <1>1, <1>6, <1>8
  <1>10. ASSUME NEW b \in Actors, pass'[b] # NoPass
         PROVE  PassFits(pass'[b], prog'[b], db, late')
    <2>1. pass'[b] = pass[b] /\ pass[b] # NoPass
      BY <1>6, <1>7, <1>10
    <2>2. prog[b] # <<>> /\ prog[b] \in Seq(PassStmt(pass[b].free)) /\ \A t \in pass[b].free : Anchored(faceDB, t) => t \in late
      BY <1>1, <2>1 DEF PassFits
    <2>3. prog'[b] # <<>> /\ prog'[b] \in Seq(PassStmt(pass[b].free))
      <3>1. CASE b # a
        BY <1>6, <2>2, <3>1
      <3>2. CASE b = a
        <4>1. prog'[a] # <<>>
          BY <1>1, <1>2, <1>10, <3>2
        <4>2. more \in Seq(PassStmt(pass[a].free)) /\ Tail(prog[a]) \in Seq(PassStmt(pass[a].free))
          BY <2>1, <2>2, <3>2, HeadAndTail, Zenon
        <4>3. more \o Tail(prog[a]) \in Seq(PassStmt(pass[a].free))
          BY <4>2, OneAndTheOther, Zenon
        <4> QED
          BY <1>3, <3>2, <4>1, <4>3, Zenon
      <3> QED
        BY <3>1, <3>2
    <2>4. pass[b].free \subseteq Tracks
      BY <1>1 DEF Passing
    <2>5. late' = late \cup {t \in Tracks : Anchored(db, t) /\ ~Anchored(faceDB, t)}
      BY <1>2, <2>1
    <2>6. \A t \in pass[b].free : Anchored(db, t) => t \in late'
      BY <2>2, <2>4, <2>5
    <2> QED
      BY <2>1, <2>3, <2>6 DEF PassFits
  <1>11. \A b \in Actors : PassFits(pass'[b], prog'[b], faceDB', late')
    BY <1>2, <1>10 DEF PassFits
  <1> QED
    BY <1>2, <1>4, <1>6, <1>9, <1>11 DEF FaceInv

-----------------------------------------------------------------------------
(* The tables keep their types when a column is replaced.                   *)
LEMMA TablesKept ==
  ASSUME NEW db \in Tables
  PROVE  /\ \A v \in [Tracks -> Somebody \cup {NoRow}] : [db EXCEPT !.owner = v] \in Tables /\ [db EXCEPT !.holder = v] \in Tables
         /\ \A v \in [Tracks -> BOOLEAN] : /\ [db EXCEPT !.confirmed = v] \in Tables /\ [db EXCEPT !.ignored = v] \in Tables
                                           /\ [db EXCEPT !.exemplar = v] \in Tables
         /\ \A v \in [Persons -> 0..NTracks \cup {NoRow}] : [db EXCEPT !.count = v] \in Tables
         /\ \A v \in SUBSET [kind : {"must", "cannot"}, ends : SUBSET Tracks] : [db EXCEPT !.links = v] \in Tables
         /\ db.owner \in [Tracks -> Somebody \cup {NoRow}] /\ db.holder \in [Tracks -> Somebody \cup {NoRow}]
         /\ db.confirmed \in [Tracks -> BOOLEAN] /\ db.ignored \in [Tracks -> BOOLEAN] /\ db.exemplar \in [Tracks -> BOOLEAN]
         /\ db.count \in [Persons -> 0..NTracks \cup {NoRow}]
         /\ db.links \subseteq [kind : {"must", "cannot"}, ends : SUBSET Tracks]
PROOF
  BY DEF Tables

LEMMA ExecuteKeeps ==
  ASSUME FaceInv, NEW a \in Actors, NEW db \in Tables, Execute(a, db), prog[a] # <<>>, Arg(a).op \notin Reading
  PROVE  FaceInv'
PROOF
  <1>0. <<>> \in Seq(Written) /\ <<>> \in Seq(PassStmt(pass[a].free))
    BY EmptyIn, Zenon
  <1> PICK e : e = <<>> /\ e \in Seq(Written) /\ e \in Seq(PassStmt(pass[a].free))
    BY <1>0
  <1>1. Do(a, db, e) /\ UNCHANGED <<made, gallery>>
    BY DEF Execute
  <1>2. Tail(prog[a]) \in Seq(Written)
    BY ArgTyped
  <1>3. made' \in 0..MaxPersons /\ gallery' \subseteq Persons
    BY <1>1 DEF FaceInv
  <1> QED
    BY <1>1, <1>2, <1>3, DoKeeps, Zenon

LEMMA StatementKeeps ==
  ASSUME FaceInv, NEW a \in Actors, NEW op, At(a, op), op \notin Reading, NEW db \in Tables, Execute(a, db)
  PROVE  FaceInv'
PROOF
  <1>1. prog[a] # <<>> /\ Arg(a).op \notin Reading
    BY DEF At, Arg
  <1> QED
    BY <1>1, ExecuteKeeps, Zenon

LEMMA FaceTables == FaceInv => faceDB \in Tables
PROOF
  BY DEF FaceInv

(* The statements that replace a column of a table.                         *)
LEMMA ColumnStatements ==
  ASSUME FaceInv, NEW a \in Actors, prog[a] # <<>>
  PROVE  /\ SetIgnored(a) => FaceInv'
         /\ SetExemplar(a) => FaceInv'
         /\ SetConfirmed(a) => FaceInv'
         /\ ClearExemplars(a) => FaceInv'
         /\ CreatePerson(a) => FaceInv'
         /\ DeletePerson(a) => FaceInv'
         /\ SetCount(a) => FaceInv'
         /\ UpdatePerson(a) => FaceInv'
         /\ SetPersonByTrack(a) => FaceInv'
         /\ ReassignTracks(a) => FaceInv'
         /\ ReassignFaces(a) => FaceInv'
PROOF
  <1> PICK x : x = Arg(a)
    OBVIOUS
  <1>0. faceDB \in Tables
    BY FaceTables
  <1>1. ASSUME SetIgnored(a) PROVE FaceInv'
    <2> PICK v : v = [faceDB.ignored EXCEPT ![x.t] = x.p = 1]
      OBVIOUS
    <2> PICK db : db = [faceDB EXCEPT !.ignored = v]
      OBVIOUS
    <2>1. v \in [Tracks -> BOOLEAN]
      BY <1>0, <1>1, TablesKept, ArgTyped, Bounds DEF SetIgnored, At, Arg, Stmt, Somebody
    <2>2. db \in Tables
      BY <1>0, <2>1, TablesKept, Zenon
    <2>3. Execute(a, db) /\ At(a, "ignore")
      BY <1>1, Zenon DEF SetIgnored
    <2>4. "ignore" \notin Reading
      BY DEF Reading
    <2> QED
      BY <2>2, <2>3, <2>4, StatementKeeps, Zenon
  <1>2. ASSUME SetExemplar(a) PROVE FaceInv'
    <2> PICK v : v = [faceDB.exemplar EXCEPT ![x.t] = TRUE]
      OBVIOUS
    <2> PICK db : db = [faceDB EXCEPT !.exemplar = v]
      OBVIOUS
    <2>1. v \in [Tracks -> BOOLEAN]
      BY <1>0, <1>2, TablesKept, ArgTyped, Bounds DEF SetExemplar, At, Arg, Stmt, Somebody
    <2>2. db \in Tables
      BY <1>0, <2>1, TablesKept, Zenon
    <2>3. Execute(a, db) /\ At(a, "exemplar")
      BY <1>2, Zenon DEF SetExemplar
    <2>4. "exemplar" \notin Reading
      BY DEF Reading
    <2> QED
      BY <2>2, <2>3, <2>4, StatementKeeps, Zenon
  <1>3. ASSUME SetConfirmed(a) PROVE FaceInv'
    <2> PICK v : v = [faceDB.confirmed EXCEPT ![x.t] = @ \/ faceDB.owner[x.t] # NoRow]
      OBVIOUS
    <2> PICK db : db = [faceDB EXCEPT !.confirmed = v]
      OBVIOUS
    <2>1. v \in [Tracks -> BOOLEAN]
      BY <1>0, <1>3, TablesKept, ArgTyped, Bounds DEF SetConfirmed, At, Arg, Stmt, Somebody
    <2>2. db \in Tables
      BY <1>0, <2>1, TablesKept, Zenon
    <2>3. Execute(a, db) /\ At(a, "confirm")
      BY <1>3, Zenon DEF SetConfirmed
    <2>4. "confirm" \notin Reading
      BY DEF Reading
    <2> QED
      BY <2>2, <2>3, <2>4, StatementKeeps, Zenon
  <1>4. ASSUME ClearExemplars(a) PROVE FaceInv'
    <2> PICK v : v = [t \in Tracks |-> faceDB.exemplar[t] /\ faceDB.holder[t] # x.p]
      OBVIOUS
    <2> PICK db : db = [faceDB EXCEPT !.exemplar = v]
      OBVIOUS
    <2>1. v \in [Tracks -> BOOLEAN]
      BY <1>0, <1>4, TablesKept, ArgTyped, Bounds DEF ClearExemplars, At, Arg, Stmt, Somebody
    <2>2. db \in Tables
      BY <1>0, <2>1, TablesKept, Zenon
    <2>3. Execute(a, db) /\ At(a, "clear")
      BY <1>4, Zenon DEF ClearExemplars
    <2>4. "clear" \notin Reading
      BY DEF Reading
    <2> QED
      BY <2>2, <2>3, <2>4, StatementKeeps, Zenon
  <1>5. ASSUME CreatePerson(a) PROVE FaceInv'
    <2> PICK v : v = [faceDB.count EXCEPT ![x.p] = 0]
      OBVIOUS
    <2> PICK db : db = [faceDB EXCEPT !.count = v]
      OBVIOUS
    <2>0. 0 \in 0..NTracks
      BY Bounds
    <2>1. v \in [Persons -> 0..NTracks \cup {NoRow}]
      BY <1>0, <2>0, TablesKept
    <2>2. db \in Tables
      BY <1>0, <2>1, TablesKept, Zenon
    <2>3. Execute(a, db) /\ At(a, "person")
      BY <1>5, Zenon DEF CreatePerson
    <2>4. "person" \notin Reading
      BY DEF Reading
    <2> QED
      BY <2>2, <2>3, <2>4, StatementKeeps, Zenon
  <1>6. ASSUME DeletePerson(a) PROVE FaceInv'
    <2> PICK v : v = [faceDB.count EXCEPT ![x.p] = NoRow]
      OBVIOUS
    <2> PICK db : db = [faceDB EXCEPT !.count = v]
      OBVIOUS
    <2>1. v \in [Persons -> 0..NTracks \cup {NoRow}]
      BY <1>0, <1>6, TablesKept, ArgTyped, Bounds DEF DeletePerson, At, Arg, Stmt, Somebody
    <2>2. db \in Tables
      BY <1>0, <2>1, TablesKept, Zenon
    <2>3. Execute(a, db) /\ At(a, "delete")
      BY <1>6, Zenon DEF DeletePerson
    <2>4. "delete" \notin Reading
      BY DEF Reading
    <2> QED
      BY <2>2, <2>3, <2>4, StatementKeeps, Zenon
  <1>7. ASSUME SetCount(a) PROVE FaceInv'
    <2> PICK v : v = [faceDB.count EXCEPT ![x.p] = IF @ = NoRow THEN NoRow ELSE x.q]
      OBVIOUS
    <2> PICK db : db = [faceDB EXCEPT !.count = v]
      OBVIOUS
    <2>1. v \in [Persons -> 0..NTracks \cup {NoRow}]
      BY <1>0, <1>7, TablesKept, ArgTyped, Bounds DEF SetCount, At, Arg, Stmt, Somebody
    <2>2. db \in Tables
      BY <1>0, <2>1, TablesKept, Zenon
    <2>3. Execute(a, db) /\ At(a, "setcount")
      BY <1>7, Zenon DEF SetCount
    <2>4. "setcount" \notin Reading
      BY DEF Reading
    <2> QED
      BY <2>2, <2>3, <2>4, StatementKeeps, Zenon
  <1>8. ASSUME UpdatePerson(a) PROVE FaceInv'
    <2> PICK v : v = [faceDB.owner EXCEPT ![x.t] = IF @ = NoRow THEN @ ELSE x.p]
      OBVIOUS
    <2> PICK db : db = [faceDB EXCEPT !.owner = v]
      OBVIOUS
    <2>1. v \in [Tracks -> Somebody \cup {NoRow}]
      BY <1>0, <1>8, TablesKept, ArgTyped, Bounds DEF UpdatePerson, At, Arg, Stmt, Somebody
    <2>2. db \in Tables
      BY <1>0, <2>1, TablesKept, Zenon
    <2>3. Execute(a, db) /\ At(a, "move")
      BY <1>8, Zenon DEF UpdatePerson
    <2>4. "move" \notin Reading
      BY DEF Reading
    <2> QED
      BY <2>2, <2>3, <2>4, StatementKeeps, Zenon
  <1>9. ASSUME SetPersonByTrack(a) PROVE FaceInv'
    <2> PICK v : v = [faceDB.holder EXCEPT ![x.t] = IF @ = NoRow THEN @ ELSE x.p]
      OBVIOUS
    <2> PICK db : db = [faceDB EXCEPT !.holder = v]
      OBVIOUS
    <2>1. v \in [Tracks -> Somebody \cup {NoRow}]
      BY <1>0, <1>9, TablesKept, ArgTyped, Bounds DEF SetPersonByTrack, At, Arg, Stmt, Somebody
    <2>2. db \in Tables
      BY <1>0, <2>1, TablesKept, Zenon
    <2>3. Execute(a, db) /\ At(a, "faces")
      BY <1>9, Zenon DEF SetPersonByTrack
    <2>4. "faces" \notin Reading
      BY DEF Reading
    <2> QED
      BY <2>2, <2>3, <2>4, StatementKeeps, Zenon
  <1>10. ASSUME ReassignTracks(a) PROVE FaceInv'
    <2> PICK v : v = [t \in Tracks |-> IF faceDB.owner[t] = x.p THEN x.q ELSE faceDB.owner[t]]
      OBVIOUS
    <2> PICK db : db = [faceDB EXCEPT !.owner = v]
      OBVIOUS
    <2>1. v \in [Tracks -> Somebody \cup {NoRow}]
      BY <1>0, <1>10, TablesKept, ArgTyped, Bounds DEF ReassignTracks, At, Arg, Stmt, Somebody
    <2>2. db \in Tables
      BY <1>0, <2>1, TablesKept, Zenon
    <2>3. Execute(a, db) /\ At(a, "allTracks")
      BY <1>10, Zenon DEF ReassignTracks
    <2>4. "allTracks" \notin Reading
      BY DEF Reading
    <2> QED
      BY <2>2, <2>3, <2>4, StatementKeeps, Zenon
  <1>11. ASSUME ReassignFaces(a) PROVE FaceInv'
    <2> PICK v : v = [t \in Tracks |-> IF faceDB.holder[t] = x.p THEN x.q ELSE faceDB.holder[t]]
      OBVIOUS
    <2> PICK db : db = [faceDB EXCEPT !.holder = v]
      OBVIOUS
    <2>1. v \in [Tracks -> Somebody \cup {NoRow}]
      BY <1>0, <1>11, TablesKept, ArgTyped, Bounds DEF ReassignFaces, At, Arg, Stmt, Somebody
    <2>2. db \in Tables
      BY <1>0, <2>1, TablesKept, Zenon
    <2>3. Execute(a, db) /\ At(a, "allFaces")
      BY <1>11, Zenon DEF ReassignFaces
    <2>4. "allFaces" \notin Reading
      BY DEF Reading
    <2> QED
      BY <2>2, <2>3, <2>4, StatementKeeps, Zenon
  <1> QED
    BY <1>1, <1>2, <1>3, <1>4, <1>5, <1>6, <1>7, <1>8, <1>9, <1>10, <1>11

(* What statements there are of a person, and of a track.                   *)
LEMMA PersonStatement ==
  ASSUME NEW op \in {"person", "prune", "count", "setcount", "delete", "clear", "mark", "allTracks", "allFaces"},
         NEW p \in Somebody, NEW q \in Nat, op = "setcount" => q \in 0..NTracks, op \in {"allTracks", "allFaces"} => q \in Somebody
  PROVE  /\ OfPerson(op, p, q) \in Written
         /\ op \in PassOps => \A free : OfPerson(op, p, q) \in PassStmt(free)
PROOF
  <1>1. OfPerson(op, p, q) \in Stmt
    BY Bounds DEF OfPerson, Stmt, Ops
  <1> QED
    BY <1>1 DEF OfPerson, Written, PassStmt, Reading

LEMMA TrackStatement ==
  ASSUME NEW op \in {"assign", "track", "faces", "exemplar", "move", "confirm", "ignore"}, NEW t \in Tracks,
         NEW p \in Somebody \cup {0, 1}
  PROVE  /\ (p \in Somebody \/ op = "ignore") => OfTrack(op, t, p) \in Written
         /\ (p \in Somebody /\ op \in {"move", "faces"}) => \A free : t \in free => OfTrack(op, t, p) \in PassStmt(free)
PROOF
  <1>1. t \in Nat /\ p \in Nat
    BY Bounds
  <1>2. (p \in Somebody \/ op = "ignore") => OfTrack(op, t, p) \in Stmt
    BY <1>1 DEF OfTrack, Stmt, Ops
  <1> QED
    BY <1>2 DEF OfTrack, Written, PassStmt, Reading, PassOps

(* The statements that choose what to mark.                                 *)
LEMMA MarkStatements ==
  ASSUME FaceInv, NEW a \in Actors, prog[a] # <<>>, PruneExemplars(a) \/ MarkExemplars(a)
  PROVE  FaceInv'
PROOF
  <1> PICK x : x = Arg(a)
    OBVIOUS
  <1>0. faceDB \in Tables
    BY FaceTables
  <1>1. CASE PruneExemplars(a)
    <2> PICK B : Execute(a, [faceDB EXCEPT !.exemplar =
                     [t \in Tracks |-> @[t] /\ (faceDB.holder[t] = Arg(a).p => t \in B)]])
      BY <1>1, Zenon DEF PruneExemplars
    <2> PICK v : v = [t \in Tracks |-> faceDB.exemplar[t] /\ (faceDB.holder[t] = Arg(a).p => t \in B)]
      OBVIOUS
    <2> PICK db : db = [faceDB EXCEPT !.exemplar = v]
      OBVIOUS
    <2>1. v \in [Tracks -> BOOLEAN]
      OBVIOUS
    <2>2. db \in Tables
      BY <1>0, <2>1, TablesKept, Zenon
    <2>3. Execute(a, db)
      BY Zenon
    <2>4. At(a, "prune") /\ "prune" \notin Reading
      BY <1>1 DEF PruneExemplars, Reading
    <2> QED
      BY <2>2, <2>3, <2>4, StatementKeeps, Zenon
  <1>2. CASE MarkExemplars(a)
    <2> PICK B : Execute(a, [faceDB EXCEPT !.exemplar = [t \in Tracks |-> @[t] \/ t \in B]])
      BY <1>2, Zenon DEF MarkExemplars
    <2> PICK v : v = [t \in Tracks |-> faceDB.exemplar[t] \/ t \in B]
      OBVIOUS
    <2> PICK db : db = [faceDB EXCEPT !.exemplar = v]
      OBVIOUS
    <2>1. v \in [Tracks -> BOOLEAN]
      OBVIOUS
    <2>2. db \in Tables
      BY <1>0, <2>1, TablesKept, Zenon
    <2>3. Execute(a, db)
      BY Zenon
    <2>4. At(a, "mark") /\ "mark" \notin Reading
      BY <1>2 DEF MarkExemplars, Reading
    <2> QED
      BY <2>2, <2>3, <2>4, StatementKeeps, Zenon
  <1> QED
    BY <1>1, <1>2

(* A track that has no recording any more ends the assignment.              *)
LEMMA CreateTrackKeeps ==
  ASSUME FaceInv, NEW a \in Actors, CreateTrack(a)
  PROVE  FaceInv'
PROOF
  <1>0. faceDB \in Tables /\ At(a, "track") /\ "track" \notin Reading /\ "track" \notin PassOps
    BY FaceTables DEF CreateTrack, Reading, PassOps
  <1>1. CASE Execute(a, [faceDB EXCEPT !.owner[Arg(a).t] = Arg(a).p])
    <2> PICK v : v = [faceDB.owner EXCEPT ![Arg(a).t] = Arg(a).p]
      OBVIOUS
    <2> PICK db : db = [faceDB EXCEPT !.owner = v]
      OBVIOUS
    <2>0. Arg(a).p \in Somebody
      BY <1>0, ArgTyped DEF At, Arg, Stmt
    <2>1. v \in [Tracks -> Somebody \cup {NoRow}]
      BY <1>0, <2>0, TablesKept
    <2>2. db \in Tables
      BY <1>0, <2>1, TablesKept, Zenon
    <2>3. Execute(a, db)
      BY <1>1, Zenon
    <2> QED
      BY <1>0, <2>2, <2>3, StatementKeeps, Zenon
  <1>2. CASE prog' = [prog EXCEPT ![a] = <<>>] /\ UNCHANGED <<faceDB, made, gallery, pass, used, raced, late>>
    <2>1. pass[a] = NoPass
      BY <1>0, ArgTyped DEF At, Arg, PassStmt
    <2>2. /\ faceDB' = faceDB /\ made' = made /\ gallery' = gallery /\ pass' = pass /\ late' = late
          /\ prog' = [prog EXCEPT ![a] = <<>>]
      BY <1>2
    <2>3. <<>> \in Seq(Written) /\ <<>> \in Seq(Stmt)
      BY EmptyIn, Zenon
    <2>4. prog \in [Actors -> Seq(Stmt)]
      BY DEF FaceInv
    <2>5. prog' \in [Actors -> Seq(Stmt)] /\ prog'[a] = <<>> /\ \A b \in Actors : b # a => prog'[b] = prog[b]
      BY <2>2, <2>3, <2>4
    <2>6. PassGoes(pass[a], prog'[a]) /\ PassFits(pass[a], prog'[a], faceDB, late)
      BY <2>1, <2>3, <2>5 DEF PassGoes, PassFits
    <2>7. \A b \in Actors : PassGoes(pass'[b], prog'[b]) /\ PassFits(pass'[b], prog'[b], faceDB', late')
      BY <2>2, <2>5, <2>6 DEF FaceInv
    <2> QED
      BY <2>2, <2>5, <2>7 DEF FaceInv
  <1> QED
    BY <1>1, <1>2 DEF CreateTrack

(* A person is counted, and what follows from the number.                   *)
LEMMA RecountKeeps ==
  ASSUME FaceInv, NEW a \in Actors, Recount(a)
  PROVE  FaceInv'
PROOF
  <1>0. /\ faceDB \in Tables /\ prog[a] # <<>> /\ Arg(a).op = "count" /\ Arg(a).op \notin Reading
        /\ made \in 0..MaxPersons /\ gallery \subseteq Persons
    BY DEF Recount, At, Arg, Reading, FaceInv
  <1> PICK p, n : p = Arg(a).p /\ n = Cardinality(Shown(faceDB, p))
    OBVIOUS
  <1>1. p \in Somebody
    BY <1>0, ArgTyped DEF Stmt
  <1>2. n \in 0..NTracks /\ n \in Nat
    <2>1. Shown(faceDB, p) \subseteq Tracks
      BY DEF Shown, Held
    <2> QED
      BY <2>1, FewTracks
  <1> PICK s, d, c, m : /\ s = OfPerson("setcount", p, n) /\ d = OfPerson("delete", p, 0)
                        /\ c = OfPerson("clear", p, 0) /\ m = OfPerson("mark", p, 0)
    OBVIOUS
  <1> PICK then : then = IF Arg(a).q = 0 THEN <<>> ELSE IF n = 0 THEN <<d>> ELSE <<c, m>>
    OBVIOUS
  <1> PICK W : W = Written \cap PassStmt(pass[a].free)
    OBVIOUS
  <1>3. s \in W /\ d \in W /\ c \in W /\ m \in W
    BY <1>1, <1>2, PersonStatement DEF PassOps
  <1>4. <<s>> \in Seq(W) /\ then \in Seq(W)
    BY <1>3, TuplesIn, EmptyIn
  <1> PICK more : more = <<s>> \o then
    OBVIOUS
  <1>5. more \in Seq(W)
    BY <1>4, OneAndTheOther, Zenon
  <1>6. more \in Seq(Written) /\ more \in Seq(PassStmt(pass[a].free))
    BY <1>5, Wider
  <1>7. Do(a, faceDB, more) /\ made' = made /\ gallery' = gallery
    BY DEF Recount
  <1>8. Tail(prog[a]) \in Seq(Written)
    BY <1>0, ArgTyped
  <1>9. made' \in 0..MaxPersons /\ gallery' \subseteq Persons
    BY <1>0, <1>7
  <1> QED
    BY <1>0, <1>6, <1>7, <1>8, <1>9, DoKeeps, Zenon

LEMMA StatementsKeep ==
  ASSUME FaceInv, NEW a \in Actors, Statement(a)
  PROVE  FaceInv'
PROOF
  <1>1. CreateTrack(a) \/ Recount(a) \/ PruneExemplars(a) \/ MarkExemplars(a)
        \/ CreatePerson(a) \/ DeletePerson(a) \/ UpdatePerson(a) \/ SetPersonByTrack(a) \/ ReassignTracks(a) \/ ReassignFaces(a)
        \/ SetConfirmed(a) \/ SetIgnored(a) \/ SetExemplar(a) \/ ClearExemplars(a) \/ SetCount(a)
    BY DEF Statement
  <1>2. prog[a] # <<>>
    BY <1>1 DEF CreateTrack, Recount, PruneExemplars, MarkExemplars, CreatePerson, DeletePerson, UpdatePerson, SetPersonByTrack,
       ReassignTracks, ReassignFaces, SetConfirmed, SetIgnored, SetExemplar, ClearExemplars, SetCount, At
  <1> QED
    BY <1>1, <1>2, CreateTrackKeeps, RecountKeeps, MarkStatements, ColumnStatements, Zenon

-----------------------------------------------------------------------------
(* Operations begin when their actor has nothing to do.                     *)
LEMMA BeginKeeps ==
  ASSUME FaceInv, NEW a \in Actors, NEW stmts \in Seq(Written), Begin(a, stmts), pass' = pass,
         made' \in 0..MaxPersons, gallery' \subseteq Persons
  PROVE  FaceInv'
PROOF
  <1>1. /\ prog[a] = <<>> /\ prog' = [prog EXCEPT ![a] = stmts] /\ faceDB' = faceDB /\ late' = late
    BY DEF Begin
  <1>2. pass[a] = NoPass /\ prog \in [Actors -> Seq(Stmt)]
    BY <1>1 DEF FaceInv, PassFits
  <1>3. stmts \in Seq(Stmt)
    <2>1. Written \subseteq Stmt
      BY DEF Written
    <2> QED
      BY <2>1
  <1>4. prog' \in [Actors -> Seq(Stmt)] /\ prog'[a] = stmts /\ \A b \in Actors : b # a => prog'[b] = prog[b]
    BY <1>1, <1>2, <1>3
  <1>5. PassGoes(pass[a], prog'[a]) /\ PassFits(pass[a], prog'[a], faceDB, late)
    BY <1>2, <1>4 DEF PassGoes, PassFits
  <1>6. \A b \in Actors : PassGoes(pass'[b], prog'[b]) /\ PassFits(pass'[b], prog'[b], faceDB', late')
    BY <1>1, <1>4, <1>5 DEF FaceInv
  <1> QED
    BY <1>1, <1>4, <1>6 DEF FaceInv

(* Rows change under an actor's feet; programs and passes stay.             *)
LEMMA TablesChange ==
  ASSUME FaceInv, faceDB' \in Tables, UNCHANGED <<made, prog, gallery, pass, late>>,
         \A t \in Tracks : Anchored(faceDB', t) => Anchored(faceDB, t)
  PROVE  FaceInv'
PROOF
  <1>1. \A b \in Actors : PassFits(pass'[b], prog'[b], faceDB', late')
    <2> SUFFICES ASSUME NEW b \in Actors PROVE PassFits(pass'[b], prog'[b], faceDB', late')
      OBVIOUS
    <2>1. PassFits(pass[b], prog[b], faceDB, late) /\ pass[b].free \subseteq Tracks
      BY DEF FaceInv, Passing
    <2> QED
      BY <2>1 DEF PassFits
  <1>2. \A b \in Actors : PassGoes(pass'[b], prog'[b])
    BY DEF FaceInv
  <1> QED
    BY <1>1, <1>2 DEF FaceInv

LEMMA RefreshTyped ==
  ASSUME NEW p \in Somebody
  PROVE  Refresh(p) \in Seq(Written) /\ \A free : Refresh(p) \in Seq(PassStmt(free))
PROOF
  <1> PICK s : s = OfPerson("count", p, 1)
    OBVIOUS
  <1>1. s \in Written /\ \A free : s \in PassStmt(free)
    BY PersonStatement DEF PassOps
  <1>2. <<s>> \in Seq(Written) /\ \A free : <<s>> \in Seq(PassStmt(free))
    BY <1>1, TuplesIn
  <1> QED
    BY <1>2, EmptyIn DEF Refresh

LEMMA RefreshBoth ==
  ASSUME NEW p \in Somebody, NEW free
  PROVE  Refresh(p) \in Seq(Written \cap PassStmt(free))
PROOF
  <1> PICK s, W : s = OfPerson("count", p, 1) /\ W = Written \cap PassStmt(free)
    OBVIOUS
  <1>1. s \in W
    BY PersonStatement DEF PassOps
  <1>2. <<s>> \in Seq(W)
    BY <1>1, TuplesIn
  <1> QED
    BY <1>2, EmptyIn DEF Refresh

LEMMA ConfirmingTyped ==
  ASSUME NEW S, S \subseteq Tracks
  PROVE  Confirming(S) \in Seq(Written)
PROOF
  <1> PICK n, e : n = Cardinality(S) /\ e = SetToSeq(S)
    OBVIOUS
  <1>1. n \in Nat /\ e \in [1..n -> S]
    BY FewTracks, Enumerated
  <1>2. \A i \in 1..n : OfTrack("confirm", e[i], Nobody) \in Written
    BY <1>1, TrackStatement DEF Somebody
  <1>3. Confirming(S) = [i \in 1..n |-> OfTrack("confirm", e[i], Nobody)]
    BY DEF Confirming
  <1> QED
    BY <1>1, <1>2, <1>3

LEMMA FaceRanges ==
  ASSUME FaceInv
  PROVE  /\ made \in 0..MaxPersons /\ gallery \subseteq Persons /\ TracksOf(0) \subseteq Tracks /\ Listed \subseteq Tracks
         /\ \A p : TracksOf(p) \subseteq Tracks /\ (Exists(p) => p \in Persons)
         /\ Persons \subseteq Somebody /\ Nobody \in Somebody
         /\ \A t \in Tracks : /\ faceDB.owner[t] \in Somebody \cup {NoRow}
                              /\ faceDB.holder[t] \in Somebody \cup {NoRow}
PROOF
  <1>1. faceDB \in Tables /\ made \in 0..MaxPersons /\ gallery \subseteq Persons
    BY DEF FaceInv
  <1>2. \A t \in Tracks : faceDB.owner[t] \in Somebody \cup {NoRow} /\ faceDB.holder[t] \in Somebody \cup {NoRow}
    BY <1>1, TablesKept
  <1> QED
    BY <1>1, <1>2 DEF TracksOf, Listed, Exists, Somebody

LEMMA MergeKeeps ==
  ASSUME FaceInv, NEW o \in Actors, NEW src \in Persons, NEW target \in Persons, MergePersons(o, src, target)
  PROVE  FaceInv'
PROOF
  <1>0. src \in Somebody /\ target \in Somebody /\ 0 \in Nat /\ src \in Nat /\ target \in Nat
    BY Bounds DEF Somebody
  <1> PICK x, y, d : x = OfPerson("allTracks", src, target) /\ y = OfPerson("allFaces", src, target) /\ d = OfPerson("delete", src, 0)
    OBVIOUS
  <1>1. x \in Written /\ y \in Written /\ d \in Written
    BY <1>0, PersonStatement
  <1> PICK C, R : C = Confirming(TracksOf(src)) /\ R = Refresh(target)
    OBVIOUS
  <1>2. C \in Seq(Written) /\ R \in Seq(Written)
    BY <1>0, FaceRanges, ConfirmingTyped, RefreshTyped
  <1> PICK stmts : stmts = <<x, y>> \o C \o <<d>> \o R
    OBVIOUS
  <1>3. stmts \in Seq(Written)
    BY <1>1, <1>2
  <1>4. Begin(o, stmts) /\ pass' = pass /\ made' = made /\ gallery' = gallery
    BY DEF MergePersons, Ask
  <1>5. made' \in 0..MaxPersons /\ gallery' \subseteq Persons
    BY <1>4 DEF FaceInv
  <1> QED
    BY <1>3, <1>4, <1>5, BeginKeeps, Zenon

LEMMA SplitKeeps ==
  ASSUME FaceInv, NEW o \in Actors, NEW p \in Persons, NEW ts \in SUBSET Tracks, SplitPerson(o, p, ts)
  PROVE  FaceInv'
PROOF
  <1> PICK m : m = made'
    OBVIOUS
  <1>0. p \in Somebody /\ m \in Persons /\ m \in Somebody /\ 0 \in Nat /\ m \in 0..MaxPersons /\ p \in Nat /\ m \in Nat
    BY Bounds, FaceRanges DEF Somebody, SplitPerson, Persons
  <1> PICK x, n, e : x = OfPerson("person", m, 0) /\ n = Cardinality(ts) /\ e = SetToSeq(ts)
    OBVIOUS
  <1>1. x \in Written
    BY <1>0, PersonStatement
  <1> PICK C, R, Q : C = [i \in 1..n |-> [op |-> "split", t |-> e[i], p |-> p, q |-> m]] /\ R = Refresh(p) /\ Q = Refresh(m)
    OBVIOUS
  <1>2. R \in Seq(Written) /\ Q \in Seq(Written)
    BY <1>0, RefreshTyped
  <1>3. C \in Seq(Written)
    <2>1. n \in Nat /\ e \in [1..n -> ts]
      BY FewTracks, Enumerated
    <2>2. ASSUME NEW t \in Tracks
          PROVE  [op |-> "split", t |-> t, p |-> p, q |-> m] \in Written
      <3>1. t \in Nat
        BY Bounds
      <3> QED
        BY <1>0, <3>1 DEF Written, Stmt, Ops, Reading
    <2>3. \A i \in 1..n : C[i] \in Written
      BY <2>1, <2>2
    <2> QED
      BY <2>1, <2>3
  <1> PICK stmts : stmts = <<x>> \o C \o R \o Q
    OBVIOUS
  <1>4. stmts \in Seq(Written)
    BY <1>1, <1>2, <1>3
  <1>5. Begin(o, stmts) /\ pass' = pass /\ gallery' = gallery
    BY DEF SplitPerson, Ask
  <1>6. made' \in 0..MaxPersons /\ gallery' \subseteq Persons
    BY <1>0, <1>5 DEF FaceInv
  <1> QED
    BY <1>4, <1>5, <1>6, BeginKeeps, Zenon

LEMMA DeleteRequestKeeps ==
  ASSUME FaceInv, NEW o \in Actors, NEW p \in Persons, DeletePersonRequest(o, p)
  PROVE  FaceInv'
PROOF
  <1>0. p \in Somebody /\ Nobody \in Somebody /\ Nobody \in Nat /\ 0 \in Nat
    BY DEF Somebody, Nobody
  <1> PICK x, y, d : x = OfPerson("allTracks", p, Nobody) /\ y = OfPerson("allFaces", p, Nobody) /\ d = OfPerson("delete", p, 0)
    OBVIOUS
  <1>1. x \in Written /\ y \in Written /\ d \in Written
    BY <1>0, PersonStatement
  <1> PICK stmts : stmts = <<x, y, d>>
    OBVIOUS
  <1>2. stmts \in Seq(Written)
    BY <1>1, TuplesIn
  <1>3. Begin(o, stmts) /\ pass' = pass /\ made' = made /\ gallery' = gallery
    BY DEF DeletePersonRequest, Ask
  <1>4. made' \in 0..MaxPersons /\ gallery' \subseteq Persons
    BY <1>3 DEF FaceInv
  <1> QED
    BY <1>2, <1>3, <1>4, BeginKeeps, Zenon

(* A track given to a person, an old one or a new one.                      *)
LEMMA MoveKeeps ==
  ASSUME FaceInv, NEW o \in Actors, NEW t \in Tracks, NEW new \in BOOLEAN, NEW target \in Persons, MoveTrack(o, t, new, target),
         made' \in 0..MaxPersons
  PROVE  FaceInv'
PROOF
  <1>0. target \in Somebody /\ target \in Nat /\ 0 \in Nat
    BY Bounds DEF Somebody
  <1> PICK old : old = faceDB.owner[t]
    OBVIOUS
  <1>1. old \in Somebody
    BY FaceRanges DEF MoveTrack, Listed
  <1> PICK x, y, z, c : /\ x = OfPerson("person", target, 0) /\ y = OfTrack("move", t, target)
                        /\ z = OfTrack("confirm", t, target) /\ c = OfTrack("faces", t, target)
    OBVIOUS
  <1>2. x \in Written /\ y \in Written /\ z \in Written /\ c \in Written
    BY <1>0, PersonStatement, TrackStatement
  <1> PICK A, B, C : /\ A = IF new THEN <<x>> ELSE <<>>
                     /\ B = IF old # target THEN Refresh(old) ELSE <<>>
                     /\ C = Refresh(target)
    OBVIOUS
  <1>3. A \in Seq(Written) /\ B \in Seq(Written) /\ C \in Seq(Written)
    BY <1>0, <1>1, <1>2, TuplesIn, EmptyIn, RefreshTyped
  <1> PICK stmts : stmts = A \o <<y, z, c>> \o B \o C
    OBVIOUS
  <1>4. stmts \in Seq(Written)
    BY <1>2, <1>3
  <1>5. Begin(o, stmts) /\ pass' = pass /\ gallery' = gallery
    BY DEF MoveTrack, Ask
  <1>6. gallery' \subseteq Persons
    BY <1>5 DEF FaceInv
  <1> QED
    BY <1>4, <1>5, <1>6, BeginKeeps, Zenon

LEMMA AssignRequestKeeps ==
  ASSUME FaceInv, NEW o \in Actors, NEW t \in Tracks, AssignTrackRequest(o, t)
  PROVE  FaceInv'
PROOF
  <1>0. made \in 0..MaxPersons /\ MaxPersons \in Nat /\ \A p : Exists(p) => p \in Persons
    BY FaceRanges, Bounds
  <1>1. CASE \E p \in Persons : Exists(p) /\ MoveTrack(o, t, FALSE, p) /\ UNCHANGED made
    BY <1>0, <1>1, MoveKeeps
  <1>2. CASE made < MaxPersons /\ made' = made + 1 /\ MoveTrack(o, t, TRUE, made')
    <2> PICK m : m = made'
      OBVIOUS
    <2>1. m \in Persons /\ m \in 0..MaxPersons /\ made' \in 0..MaxPersons
      BY <1>0, <1>2 DEF Persons
    <2>2. MoveTrack(o, t, TRUE, m)
      BY <1>2, Zenon
    <2>3. TRUE \in BOOLEAN
      OBVIOUS
    <2> QED
      BY <2>1, <2>2, <2>3, MoveKeeps, Zenon
  <1> QED
    BY <1>1, <1>2 DEF AssignTrackRequest

LEMMA ConfirmKeeps ==
  ASSUME FaceInv, NEW o \in Actors, NEW t \in Tracks, ConfirmTrack(o, t)
  PROVE  FaceInv'
PROOF
  <1> PICK stmts : stmts = Confirming({t})
    OBVIOUS
  <1>1. stmts \in Seq(Written)
    BY ConfirmingTyped
  <1>2. Begin(o, stmts) /\ pass' = pass /\ made' = made /\ gallery' = gallery
    BY DEF ConfirmTrack, Ask
  <1>3. made' \in 0..MaxPersons /\ gallery' \subseteq Persons
    BY <1>2 DEF FaceInv
  <1> QED
    BY <1>1, <1>2, <1>3, BeginKeeps, Zenon

LEMMA IgnoreKeeps ==
  ASSUME FaceInv, NEW o \in Actors, NEW t \in Tracks, IgnoreFace(o, t)
  PROVE  FaceInv'
PROOF
  <1> PICK ign \in {0, 1} : Ask(o, <<OfTrack("ignore", t, ign)>> \o Refresh(faceDB.holder[t]))
    BY DEF IgnoreFace
  <1> PICK h, x : h = faceDB.holder[t] /\ x = OfTrack("ignore", t, ign)
    OBVIOUS
  <1>1. h \in Somebody
    BY FaceRanges DEF IgnoreFace
  <1>2. x \in Written
    BY TrackStatement
  <1> PICK R : R = Refresh(h)
    OBVIOUS
  <1>3. R \in Seq(Written)
    BY <1>1, RefreshTyped
  <1> PICK stmts : stmts = <<x>> \o R
    OBVIOUS
  <1>4. stmts \in Seq(Written)
    BY <1>2, <1>3
  <1>5. Begin(o, stmts) /\ pass' = pass /\ made' = made /\ gallery' = gallery
    BY DEF IgnoreFace, Ask
  <1>6. made' \in 0..MaxPersons /\ gallery' \subseteq Persons
    BY <1>5 DEF FaceInv
  <1> QED
    BY <1>4, <1>5, <1>6, BeginKeeps, Zenon

(* A split looks at one track after the other.                              *)
LEMMA SplitTrackKeeps ==
  ASSUME FaceInv, NEW o \in Actors, SplitTrack(o)
  PROVE  FaceInv'
PROOF
  <1>0. prog[o] # <<>> /\ Arg(o).op = "split" /\ Arg(o).op \notin Reading
    BY DEF SplitTrack, At, Arg, Reading
  <1>1. pass[o] = NoPass /\ Tail(prog[o]) \in Seq(Written) /\ faceDB \in Tables /\ Arg(o).q \in Somebody /\ Arg(o) \in Written
    BY <1>0, ArgTyped, FaceTables DEF PassStmt, PassOps, Stmt, Written
  <1> PICK t, q : t = Arg(o).t /\ q = Arg(o).q
    OBVIOUS
  <1> PICK x, y, z : x = OfTrack("move", t, q) /\ y = OfTrack("confirm", t, q) /\ z = OfTrack("faces", t, q)
    OBVIOUS
  <1>2. x \in Written /\ y \in Written /\ z \in Written
    <2>1. t \in Nat /\ q \in Nat /\ q \in Somebody
      BY <1>0, <1>1, ArgTyped
    <2> QED
      BY <2>1 DEF OfTrack, Written, Stmt, Ops, Reading
  <1> PICK more : more = IF faceDB.owner[t] # Arg(o).p THEN <<>> ELSE <<x, y, z>>
    OBVIOUS
  <1>3. more \in Seq(Written)
    BY <1>2, TuplesIn, EmptyIn
  <1>4. Do(o, faceDB, more) /\ made' = made /\ gallery' = gallery
    BY Zenon DEF SplitTrack
  <1>5. made' \in 0..MaxPersons /\ gallery' \subseteq Persons
    BY <1>4 DEF FaceInv
  <1> QED
    BY <1>0, <1>1, <1>3, <1>4, <1>5, DoKeeps, Zenon

LEMMA LinkKeeps ==
  ASSUME FaceInv, NEW L \in SUBSET [kind : {"must", "cannot"}, ends : SUBSET Tracks], faceDB' = [faceDB EXCEPT !.links = L],
         UNCHANGED <<made, prog, gallery, pass, late>>
  PROVE  FaceInv'
PROOF
  <1>1. faceDB \in Tables
    BY FaceTables
  <1>2. faceDB' \in Tables
    BY <1>1, TablesKept, Zenon
  <1>3. faceDB'.owner = faceDB.owner /\ faceDB'.confirmed = faceDB.confirmed
    BY <1>1 DEF Tables
  <1>4. \A t \in Tracks : Anchored(faceDB', t) => Anchored(faceDB, t)
    BY <1>3 DEF Anchored
  <1> QED
    BY <1>2, <1>4, TablesChange

LEMMA LinksKeep ==
  ASSUME FaceInv
  PROVE  /\ (\E must \in {"must", "cannot"} : \E a, b \in Listed : a # b /\ CreateLink(must, a, b)) => FaceInv'
         /\ (\E l \in faceDB.links : DeleteLink(l)) => FaceInv'
PROOF
  <1>0. faceDB.links \subseteq [kind : {"must", "cannot"}, ends : SUBSET Tracks] /\ Listed \subseteq Tracks
    BY FaceTables, FaceRanges, TablesKept
  <1>1. ASSUME NEW must \in {"must", "cannot"}, NEW a \in Listed, NEW b \in Listed, CreateLink(must, a, b)
        PROVE  FaceInv'
    <2> PICK L : L = faceDB.links \cup {[kind |-> must, ends |-> {a, b}]}
      OBVIOUS
    <2>1. L \subseteq [kind : {"must", "cannot"}, ends : SUBSET Tracks]
      BY <1>0
    <2>2. faceDB' = [faceDB EXCEPT !.links = L] /\ UNCHANGED <<made, prog, gallery, pass, late>>
      BY <1>1 DEF CreateLink
    <2> QED
      BY <2>1, <2>2, LinkKeeps
  <1>2. ASSUME NEW l \in faceDB.links, DeleteLink(l)
        PROVE  FaceInv'
    <2> PICK L : L = faceDB.links \ {l}
      OBVIOUS
    <2>1. L \subseteq [kind : {"must", "cannot"}, ends : SUBSET Tracks]
      BY <1>0
    <2>2. faceDB' = [faceDB EXCEPT !.links = L] /\ UNCHANGED <<made, prog, gallery, pass, late>>
      BY <1>2 DEF DeleteLink
    <2> QED
      BY <2>1, <2>2, LinkKeeps
  <1> QED
    BY <1>1, <1>2

LEMMA LossKeeps ==
  ASSUME FaceInv, NEW clip, LoseRecording(clip)
  PROVE  FaceInv'
PROOF
  <1> PICK v, w : /\ v = [t \in Tracks |-> IF t \in clip THEN NoRow ELSE faceDB.owner[t]]
                  /\ w = [t \in Tracks |-> IF t \in clip THEN NoRow ELSE faceDB.holder[t]]
    OBVIOUS
  <1> PICK m : m = [faceDB EXCEPT !.owner = v]
    OBVIOUS
  <1> PICK n : n = [m EXCEPT !.holder = w]
    OBVIOUS
  <1>0. faceDB \in Tables
    BY FaceTables
  <1>1. v \in [Tracks -> Somebody \cup {NoRow}] /\ w \in [Tracks -> Somebody \cup {NoRow}]
    BY FaceRanges
  <1>2. m \in Tables
    BY <1>0, <1>1, TablesKept, Zenon
  <1>3. n \in Tables
    BY <1>1, <1>2, TablesKept, Zenon
  <1>4. faceDB' = n /\ UNCHANGED <<made, prog, gallery, pass, late>>
    BY <1>0, Zenon DEF LoseRecording
  <1>5. n.owner = v /\ n.confirmed = faceDB.confirmed
    BY <1>0 DEF Tables
  <1>6. \A t \in Tracks : Anchored(n, t) => Anchored(faceDB, t)
    BY <1>5 DEF Anchored
  <1> QED
    BY <1>3, <1>4, <1>6, TablesChange

(* The worker.                                                              *)
LEMMA AssignRecordingKeeps ==
  ASSUME FaceInv, NEW clip \in Clips, AssignRecording(clip)
  PROVE  FaceInv'
PROOF
  <1> PICK S : S = {t \in clip : ~faceDB.ignored[t]}
    OBVIOUS
  <1>1. PICK order \in SetToSeqs(S) : Begin(Worker, [i \in DOMAIN order |-> OfTrack("assign", order[i], Nobody)])
    BY DEF AssignRecording
  <1>2. S \subseteq Tracks
    BY FaceIdentityAssumption
  <1> PICK n : n = Cardinality(S)
    OBVIOUS
  <1>3. n \in Nat /\ order \in [1..n -> S]
    BY <1>2, FewTracks DEF SetToSeqs
  <1> PICK stmts : stmts = [i \in 1..n |-> OfTrack("assign", order[i], Nobody)]
    OBVIOUS
  <1>4. stmts \in Seq(Written)
    <2>1. \A i \in 1..n : OfTrack("assign", order[i], Nobody) \in Written
      BY <1>2, <1>3, TrackStatement DEF Somebody
    <2> QED
      BY <1>3, <2>1
  <1>5. Begin(Worker, stmts)
    BY <1>1, <1>3
  <1>6. pass' = pass /\ made' = made /\ gallery' \subseteq Persons
    BY DEF AssignRecording
  <1>7. made' \in 0..MaxPersons /\ Worker \in Actors
    BY <1>6 DEF FaceInv, Actors
  <1> QED
    BY <1>4, <1>5, <1>6, <1>7, BeginKeeps, Zenon

LEMMA AssignTrackKeeps ==
  ASSUME FaceInv, AssignTrack
  PROVE  FaceInv'
PROOF
  <1> PICK t : t = Arg(Worker).t
    OBVIOUS
  <1> DEFINE with(p) == <<OfTrack("track", t, p), OfTrack("faces", t, p), OfTrack("exemplar", t, p),
                          OfPerson("prune", p, 0), OfPerson("count", p, 0)>>
  <1>0. /\ prog[Worker] # <<>> /\ Arg(Worker).op \notin Reading /\ Worker \in Actors /\ pass[Worker] = NoPass
        /\ faceDB \in Tables /\ made \in 0..MaxPersons /\ gallery \subseteq Persons
    BY DEF AssignTrack, At, Arg, Reading, Actors, FaceInv
  <1>1. Tail(prog[Worker]) \in Seq(Written) /\ t \in Nat
    BY <1>0, ArgTyped
  <1>2. ASSUME NEW p \in Persons
        PROVE  with(p) \in Seq(Written)
    <2>1. p \in Somebody /\ p \in Nat /\ 0 \in Nat
      BY Bounds DEF Somebody
    <2> PICK x, y, z, u, v : /\ x = OfTrack("track", t, p) /\ y = OfTrack("faces", t, p) /\ z = OfTrack("exemplar", t, p)
                             /\ u = OfPerson("prune", p, 0) /\ v = OfPerson("count", p, 0)
      OBVIOUS
    <2>2. u \in Written /\ v \in Written
      BY <2>1, PersonStatement
    <2>3. x \in Written /\ y \in Written /\ z \in Written
      BY <1>1, <2>1 DEF OfTrack, Written, Stmt, Ops, Reading
    <2> QED
      BY <2>2, <2>3, TuplesIn
  <1>3. CASE \E p \in gallery : Do(Worker, faceDB, with(p)) /\ UNCHANGED <<made, gallery>>
    <2> PICK p \in gallery : Do(Worker, faceDB, with(p)) /\ UNCHANGED <<made, gallery>>
      BY <1>3
    <2> PICK more : more = with(p)
      OBVIOUS
    <2>1. more \in Seq(Written)
      BY <1>0, <1>2
    <2>2. Do(Worker, faceDB, more) /\ made' \in 0..MaxPersons /\ gallery' \subseteq Persons
      BY <1>0
    <2> QED
      BY <1>0, <1>1, <2>1, <2>2, DoKeeps, Zenon
  <1>4. CASE /\ made < MaxPersons /\ made' = made + 1 /\ gallery' = gallery \cup {made'}
             /\ Do(Worker, faceDB, <<OfPerson("person", made', 0)>> \o with(made'))
    <2> PICK m : m = made'
      OBVIOUS
    <2>1. m \in Persons /\ m \in Somebody /\ m \in 0..MaxPersons /\ gallery' \subseteq Persons
      BY <1>0, <1>4, Bounds DEF Persons, Somebody
    <2> PICK x, w : x = OfPerson("person", m, 0) /\ w = with(m)
      OBVIOUS
    <2>2. x \in Written /\ w \in Seq(Written)
      BY <1>2, <2>1, PersonStatement
    <2> PICK more : more = <<x>> \o w
      OBVIOUS
    <2>3. more \in Seq(Written)
      BY <2>2
    <2>4. Do(Worker, faceDB, more)
      BY <1>4
    <2> QED
      BY <1>0, <1>1, <2>1, <2>3, <2>4, DoKeeps, Zenon
  <1> QED
    BY <1>3, <1>4 DEF AssignTrack

-----------------------------------------------------------------------------
(* Passes.                                                                  *)
LEMMA OwnStatement ==
  ASSUME NEW op \in {"links", "sweep", "apply"}
  PROVE  Own(op) \in Stmt /\ \A free : Own(op) \in PassStmt(free)
PROOF
  <1>1. Own(op) \in Stmt
    BY DEF Own, OfPerson, Stmt, Ops, Somebody, Nobody
  <1> QED
    BY <1>1 DEF PassStmt, PassOps, Own, OfPerson

LEMMA GoesOn ==
  ASSUME NEW P, SeenOK(P)
  PROVE  P # NoPass
PROOF
  BY NoPassTyped DEF SeenOK

(* What an actor has to do when a pass reads, spreads or writes.            *)
LEMMA PassStage ==
  ASSUME FaceInv, NEW a \in Actors
  PROVE  /\ At(a, "links") => prog[a] = <<Own("links"), Own("sweep"), Own("apply")>> /\ SeenOK(pass[a])
         /\ At(a, "sweep") => prog[a] = <<Own("sweep"), Own("apply")>> /\ SeenOK(pass[a]) /\ LabelOK(pass[a])
         /\ At(a, "apply") => prog[a] = <<Own("apply")>> /\ SeenOK(pass[a]) /\ LabelOK(pass[a])
         /\ pass[a] \in Passing
         /\ \A t \in pass[a].free : pass[a] # NoPass /\ Anchored(faceDB, t) => t \in late
PROOF
  <1>1. /\ PassGoes(pass[a], prog[a]) /\ pass[a] \in Passing
        /\ \A t \in pass[a].free : pass[a] # NoPass /\ Anchored(faceDB, t) => t \in late
    BY DEF FaceInv, PassFits
  <1>2. \A op \in {"links", "sweep", "apply"} : Own(op).op = op
    BY DEF Own, OfPerson
  <1>3. \A op \in {"links", "sweep", "apply"} : At(a, op) => prog[a] \notin Seq(Written)
    BY DEF At, Written, Reading
  <1> QED
    BY <1>1, <1>2, <1>3 DEF PassGoes, At

(* The step of a pass that reads or spreads.                                *)
LEMMA PassMoves ==
  ASSUME FaceInv, NEW a \in Actors \ {Worker}, NEW P \in Passing, NEW todo,
         \A t \in P.free : Anchored(faceDB, t) => t \in late,
         pass' = [pass EXCEPT ![a] = P], prog' = [prog EXCEPT ![a] = todo], UNCHANGED <<faceDB, made, gallery, late>>,
         \/ todo = <<Own("links"), Own("sweep"), Own("apply")>> /\ SeenOK(P)
         \/ todo \in {<<Own("sweep"), Own("apply")>>, <<Own("apply")>>} /\ SeenOK(P) /\ LabelOK(P)
  PROVE  FaceInv'
PROOF
  <1> PICK F : F = PassStmt(P.free)
    OBVIOUS
  <1> PICK x, y, z : x = Own("links") /\ y = Own("sweep") /\ z = Own("apply")
    OBVIOUS
  <1>1. x \in Stmt /\ y \in Stmt /\ z \in Stmt
    BY OwnStatement
  <1>2. x \in F /\ y \in F /\ z \in F
    BY OwnStatement
  <1>3. todo \in Seq(Stmt) /\ todo \in Seq(F) /\ todo # <<>>
    <2>1. todo \in {<<x, y, z>>, <<y, z>>, <<z>>}
      BY Zenon
    <2>2. <<x, y, z>> \in Seq(Stmt) /\ <<y, z>> \in Seq(Stmt) /\ <<z>> \in Seq(Stmt)
      BY <1>1
    <2>3. <<x, y, z>> \in Seq(F) /\ <<y, z>> \in Seq(F) /\ <<z>> \in Seq(F)
      BY <1>2
    <2>4. <<x, y, z>> # <<>> /\ <<y, z>> # <<>> /\ <<z>> # <<>>
      OBVIOUS
    <2> QED
      BY <2>1, <2>2, <2>3, <2>4, Zenon
  <1>4. PassGoes(P, todo)
    BY DEF PassGoes
  <1>5. PassFits(P, todo, faceDB, late)
    BY <1>3 DEF PassFits
  <1>6. prog \in [Actors -> Seq(Stmt)] /\ pass \in [Actors -> Passing]
    BY DEF FaceInv
  <1>7. /\ prog' \in [Actors -> Seq(Stmt)] /\ pass' \in [Actors -> Passing] /\ prog'[a] = todo /\ pass'[a] = P
        /\ \A b \in Actors : b # a => prog'[b] = prog[b] /\ pass'[b] = pass[b]
    BY <1>3, <1>6
  <1>8. \A b \in Actors : PassGoes(pass'[b], prog'[b]) /\ PassFits(pass'[b], prog'[b], faceDB', late')
    BY <1>4, <1>5, <1>7 DEF FaceInv
  <1>9. pass'[Worker] = NoPass
    BY <1>7 DEF FaceInv, Actors
  <1> QED
    BY <1>7, <1>8, <1>9 DEF FaceInv

LEMMA ReclusterKeeps ==
  ASSUME FaceInv, NEW a \in Actors \ {Worker}, Recluster(a)
  PROVE  FaceInv'
PROOF
  <1> PICK D, seen, free : /\ D = Listed /\ seen = [t \in D |-> faceDB.owner[t]]
                           /\ free = {t \in D : ~Anchored(faceDB, t)}
    OBVIOUS
  <1> PICK P : P = [NoPass EXCEPT !.seen = seen, !.free = free]
    OBVIOUS
  <1>1. /\ Begin(a, <<Own("links"), Own("sweep"), Own("apply")>>) /\ pass' = [pass EXCEPT ![a] = P]
        /\ UNCHANGED <<made, gallery>> /\ Cardinality(D) > 1
    BY DEF Recluster
  <1>2. D \subseteq Tracks /\ \A t \in D : faceDB.owner[t] \in Somebody
    BY FaceRanges DEF Listed
  <1>3. seen \in Labelling /\ free \subseteq Tracks
    <2>1. seen \in [D -> Nat]
      BY <1>2, Bounds
    <2> QED
      BY <1>2, <2>1 DEF Labelling
  <1>4. P \in Passing /\ P.seen = seen /\ P.free = free
    BY <1>3, NoPassTyped DEF Passing
  <1>5. D # {}
    BY <1>1, FS_EmptySet
  <1>6. SeenOK(P)
    <2>1. DOMAIN seen = D /\ free \subseteq D
      OBVIOUS
    <2>2. ASSUME NEW t \in D
          PROVE  seen[t] \in Somebody /\ (t \notin free => seen[t] \in Persons)
      BY <1>2 DEF Anchored, Somebody
    <2> QED
      BY <1>4, <1>5, <2>1, <2>2 DEF SeenOK
  <1>7. prog[a] = <<>> /\ pass[a] = NoPass
    BY <1>1 DEF Begin, FaceInv, PassFits
  <1> PICK todo : todo = <<Own("links"), Own("sweep"), Own("apply")>>
    OBVIOUS
  <1>8. prog' = [prog EXCEPT ![a] = todo] /\ UNCHANGED <<faceDB, made, gallery, late>>
    BY <1>1 DEF Begin
  <1>9. \A t \in P.free : Anchored(faceDB, t) => t \in late
    BY <1>4
  <1> QED
    BY <1>1, <1>4, <1>6, <1>7, <1>8, <1>9, PassMoves, Zenon

(* The links: pairs of tracks the pass knows.                               *)
LEMMA ReadLinksKeeps ==
  ASSUME FaceInv, NEW a \in Actors \ {Worker}, ReadLinks(a)
  PROVE  FaceInv'
PROOF
  <1> PICK O, D : O = pass[a] /\ D = DOMAIN O.seen
    OBVIOUS
  <1> DEFINE pairs(sort) == {l.ends : l \in {m \in faceDB.links : m.kind = sort /\ m.ends \subseteq D}}
  <1> PICK C, M, N : C = pairs("cannot") /\ M = pairs("must") /\ N = {e \in Alike \ C : e \subseteq D}
    OBVIOUS
  <1> PICK lab, E : /\ lab = [t \in D |-> IF t \in O.free THEN MaxPersons + t ELSE O.seen[t]]
                    /\ E = {[ends |-> e, w |-> Similar] : e \in N} \cup {[ends |-> e, w |-> Tie] : e \in M}
    OBVIOUS
  <1> PICK P : P = [O EXCEPT !.label = lab, !.edges = E, !.cannot = C]
    OBVIOUS
  <1>0. faceDB.links \subseteq [kind : {"must", "cannot"}, ends : SUBSET Tracks]
    BY FaceTables, TablesKept
  <1>1. At(a, "links") /\ prog' = [prog EXCEPT ![a] = Tail(@)] /\ UNCHANGED <<faceDB, made, gallery, late>>
    BY DEF ReadLinks
  <1>2. pass' = [pass EXCEPT ![a].label  = lab, ![a].edges = E, ![a].cannot = C]
    BY Zenon DEF ReadLinks
  <1>3. pass' = [pass EXCEPT ![a] = P]
    BY <1>2
  <1>4. prog[a] = <<Own("links"), Own("sweep"), Own("apply")>> /\ SeenOK(O) /\ O \in Passing /\ O # NoPass
    BY <1>1, PassStage, GoesOn
  <1>5. D \subseteq Tracks /\ O.free \subseteq D /\ D \subseteq Nat
    BY <1>4, Bounds DEF Passing, Labelling, SeenOK
  <1>6. \A X \in C \cup M \cup N : X \subseteq D
    OBVIOUS
  <1>7. C \subseteq SUBSET Tracks /\ M \subseteq SUBSET Tracks /\ N \subseteq SUBSET Tracks
    BY <1>5, <1>6
  <1>8. E \subseteq Edge /\ \A e \in E : e.ends \subseteq D
    <2>1. ASSUME NEW e \in E
          PROVE  e \in Edge /\ e.ends \subseteq D
      BY <1>6, <1>7 DEF Edge
    <2> QED
      BY <2>1
  <1>9. ASSUME NEW t \in D
        PROVE  lab[t] \in Nat /\ lab[t] # 0
    <2>1. CASE t \in O.free
      <3>1. t \in Nat /\ t # 0 /\ MaxPersons \in Nat
        BY <1>5, Bounds DEF Tracks
      <3> QED
        BY <2>1, <3>1
    <2>2. CASE t \notin O.free
      <3>1. O.seen[t] \in Persons
        BY <1>4, <2>2 DEF SeenOK
      <3> QED
        BY <2>2, <3>1, Bounds DEF Persons
    <2> QED
      BY <2>1, <2>2
  <1>10. lab \in Labelling
    <2>1. lab \in [D -> Nat]
      BY <1>9
    <2> QED
      BY <1>5, <2>1 DEF Labelling
  <1>11. /\ P \in Passing /\ P.seen = O.seen /\ P.free = O.free /\ P.label = lab /\ P.edges = E
    BY <1>4, <1>7, <1>8, <1>10 DEF Passing
  <1>12. SeenOK(P)
    BY <1>4, <1>11 DEF SeenOK
  <1>13. LabelOK(P)
    BY <1>8, <1>9, <1>11 DEF LabelOK, Nobody
  <1> PICK todo : todo = <<Own("sweep"), Own("apply")>>
    OBVIOUS
  <1>14. prog' = [prog EXCEPT ![a] = todo]
    BY <1>1, <1>4
  <1>15. \A t \in P.free : Anchored(faceDB, t) => t \in late
    BY <1>4, <1>11, PassStage
  <1> QED
    BY <1>1, <1>3, <1>11, <1>12, <1>13, <1>14, <1>15, PassMoves, Zenon

(* Of some edges with one weight there are no more than sets of tracks.     *)
LEMMA FewEdges ==
  ASSUME NEW H, NEW w, H \subseteq Edge, \A e \in H : e.w = w
  PROVE  Cardinality(H) \in 0..Cardinality(SUBSET Tracks) /\ Cardinality(SUBSET Tracks) \in Nat
PROOF
  <1> PICK f : f = [e \in H |-> e.ends]
    OBVIOUS
  <1>1. IsFiniteSet(SUBSET Tracks)
    BY Bounds, FS_SUBSET
  <1>2. f \in [H -> SUBSET Tracks]
    BY DEF Edge
  <1>3. ASSUME NEW d \in H, NEW e \in H, f[d] = f[e]
        PROVE  d = e
    BY <1>3 DEF Edge
  <1>4. f \in Injection(H, SUBSET Tracks)
    BY <1>2, <1>3 DEF Injection, IsInjective
  <1>5. IsFiniteSet(H) /\ Cardinality(H) <= Cardinality(SUBSET Tracks)
    BY <1>1, <1>4, FS_Injection, Zenon
  <1> QED
    BY <1>1, <1>5, FS_CardinalityType

LEMMA ScoreFew ==
  ASSUME NEW P, P.edges \subseteq Edge, NEW lab, NEW t, NEW l
  PROVE  Score(P, lab, t, l) \in 0..5 * Cardinality(SUBSET Tracks) /\ Cardinality(SUBSET Tracks) \in Nat
PROOF
  <1> DEFINE hits(w) == {e \in P.edges : e.w = w /\ t \in e.ends /\ \E u \in e.ends \ {t} : lab[u] = l}
  <1> PICK c, h, k : c = Cardinality(SUBSET Tracks) /\ h = Cardinality(hits(Similar)) /\ k = Cardinality(hits(Tie))
    OBVIOUS
  <1>1. \A w : hits(w) \subseteq Edge /\ \A e \in hits(w) : e.w = w
    OBVIOUS
  <1> HIDE DEF hits
  <1>2. h \in 0..c /\ k \in 0..c /\ c \in Nat
    BY <1>1, FewEdges
  <1> USE DEF hits
  <1>3. Score(P, lab, t, l) = 2 * h + 3 * k
    BY DEF Score, Similar, Tie
  <1> QED
    BY <1>2, <1>3

(* The least of the labels that weigh most.                                 *)
Heavy(near, sc) == {l \in near : sc[l] = Max({sc[m] : m \in near})}

LEMMA Heaviest ==
  ASSUME NEW near, near # {}, near \subseteq Nat, NEW c \in Nat, NEW sc, \A l \in near : sc[l] \in 0..c
  PROVE  Min(Heavy(near, sc)) \in near
PROOF
  <1> PICK T, top : T = {sc[l] : l \in near} /\ top = Max(T)
    OBVIOUS
  <1> PICK B : B = {l \in near : sc[l] = top}
    OBVIOUS
  <1>1. T \subseteq 0..c /\ T # {}
    OBVIOUS
  <1>2. top \in T
    BY <1>1, Greatest, Zenon
  <1>3. B # {} /\ B \subseteq Nat
    BY <1>2
  <1>4. Min(B) \in B
    BY <1>3, Least, Zenon
  <1> QED
    BY <1>4 DEF Heavy

(* A track adopts a label that is there.                                    *)
LEMMA AdoptFits ==
  ASSUME NEW P, P.edges \subseteq Edge, NEW D, \A e \in P.edges : e.ends \subseteq D,
         NEW lab \in [D -> Nat \ {0}], NEW t \in D
  PROVE  Adopt(P, lab, t) \in Nat \ {0}
PROOF
  <1> PICK near, c : /\ near = {lab[u] : u \in (UNION {e.ends : e \in {f \in P.edges : t \in f.ends}}) \ {t}}
                     /\ c = 5 * Cardinality(SUBSET Tracks)
    OBVIOUS
  <1> PICK sc : sc = [l \in near |-> Score(P, lab, t, l)]
    OBVIOUS
  <1> PICK B : B = {l \in near : sc[l] = Max({sc[m] : m \in near})}
    OBVIOUS
  <1>1. near \subseteq Nat \ {0} /\ near \subseteq Nat
    OBVIOUS
  <1>2. \A l \in near : Score(P, lab, t, l) \in 0..c
    BY ScoreFew, Zenon
  <1>6. c \in Nat
    <2> PICK k : k = Cardinality(SUBSET Tracks)
      OBVIOUS
    <2>1. k \in Nat
      BY Bounds, FS_SUBSET, FS_CardinalityType
    <2> QED
      BY <2>1
  <1>3. Adopt(P, lab, t) = IF near = {} \/ Max({sc[m] : m \in near}) <= Score(P, lab, t, lab[t]) THEN lab[t] ELSE Min(B)
    <2>1. {sc[m] : m \in near} = {Score(P, lab, t, l) : l \in near}
      OBVIOUS
    <2>2. B = {l \in near : Score(P, lab, t, l) = Max({Score(P, lab, t, m) : m \in near})}
      BY <2>1
    <2> QED
      BY <2>1, <2>2, Zenon DEF Adopt
  <1>4. near # {} => Min(B) \in near
    <2>1. \A l \in near : sc[l] \in 0..c
      BY <1>2, Zenon
    <2> SUFFICES ASSUME near # {} PROVE Min(B) \in near
      OBVIOUS
    <2>2. Min(Heavy(near, sc)) \in near
      BY <1>1, <1>6, <2>1, Heaviest, Zenon
    <2> QED
      BY <2>2, Zenon DEF Heavy
  <1>5. lab[t] \in Nat \ {0}
    OBVIOUS
  <1> QED
    BY <1>1, <1>3, <1>4, <1>5

(* What a round makes of the labels, one track after another.               *)
RoundOf(lab, P, order, l) ==
  /\ lab[0] = P.label
  /\ \A i \in 1..l : lab[i] = [lab[i - 1] EXCEPT ![order[i]] = Adopt(P, lab[i - 1], order[i])]
  /\ Relabelled(P, order) = lab[l]

LEMMA RoundRuns ==
  ASSUME NEW P, NEW order, NEW l \in Nat, Len(order) = l
  PROVE  \E lab : RoundOf(lab, P, order, l)
PROOF
  <1> DEFINE Step(x, i) == [x EXCEPT ![order[i]] = Adopt(P, x, order[i])]
  <1> DEFINE Lab(f, n) == f = [i \in 0..n |-> IF i = 0 THEN P.label ELSE Step(f[i - 1], i)]
  <1> DEFINE Shape == {n \in 0..l : \E f : Lab(f, n)}
  <1>1. \E f : Lab(f, l)
    <2>1. 0 \in Shape
      <3> PICK e : e = [i \in 0..0 |-> P.label]
        OBVIOUS
      <3> HIDE DEF Step
      <3>1. Lab(e, 0)
        OBVIOUS
      <3> HIDE DEF Lab
      <3> QED
        BY <3>1
    <2>2. ASSUME NEW n \in 0..l, n \in Shape, n < l
          PROVE  n + 1 \in Shape
      <3> PICK f : Lab(f, n)
        BY <2>2
      <3> HIDE DEF Step
      <3> PICK g : g = [i \in 0..n + 1 |-> IF i <= n THEN f[i] ELSE Step(f[n], n + 1)]
        OBVIOUS
      <3>1. Lab(g, n + 1)
        <4>1. ASSUME NEW i \in 0..n + 1
              PROVE  g[i] = IF i = 0 THEN P.label ELSE Step(g[i - 1], i)
          <5>1. CASE i = 0
            BY <5>1
          <5>2. CASE i <= n /\ i # 0
            <6>1. i \in 0..n /\ i - 1 \in 0..n + 1 /\ i - 1 <= n
              BY <5>2
            <6>2. g[i] = f[i] /\ g[i - 1] = f[i - 1]
              BY <5>2, <6>1
            <6> QED
              BY <5>2, <6>1, <6>2
          <5>3. CASE ~ (i <= n)
            <6>1. i = n + 1 /\ i # 0 /\ i - 1 = n /\ n \in 0..n + 1 /\ n <= n
              BY <5>3
            <6>2. g[n] = f[n]
              BY <6>1
            <6> QED
              BY <5>3, <6>1, <6>2
          <5> QED
            BY <5>1, <5>2, <5>3
        <4> QED
          BY <4>1
      <3>2. n + 1 \in 0..l
        BY <2>2
      <3> HIDE DEF Lab
      <3> QED
        BY <3>1, <3>2
    <2> HIDE DEF Shape
    <2>3. 0..l \subseteq Shape
      BY <2>1, <2>2, CountingUp, Zenon
    <2>4. l \in Shape
      BY <2>3
    <2> QED
      BY <2>4 DEF Shape
  <1> PICK f : f = CHOOSE g : Lab(g, l)
    OBVIOUS
  <1>2. Lab(f, l)
    <2> HIDE DEF Lab
    <2> QED
      BY <1>1
  <1>3. Relabelled(P, order) = f[l]
    BY DEF Relabelled
  <1>4. f[0] = P.label /\ \A i \in 1..l : f[i] = Step(f[i - 1], i)
    <2> HIDE DEF Step
    <2> PICK g : g = [i \in 0..l |-> IF i = 0 THEN P.label ELSE Step(f[i - 1], i)]
      OBVIOUS
    <2>1. g[0] = P.label /\ \A i \in 1..l : g[i] = Step(f[i - 1], i)
      OBVIOUS
    <2>2. f = g
      BY <1>2
    <2> QED
      BY <2>1, <2>2, Zenon
  <1>5. RoundOf(f, P, order, l)
    BY <1>3, <1>4 DEF RoundOf
  <1> QED
    BY <1>5

LEMMA RelabelledFits ==
  ASSUME NEW P, P.edges \subseteq Edge, NEW D, \A e \in P.edges : e.ends \subseteq D,
         P.label \in [D -> Nat \ {0}], NEW l \in Nat, NEW order \in [1..l -> D]
  PROVE  Relabelled(P, order) \in [D -> Nat \ {0}]
PROOF
  <1> PICK L : L = [D -> Nat \ {0}]
    OBVIOUS
  <1>1. Len(order) = l
    OBVIOUS
  <1> PICK lab : RoundOf(lab, P, order, l)
    BY <1>1, RoundRuns
  <1> DEFINE Done == {n \in 0..l : lab[n] \in L}
  <1>2. 0 \in Done
    BY DEF RoundOf
  <1>3. ASSUME NEW n \in 0..l, n \in Done, n < l
        PROVE  n + 1 \in Done
    <2> PICK k : k = n + 1
      OBVIOUS
    <2>0. k \in 1..l /\ k \in 0..l /\ k - 1 = n
      BY <1>3
    <2> PICK x, t : x = lab[n] /\ t = order[k]
      OBVIOUS
    <2>1. x \in [D -> Nat \ {0}] /\ t \in D
      BY <1>3, <2>0
    <2>2. lab[k] = [x EXCEPT ![t] = Adopt(P, x, t)]
      BY <2>0, Zenon DEF RoundOf
    <2>3. Adopt(P, x, t) \in Nat \ {0}
      BY <2>1, AdoptFits, Zenon
    <2>4. lab[k] \in L
      BY <2>1, <2>2, <2>3
    <2> QED
      BY <2>0, <2>4
  <1> HIDE DEF Done
  <1>4. 0..l \subseteq Done
    BY <1>2, <1>3, CountingUp, Zenon
  <1> USE DEF Done
  <1>5. lab[l] \in L
    BY <1>4
  <1> QED
    BY <1>5 DEF RoundOf

Swept(a, P, order) ==
  /\ prog' = IF Relabelled(P, order) = P.label THEN [prog EXCEPT ![a] = Tail(@)] ELSE prog
  /\ pass' = [pass EXCEPT ![a].label = Relabelled(P, order)]

LEMMA SweepKeeps ==
  ASSUME FaceInv, NEW a \in Actors \ {Worker}, Sweep(a)
  PROVE  FaceInv'
PROOF
  <1> PICK O, D : O = pass[a] /\ D = DOMAIN O.seen
    OBVIOUS
  <1> PICK order \in SetToSeqs(O.free) : Swept(a, O, order)
    BY Zenon DEF Sweep, Swept
  <1> PICK new : new = Relabelled(O, order)
    OBVIOUS
  <1> PICK P : P = [O EXCEPT !.label = new]
    OBVIOUS
  <1>1. At(a, "sweep") /\ UNCHANGED <<faceDB, made, gallery, late>>
    BY DEF Sweep
  <1>2. prog[a] = <<Own("sweep"), Own("apply")>> /\ SeenOK(O) /\ LabelOK(O) /\ O \in Passing /\ O # NoPass
    BY <1>1, PassStage, GoesOn
  <1>3. D \subseteq Tracks /\ O.free \subseteq D /\ O.edges \subseteq Edge /\ \A e \in O.edges : e.ends \subseteq D
    BY <1>2 DEF Passing, Labelling, SeenOK, LabelOK
  <1>4. O.label \in [D -> Nat \ {0}]
    <2>1. O.label \in [D -> Nat]
      BY <1>2 DEF Passing, Labelling, LabelOK
    <2> QED
      BY <1>2, <2>1 DEF LabelOK, Nobody
  <1> PICK l : l = Cardinality(O.free)
    OBVIOUS
  <1>5. l \in Nat /\ order \in [1..l -> D]
    <2>1. O.free \subseteq Tracks
      BY <1>3
    <2> QED
      BY <1>3, <2>1, FewTracks DEF SetToSeqs
  <1>6. new \in [D -> Nat \ {0}]
    BY <1>3, <1>4, <1>5, RelabelledFits, Zenon
  <1>7. new \in Labelling
    <2>1. new \in [D -> Nat]
      BY <1>6
    <2> QED
      BY <1>3, <2>1 DEF Labelling
  <1>8. /\ P \in Passing /\ P.seen = O.seen /\ P.free = O.free /\ P.label = new /\ P.edges = O.edges
    BY <1>2, <1>7 DEF Passing
  <1>9. SeenOK(P)
    BY <1>2, <1>8 DEF SeenOK
  <1>10. LabelOK(P)
    BY <1>3, <1>6, <1>8 DEF LabelOK, Nobody
  <1> PICK todo : todo = IF new = O.label THEN <<Own("apply")>> ELSE prog[a]
    OBVIOUS
  <1>11. prog' = [prog EXCEPT ![a] = todo]
    <2>1. prog \in [Actors -> Seq(Stmt)]
      BY DEF FaceInv
    <2>2. prog[a] = <<Own("sweep"), Own("apply")>> => Tail(prog[a]) = <<Own("apply")>>
      OBVIOUS
    <2>3. [prog EXCEPT ![a] = prog[a]] = prog
      BY <2>1
    <2>4. CASE new = O.label
      <3>1. prog' = [prog EXCEPT ![a] = Tail(prog[a])] /\ todo = Tail(prog[a])
        BY <1>2, <2>2, <2>4, Zenon DEF Swept
      <3> QED
        BY <3>1, Zenon
    <2>5. CASE new # O.label
      BY <2>3, <2>5, Zenon DEF Swept
    <2> QED
      BY <2>4, <2>5
  <1>12. todo \in {<<Own("sweep"), Own("apply")>>, <<Own("apply")>>}
    BY <1>2
  <1>13. pass' = [pass EXCEPT ![a] = P]
    BY DEF Swept
  <1>14. \A t \in P.free : Anchored(faceDB, t) => t \in late
    BY <1>2, <1>8, PassStage
  <1> QED
    <2>1. \/ todo = <<Own("links"), Own("sweep"), Own("apply")>> /\ SeenOK(P)
          \/ todo \in {<<Own("sweep"), Own("apply")>>, <<Own("apply")>>} /\ SeenOK(P) /\ LabelOK(P)
      BY <1>9, <1>10, <1>12, Zenon
    <2>2. P \in Passing /\ UNCHANGED <<faceDB, made, gallery, late>>
      BY <1>1, <1>8
    <2> QED
      BY <1>11, <1>13, <1>14, <2>1, <2>2, PassMoves, Zenon

(* The person most of some tracks have already.                             *)
Common(known, have) == {p \in known : \A q \in known : have[p] >= have[q]}

LEMMA Commonest ==
  ASSUME NEW known, known # {}, known \subseteq Nat, NEW c \in Nat, NEW have, \A p \in known : have[p] \in 0..c
  PROVE  Min(Common(known, have)) \in known
PROOF
  <1> PICK T, top : T = {have[p] : p \in known} /\ top = Max(T)
    OBVIOUS
  <1> PICK B : B = {p \in known : \A q \in known : have[p] >= have[q]}
    OBVIOUS
  <1>1. T \subseteq 0..c /\ T # {}
    OBVIOUS
  <1>2. top \in T /\ \A x \in T : x <= top
    BY <1>1, Greatest, Zenon
  <1>3. B # {} /\ B \subseteq Nat
    <2> PICK p \in known : have[p] = top
      BY <1>2
    <2>1. \A q \in known : have[q] <= have[p]
      BY <1>2
    <2>2. \A q \in known : have[p] >= have[q]
      BY <2>1
    <2> QED
      BY <2>2
  <1>4. Min(B) \in B
    BY <1>3, Least, Zenon
  <1> QED
    BY <1>4 DEF Common

LEMMA CanonicalFits ==
  ASSUME NEW P, SeenOK(P), P.free \subseteq Tracks, NEW group, group \subseteq P.free, CanonicalPerson(P, group) # {}
  PROVE  Max(CanonicalPerson(P, group)) \in Persons
PROOF
  <1> PICK known : known = {P.seen[t] : t \in group} \ {Nobody}
    OBVIOUS
  <1> PICK have : have = [p \in known |-> Cardinality({t \in group : P.seen[t] = p})]
    OBVIOUS
  <1>1. known \subseteq Persons
    BY DEF SeenOK, Somebody
  <1>2. known \subseteq Nat /\ NTracks \in Nat
    BY <1>1, Bounds
  <1>3. \A p \in known : have[p] \in 0..NTracks
    <2> SUFFICES ASSUME NEW p \in known PROVE have[p] \in 0..NTracks
      OBVIOUS
    <2>1. {t \in group : P.seen[t] = p} \subseteq Tracks
      OBVIOUS
    <2> QED
      BY <2>1, FewTracks, Zenon
  <1> PICK m : m = Min(Common(known, have))
    OBVIOUS
  <1>4. CanonicalPerson(P, group) = IF known = {} THEN {} ELSE {m}
    <2>1. Common(known, have) =
            {p \in known : \A q \in known :
               Cardinality({t \in group : P.seen[t] = p}) >= Cardinality({t \in group : P.seen[t] = q})}
      BY DEF Common
    <2> QED
      BY <2>1, Zenon DEF CanonicalPerson
  <1>5. known # {} /\ CanonicalPerson(P, group) = {m}
    BY <1>4
  <1>6. m \in known
    BY <1>2, <1>3, <1>5, Commonest, Zenon
  <1>7. Max({m}) = m
    BY <1>1, <1>2, <1>6 DEF Max
  <1> QED
    BY <1>1, <1>5, <1>6, <1>7

(* Whom a label stands for, with the persons made for the labels of fresh.  *)
GroupOf(P, l) == {t \in P.free : P.label[t] = l}
TargetOf(P, m, fresh, l) ==
  IF l <= MaxPersons THEN l
  ELSE IF CanonicalPerson(P, GroupOf(P, l)) # {} THEN Max(CanonicalPerson(P, GroupOf(P, l)))
  ELSE m + CHOOSE i \in DOMAIN fresh : fresh[i] = l
LabelsOf(P) == {P.label[t] : t \in P.free}
FreshOf(P) == {l \in LabelsOf(P) : l > MaxPersons /\ CanonicalPerson(P, GroupOf(P, l)) = {}}

PassOK(P) == P \in Passing /\ SeenOK(P) /\ LabelOK(P)

LEMMA PassFacts ==
  ASSUME NEW P, PassOK(P)
  PROVE  /\ P.free \subseteq Tracks /\ P.free \subseteq DOMAIN P.seen /\ SeenOK(P)
         /\ \A t \in P.free : P.label[t] \in Nat \ {0} /\ P.seen[t] \in Somebody
PROOF
  <1>1. P.free \subseteq Tracks /\ P.free \subseteq DOMAIN P.seen /\ SeenOK(P)
    BY DEF PassOK, Passing, SeenOK
  <1>2. P.label \in [DOMAIN P.seen -> Nat]
    BY DEF PassOK, Passing, Labelling, LabelOK
  <1> QED
    BY <1>1, <1>2 DEF PassOK, LabelOK, SeenOK, Nobody

LEMMA FreshFits ==
  ASSUME NEW P, PassOK(P)
  PROVE  IsFiniteSet(FreshOf(P))
PROOF
  <1>0. P.free \subseteq Tracks
    BY PassFacts
  <1> PICK f : f = [t \in P.free |-> P.label[t]]
    OBVIOUS
  <1> PICK L : L = ImageOf(f, P.free)
    OBVIOUS
  <1>1. IsFiniteSet(P.free) /\ DOMAIN f = P.free
    BY <1>0, FewTracks
  <1>2. IsFiniteSet(L)
    BY <1>1, ImageFinite, Zenon
  <1>3. FreshOf(P) \subseteq L
    BY DEF FreshOf, LabelsOf, ImageOf
  <1> QED
    BY <1>2, <1>3, PartFinite, Zenon

LEMMA TargetFits ==
  ASSUME NEW P, PassOK(P), NEW m \in Nat, NEW k, NEW fresh, k = Cardinality(FreshOf(P)), fresh = SetToSeq(FreshOf(P)),
         m + k <= MaxPersons, NEW t \in P.free
  PROVE  TargetOf(P, m, fresh, P.label[t]) \in Persons
PROOF
  <1> PICK l : l = P.label[t]
    OBVIOUS
  <1>1. l \in Nat \ {0} /\ P.free \subseteq Tracks /\ SeenOK(P) /\ MaxPersons \in Nat
    BY PassFacts, Bounds
  <1>2. CASE l <= MaxPersons
    BY <1>1, <1>2 DEF TargetOf, Persons
  <1>3. CASE ~ (l <= MaxPersons) /\ CanonicalPerson(P, GroupOf(P, l)) # {}
    <2> PICK G : G = GroupOf(P, l)
      OBVIOUS
    <2>1. G \subseteq P.free
      BY DEF GroupOf
    <2>2. Max(CanonicalPerson(P, G)) \in Persons
      BY <1>1, <1>3, <2>1, CanonicalFits, Zenon
    <2> QED
      BY <1>3, <2>2, Zenon DEF TargetOf
  <1>4. CASE ~ (l <= MaxPersons) /\ CanonicalPerson(P, GroupOf(P, l)) = {}
    <2>1. l \in FreshOf(P)
      BY <1>1, <1>4 DEF FreshOf, LabelsOf
    <2> PICK F : F = FreshOf(P)
      OBVIOUS
    <2>2. k \in Nat /\ fresh \in [1..k -> F] /\ \E i \in 1..k : fresh[i] = l
      BY <2>1, FreshFits, Enumerated
    <2> PICK i : i = CHOOSE j \in DOMAIN fresh : fresh[j] = l
      OBVIOUS
    <2>3. i \in 1..k
      BY <2>2
    <2>4. TargetOf(P, m, fresh, l) = m + i
      BY <1>4, Zenon DEF TargetOf
    <2> QED
      BY <1>1, <2>2, <2>3, <2>4 DEF Persons
  <1> QED
    BY <1>2, <1>3, <1>4

(* What a pass writes: the new persons, the moves, the recounts.            *)
MoveOf(P, m, fresh, t) == <<OfTrack("move", t, TargetOf(P, m, fresh, P.label[t])),
                            OfTrack("faces", t, TargetOf(P, m, fresh, P.label[t]))>>
MovedBy(P, m, fresh) == {t \in P.free : P.seen[t] # TargetOf(P, m, fresh, P.label[t])}
TouchedBy(P, m, fresh) == ({P.seen[t] : t \in MovedBy(P, m, fresh)}
                           \cup {TargetOf(P, m, fresh, P.label[t]) : t \in MovedBy(P, m, fresh)}) \ {Nobody}
Outcome(P, m, fresh, order) ==
  [i \in DOMAIN fresh |-> OfPerson("person", m + i, 0)]
  \o FlattenSeq([i \in DOMAIN order |-> MoveOf(P, m, fresh, order[i])])
  \o FlattenSeq([i \in 1..Cardinality(TouchedBy(P, m, fresh)) |-> Refresh(SetToSeq(TouchedBy(P, m, fresh))[i])])

LEMMA OutcomeFits ==
  ASSUME NEW P, PassOK(P), NEW m \in Nat, NEW k, NEW fresh, k = Cardinality(FreshOf(P)), fresh = SetToSeq(FreshOf(P)),
         m + k <= MaxPersons, NEW order \in SetToSeqs(MovedBy(P, m, fresh))
  PROVE  Outcome(P, m, fresh, order) \in Seq(Written) /\ Outcome(P, m, fresh, order) \in Seq(PassStmt(P.free))
PROOF
  <1> PICK W : W = Written \cap PassStmt(P.free)
    OBVIOUS
  <1> PICK M, T : M = MovedBy(P, m, fresh) /\ T = TouchedBy(P, m, fresh)
    OBVIOUS
  <1> PICK A, B, C : /\ A = [i \in DOMAIN fresh |-> OfPerson("person", m + i, 0)]
                     /\ B = [i \in DOMAIN order |-> MoveOf(P, m, fresh, order[i])]
                     /\ C = [i \in 1..Cardinality(T) |-> Refresh(SetToSeq(T)[i])]
    OBVIOUS
  <1>0. P.free \subseteq Tracks /\ M \subseteq P.free /\ M \subseteq Tracks
    BY PassFacts DEF MovedBy
  <1>1. \A t \in P.free : TargetOf(P, m, fresh, P.label[t]) \in Persons /\ P.seen[t] \in Somebody
    BY PassFacts, TargetFits
  <1>2. A \in Seq(W)
    <2> PICK F : F = FreshOf(P)
      OBVIOUS
    <2>1. k \in Nat /\ fresh \in [1..k -> F]
      BY FreshFits, Enumerated
    <2>2. ASSUME NEW i \in 1..k
          PROVE  OfPerson("person", m + i, 0) \in W
      <3> PICK p : p = m + i
        OBVIOUS
      <3>1. p \in Persons /\ p \in Somebody /\ 0 \in Nat
        BY <2>1, Bounds DEF Persons, Somebody
      <3> QED
        BY <3>1, PersonStatement DEF PassOps
    <2>3. A = [i \in 1..k |-> OfPerson("person", m + i, 0)]
      BY <2>1
    <2> QED
      BY <2>1, <2>2, <2>3
  <1>3. FlattenSeq(B) \in Seq(W)
    <2> PICK n : n = Cardinality(M)
      OBVIOUS
    <2>1. n \in Nat /\ order \in [1..n -> M]
      BY <1>0, FewTracks DEF SetToSeqs
    <2>2. ASSUME NEW t \in M
          PROVE  MoveOf(P, m, fresh, t) \in Seq(W)
      <3> PICK p : p = TargetOf(P, m, fresh, P.label[t])
        OBVIOUS
      <3>1. p \in Somebody /\ t \in P.free /\ t \in Tracks
        BY <1>0, <1>1 DEF Somebody
      <3> PICK x, y : x = OfTrack("move", t, p) /\ y = OfTrack("faces", t, p)
        OBVIOUS
      <3>2. x \in W /\ y \in W
        BY <3>1, TrackStatement
      <3> QED
        BY <3>2, TuplesIn DEF MoveOf
    <2>3. B \in [1..n -> Seq(W)]
      BY <2>1, <2>2
    <2> QED
      BY <2>1, <2>3, FlattenedOver, Zenon
  <1>4. FlattenSeq(C) \in Seq(W)
    <2>1. T \subseteq Somebody
      BY <1>0, <1>1 DEF TouchedBy, Somebody
    <2> PICK n, e : n = Cardinality(T) /\ e = SetToSeq(T)
      OBVIOUS
    <2>2. n \in Nat /\ e \in [1..n -> T]
      BY <2>1, Bounds, PartFinite, Enumerated
    <2>3. ASSUME NEW p \in T
          PROVE  Refresh(p) \in Seq(W)
      <3>1. p \in Somebody
        BY <2>1
      <3> QED
        BY <3>1, RefreshBoth
    <2>4. C \in [1..n -> Seq(W)]
      BY <2>2, <2>3
    <2> QED
      BY <2>2, <2>4, FlattenedOver, Zenon
  <1> PICK D, E : D = FlattenSeq(B) /\ E = FlattenSeq(C)
    OBVIOUS
  <1>5. A \o D \o E \in Seq(W)
    BY <1>2, <1>3, <1>4
  <1>6. Outcome(P, m, fresh, order) = A \o D \o E
    BY Zenon DEF Outcome
  <1> QED
    BY <1>5, <1>6, Wider, Zenon

LEMMA ApplyIs ==
  ASSUME NEW a, ApplyPass(a)
  PROVE  /\ At(a, "apply") /\ made + Len(SetToSeq(FreshOf(pass[a]))) <= MaxPersons
         /\ made' = made + Len(SetToSeq(FreshOf(pass[a]))) /\ gallery' = gallery
         /\ \E order \in SetToSeqs(MovedBy(pass[a], made, SetToSeq(FreshOf(pass[a])))) :
              Do(a, faceDB, Outcome(pass[a], made, SetToSeq(FreshOf(pass[a])), order))
PROOF
  BY Zenon DEF ApplyPass, Outcome, MovedBy, TouchedBy, MoveOf, TargetOf, FreshOf, LabelsOf, GroupOf

LEMMA ApplyKeeps ==
  ASSUME FaceInv, NEW a \in Actors \ {Worker}, ApplyPass(a)
  PROVE  FaceInv'
PROOF
  <1> PICK P, m : P = pass[a] /\ m = made
    OBVIOUS
  <1> PICK fresh, k : fresh = SetToSeq(FreshOf(P)) /\ k = Cardinality(FreshOf(P))
    OBVIOUS
  <1>1. /\ At(a, "apply") /\ m + Len(fresh) <= MaxPersons /\ made' = m + Len(fresh) /\ gallery' = gallery
        /\ \E order \in SetToSeqs(MovedBy(P, m, fresh)) : Do(a, faceDB, Outcome(P, m, fresh, order))
    BY ApplyIs, Zenon
  <1>2. prog[a] = <<Own("apply")>> /\ PassOK(P) /\ P # NoPass /\ prog[a] # <<>>
    <2>1. prog[a] = <<Own("apply")>> /\ PassOK(P)
      BY <1>1, PassStage DEF PassOK
    <2>2. P # NoPass
      BY <2>1, GoesOn DEF PassOK
    <2>3. prog[a] # <<>>
      BY <1>1 DEF At
    <2> QED
      BY <2>1, <2>2, <2>3
  <1>3. faceDB \in Tables /\ m \in Nat /\ m \in 0..MaxPersons /\ MaxPersons \in Nat /\ gallery \subseteq Persons
    BY Bounds DEF FaceInv
  <1>4. k \in Nat /\ Len(fresh) = k
    BY <1>2, FreshFits, Enumerated
  <1> PICK order \in SetToSeqs(MovedBy(P, m, fresh)) : Do(a, faceDB, Outcome(P, m, fresh, order))
    BY <1>1
  <1> PICK more : more = Outcome(P, m, fresh, order)
    OBVIOUS
  <1>5. more \in Seq(Written) /\ more \in Seq(PassStmt(pass[a].free))
    BY <1>1, <1>2, <1>3, <1>4, OutcomeFits, Zenon
  <1>6. Tail(prog[a]) \in Seq(Written)
    BY <1>2, EmptyIn
  <1>7. made' \in 0..MaxPersons /\ gallery' \subseteq Persons
    BY <1>1, <1>3, <1>4
  <1> QED
    BY <1>2, <1>3, <1>5, <1>6, <1>7, DoKeeps, Zenon

-----------------------------------------------------------------------------
LEMMA FaceInvInit == FaceInit => FaceInv
PROOF
  <1> SUFFICES ASSUME FaceInit PROVE FaceInv
    OBVIOUS
  <1>1. <<>> \in Seq(Stmt) /\ <<>> \in Seq(Written) /\ NoPass \in Passing
    BY EmptyIn, NoPassTyped, Zenon
  <1>2. prog = [a \in Actors |-> <<>>] /\ pass = [a \in Actors |-> NoPass] /\ made = 0 /\ gallery = {} /\ Worker \in Actors
    BY DEF FaceInit, Actors
  <1>3. /\ prog \in [Actors -> Seq(Stmt)] /\ pass \in [Actors -> Passing] /\ pass[Worker] = NoPass
        /\ \A a \in Actors : prog[a] = <<>> /\ pass[a] = NoPass
    BY <1>1, <1>2
  <1>4. \A a \in Actors : PassGoes(pass[a], prog[a]) /\ PassFits(pass[a], prog[a], faceDB, late)
    <2> SUFFICES ASSUME NEW a \in Actors PROVE PassGoes(pass[a], prog[a]) /\ PassFits(pass[a], prog[a], faceDB, late)
      OBVIOUS
    <2>1. prog[a] = <<>> /\ pass[a] = NoPass
      BY <1>3
    <2>2. prog[a] \in Seq(Written)
      BY <1>1, <2>1, Zenon
    <2> QED
      BY <2>1, <2>2, Zenon DEF PassGoes, PassFits
  <1>5. faceDB \in Tables
    BY DEF FaceInit, Tables, Somebody
  <1>6. made \in 0..MaxPersons
    BY <1>2, Bounds
  <1> QED
    BY <1>2, <1>3, <1>4, <1>5, <1>6 DEF FaceInv

LEMMA RequestsKeep ==
  ASSUME FaceInv, NEW o \in Operators, Request(o)
  PROVE  FaceInv'
PROOF
  <1>0. o \in Actors
    BY DEF Actors
  <1>1. CASE \E p, q \in Persons : MergePersons(o, p, q)
    BY <1>0, <1>1, MergeKeeps
  <1>2. CASE \E p \in Persons : \E ts \in (SUBSET Tracks) \ {{}} : SplitPerson(o, p, ts)
    <2> PICK p \in Persons, ts \in (SUBSET Tracks) \ {{}} : SplitPerson(o, p, ts)
      BY <1>2
    <2>1. ts \in SUBSET Tracks
      OBVIOUS
    <2> QED
      BY <1>0, <2>1, SplitKeeps, Zenon
  <1>3. CASE \E p \in Persons : Exists(p) /\ DeletePersonRequest(o, p)
    BY <1>0, <1>3, DeleteRequestKeeps
  <1>4. CASE \E t \in Tracks : AssignTrackRequest(o, t) \/ ConfirmTrack(o, t) \/ IgnoreFace(o, t)
    BY <1>0, <1>4, AssignRequestKeeps, ConfirmKeeps, IgnoreKeeps, Zenon
  <1>5. CASE SplitTrack(o)
    BY <1>0, <1>5, SplitTrackKeeps
  <1>6. CASE \E must \in {"must", "cannot"} : \E a, b \in Listed : a # b /\ CreateLink(must, a, b)
    BY <1>6, LinksKeep, Zenon
  <1>7. CASE \E l \in faceDB.links : DeleteLink(l)
    BY <1>7, LinksKeep, Zenon
  <1> QED
    BY <1>1, <1>2, <1>3, <1>4, <1>5, <1>6, <1>7, Zenon DEF Request

LEMMA FaceInvNext == FaceInv /\ FaceNext => FaceInv'
PROOF
  <1> SUFFICES ASSUME FaceInv, FaceNext PROVE FaceInv'
    OBVIOUS
  <1>1. CASE \E a \in Actors : Statement(a)
    BY <1>1, StatementsKeep, Zenon
  <1>2. CASE \E c \in Clips : AssignRecording(c) \/ LoseRecording(c)
    BY <1>2, AssignRecordingKeeps, LossKeeps, Zenon
  <1>3. CASE AssignTrack
    BY <1>3, AssignTrackKeeps
  <1>4. CASE \E o \in Operators : Request(o)
    BY <1>4, RequestsKeep, Zenon
  <1>5. CASE \E a \in Actors \ {Worker} : Recluster(a) \/ ReadLinks(a) \/ Sweep(a) \/ ApplyPass(a)
    BY <1>5, ReclusterKeeps, ReadLinksKeeps, SweepKeeps, ApplyKeeps, Zenon
  <1> QED
    BY <1>1, <1>2, <1>3, <1>4, <1>5, Zenon DEF FaceNext

LEMMA FaceInvStays == FaceInv /\ UNCHANGED faceVars => FaceInv'
PROOF
  <1> SUFFICES ASSUME FaceInv, UNCHANGED faceVars PROVE FaceInv'
    OBVIOUS
  <1>1. UNCHANGED <<faceDB, made, prog, gallery, pass, late>>
    BY DEF faceVars
  <1> QED
    BY <1>1, TablesChange DEF FaceInv

LEMMA FaceInvTypes == FaceInv => FaceTypeOK
PROOF
  <1> SUFFICES ASSUME FaceInv PROVE FaceTypeOK
    OBVIOUS
  <1>1. /\ faceDB.owner \in [Tracks -> Somebody \cup {NoRow}] /\ faceDB.holder \in [Tracks -> Somebody \cup {NoRow}]
        /\ faceDB.count \in [Persons -> 0..NTracks \cup {NoRow}]
        /\ made \in 0..MaxPersons /\ gallery \subseteq Persons
    BY FaceTables, TablesKept DEF FaceInv
  <1>2. 0..NTracks \subseteq Tracks \cup {0, NoRow}
    BY Bounds DEF Tracks
  <1>3. faceDB.count \in [Persons -> Tracks \cup {0, NoRow}]
    BY <1>1, <1>2
  <1>4. Somebody \cup {NoRow} = Persons \cup {Nobody, NoRow}
    BY DEF Somebody
  <1> QED
    BY <1>1, <1>3, <1>4 DEF FaceTypeOK

(* A pass only moves tracks it found free.                                  *)
AnchorsStay ==
  \A a \in Actors : pass[a] # NoPass =>
    \A t \in Tracks \ late :
      At(a, "move") /\ Arg(a).t = t /\ prog'[a] # prog[a] => ~Anchored(faceDB, t)

LEMMA AnchorsHold == FaceInv => AnchorsStay
PROOF
  <1> SUFFICES ASSUME FaceInv, NEW a \in Actors, pass[a] # NoPass, NEW t \in Tracks \ late,
                      At(a, "move"), Arg(a).t = t, Anchored(faceDB, t)
               PROVE  FALSE
    BY DEF AnchorsStay
  <1>1. prog[a] # <<>> /\ Arg(a).op = "move"
    BY DEF At, Arg
  <1>2. t \in pass[a].free
    BY <1>1, ArgTyped DEF PassStmt
  <1> QED
    BY <1>2, PassStage

-----------------------------------------------------------------------------
(* The parts together.                                                      *)
WorkersInv == TRInv /\ FaceInv /\ JobInv /\ EventsInv

(* Every part starts in its invariant.                                      *)
LEMMA WorkersInitInv == WorkersInit => WorkersInv
PROOF
  BY TRInvInit, FaceInvInit, JobInvInit, EventsInvInit DEF WorkersInit, WorkersInv

(* One part moves and the others rest.                                      *)
LEMMA WorkersNextKeeps == WorkersInv /\ [WorkersNext]_workersVars => WorkersInv'
PROOF
  <1> SUFFICES ASSUME WorkersInv, [WorkersNext]_workersVars PROVE WorkersInv'
    OBVIOUS
  <1>1. /\ TRNext \/ UNCHANGED trVars
        /\ FaceNext \/ UNCHANGED faceVars
        /\ JobNext \/ UNCHANGED jobVars
        /\ EventsNext \/ UNCHANGED eventVars
    BY DEF WorkersNext, workersVars
  <1>2. TRInv'
    BY <1>1, TRNextKeeps, TRRestKeeps DEF WorkersInv
  <1>3. JobInv'
    BY <1>1, JobNextKeeps, JobRestKeeps DEF WorkersInv
  <1>4. EventsInv'
    BY <1>1, EventsNextKeeps, EventsRestKeeps DEF WorkersInv
  <1>5. FaceInv'
    BY <1>1, FaceInvNext, FaceInvStays DEF WorkersInv
  <1> QED
    BY <1>2, <1>3, <1>4, <1>5 DEF WorkersInv

(* Every reachable state of the composite is one of its parts' invariants.  *)
LEMMA WorkersInvariant == WorkersSpec => []WorkersInv
PROOF
  BY WorkersInitInv, WorkersNextKeeps, PTL DEF WorkersSpec

(* The tables, files, queues and detectors of the four parts keep their     *)
(* types, whatever fails and whoever interferes.                            *)
THEOREM WorkersTypeCorrect == WorkersSpec => []WorkersTypeOK
PROOF
  <1>1. WorkersInv => WorkersTypeOK
    BY TRInvSound, FaceInvTypes, JobInvSound, EventsInvSound DEF WorkersInv, WorkersTypeOK
  <1> QED
    BY <1>1, WorkersInvariant, PTL

(* A reclustering pass (face/cluster.go) moves no track that is confirmed   *)
(* and has a person, unless it was confirmed after the pass read it, for    *)
(* any number of tracks, persons and operators, and whatever else is under  *)
(* way.                                                                     *)
THEOREM AnchorsAreKept == WorkersSpec => AnchorsUnlessStale
PROOF
  <1>1. WorkersInv /\ [WorkersNext]_workersVars =>
          [\A a \in Actors : pass[a] # NoPass =>
             \A t \in Tracks \ late :
               At(a, "move") /\ Arg(a).t = t /\ prog'[a] # prog[a] => ~Anchored(faceDB, t)]_faceVars
    BY AnchorsHold, Zenon DEF WorkersInv, AnchorsStay
  <1> QED
    BY <1>1, WorkersInvariant, PTL DEF WorkersSpec, AnchorsUnlessStale

(* A segment is written by FFmpeg, told of in a line that is yet to be      *)
(* handled, or has its file in the tree and a row marked done that names    *)
(* it, unless what spares it was noted: a process or a step that failed, or *)
(* a file replaced by one of the same name; with recorders of several       *)
(* streams in one tree.                                                     *)
THEOREM SegmentsAreFiled == WorkersSpec => []SegmentsFiled
PROOF
  <1>1. WorkersInv => SegmentsFiled
    BY TRInvSound DEF WorkersInv
  <1> QED
    BY <1>1, WorkersInvariant, PTL

(* Whatever fails, vanishes or crashes: a job that says it runs is the      *)
(* worker's or will be requeued, and a recording analysed without trouble   *)
(* has every face stored once and in a track.                               *)
THEOREM EachAnalysedOnce == WorkersSpec => []AnalysedOnce
PROOF
  <1>1. WorkersInv => AnalysedOnce
    BY JobInvSound DEF WorkersInv
  <1> QED
    BY <1>1, WorkersInvariant, PTL

(* As long as no two detectors of a camera ran at once, a detector that     *)
(* watches has its own event as the current one, with a row, and the gate   *)
(* of recording as it says; and an event that is open belongs to a          *)
(* detector that runs.                                                      *)
THEOREM EventsAreSound == WorkersSpec => []EventsSound
PROOF
  <1>1. WorkersInv => EventsSound
    BY EventsInvSound DEF WorkersInv
  <1> QED
    BY <1>1, WorkersInvariant, PTL
=============================================================================
