----------------------------- MODULE OutputsProofs ----------------------------
(***************************************************************************)
(* What viewers share, for any number of viewers, streams, sessions and    *)
(* publications: the transcoder's reference count is the number of its     *)
(* viewers, it runs one process and the idle timer stops none that is      *)
(* watched; every viewer gives its reference back once; playback sessions  *)
(* and their processes stay together; an RTSP publication that runs is the *)
(* one in its server's map.  One invariant per part, of its states alone;  *)
(* the parts of MCOutputs share no variable.                               *)
(***************************************************************************)
EXTENDS MCOutputs, FiniteSetTheorems, TLAPS

-----------------------------------------------------------------------------
(***************************************************************************)
(* The live transcoder.                                                    *)
(***************************************************************************)
USE BoundsAssumption

\* TranscodeTypeOK with its records named.
Transcoder == [source : Streams \cup {None}, refs : Nat, run : Procs \cup {None},
               out : Procs \cup {None}, cancel : BOOLEAN, timer : BOOLEAN, fired : Nat]
RunRecord  == [tc : Transcoders \cup {None}, pc : {"none", "starting", "live", "exited", "over"},
               feed : {"none", "reading", "late"}, cancelled : {"no", "idle", "closed"}]
ViewerRecord == [pc : ViewerPCs, stream : Streams \cup {None}, tc : Transcoders \cup {None},
                 proc : Procs \cup {None}, early : BOOLEAN]
SharedRecord == [tc : Transcoders \cup {None}, of : Streams \cup {None}]
Counters == [tc : 0..MaxVisits, proc : 0..MaxVisits, visits : 0..MaxVisits,
             streams : 0..MaxStreams, deaths : 0..MaxDeaths]

TranscodeTyping ==
  /\ stream \in Streams \cup {None} /\ ended \subseteq Streams
  /\ shared \in SharedRecord /\ dropped \in Transcoders \cup {None}
  /\ tc \in [Transcoders -> Transcoder]
  /\ proc \in [Procs -> RunRecord]
  /\ viewer \in [Viewers -> ViewerRecord]
  /\ count \in Counters

\* Naming the records changes nothing.
LEMMA TranscodeTypingIsTypeOK == TranscodeTyping <=> TranscodeTypeOK
  BY DEF TranscodeTyping, TranscodeTypeOK, Transcoder, RunRecord, ViewerRecord, SharedRecord, Counters

\* The viewers who have acquired a transcoder and not released it.
Holding == {"wait", "take", "drop", "watch"}
Holders(i) == {v \in Viewers : viewer[v].tc = i /\ viewer[v].pc \in Holding}

\* A visit creates at most one transcoder and starts at most one process.
Pickers == {v \in Viewers : viewer[v].pc = "pick"}
Joiners == {v \in Viewers : viewer[v].pc \in {"pick", "acquire"}}

VisitsCounted ==
  /\ count.tc + Cardinality(Pickers) <= count.visits
  /\ count.proc + Cardinality(Joiners) <= count.visits
  /\ \A v \in Viewers : v > count.visits => viewer[v].pc = "idle"

\* A viewer has a transcoder from the pick on, and a run of it from the acquisition on, which
\* the grace timer has not stopped if the viewer was early.
ViewersKnow ==
  \A v \in Viewers :
    /\ viewer[v].pc \in Holding \cup {"acquire"} => viewer[v].tc \in Transcoders
    /\ viewer[v].pc \in Holding => /\ viewer[v].proc \in Procs
                                   /\ proc[viewer[v].proc].pc # "none"
                                   /\ proc[viewer[v].proc].tc = viewer[v].tc
    /\ viewer[v].pc \in Holding /\ viewer[v].early => proc[viewer[v].proc].cancelled # "idle"

\* A transcoder and its run know each other until the run is over.
Active(n) == proc[n].pc \notin {"none", "over"}

RunsKnown ==
  /\ \A n \in Procs : Active(n) => proc[n].tc \in Transcoders /\ tc[proc[n].tc].run = n
  /\ \A i \in Transcoders :
       /\ tc[i].run # None => tc[i].run \in Procs /\ Active(tc[i].run) /\ proc[tc[i].run].tc = i
       /\ tc[i].out \in {tc[i].run, None}
  /\ \A n \in Procs : n > count.proc => proc[n].pc = "none"

TranscoderInv ==
  TranscodeTyping /\ VisitsCounted /\ ViewersKnow /\ RunsKnown /\ RefsCountViewers

\* There are finitely many viewers, so that they can be counted.
LEMMA ViewersFinite ==
  /\ IsFiniteSet(Pickers) /\ IsFiniteSet(Joiners)
  /\ \A i \in Transcoders : IsFiniteSet(Holders(i)) /\ Cardinality(Holders(i)) \in Nat
  /\ Cardinality(Pickers) \in Nat /\ Cardinality(Joiners) \in Nat
<1>1. IsFiniteSet(Viewers)
  BY FS_Interval DEF Viewers
<1>2. Pickers \subseteq Viewers /\ Joiners \subseteq Viewers /\ \A i \in Transcoders : Holders(i) \subseteq Viewers
  BY DEF Pickers, Joiners, Holders
<1>. QED BY <1>1, <1>2, FS_Subset, FS_CardinalityType

\* The invariant says what is checked.
LEMMA TranscoderInvSays == TranscoderInv => RefsCountViewers /\ OneProcess /\ NotIdledWhileWatched
<1>. SUFFICES ASSUME TranscoderInv PROVE OneProcess /\ NotIdledWhileWatched
  BY DEF TranscoderInv
<1>1. OneProcess
  <2>. SUFFICES ASSUME NEW i \in Transcoders
                PROVE  LET mine == {n \in Procs : proc[n].tc = i /\ proc[n].pc \notin {"none", "over"}}
                       IN  mine = (IF tc[i].run = None THEN {} ELSE {tc[i].run}) /\ tc[i].out \in mine \cup {None}
    BY DEF OneProcess
  <2>. DEFINE mine == {n \in Procs : proc[n].tc = i /\ proc[n].pc \notin {"none", "over"}}
  <2>1. tc[i].run \in Procs \cup {None} /\ None \notin Procs
    BY DEF TranscoderInv, TranscodeTyping, Transcoder, Procs, None
  <2>2. mine = (IF tc[i].run = None THEN {} ELSE {tc[i].run})
    BY <2>1 DEF TranscoderInv, RunsKnown, Active
  <2>3. tc[i].out \in mine \cup {None}
    BY <2>1, <2>2 DEF TranscoderInv, RunsKnown
  <2>. QED BY <2>2, <2>3
<1>2. NotIdledWhileWatched
  BY DEF TranscoderInv, ViewersKnow, NotIdledWhileWatched, Holding
<1>. QED BY <1>1, <1>2

\* Nothing runs at first, and nobody watches.
LEMMA TranscoderStart == TranscodeInit => TranscoderInv
<1>. SUFFICES ASSUME TranscodeInit PROVE TranscoderInv
  OBVIOUS
<1>1. TranscodeTyping
  BY DEF TranscodeInit, TranscodeTyping, Transcoder, RunRecord, ViewerRecord, SharedRecord,
         Counters, NoTranscoder, NoProc, NoViewer, ViewerPCs
<1>2. Pickers = {} /\ Joiners = {} /\ \A i \in Transcoders : Holders(i) = {}
  BY DEF TranscodeInit, NoViewer, Pickers, Joiners, Holders, Holding
<1>3. VisitsCounted
  BY <1>2, FS_EmptySet DEF VisitsCounted, TranscodeInit, NoViewer
<1>4. RefsCountViewers
  BY <1>2, FS_EmptySet DEF RefsCountViewers, TranscodeInit, NoTranscoder, Holders, Holding
<1>5. ViewersKnow /\ RunsKnown
  BY DEF TranscodeInit, NoViewer, NoProc, NoTranscoder, ViewersKnow, RunsKnown, Holding, Active
<1>. QED BY <1>1, <1>3, <1>4, <1>5 DEF TranscoderInv

-----------------------------------------------------------------------------
\* Steps of the source, of timers and of runs: no viewer moves.
LEMMA NoViewerMoves ==
  ASSUME TranscoderInv, TranscodeTyping', UNCHANGED viewer,
         count'.tc = count.tc, count'.proc = count.proc, count'.visits = count.visits,
         \A i \in Transcoders : tc'[i].refs = tc[i].refs,
         \A n \in Procs : /\ proc'[n].tc = proc[n].tc
                          /\ proc[n].pc # "none" <=> proc'[n].pc # "none"
                          /\ \/ proc'[n].cancelled # "idle"
                             \/ proc'[n].cancelled = proc[n].cancelled
                             \/ \A v \in Viewers : viewer[v].pc \in Holding => viewer[v].proc # n,
         \A n \in Procs : Active(n)' => proc[n].tc \in Transcoders /\ tc'[proc[n].tc].run = n,
         \A i \in Transcoders :
           /\ tc'[i].run # None => tc'[i].run \in Procs /\ Active(tc[i].run)' /\ tc'[i].run = tc[i].run
           /\ tc'[i].out \in {tc'[i].run, None}
  PROVE  TranscoderInv'
<1>. USE DEF TranscoderInv
<1>1. VisitsCounted'
  BY DEF VisitsCounted, Pickers, Joiners
<1>2. ViewersKnow'
  BY DEF ViewersKnow
<1>3. RunsKnown'
  BY DEF RunsKnown
<1>4. RefsCountViewers'
  BY DEF RefsCountViewers
<1>. QED BY <1>1, <1>2, <1>3, <1>4

\* The source comes and goes: no run changes.
LEMMA SourceSteps ==
  ASSUME TranscoderInv, SetStream \/ SourceEnds \/ ClearStream
  PROVE  TranscoderInv'
<1>. USE DEF TranscoderInv
<1>1. UNCHANGED <<tc, proc, viewer>>
  BY DEF SetStream, SourceEnds, ClearStream
<1>2. /\ count' \in Counters /\ stream' \in Streams \cup {None}
      /\ count'.tc = count.tc /\ count'.proc = count.proc /\ count'.visits = count.visits
  BY DEF SetStream, SourceEnds, ClearStream, TranscodeTyping, Counters, Streams
<1>3. ended' \subseteq Streams /\ shared' \in SharedRecord /\ dropped' \in Transcoders \cup {None}
  BY DEF SetStream, SourceEnds, ClearStream, TranscodeTyping, SharedRecord
<1>4. TranscodeTyping'
  BY <1>1, <1>2, <1>3 DEF TranscodeTyping
<1>. QED BY <1>1, <1>2, <1>4, NoViewerMoves DEF RunsKnown, Active

\* Cancelling one transcoder's run changes nothing but why it was cancelled.
LEMMA CancellingRuns ==
  ASSUME TranscoderInv, NEW i \in Transcoders, NEW why \in {"idle", "closed"}
  PROVE  /\ Cancelling(i, why) \in [Procs -> RunRecord]
         /\ \A n \in Procs : /\ Cancelling(i, why)[n].tc = proc[n].tc
                             /\ Cancelling(i, why)[n].pc = proc[n].pc
                             /\ \/ Cancelling(i, why)[n].cancelled = proc[n].cancelled
                                \/ n = tc[i].run /\ Cancelling(i, why)[n].cancelled = why
<1>. SUFFICES ASSUME NEW n \in Procs
              PROVE  /\ Cancelling(i, why)[n] \in RunRecord
                     /\ Cancelling(i, why)[n].tc = proc[n].tc
                     /\ Cancelling(i, why)[n].pc = proc[n].pc
                     /\ \/ Cancelling(i, why)[n].cancelled = proc[n].cancelled
                        \/ n = tc[i].run /\ Cancelling(i, why)[n].cancelled = why
  BY DEF Cancelling
<1>1. proc[n] \in RunRecord
  BY DEF TranscoderInv, TranscodeTyping
<1>. QED BY <1>1 DEF Cancelling, RunRecord

\* The struct of a transcoder: what the assignments to its fields leave alone.
SameRuns(f, g) ==
  \A j \in Transcoders : g[j].refs = f[j].refs /\ g[j].run = f[j].run /\ g[j].out = f[j].out

\* An assignment to a field of a transcoder other than its count, run and output keeps those three.
LEMMA StructFields ==
  ASSUME NEW i \in Transcoders, NEW f \in [Transcoders -> Transcoder],
         NEW flag \in BOOLEAN, NEW fired \in Nat, NEW source \in Streams \cup {None}
  PROVE  /\ [f EXCEPT ![i].timer = flag] \in [Transcoders -> Transcoder]
         /\ SameRuns(f, [f EXCEPT ![i].timer = flag])
         /\ [f EXCEPT ![i].cancel = flag] \in [Transcoders -> Transcoder]
         /\ SameRuns(f, [f EXCEPT ![i].cancel = flag])
         /\ [f EXCEPT ![i].fired = fired] \in [Transcoders -> Transcoder]
         /\ SameRuns(f, [f EXCEPT ![i].fired = fired])
         /\ [f EXCEPT ![i].source = source] \in [Transcoders -> Transcoder]
         /\ SameRuns(f, [f EXCEPT ![i].source = source])
<1>1. f[i] \in Transcoder
  OBVIOUS
<1>2. /\ [f EXCEPT ![i].timer = flag] \in [Transcoders -> Transcoder]
      /\ SameRuns(f, [f EXCEPT ![i].timer = flag])
  BY <1>1 DEF Transcoder, SameRuns
<1>3. /\ [f EXCEPT ![i].cancel = flag] \in [Transcoders -> Transcoder]
      /\ SameRuns(f, [f EXCEPT ![i].cancel = flag])
  BY <1>1 DEF Transcoder, SameRuns
<1>4. /\ [f EXCEPT ![i].fired = fired] \in [Transcoders -> Transcoder]
      /\ SameRuns(f, [f EXCEPT ![i].fired = fired])
  BY <1>1 DEF Transcoder, SameRuns
<1>5. /\ [f EXCEPT ![i].source = source] \in [Transcoders -> Transcoder]
      /\ SameRuns(f, [f EXCEPT ![i].source = source])
  BY <1>1 DEF Transcoder, SameRuns
<1>. QED BY <1>2, <1>3, <1>4, <1>5

\* So do two such assignments.
LEMMA SameRunsTwice ==
  ASSUME NEW f, NEW g, NEW h, SameRuns(f, g), SameRuns(g, h)
  PROVE  SameRuns(f, h)
  BY DEF SameRuns

\* The assignments of Close, of the timer's start and of its callback.
LEMMA StructSteps ==
  ASSUME TranscodeTyping, NEW i \in Transcoders, NEW cancel \in BOOLEAN, NEW fired \in Nat
  PROVE  /\ [tc EXCEPT ![i].timer = FALSE, ![i].cancel = cancel] \in [Transcoders -> Transcoder]
         /\ SameRuns(tc, [tc EXCEPT ![i].timer = FALSE, ![i].cancel = cancel])
         /\ [tc EXCEPT ![i].timer = FALSE, ![i].fired = fired] \in [Transcoders -> Transcoder]
         /\ SameRuns(tc, [tc EXCEPT ![i].timer = FALSE, ![i].fired = fired])
         /\ [tc EXCEPT ![i].fired = fired, ![i].cancel = cancel] \in [Transcoders -> Transcoder]
         /\ SameRuns(tc, [tc EXCEPT ![i].fired = fired, ![i].cancel = cancel])
<1>. DEFINE stopped == [tc EXCEPT ![i].timer = FALSE]
            counted == [tc EXCEPT ![i].fired = fired]
<1>1. /\ stopped \in [Transcoders -> Transcoder] /\ SameRuns(tc, stopped)
      /\ counted \in [Transcoders -> Transcoder] /\ SameRuns(tc, counted)
  BY StructFields, None \in Streams \cup {None}, FALSE \in BOOLEAN DEF TranscodeTyping
<1>. HIDE DEF stopped, counted
<1>2. /\ [stopped EXCEPT ![i].cancel = cancel] \in [Transcoders -> Transcoder]
      /\ SameRuns(stopped, [stopped EXCEPT ![i].cancel = cancel])
      /\ [stopped EXCEPT ![i].fired = fired] \in [Transcoders -> Transcoder]
      /\ SameRuns(stopped, [stopped EXCEPT ![i].fired = fired])
      /\ [counted EXCEPT ![i].cancel = cancel] \in [Transcoders -> Transcoder]
      /\ SameRuns(counted, [counted EXCEPT ![i].cancel = cancel])
  BY <1>1, StructFields, None \in Streams \cup {None}
<1>3. /\ SameRuns(tc, [stopped EXCEPT ![i].cancel = cancel])
      /\ SameRuns(tc, [stopped EXCEPT ![i].fired = fired])
      /\ SameRuns(tc, [counted EXCEPT ![i].cancel = cancel])
  BY <1>1, <1>2, SameRunsTwice
<1>. QED BY <1>2, <1>3 DEF stopped, counted

\* clearStream closes the transcoder it took.
LEMMA CloseSteps ==
  ASSUME TranscoderInv, CloseDropped
  PROVE  TranscoderInv'
<1>. USE DEF TranscoderInv
<1>0. PICK i \in Transcoders : i = dropped
  BY DEF CloseDropped, TranscodeTyping
<1>1. /\ tc' = [tc EXCEPT ![i].timer = FALSE, ![i].cancel = FALSE]
      /\ proc' = Cancelling(i, "closed") /\ dropped' = None
      /\ UNCHANGED <<stream, ended, shared, viewer, count>>
  BY <1>0 DEF CloseDropped, Close
<1>2. /\ tc' \in [Transcoders -> Transcoder]
      /\ \A j \in Transcoders : tc'[j].refs = tc[j].refs /\ tc'[j].run = tc[j].run /\ tc'[j].out = tc[j].out
  BY <1>1, 0 \in Nat, StructSteps DEF SameRuns
<1>3. /\ proc' \in [Procs -> RunRecord]
      /\ \A n \in Procs : /\ proc'[n].tc = proc[n].tc /\ proc'[n].pc = proc[n].pc
                          /\ proc'[n].cancelled = proc[n].cancelled \/ proc'[n].cancelled = "closed"
  BY <1>1, CancellingRuns
<1>4. TranscodeTyping'
  BY <1>1, <1>2, <1>3 DEF TranscodeTyping
<1>. QED BY <1>1, <1>2, <1>3, <1>4, NoViewerMoves DEF RunsKnown, Active

\* Who holds a run holds its transcoder: the grace timer finds its count positive.
LEMMA TimerSteps ==
  ASSUME TranscoderInv, NEW i \in Transcoders, TimerStep(i)
  PROVE  TranscoderInv'
<1>. USE DEF TranscoderInv
<1>1. CASE TimerFires(i)
  <2>1. /\ tc' = [tc EXCEPT ![i].timer = FALSE, ![i].fired = tc[i].fired + 1]
        /\ UNCHANGED <<stream, ended, shared, dropped, proc, viewer, count>>
    BY <1>1 DEF TimerFires
  <2>2. tc[i].fired + 1 \in Nat
    BY DEF TranscodeTyping, Transcoder
  <2>3. /\ tc' \in [Transcoders -> Transcoder]
        /\ \A j \in Transcoders : tc'[j].refs = tc[j].refs /\ tc'[j].run = tc[j].run /\ tc'[j].out = tc[j].out
    <3>1. tc' \in [Transcoders -> Transcoder] /\ SameRuns(tc, tc')
      BY <2>1, <2>2, StructSteps, FALSE \in BOOLEAN
    <3>. QED BY <3>1 DEF SameRuns
  <2>4. TranscodeTyping'
    BY <2>1, <2>3 DEF TranscodeTyping
  <2>. QED BY <2>1, <2>3, <2>4, NoViewerMoves DEF RunsKnown, Active
<1>2. CASE StopIfIdle(i)
  <2>. DEFINE cancel == IF tc[i].refs > 0 THEN tc[i].cancel ELSE FALSE
  <2>1. /\ tc' = [tc EXCEPT ![i].fired = tc[i].fired - 1, ![i].cancel = cancel]
        /\ proc' = IF tc[i].refs > 0 THEN proc ELSE Cancelling(i, "idle")
        /\ tc[i].fired > 0
        /\ UNCHANGED <<stream, ended, shared, dropped, viewer, count>>
    BY <1>2 DEF StopIfIdle
  <2>2. tc[i].fired - 1 \in Nat /\ cancel \in BOOLEAN
    <3>1. tc[i] \in Transcoder
      BY DEF TranscodeTyping
    <3>2. tc[i].fired \in Nat /\ tc[i].cancel \in BOOLEAN
      BY <3>1 DEF Transcoder
    <3>3. tc[i].fired - 1 \in Nat
      BY <2>1, <3>2
    <3>. QED BY <3>2, <3>3
  <2>. HIDE DEF cancel
  <2>3. /\ tc' \in [Transcoders -> Transcoder]
        /\ \A j \in Transcoders : tc'[j].refs = tc[j].refs /\ tc'[j].run = tc[j].run /\ tc'[j].out = tc[j].out
    <3>1. tc' \in [Transcoders -> Transcoder] /\ SameRuns(tc, tc')
      BY <2>1, <2>2, StructSteps
    <3>. QED BY <3>1 DEF SameRuns
  <2>4. /\ proc' \in [Procs -> RunRecord]
        /\ \A n \in Procs : /\ proc'[n].tc = proc[n].tc /\ proc'[n].pc = proc[n].pc
                            /\ \/ proc'[n].cancelled = proc[n].cancelled
                               \/ tc[i].refs = 0 /\ n = tc[i].run
    BY <2>1, CancellingRuns DEF TranscodeTyping, Transcoder
  <2>5. ASSUME NEW v \in Viewers, viewer[v].pc \in Holding, tc[i].refs = 0
        PROVE  viewer[v].proc # tc[i].run
    <3>1. Holders(i) = {}
      BY <2>5, ViewersFinite, FS_EmptySet DEF RefsCountViewers, Holders, Holding
    <3>2. viewer[v].tc # i
      BY <2>5, <3>1 DEF Holders
    <3>. QED BY <2>5, <3>2 DEF ViewersKnow, RunsKnown, Procs, None
  <2>6. TranscodeTyping'
    BY <2>1, <2>3, <2>4 DEF TranscodeTyping
  <2>. QED BY <2>1, <2>3, <2>4, <2>5, <2>6, NoViewerMoves DEF RunsKnown, Active
<1>. QED BY <1>1, <1>2 DEF TimerStep

\* A run goes its way, and leaves its transcoder when it is over.
LEMMA RunSteps ==
  ASSUME TranscoderInv, NEW n \in Procs, RunStep(n) \/ Ready(n) \/ Die(n)
  PROVE  TranscoderInv'
<1>. USE DEF TranscoderInv
<1>0. /\ UNCHANGED <<stream, ended, shared, dropped, viewer>>
      /\ count' \in Counters
      /\ count'.tc = count.tc /\ count'.proc = count.proc /\ count'.visits = count.visits
  BY DEF RunStep, FeedSource, Exit, EndRun, Ready, Die, TranscodeTyping, Counters
<1>1. Active(n) /\ proc[n] \in RunRecord
  BY DEF RunStep, FeedSource, Exit, EndRun, Ready, Die, Up, Active, TranscodeTyping
<1>2. PICK i \in Transcoders : i = proc[n].tc /\ tc[i].run = n
  BY <1>1 DEF RunsKnown
<1>3. /\ proc' \in [Procs -> RunRecord]
      /\ \A m \in Procs : /\ proc'[m].tc = proc[m].tc /\ proc'[m].cancelled = proc[m].cancelled
                          /\ m # n => proc'[m] = proc[m]
      /\ proc'[n].pc # "none" /\ (proc'[n].pc = "over" <=> EndRun(n))
  <2>1. CASE FeedSource(n)
    <3>1. PICK feed \in {"late", "reading"} : proc' = [proc EXCEPT ![n].feed = feed]
      BY <2>1 DEF FeedSource
    <3>2. proc'[n].pc = proc[n].pc /\ Up(n) /\ ~EndRun(n)
      BY <2>1, <3>1 DEF FeedSource, EndRun, Up, TranscodeTyping, RunRecord
    <3>. QED BY <1>1, <3>1, <3>2 DEF TranscodeTyping, RunRecord, Up
  <2>2. CASE (RunStep(n) /\ ~FeedSource(n)) \/ Ready(n) \/ Die(n)
    <3>1. PICK pc \in {"live", "exited", "over"} : ProcGoto(n, pc) /\ (pc = "over" <=> EndRun(n))
      BY <2>2 DEF RunStep, Exit, EndRun, Ready, Die, Up
    <3>. QED BY <1>1, <3>1 DEF ProcGoto, TranscodeTyping, RunRecord
  <2>. QED BY <2>1, <2>2
<1>4. \A m \in Procs : Active(m)' <=> Active(m) /\ ~(m = n /\ EndRun(n))
  BY <1>1, <1>3 DEF Active
<1>5. CASE EndRun(n)
  <2>1. tc' = [tc EXCEPT ![i].out = None, ![i].run = None, ![i].cancel = FALSE]
    BY <1>2, <1>5 DEF EndRun
  <2>2. /\ tc' \in [Transcoders -> Transcoder]
        /\ \A j \in Transcoders \ {i} : tc'[j] = tc[j]
        /\ tc'[i].refs = tc[i].refs /\ tc'[i].run = None /\ tc'[i].out = None
    BY <2>1 DEF TranscodeTyping, Transcoder
  <2>3. TranscodeTyping'
    BY <1>0, <1>3, <2>2 DEF TranscodeTyping
  <2>. QED BY <1>0, <1>1, <1>2, <1>3, <1>4, <1>5, <2>2, <2>3, NoViewerMoves DEF RunsKnown, Active
<1>6. CASE ~EndRun(n)
  <2>1. tc' = tc \/ tc' = [tc EXCEPT ![i].out = n]
    BY <1>2, <1>6 DEF RunStep, FeedSource, Exit, Ready, Die
  <2>2. /\ tc' \in [Transcoders -> Transcoder]
        /\ \A j \in Transcoders : /\ tc'[j].refs = tc[j].refs /\ tc'[j].run = tc[j].run
                                  /\ tc'[j].out \in {tc[j].out, tc[j].run}
    BY <1>2, <2>1 DEF TranscodeTyping, Transcoder
  <2>3. TranscodeTyping'
    BY <1>0, <1>3, <2>2 DEF TranscodeTyping
  <2>4. /\ \A m \in Procs : Active(m)' => proc[m].tc \in Transcoders /\ tc'[proc[m].tc].run = m
        /\ \A j \in Transcoders :
             /\ tc'[j].run # None => tc'[j].run \in Procs /\ Active(tc[j].run)' /\ tc'[j].run = tc[j].run
             /\ tc'[j].out \in {tc'[j].run, None}
    BY <1>4, <1>6, <2>2 DEF RunsKnown
  <2>5. \A m \in Procs : /\ proc'[m].tc = proc[m].tc /\ proc'[m].cancelled = proc[m].cancelled
                         /\ proc[m].pc # "none" <=> proc'[m].pc # "none"
    BY <1>1, <1>3 DEF Active
  <2>. QED BY <1>0, <2>2, <2>3, <2>4, <2>5, NoViewerMoves
<1>. QED BY <1>5, <1>6

-----------------------------------------------------------------------------
\* Viewers: a step moves one of them, and the counts with it.
One(b) == IF b THEN 1 ELSE 0

\* Two finite sets that differ in one element at most differ by it in number.
LEMMA SetsDifferInOne ==
  ASSUME NEW S, NEW T, NEW e, IsFiniteSet(S), IsFiniteSet(T), S \ {e} = T \ {e}
  PROVE  Cardinality(T) = Cardinality(S) - One(e \in S) + One(e \in T)
<1>1. Cardinality(S) \in Nat /\ Cardinality(T) \in Nat
  BY FS_CardinalityType
<1>2. Cardinality(S \ {e}) = Cardinality(S) - One(e \in S)
  <2>1. CASE e \in S
    BY <1>1, <2>1, FS_RemoveElement DEF One
  <2>2. CASE e \notin S
    <3>1. Cardinality(S \ {e}) = Cardinality(S)
      <4>1. S \ {e} = S
        BY <2>2
      <4>. QED BY <4>1
    <3>2. One(e \in S) = 0
      BY <2>2 DEF One
    <3>. QED BY <1>1, <3>1, <3>2
  <2>. QED BY <2>1, <2>2
<1>3. Cardinality(T \ {e}) = Cardinality(T) - One(e \in T)
  <2>1. CASE e \in T
    BY <1>1, <2>1, FS_RemoveElement DEF One
  <2>2. CASE e \notin T
    <3>1. Cardinality(T \ {e}) = Cardinality(T)
      <4>1. T \ {e} = T
        BY <2>2
      <4>. QED BY <4>1
    <3>2. One(e \in T) = 0
      BY <2>2 DEF One
    <3>. QED BY <1>1, <3>1, <3>2
  <2>. QED BY <2>1, <2>2
<1>. QED BY <1>1, <1>2, <1>3 DEF One

\* Whether a viewer of that record counts for the transcoder.
Holds(r, i) == r.tc = i /\ r.pc \in Holding

\* One viewer's step changes every count by that viewer.
LEMMA ViewersCount ==
  ASSUME TranscodeTyping, NEW v \in Viewers, NEW rec \in ViewerRecord,
         viewer' = [viewer EXCEPT ![v] = rec]
  PROVE  /\ viewer' \in [Viewers -> ViewerRecord] /\ viewer'[v] = rec
         /\ \A u \in Viewers \ {v} : viewer'[u] = viewer[u]
         /\ Cardinality(Pickers') =
              Cardinality(Pickers) - One(viewer[v].pc = "pick") + One(rec.pc = "pick")
         /\ Cardinality(Joiners') =
              Cardinality(Joiners) - One(viewer[v].pc \in {"pick", "acquire"})
                                   + One(rec.pc \in {"pick", "acquire"})
         /\ \A i \in Transcoders :
              Cardinality(Holders(i)') =
                Cardinality(Holders(i)) - One(Holds(viewer[v], i)) + One(Holds(rec, i))
<1>1. /\ viewer' \in [Viewers -> ViewerRecord] /\ viewer'[v] = rec
      /\ \A u \in Viewers \ {v} : viewer'[u] = viewer[u]
  BY DEF TranscodeTyping
<1>2. /\ IsFiniteSet(Pickers') /\ IsFiniteSet(Joiners')
      /\ \A i \in Transcoders : IsFiniteSet(Holders(i)')
  <2>1. IsFiniteSet(Viewers)
    BY FS_Interval DEF Viewers
  <2>2. Pickers' \subseteq Viewers /\ Joiners' \subseteq Viewers /\ \A i \in Transcoders : Holders(i)' \subseteq Viewers
    BY DEF Pickers, Joiners, Holders
  <2>. QED BY <2>1, <2>2, FS_Subset
<1>3. /\ v \in Pickers <=> viewer[v].pc = "pick"
      /\ v \in Pickers' <=> rec.pc = "pick"
      /\ Pickers \ {v} = Pickers' \ {v}
  BY <1>1 DEF Pickers
<1>4. /\ v \in Joiners <=> viewer[v].pc \in {"pick", "acquire"}
      /\ v \in Joiners' <=> rec.pc \in {"pick", "acquire"}
      /\ Joiners \ {v} = Joiners' \ {v}
  BY <1>1 DEF Joiners
<1>5. ASSUME NEW i \in Transcoders
      PROVE  /\ v \in Holders(i) <=> Holds(viewer[v], i)
             /\ v \in Holders(i)' <=> Holds(rec, i)
             /\ Holders(i) \ {v} = Holders(i)' \ {v}
  BY <1>1 DEF Holders, Holds
<1>6. Cardinality(Pickers') =
        Cardinality(Pickers) - One(viewer[v].pc = "pick") + One(rec.pc = "pick")
  <2>1. Cardinality(Pickers') = Cardinality(Pickers) - One(v \in Pickers) + One(v \in Pickers')
    BY <1>2, <1>3, ViewersFinite, SetsDifferInOne
  <2>. QED BY <1>3, <2>1 DEF One
<1>7. Cardinality(Joiners') =
        Cardinality(Joiners) - One(viewer[v].pc \in {"pick", "acquire"})
                             + One(rec.pc \in {"pick", "acquire"})
  <2>1. Cardinality(Joiners') = Cardinality(Joiners) - One(v \in Joiners) + One(v \in Joiners')
    BY <1>2, <1>4, ViewersFinite, SetsDifferInOne
  <2>. QED BY <1>4, <2>1 DEF One
<1>8. ASSUME NEW i \in Transcoders
      PROVE  Cardinality(Holders(i)') =
               Cardinality(Holders(i)) - One(Holds(viewer[v], i)) + One(Holds(rec, i))
  <2>1. Cardinality(Holders(i)') = Cardinality(Holders(i)) - One(v \in Holders(i)) + One(v \in Holders(i)')
    BY <1>2, <1>5, ViewersFinite, SetsDifferInOne
  <2>. QED BY <1>5, <2>1 DEF One
<1>. QED BY <1>1, <1>6, <1>7, <1>8

\* What a viewer's record says is true of the run it names.
Knows(r, run) ==
  /\ r.pc \in Holding \cup {"acquire"} => r.tc \in Transcoders
  /\ r.pc \in Holding => /\ r.proc \in Procs /\ run[r.proc].pc # "none" /\ run[r.proc].tc = r.tc
                         /\ r.early => run[r.proc].cancelled # "idle"

\* What a step of one viewer has to show: what the viewer knows, and that the transcoder whose
\* viewer it becomes or ceases to be is counted up or down.
LEMMA ViewerMoves ==
  ASSUME TranscoderInv, NEW v \in Viewers, NEW rec \in ViewerRecord,
         viewer' = [viewer EXCEPT ![v] = rec], UNCHANGED <<stream, ended, dropped>>,
         shared' \in SharedRecord, tc' \in [Transcoders -> Transcoder],
         proc' \in [Procs -> RunRecord], count' \in Counters,
         count.visits <= count'.visits, v <= count'.visits,
         (count'.tc - count.tc) + One(rec.pc = "pick")
           <= (count'.visits - count.visits) + One(viewer[v].pc = "pick"),
         (count'.proc - count.proc) + One(rec.pc \in {"pick", "acquire"})
           <= (count'.visits - count.visits) + One(viewer[v].pc \in {"pick", "acquire"}),
         \A i \in Transcoders :
           tc'[i].refs = tc[i].refs - One(Holds(viewer[v], i)) + One(Holds(rec, i)),
         Knows(rec, proc'),
         \A n \in Procs : proc[n].pc # "none" =>
           /\ proc'[n].pc # "none" /\ proc'[n].tc = proc[n].tc
           /\ proc'[n].cancelled = "idle" => proc[n].cancelled = "idle",
         RunsKnown'
  PROVE  TranscoderInv'
<1>. USE DEF TranscoderInv
<1>0. /\ viewer' \in [Viewers -> ViewerRecord] /\ viewer'[v] = rec
      /\ \A u \in Viewers \ {v} : viewer'[u] = viewer[u]
  BY ViewersCount
<1>1. TranscodeTyping'
  BY <1>0 DEF TranscodeTyping
<1>2. VisitsCounted'
  <2>1. {count.tc, count.proc, count.visits, count'.tc, count'.proc, count'.visits} \subseteq Nat
    BY DEF TranscodeTyping, Counters
  <2>2. count'.tc + Cardinality(Pickers') <= count'.visits
    <3>1. Cardinality(Pickers') = Cardinality(Pickers) - One(viewer[v].pc = "pick") + One(rec.pc = "pick")
      BY ViewersCount
    <3>. QED BY <2>1, <3>1, ViewersFinite DEF VisitsCounted, One
  <2>3. count'.proc + Cardinality(Joiners') <= count'.visits
    <3>1. Cardinality(Joiners') =
            Cardinality(Joiners) - One(viewer[v].pc \in {"pick", "acquire"})
                                 + One(rec.pc \in {"pick", "acquire"})
      BY ViewersCount
    <3>. QED BY <2>1, <3>1, ViewersFinite DEF VisitsCounted, One
  <2>4. \A u \in Viewers : u > count'.visits => viewer'[u].pc = "idle"
    BY <1>0, <2>1 DEF VisitsCounted, Viewers
  <2>. QED BY <2>2, <2>3, <2>4 DEF VisitsCounted
<1>3. ViewersKnow'
  <2>. SUFFICES ASSUME NEW u \in Viewers PROVE Knows(viewer'[u], proc')
    BY DEF ViewersKnow, Knows
  <2>1. CASE u = v
    BY <1>0, <2>1
  <2>2. CASE u # v
    BY <1>0, <2>2 DEF ViewersKnow, Knows
  <2>. QED BY <2>1, <2>2
<1>4. RefsCountViewers'
  <2>. SUFFICES ASSUME NEW i \in Transcoders PROVE tc'[i].refs = Cardinality(Holders(i)')
    BY DEF RefsCountViewers, Holders, Holding
  <2>1. tc[i].refs = Cardinality(Holders(i))
    BY DEF RefsCountViewers, Holders, Holding
  <2>2. Cardinality(Holders(i)') =
          Cardinality(Holders(i)) - One(Holds(viewer[v], i)) + One(Holds(rec, i))
    BY ViewersCount DEF One
  <2>. QED BY <2>1, <2>2
<1>. QED BY <1>1, <1>2, <1>3, <1>4

\* The runs as they were, for a step of a viewer that starts none.
LEMMA RunsStay ==
  ASSUME TranscoderInv, count'.proc = count.proc,
         \A n \in Procs : proc'[n].pc = proc[n].pc /\ proc'[n].tc = proc[n].tc,
         \A i \in Transcoders : tc'[i].run = tc[i].run /\ tc'[i].out = tc[i].out
  PROVE  RunsKnown'
  BY DEF TranscoderInv, RunsKnown, Active

\* A request comes while the camera is live.
LEMMA VisitStep ==
  ASSUME TranscoderInv, NEW v \in Viewers, Visit(v)
  PROVE  TranscoderInv'
<1>. USE DEF TranscoderInv
<1>. DEFINE rec == [NoViewer EXCEPT !.pc = "pick", !.stream = stream]
<1>1. /\ v = count.visits + 1 /\ viewer' = [viewer EXCEPT ![v] = rec]
      /\ count' = [count EXCEPT !.visits = count.visits + 1]
      /\ UNCHANGED <<stream, ended, shared, dropped, tc, proc>>
  BY DEF Visit
<1>2. rec \in ViewerRecord /\ rec.pc = "pick"
  BY DEF ViewerRecord, NoViewer, ViewerPCs, TranscodeTyping
<1>. HIDE DEF rec
<1>3. /\ count' \in Counters /\ count'.tc = count.tc /\ count'.proc = count.proc
      /\ count'.visits = count.visits + 1
      /\ {count.tc, count.proc, count.visits} \subseteq Nat
  BY <1>1 DEF TranscodeTyping, Counters, Viewers
<1>4. viewer[v].pc = "idle"
  BY <1>1, <1>3 DEF VisitsCounted, Viewers
<1>5. \A i \in Transcoders : tc'[i].refs = tc[i].refs - One(Holds(viewer[v], i)) + One(Holds(rec, i))
  BY <1>1, <1>2, <1>4 DEF One, Holds, Holding, TranscodeTyping, Transcoder
<1>6. RunsKnown'
  BY <1>1, <1>3, RunsStay
<1>7. Knows(rec, proc')
  BY <1>2 DEF Knows, Holding
<1>8. /\ (count'.tc - count.tc) + One(rec.pc = "pick")
           <= (count'.visits - count.visits) + One(viewer[v].pc = "pick")
      /\ (count'.proc - count.proc) + One(rec.pc \in {"pick", "acquire"})
           <= (count'.visits - count.visits) + One(viewer[v].pc \in {"pick", "acquire"})
      /\ count.visits <= count'.visits /\ v <= count'.visits
  BY <1>1, <1>2, <1>3, <1>4 DEF One
<1>. QED BY <1>1, <1>2, <1>3, <1>5, <1>6, <1>7, <1>8, ViewerMoves DEF TranscodeTyping

\* liveStream gives the viewer the shared transcoder, or a new one.
LEMMA PickStep ==
  ASSUME TranscoderInv, NEW v \in Viewers, PickShared(v) \/ PickNew(v)
  PROVE  TranscoderInv'
<1>. USE DEF TranscoderInv
<1>0. /\ viewer[v].pc = "pick" /\ viewer[v] \in ViewerRecord
      /\ {count.tc, count.proc, count.visits} \subseteq Nat
      /\ UNCHANGED <<stream, ended, dropped>>
  BY DEF PickShared, PickNew, TranscodeTyping, Counters
<1>1. count.tc + 1 \in Transcoders /\ v <= count.visits
  <2>1. v \in Pickers
    BY <1>0 DEF Pickers
  <2>2. Cardinality(Pickers) > 0
    BY <2>1, ViewersFinite, FS_EmptySet, FS_RemoveElement, FS_CardinalityType, FS_Subset
  <2>3. count.visits <= MaxVisits
    BY DEF TranscodeTyping, Counters
  <2>. QED BY <1>0, <2>2, <2>3, ViewersFinite DEF VisitsCounted, Transcoders, Viewers
<1>2. PICK i \in Transcoders :
        /\ viewer' = [viewer EXCEPT ![v].pc = "acquire", ![v].tc = i]
        /\ count' \in Counters /\ count'.proc = count.proc /\ count'.visits = count.visits
        /\ count'.tc \in {count.tc, count.tc + 1}
        /\ shared' \in SharedRecord
  <2>1. CASE PickShared(v)
    <3>1. shared.tc \in Transcoders
      BY <2>1 DEF PickShared, TranscodeTyping, SharedRecord
    <3>. QED BY <2>1, <3>1 DEF PickShared, TranscodeTyping
  <2>2. CASE PickNew(v)
    <3>1. count' = [count EXCEPT !.tc = count.tc + 1]
      BY <2>2 DEF PickNew
    <3>2. count' \in Counters /\ count'.proc = count.proc /\ count'.visits = count.visits
          /\ count'.tc = count.tc + 1
      BY <1>1, <3>1 DEF TranscodeTyping, Counters, Transcoders
    <3>3. shared' \in SharedRecord
      BY <1>0, <1>1, <2>2 DEF PickNew, SharedRecord, ViewerRecord
    <3>. QED BY <1>1, <2>2, <3>2, <3>3 DEF PickNew
  <2>. QED BY <2>1, <2>2
<1>. DEFINE rec == [viewer[v] EXCEPT !.pc = "acquire", !.tc = i]
<1>3. /\ viewer' = [viewer EXCEPT ![v] = rec]
      /\ rec \in ViewerRecord /\ rec.pc = "acquire" /\ rec.tc = i
  BY <1>0, <1>2 DEF ViewerRecord, ViewerPCs, TranscodeTyping
<1>. HIDE DEF rec
<1>4. tc' \in [Transcoders -> Transcoder] /\ SameRuns(tc, tc')
  <2>1. CASE PickShared(v)
    BY <2>1 DEF PickShared, TranscodeTyping, SameRuns
  <2>2. CASE PickNew(v)
    <3>1. PICK closed \in [Transcoders -> Transcoder] :
            /\ SameRuns(tc, closed)
            /\ tc' = [closed EXCEPT ![count.tc + 1].source = viewer[v].stream]
      <4>. DEFINE s == shared.tc
                  halted == [tc EXCEPT ![s].timer = FALSE, ![s].cancel = FALSE]
      <4>1. s \in Transcoders \cup {None}
        BY DEF TranscodeTyping, SharedRecord
      <4>2. ASSUME s \in Transcoders
            PROVE  halted \in [Transcoders -> Transcoder] /\ SameRuns(tc, halted)
        <5>1. PICK j \in Transcoders : j = s
          BY <4>2
        <5>. QED BY <5>1, StructSteps, 0 \in Nat, FALSE \in BOOLEAN
      <4>3. tc \in [Transcoders -> Transcoder] /\ SameRuns(tc, tc)
        BY DEF TranscodeTyping, SameRuns
      <4>. QED BY <2>2, <4>1, <4>2, <4>3 DEF PickNew
    <3>2. viewer[v].stream \in Streams \cup {None}
      BY <1>0 DEF ViewerRecord
    <3>3. tc' \in [Transcoders -> Transcoder] /\ SameRuns(closed, tc')
      BY <1>1, <3>1, <3>2 DEF Transcoder, SameRuns
    <3>. QED BY <3>1, <3>3 DEF SameRuns
  <2>. QED BY <2>1, <2>2
<1>5. /\ proc' \in [Procs -> RunRecord]
      /\ \A n \in Procs : /\ proc'[n].tc = proc[n].tc /\ proc'[n].pc = proc[n].pc
                          /\ proc'[n].cancelled = proc[n].cancelled \/ proc'[n].cancelled = "closed"
  <2>1. CASE proc' = proc
    BY <2>1 DEF TranscodeTyping
  <2>2. CASE shared.tc \in Transcoders /\ proc' = Cancelling(shared.tc, "closed")
    BY <2>2, CancellingRuns
  <2>. QED BY <2>1, <2>2 DEF PickShared, PickNew, TranscodeTyping, SharedRecord
<1>6. \A j \in Transcoders : tc'[j].refs = tc[j].refs - One(Holds(viewer[v], j)) + One(Holds(rec, j))
  BY <1>0, <1>3, <1>4 DEF One, Holds, Holding, SameRuns, TranscodeTyping, Transcoder
<1>7. RunsKnown'
  BY <1>2, <1>4, <1>5, RunsStay DEF SameRuns
<1>8. Knows(rec, proc')
  BY <1>3 DEF Knows, Holding
<1>9. /\ (count'.tc - count.tc) + One(rec.pc = "pick")
           <= (count'.visits - count.visits) + One(viewer[v].pc = "pick")
      /\ (count'.proc - count.proc) + One(rec.pc \in {"pick", "acquire"})
           <= (count'.visits - count.visits) + One(viewer[v].pc \in {"pick", "acquire"})
      /\ count.visits <= count'.visits /\ v <= count'.visits
  BY <1>0, <1>1, <1>2, <1>3 DEF One
<1>. QED BY <1>0, <1>2, <1>3, <1>4, <1>5, <1>6, <1>7, <1>8, <1>9, ViewerMoves DEF TranscodeTyping

\* A struct whose count changes: its run and its output stay.
LEMMA Recounted ==
  ASSUME TranscodeTyping, NEW i \in Transcoders, NEW new \in Transcoder,
         tc' = [tc EXCEPT ![i] = new]
  PROVE  /\ tc' \in [Transcoders -> Transcoder] /\ tc'[i] = new
         /\ \A j \in Transcoders \ {i} : tc'[j] = tc[j]
  BY DEF TranscodeTyping

\* Joining counts one viewer more and leaves the run alone.
LEMMA JoinedStruct ==
  ASSUME NEW i \in Transcoders, tc[i] \in Transcoder
  PROVE  /\ Joined(i) \in Transcoder /\ Joined(i).refs = tc[i].refs + 1
         /\ Joined(i).run = tc[i].run /\ Joined(i).out = tc[i].out
<1>1. tc[i].refs + 1 \in Nat
  BY DEF Transcoder
<1>. DEFINE refs == tc[i].refs + 1
<1>2. Joined(i) = [tc[i] EXCEPT !.timer = FALSE, !.refs = refs]
  BY DEF Joined
<1>3. refs \in Nat
  BY <1>1
<1>. HIDE DEF refs
<1>4. /\ Joined(i) \in Transcoder /\ Joined(i).refs = refs
      /\ Joined(i).run = tc[i].run /\ Joined(i).out = tc[i].out
  BY <1>2, <1>3 DEF Transcoder
<1>. QED BY <1>4 DEF refs

\* Joining a run there is, or one that is still starting.
LEMMA JoinStep ==
  ASSUME TranscoderInv, NEW v \in Viewers, AcquireOutput(v) \/ AcquireWaiting(v)
  PROVE  TranscoderInv'
<1>. USE DEF TranscoderInv
<1>0. /\ viewer[v].pc = "acquire" /\ viewer[v] \in ViewerRecord
      /\ {count.tc, count.proc, count.visits} \subseteq Nat
      /\ UNCHANGED <<stream, ended, shared, dropped, proc, count>>
  BY DEF AcquireOutput, AcquireWaiting, TranscodeTyping, Counters
<1>1. PICK i \in Transcoders : i = viewer[v].tc /\ tc[i] \in Transcoder
  BY <1>0 DEF ViewersKnow, TranscodeTyping
<1>2. PICK n \in Procs, pc \in {"watch", "wait"} :
        /\ n = tc[i].run /\ Active(n) /\ proc[n].tc = i
        /\ tc' = [tc EXCEPT ![i] = Joined(i)]
        /\ viewer' = [viewer EXCEPT ![v].pc = pc, ![v].proc = n,
                                    ![v].early = proc[n].cancelled = "no"]
  <2>1. tc[i].run # None /\ (AcquireOutput(v) => tc[i].out = tc[i].run)
    BY <1>1 DEF AcquireOutput, AcquireWaiting, RunsKnown
  <2>2. PICK n \in Procs : n = tc[i].run /\ Active(n) /\ proc[n].tc = i
    BY <2>1 DEF RunsKnown
  <2>. QED BY <1>1, <2>1, <2>2 DEF AcquireOutput, AcquireWaiting
<1>. DEFINE inTime == proc[n].cancelled = "no"
            rec == [viewer[v] EXCEPT !.pc = pc, !.proc = n, !.early = inTime]
<1>3. viewer' = [viewer EXCEPT ![v] = rec]
  BY <1>2 DEF TranscodeTyping
<1>4. /\ rec \in ViewerRecord /\ rec.pc = pc /\ rec.tc = i /\ rec.proc = n
      /\ rec.early => proc[n].cancelled = "no"
  <2>1. inTime \in BOOLEAN
    OBVIOUS
  <2>. QED BY <1>0, <1>1, <2>1 DEF ViewerRecord, ViewerPCs
<1>. HIDE DEF rec, inTime
<1>5. Joined(i) \in Transcoder /\ Joined(i).refs = tc[i].refs + 1
      /\ Joined(i).run = tc[i].run /\ Joined(i).out = tc[i].out
  BY <1>1, JoinedStruct
<1>6. /\ tc' \in [Transcoders -> Transcoder] /\ tc'[i] = Joined(i)
      /\ \A j \in Transcoders \ {i} : tc'[j] = tc[j]
  BY <1>2, <1>5, Recounted
<1>7. \A j \in Transcoders : tc'[j].refs = tc[j].refs - One(Holds(viewer[v], j)) + One(Holds(rec, j))
  <2>1. \A j \in Transcoders : tc[j].refs \in Nat
    BY DEF TranscodeTyping, Transcoder
  <2>2. \A j \in Transcoders : ~Holds(viewer[v], j) /\ (Holds(rec, j) <=> j = i)
    BY <1>0, <1>4 DEF Holds, Holding
  <2>. QED BY <1>5, <1>6, <2>1, <2>2 DEF One
<1>8. RunsKnown'
  BY <1>0, <1>5, <1>6, RunsStay
<1>9. Knows(rec, proc')
  BY <1>0, <1>2, <1>4 DEF Knows, Holding, Active
<1>10. v <= count.visits
  BY <1>0 DEF VisitsCounted, Viewers
<1>11. /\ (count'.tc - count.tc) + One(rec.pc = "pick")
           <= (count'.visits - count.visits) + One(viewer[v].pc = "pick")
       /\ (count'.proc - count.proc) + One(rec.pc \in {"pick", "acquire"})
           <= (count'.visits - count.visits) + One(viewer[v].pc \in {"pick", "acquire"})
       /\ count.visits <= count'.visits
  BY <1>0, <1>4 DEF One
<1>. QED BY <1>0, <1>3, <1>4, <1>6, <1>7, <1>8, <1>9, <1>10, <1>11, ViewerMoves DEF TranscodeTyping

\* Joining a transcoder without a run starts one.
LEMMA StartStep ==
  ASSUME TranscoderInv, NEW v \in Viewers, AcquireStarting(v)
  PROVE  TranscoderInv'
<1>. USE DEF TranscoderInv
<1>0. /\ viewer[v].pc = "acquire" /\ viewer[v] \in ViewerRecord
      /\ {count.tc, count.proc, count.visits} \subseteq Nat /\ count.visits <= MaxVisits
      /\ UNCHANGED <<stream, ended, shared, dropped>>
  BY DEF AcquireStarting, TranscodeTyping, Counters
<1>1. PICK i \in Transcoders : i = viewer[v].tc /\ tc[i] \in Transcoder
  BY <1>0 DEF ViewersKnow, TranscodeTyping
<1>2. count.proc + 1 \in Procs
  <2>1. v \in Joiners
    BY <1>0 DEF Joiners
  <2>2. Cardinality(Joiners) > 0
    BY <2>1, ViewersFinite, FS_EmptySet
  <2>. QED BY <1>0, <2>2, ViewersFinite DEF VisitsCounted, Procs
<1>3. PICK n \in Procs : n = count.proc + 1
  BY <1>2
<1>. DEFINE run == [NoProc EXCEPT !.tc = i, !.pc = "starting"]
            new == [Joined(i) EXCEPT !.run = n, !.cancel = TRUE]
            rec == [viewer[v] EXCEPT !.pc = "wait", !.proc = n, !.early = TRUE]
<1>4. /\ tc[i].run = None /\ tc[i].out = None
      /\ tc' = [tc EXCEPT ![i] = new] /\ proc' = [proc EXCEPT ![n] = run]
      /\ count' = [count EXCEPT !.proc = n]
  BY <1>1, <1>3 DEF AcquireStarting, NotRunning
<1>5. viewer' = [viewer EXCEPT ![v] = rec]
  BY <1>1, <1>3 DEF AcquireStarting, TranscodeTyping
<1>6. run \in RunRecord /\ run.tc = i /\ run.pc = "starting" /\ run.cancelled = "no"
  BY DEF NoProc, RunRecord
<1>7. new \in Transcoder /\ new.refs = tc[i].refs + 1 /\ new.run = n /\ new.out = None
  <2>1. /\ Joined(i) \in Transcoder /\ Joined(i).refs = tc[i].refs + 1
        /\ Joined(i).out = None
    BY <1>1, <1>4, JoinedStruct
  <2>. QED BY <2>1 DEF Transcoder
<1>8. rec \in ViewerRecord /\ rec.pc = "wait" /\ rec.tc = i /\ rec.proc = n
  BY <1>0, <1>1 DEF ViewerRecord, ViewerPCs
<1>. HIDE DEF run, new, rec
<1>9. /\ tc' \in [Transcoders -> Transcoder] /\ tc'[i] = new
      /\ \A j \in Transcoders \ {i} : tc'[j] = tc[j]
  BY <1>4, <1>7, Recounted
<1>10. /\ proc' \in [Procs -> RunRecord] /\ proc'[n] = run
       /\ \A m \in Procs \ {n} : proc'[m] = proc[m]
  BY <1>4, <1>6 DEF TranscodeTyping
<1>11. /\ count' \in Counters /\ count'.tc = count.tc /\ count'.visits = count.visits
       /\ count'.proc = count.proc + 1
  <2>1. n \in 0..MaxVisits /\ count \in Counters
    BY <1>3 DEF TranscodeTyping, Procs
  <2>. QED BY <1>3, <1>4, <2>1 DEF Counters
<1>12. proc[n].pc = "none"
  BY <1>0, <1>3 DEF RunsKnown
<1>13. \A j \in Transcoders : tc'[j].refs = tc[j].refs - One(Holds(viewer[v], j)) + One(Holds(rec, j))
  <2>1. \A j \in Transcoders : tc[j].refs \in Nat
    BY DEF TranscodeTyping, Transcoder
  <2>2. \A j \in Transcoders : ~Holds(viewer[v], j) /\ (Holds(rec, j) <=> j = i)
    BY <1>0, <1>8 DEF Holds, Holding
  <2>. QED BY <1>7, <1>9, <2>1, <2>2 DEF One
<1>14. RunsKnown'
  <2>1. \A m \in Procs : Active(m)' <=> Active(m) \/ m = n
    BY <1>6, <1>10, <1>12 DEF Active
  <2>2. n # None
    BY <1>3, <1>0 DEF None
  <2>3. ASSUME NEW m \in Procs, Active(m)' PROVE proc'[m].tc \in Transcoders /\ tc'[proc'[m].tc].run = m
    <3>1. CASE m = n
      BY <1>6, <1>7, <1>9, <1>10, <3>1
    <3>2. CASE m # n
      <4>1. proc'[m] = proc[m] /\ proc[m].tc \in Transcoders /\ tc[proc[m].tc].run = m /\ m # None
        BY <1>10, <2>1, <2>3, <3>2 DEF RunsKnown, Procs, None
      <4>. QED BY <1>4, <1>9, <4>1
    <3>. QED BY <3>1, <3>2
  <2>4. ASSUME NEW j \in Transcoders
        PROVE  /\ tc'[j].run # None => \E m \in Procs : m = tc'[j].run /\ Active(m)' /\ proc'[m].tc = j
               /\ tc'[j].out \in {tc'[j].run, None}
    <3>1. CASE j = i
      <4>1. tc'[j].run = n /\ tc'[j].out = None
        BY <1>7, <1>9, <3>1
      <4>. QED BY <1>6, <1>10, <2>1, <3>1, <4>1
    <3>2. CASE j # i
      <4>1. tc'[j] = tc[j]
        BY <1>9, <3>2
      <4>2. tc[j].run # None => tc[j].run # n
        BY <1>12 DEF RunsKnown, Active
      <4>. QED BY <1>10, <2>1, <4>1, <4>2 DEF RunsKnown
    <3>. QED BY <3>1, <3>2
  <2>5. \A m \in Procs : m > count'.proc => proc'[m].pc = "none"
    BY <1>0, <1>3, <1>10, <1>11 DEF RunsKnown, Procs
  <2>. QED BY <2>3, <2>4, <2>5 DEF RunsKnown, Active
<1>15. Knows(rec, proc')
  BY <1>6, <1>8, <1>10 DEF Knows
<1>16. v <= count.visits
  BY <1>0 DEF VisitsCounted, Viewers
<1>17. /\ (count'.tc - count.tc) + One(rec.pc = "pick")
            <= (count'.visits - count.visits) + One(viewer[v].pc = "pick")
       /\ (count'.proc - count.proc) + One(rec.pc \in {"pick", "acquire"})
            <= (count'.visits - count.visits) + One(viewer[v].pc \in {"pick", "acquire"})
       /\ count.visits <= count'.visits /\ v <= count'.visits
  BY <1>0, <1>8, <1>11, <1>16 DEF One
<1>18. \A m \in Procs : proc[m].pc # "none" => proc'[m] = proc[m]
  BY <1>10, <1>12
<1>. QED BY <1>0, <1>5, <1>8, <1>9, <1>10, <1>11, <1>13, <1>14, <1>15, <1>17, <1>18, ViewerMoves
         DEF TranscodeTyping

\* A wait is over, and the viewer takes what there is.
LEMMA TakeStep ==
  ASSUME TranscoderInv, NEW v \in Viewers, ReadyClosed(v) \/ Take(v)
  PROVE  TranscoderInv'
<1>. USE DEF TranscoderInv
<1>0. /\ viewer[v].pc \in {"wait", "take"} /\ viewer[v] \in ViewerRecord
      /\ viewer[v].tc \in Transcoders
      /\ {count.tc, count.proc, count.visits} \subseteq Nat
      /\ UNCHANGED <<stream, ended, shared, dropped, tc, proc, count>>
  BY DEF ReadyClosed, Take, TranscodeTyping, Counters, ViewersKnow, Holding
<1>1. Knows(viewer[v], proc)
  BY <1>0 DEF ViewersKnow, Knows
<1>2. PICK rec \in ViewerRecord :
        /\ viewer' = [viewer EXCEPT ![v] = rec]
        /\ rec.pc \in {"take", "drop", "watch"} /\ rec.tc = viewer[v].tc /\ Knows(rec, proc)
  <2>1. CASE ReadyClosed(v) \/ (Take(v) /\ tc[viewer[v].tc].out = None)
    <3>1. PICK pc \in {"take", "drop"} : viewer' = [viewer EXCEPT ![v].pc = pc]
      BY <2>1 DEF ReadyClosed, Take, Goto
    <3>. DEFINE rec == [viewer[v] EXCEPT !.pc = pc]
    <3>2. /\ rec \in ViewerRecord /\ rec.pc = pc /\ rec.tc = viewer[v].tc
          /\ rec.proc = viewer[v].proc /\ rec.early = viewer[v].early
      BY <1>0 DEF ViewerRecord, ViewerPCs
    <3>3. viewer' = [viewer EXCEPT ![v] = rec]
      BY <3>1 DEF TranscodeTyping
    <3>. HIDE DEF rec
    <3>4. Knows(rec, proc)
      BY <1>0, <1>1, <3>2 DEF Knows, Holding
    <3>. QED BY <3>2, <3>3, <3>4
  <2>2. CASE Take(v) /\ tc[viewer[v].tc].out # None
    <3>1. PICK n \in Procs : n = tc[viewer[v].tc].out /\ Active(n) /\ proc[n].tc = viewer[v].tc
      BY <1>0, <2>2 DEF RunsKnown
    <3>. DEFINE inTime == proc[n].cancelled = "no" \/ (viewer[v].early /\ viewer[v].proc = n)
                rec == [viewer[v] EXCEPT !.pc = "watch", !.proc = n, !.early = inTime]
    <3>2. inTime \in BOOLEAN
      OBVIOUS
    <3>3. viewer' = [viewer EXCEPT ![v] = rec]
      BY <2>2, <3>1 DEF Take, TranscodeTyping
    <3>4. inTime => proc[n].cancelled # "idle"
      BY <1>0, <1>1 DEF Knows, Holding
    <3>. HIDE DEF inTime
    <3>5. /\ rec \in ViewerRecord /\ rec.pc = "watch" /\ rec.tc = viewer[v].tc
          /\ rec.proc = n /\ rec.early = inTime
      BY <1>0, <3>2 DEF ViewerRecord, ViewerPCs
    <3>. HIDE DEF rec
    <3>6. Knows(rec, proc)
      BY <1>0, <3>1, <3>4, <3>5 DEF Knows, Active
    <3>. QED BY <3>3, <3>5, <3>6
  <2>. QED BY <2>1, <2>2
<1>3. \A j \in Transcoders : tc'[j].refs = tc[j].refs - One(Holds(viewer[v], j)) + One(Holds(rec, j))
  <2>1. \A j \in Transcoders : tc[j].refs \in Nat
    BY DEF TranscodeTyping, Transcoder
  <2>2. \A j \in Transcoders : Holds(viewer[v], j) <=> Holds(rec, j)
    BY <1>0, <1>2 DEF Holds, Holding
  <2>. QED BY <1>0, <2>1, <2>2 DEF One
<1>4. RunsKnown'
  BY <1>0, RunsStay
<1>5. v <= count.visits
  BY <1>0 DEF VisitsCounted, Viewers
<1>6. /\ (count'.tc - count.tc) + One(rec.pc = "pick")
           <= (count'.visits - count.visits) + One(viewer[v].pc = "pick")
      /\ (count'.proc - count.proc) + One(rec.pc \in {"pick", "acquire"})
           <= (count'.visits - count.visits) + One(viewer[v].pc \in {"pick", "acquire"})
      /\ count.visits <= count'.visits
  BY <1>0, <1>2 DEF One
<1>. QED BY <1>0, <1>2, <1>3, <1>4, <1>5, <1>6, ViewerMoves DEF TranscodeTyping

\* Who leaves was counted, so that the count does not go below what is left.
LEMMA ReleaseStep ==
  ASSUME TranscoderInv, NEW v \in Viewers, GiveUp(v) \/ Drop(v) \/ Leave(v)
  PROVE  TranscoderInv'
<1>. USE DEF TranscoderInv
<1>0. /\ viewer[v].pc \in Holding
      /\ {count.tc, count.proc, count.visits} \subseteq Nat
      /\ viewer' = [viewer EXCEPT ![v] = NoViewer]
      /\ UNCHANGED <<stream, ended, shared, dropped, proc, count>>
  BY DEF GiveUp, Drop, Leave, Gone, Holding, TranscodeTyping, Counters
<1>1. PICK i \in Transcoders : /\ i = viewer[v].tc /\ tc[i] \in Transcoder
                               /\ tc' = [tc EXCEPT ![i] = Released(i)]
  BY <1>0 DEF GiveUp, Drop, Leave, ViewersKnow, TranscodeTyping
<1>2. tc[i].refs \in Nat \ {0}
  <2>1. v \in Holders(i)
    BY <1>0, <1>1 DEF Holders
  <2>2. Cardinality(Holders(i)) # 0
    BY <2>1, ViewersFinite, FS_EmptySet
  <2>. QED BY <2>2, ViewersFinite DEF RefsCountViewers, Holders, Holding
<1>3. /\ Released(i) \in Transcoder /\ Released(i).refs = tc[i].refs - 1
      /\ Released(i).run = tc[i].run /\ Released(i).out = tc[i].out
  <2>1. PICK timer \in BOOLEAN :
          Released(i) = [tc[i] EXCEPT !.refs = tc[i].refs - 1, !.timer = timer]
    BY <1>1, <1>2 DEF Released, Transcoder
  <2>2. tc[i].refs - 1 \in Nat
    BY <1>2
  <2>. QED BY <1>1, <2>1, <2>2 DEF Transcoder
<1>4. /\ tc' \in [Transcoders -> Transcoder] /\ tc'[i] = Released(i)
      /\ \A j \in Transcoders \ {i} : tc'[j] = tc[j]
  BY <1>1, <1>3, Recounted
<1>5. NoViewer \in ViewerRecord /\ NoViewer.pc = "idle"
  BY DEF NoViewer, ViewerRecord, ViewerPCs
<1>6. \A j \in Transcoders : tc'[j].refs = tc[j].refs - One(Holds(viewer[v], j)) + One(Holds(NoViewer, j))
  <2>1. \A j \in Transcoders : tc[j].refs \in Nat
    BY DEF TranscodeTyping, Transcoder
  <2>2. \A j \in Transcoders : (Holds(viewer[v], j) <=> j = i) /\ ~Holds(NoViewer, j)
    BY <1>0, <1>1, <1>5 DEF Holds, Holding
  <2>. QED BY <1>3, <1>4, <2>1, <2>2 DEF One
<1>7. RunsKnown'
  BY <1>0, <1>3, <1>4, RunsStay
<1>8. Knows(NoViewer, proc')
  BY <1>5 DEF Knows, Holding
<1>9. v <= count.visits
  BY <1>0 DEF VisitsCounted, Viewers, Holding
<1>10. /\ (count'.tc - count.tc) + One(NoViewer.pc = "pick")
            <= (count'.visits - count.visits) + One(viewer[v].pc = "pick")
       /\ (count'.proc - count.proc) + One(NoViewer.pc \in {"pick", "acquire"})
            <= (count'.visits - count.visits) + One(viewer[v].pc \in {"pick", "acquire"})
       /\ count.visits <= count'.visits
  BY <1>0, <1>5 DEF One, Holding
<1>. QED BY <1>0, <1>4, <1>5, <1>6, <1>7, <1>8, <1>9, <1>10, ViewerMoves DEF TranscodeTyping

\* The invariant is inductive.
LEMMA TranscoderStep == TranscoderInv /\ [TranscodeNext]_transcodeVars => TranscoderInv'
<1>. SUFFICES ASSUME TranscoderInv, [TranscodeNext]_transcodeVars PROVE TranscoderInv'
  OBVIOUS
<1>1. CASE UNCHANGED transcodeVars
  BY <1>1 DEF transcodeVars, TranscoderInv, TranscodeTyping, VisitsCounted, Pickers, Joiners,
              ViewersKnow, RunsKnown, Active, RefsCountViewers
<1>2. ASSUME NEW v \in Viewers, Visit(v) \/ ViewerStep(v) \/ GiveUp(v) \/ Leave(v)
      PROVE  TranscoderInv'
  BY <1>2, VisitStep, PickStep, JoinStep, StartStep, TakeStep, ReleaseStep DEF ViewerStep
<1>. QED BY <1>1, <1>2, SourceSteps, CloseSteps, TimerSteps, RunSteps DEF TranscodeNext

HIDE BoundsAssumption

-----------------------------------------------------------------------------
(***************************************************************************)
(* The viewers.                                                            *)
(***************************************************************************)
\* The records of the requests.
WatcherRecord == [kind : Kinds \cup {"none"},
                  at : {"idle", "setup", "attach", "copying", "closed", "done"},
                  gone : BOOLEAN, late : BOOLEAN]

WatchTyping ==
  /\ over \in BOOLEAN /\ watcher \in [Watchers -> WatcherRecord]
  /\ held \in [Watchers -> 0..1] /\ readers \subseteq Watchers

WatchInv == WatchTyping /\ ViewersSound

\* What ViewersSound says of one request.
Settled(w, rec, n, reading) ==
  /\ n = IF rec.kind = "ts" \/ rec.at = "idle" \/ rec.at = "done" THEN 0 ELSE 1
  /\ reading <=> rec.at = "copying"

\* Nobody watches at first.
LEMMA WatchStart == WatchInit => WatchInv
<1>. SUFFICES ASSUME WatchInit PROVE WatchInv
  OBVIOUS
<1>. DEFINE rec == [kind |-> "none", at |-> "idle", gone |-> FALSE, late |-> FALSE]
<1>1. rec \in WatcherRecord /\ rec.at = "idle"
  BY DEF WatcherRecord
<1>2. watcher = [w \in Watchers |-> rec]
  BY DEF WatchInit
<1>. HIDE DEF rec
<1>3. \A w \in Watchers : watcher[w].at = "idle"
  BY <1>1, <1>2
<1>4. WatchTyping
  <2>1. watcher \in [Watchers -> WatcherRecord]
    BY <1>1, <1>2
  <2>2. held \in [Watchers -> 0..1]
    BY DEF WatchInit
  <2>3. readers \subseteq Watchers /\ over \in BOOLEAN
    BY DEF WatchInit
  <2>. QED BY <2>1, <2>2, <2>3 DEF WatchTyping
<1>5. ViewersSound
  BY <1>3 DEF WatchInit, ViewersSound, At
<1>. QED BY <1>4, <1>5 DEF WatchInv

\* One request moves, and is counted right where it arrives.
LEMMA WatcherMoves ==
  ASSUME WatchInv, NEW w \in Watchers, NEW rec \in WatcherRecord, NEW n \in 0..1, over' = over,
         watcher' = [watcher EXCEPT ![w] = rec], held' = [held EXCEPT ![w] = n],
         readers' \subseteq Watchers, \A x \in Watchers \ {w} : x \in readers' <=> x \in readers,
         Settled(w, rec, n, w \in readers')
  PROVE  WatchInv'
<1>1. WatchTyping'
  BY DEF WatchInv, WatchTyping
<1>2. /\ watcher'[w] = rec /\ held'[w] = n
      /\ \A x \in Watchers \ {w} : watcher'[x] = watcher[x] /\ held'[x] = held[x]
  BY DEF WatchInv, WatchTyping
<1>3. ViewersSound'
  BY <1>2 DEF WatchInv, ViewersSound, Settled, At
<1>. QED BY <1>1, <1>3 DEF WatchInv

\* The invariant is inductive.
LEMMA WatchStep == WatchInv /\ [WatchNext]_watchVars => WatchInv'
<1>. SUFFICES ASSUME WatchInv, [WatchNext]_watchVars PROVE WatchInv'
  OBVIOUS
<1>1. CASE UNCHANGED watchVars
  BY <1>1 DEF watchVars, WatchInv, WatchTyping, ViewersSound, At
<1>2. CASE StreamOver
  BY <1>2 DEF StreamOver, WatchInv, WatchTyping, ViewersSound, At
<1>3. ASSUME NEW w \in Watchers,
             WatcherStep(w) \/ WriteFails(w) \/ WatcherLeaves(w) \/ \E kind \in Kinds : Open(w, kind)
      PROVE  WatchInv'
  <2>0. /\ watcher[w] \in WatcherRecord /\ held[w] \in 0..1 /\ readers \subseteq Watchers
        /\ over \in BOOLEAN /\ held = [held EXCEPT ![w] = held[w]]
        /\ Settled(w, watcher[w], held[w], w \in readers)
    BY DEF WatchInv, WatchTyping, ViewersSound, Settled, At
  <2>1. CASE \E kind \in Kinds : Open(w, kind)
    <3>1. PICK kind \in Kinds : Open(w, kind)
      BY <2>1
    <3>. DEFINE rec == [watcher[w] EXCEPT !.kind = kind, !.at = "setup"]
                n   == IF kind = "ts" THEN 0 ELSE 1
    <3>2. rec \in WatcherRecord /\ rec.kind = kind /\ rec.at = "setup"
      BY <2>0 DEF WatcherRecord
    <3>. HIDE DEF rec
    <3>5. n \in 0..1
      OBVIOUS
    <3>3. watcher' = [watcher EXCEPT ![w] = rec] /\ held' = [held EXCEPT ![w] = n] /\ over' = over /\ readers' = readers
      BY <3>1 DEF rec, Open, WatchInv, WatchTyping
    <3>4. Settled(w, rec, n, w \in readers')
      BY <2>0, <3>1, <3>2, <3>3 DEF Settled, Open, At
    <3>. HIDE DEF n
    <3>. QED BY <2>0, <3>2, <3>3, <3>4, <3>5, WatcherMoves
  <2>2. CASE WatcherLeaves(w)
    <3>. DEFINE rec == [watcher[w] EXCEPT !.gone = TRUE]
    <3>1. rec \in WatcherRecord /\ rec.kind = watcher[w].kind /\ rec.at = watcher[w].at
      BY <2>0 DEF WatcherRecord
    <3>2. watcher' = [watcher EXCEPT ![w] = rec] /\ held' = held /\ over' = over /\ readers' = readers
      BY <2>2 DEF WatcherLeaves, WatchInv, WatchTyping
    <3>. HIDE DEF rec
    <3>3. Settled(w, rec, held[w], w \in readers')
      BY <2>0, <3>1, <3>2 DEF Settled
    <3>. QED BY <2>0, <3>1, <3>2, <3>3, WatcherMoves
  <2>3. CASE SetupFails(w) \/ Started(w) \/ SeeEnd(w) \/ WriteFails(w)
    <3>1. PICK place \in {"closed", "attach"} :
            /\ watcher' = [watcher EXCEPT ![w].at = place] /\ held' = held /\ over' = over
            /\ watcher[w].at \in {"setup", "copying"}
            /\ readers' = IF watcher[w].at = "copying" THEN readers \ {w} ELSE readers
      BY <2>3 DEF SetupFails, Started, SeeEnd, WriteFails, Detach, Goes, At
    <3>. DEFINE rec == [watcher[w] EXCEPT !.at = place]
    <3>2. rec \in WatcherRecord /\ rec.kind = watcher[w].kind /\ rec.at = place
      BY <2>0 DEF WatcherRecord
    <3>3. watcher' = [watcher EXCEPT ![w] = rec]
      BY <3>1 DEF WatchInv, WatchTyping
    <3>. HIDE DEF rec
    <3>4. Settled(w, rec, held[w], w \in readers')
      BY <2>0, <3>1, <3>2 DEF Settled
    <3>5. readers' \subseteq Watchers /\ \A x \in Watchers \ {w} : x \in readers' <=> x \in readers
      BY <2>0, <3>1
    <3>. QED BY <2>0, <3>1, <3>2, <3>3, <3>4, <3>5, WatcherMoves
  <2>4. CASE Attach(w)
    <3>. DEFINE rec == [watcher[w] EXCEPT !.at = "copying", !.late = over]
    <3>1. rec \in WatcherRecord /\ rec.kind = watcher[w].kind /\ rec.at = "copying"
      BY <2>0 DEF WatcherRecord
    <3>2. /\ watcher' = [watcher EXCEPT ![w] = rec] /\ held' = held /\ over' = over
          /\ readers' = readers \cup {w} /\ watcher[w].at = "attach"
      BY <2>4 DEF Attach, WatchInv, WatchTyping, At
    <3>. HIDE DEF rec
    <3>3. Settled(w, rec, held[w], w \in readers')
      BY <2>0, <3>1, <3>2 DEF Settled
    <3>4. readers' \subseteq Watchers /\ \A x \in Watchers \ {w} : x \in readers' <=> x \in readers
      BY <2>0, <3>2
    <3>. QED BY <2>0, <3>1, <3>2, <3>3, <3>4, WatcherMoves
  <2>5. CASE GiveBack(w)
    <3>. DEFINE rec == [watcher[w] EXCEPT !.at = "done"]
                n   == IF watcher[w].kind = "ts" THEN held[w] ELSE held[w] - 1
    <3>1. rec \in WatcherRecord /\ rec.kind = watcher[w].kind /\ rec.at = "done"
      BY <2>0 DEF WatcherRecord
    <3>2. /\ watcher' = [watcher EXCEPT ![w] = rec] /\ held' = [held EXCEPT ![w] = n]
          /\ over' = over /\ readers' = readers /\ watcher[w].at = "closed"
      BY <2>5 DEF GiveBack, Goes, WatchInv, WatchTyping, At
    <3>3. n = 0
      BY <2>0, <3>2 DEF Settled
    <3>. HIDE DEF rec, n
    <3>4. Settled(w, rec, n, w \in readers')
      BY <2>0, <3>1, <3>2, <3>3 DEF Settled
    <3>5. n \in 0..1
      BY <3>3
    <3>. QED BY <2>0, <3>1, <3>2, <3>4, <3>5, WatcherMoves
  <2>. QED BY <1>3, <2>1, <2>2, <2>3, <2>4, <2>5 DEF WatcherStep
<1>. QED BY <1>1, <1>2, <1>3 DEF WatchNext

-----------------------------------------------------------------------------
(***************************************************************************)
(* The playback sessions.                                                  *)
(***************************************************************************)
\* The records of a session and of a request.
SessionRecord == [sid : Sids \cup {""}, cancel : BOOLEAN, ready : {"no", "ok", "err"}]
PlayerRecord  == [at : {"idle", "mkdir", "start", "wait"}, s : 0..MaxMade]

PlaybackTyping ==
  /\ sessions \in [Sids -> 0..MaxMade] /\ madeS \in 0..MaxMade
  /\ session \in [Sessions -> SessionRecord] /\ procs \subseteq Sessions
  /\ dirs \in [Sids -> {"none", "empty", "playlist"}]
  /\ stopping \in [Sessions -> {"no", "cancel", "remove"}]
  /\ player \in [Players -> PlayerRecord]

\* The map and the order of its last accesses.
InMapAsMade == \A i \in Sids : sessions[i] # Absent => sessions[i] \in 1..madeS /\ Sid(sessions[i]) = i

Ordered(R, K) ==
  /\ R \subseteq K \X K
  /\ \A s, t \in K : <<s, t>> \in R <=> s # t /\ <<t, s>> \notin R
  /\ \A s, t, u \in K : <<s, t>> \in R /\ <<t, u>> \in R => <<s, u>> \in R

MapInv == InMapAsMade /\ Cardinality(InMap) <= MaxSessions /\ Ordered(before, InMap)

\* It says what PlaybackTypeOK says.
LEMMA MapInvIsTypeOK == MapInv <=> PlaybackTypeOK
  BY DEF MapInv, PlaybackTypeOK, InMapAsMade, Ordered

\* Sessions that were made have a key; the others are as new; who waits, waits for one that was made.
SessionsMade ==
  /\ \A s \in 1..madeS : Sid(s) \in Sids
  /\ \A s \in Sessions : ~(s <= madeS) =>
       session[s].ready = "no" /\ ~session[s].cancel /\ stopping[s] = "no"
  /\ \A p \in Players : player[p].at # "idle" => player[p].s \in 1..madeS

\* A session is being made by one request, is in the map until it is stopped, and has no cancel
\* function before it has been started.
Making(p) == player[p].at \in {"mkdir", "start"}

MadeByOne ==
  \A p \in Players : Making(p) =>
    /\ ~session[player[p].s].cancel
    /\ player[p].s \in InMap \/ stopping[player[p].s] = "cancel" \/ player[p].s \in early
    /\ \A q \in Players : Making(q) /\ player[q].s = player[p].s => q = p

\* A session is stopped when it has left the map; one that has a directory to itself shares its
\* key with none that is still being stopped.
StoppedOutside ==
  /\ \A s \in InMap : stopping[s] = "no"
  /\ \A s \in InMap \ sharedDir, t \in 1..madeS : t # s /\ Sid(t) = Sid(s) => stopping[t] = "no"

\* PlaybackSound, of the sessions in the map.
SoundInMap ==
  /\ \A s \in InMap : session[s].ready = "ok" => dirs[Sid(s)] = "playlist" \/ s \in sharedDir
  /\ \A s \in 1..madeS : s \in procs => s \in InMap \/ stopping[s] = "cancel" \/ s \in early

PlaybackInv == PlaybackTyping /\ MapInv /\ SessionsMade /\ MadeByOne /\ StoppedOutside /\ SoundInMap

\* A session is current when it is in the map.
LEMMA InMapIsCurrent ==
  ASSUME PlaybackTyping, InMapAsMade, SessionsMade
  PROVE  /\ InMap \subseteq 1..madeS /\ InMap \subseteq Sessions /\ 1..madeS \subseteq Sessions
         /\ \A s \in InMap : Sid(s) \in Sids /\ sessions[Sid(s)] = s
         /\ \A s \in 1..madeS : Current(s) <=> s \in InMap
         /\ \A i \in Sids : sessions[i] # Absent => sessions[i] \in InMap
         /\ IsFiniteSet(InMap) /\ Cardinality(InMap) \in Nat
<1>. USE PlaybackAssumption
<1>1. InMap \subseteq 1..madeS /\ \A s \in InMap : Sid(s) \in Sids /\ sessions[Sid(s)] = s
  BY DEF InMap, InMapAsMade
<1>2. 1..madeS \subseteq Sessions
  BY DEF Sessions, PlaybackTyping
<1>3. \A i \in Sids : sessions[i] # Absent => sessions[i] \in InMap
  BY DEF InMap
<1>4. \A s \in 1..madeS : Current(s) <=> s \in InMap
  BY <1>1 DEF Current, SessionsMade, InMap, Absent
<1>5. IsFiniteSet(InMap) /\ Cardinality(InMap) \in Nat
  <2>1. IsFiniteSet(1..madeS)
    BY FS_Interval DEF PlaybackTyping
  <2>. QED BY <1>1, <2>1, FS_Subset, FS_CardinalityType
<1>. QED BY <1>1, <1>2, <1>3, <1>4, <1>5

\* The invariant says what is checked.
LEMMA PlaybackInvSays == PlaybackInv => PlaybackTypeOK /\ PlaybackSound
<1>. SUFFICES ASSUME PlaybackInv PROVE PlaybackTypeOK /\ PlaybackSound
  OBVIOUS
<1>1. PlaybackTypeOK
  BY MapInvIsTypeOK DEF PlaybackInv
<1>2. \A s \in 1..madeS : Current(s) <=> s \in InMap
  BY InMapIsCurrent DEF PlaybackInv, MapInv
<1>3. PlaybackSound
  BY <1>2 DEF PlaybackInv, SoundInMap, PlaybackSound
<1>. QED BY <1>1, <1>3

\* What is taken out of the order and put at its end leaves an order.
LEMMA OrderKept ==
  ASSUME NEW R, NEW K, Ordered(R, K), NEW S, NEW x, x \notin K \ S
  PROVE  LET kept == {e \in R : e[1] \notin S /\ e[2] \notin S} IN
         Ordered(kept, K \ S) /\ Ordered(kept \cup ((K \ S) \X {x}), (K \ S) \cup {x})
<1>. DEFINE kept == {e \in R : e[1] \notin S /\ e[2] \notin S}
            last == kept \cup ((K \ S) \X {x})
<1>1. \A s, t : <<s, t>> \in kept <=> <<s, t>> \in R /\ s \notin S /\ t \notin S
  OBVIOUS
<1>2. R \subseteq K \X K
  BY DEF Ordered
<1>3. kept \subseteq (K \ S) \X (K \ S)
  BY <1>2
<1>4. \A s, t : <<s, t>> \in last <=> <<s, t>> \in kept \/ (s \in K \ S /\ t = x)
  OBVIOUS
<1>5. last \subseteq ((K \ S) \cup {x}) \X ((K \ S) \cup {x})
  BY <1>3
<1>. HIDE DEF kept, last
<1>6. Ordered(kept, K \ S)
  BY <1>1, <1>3 DEF Ordered
<1>7. \A s, t : <<s, t>> \in kept => s \in K \ S /\ t \in K \ S
  BY <1>3
<1>8. \A s, t \in (K \ S) \cup {x} : <<s, t>> \in last <=> s # t /\ <<t, s>> \notin last
  BY <1>4, <1>6, <1>7 DEF Ordered
<1>9. \A s, t, u \in (K \ S) \cup {x} : <<s, t>> \in last /\ <<t, u>> \in last => <<s, u>> \in last
  BY <1>4, <1>6, <1>7 DEF Ordered
<1>10. Ordered(last, (K \ S) \cup {x})
  BY <1>5, <1>8, <1>9 DEF Ordered
<1>. QED BY <1>6, <1>10 DEF kept, last

\* There are no sessions at first.
LEMMA PlaybackStart == PlayInit => PlaybackInv
<1>. SUFFICES ASSUME PlayInit PROVE PlaybackInv
  OBVIOUS
<1>. USE PlaybackAssumption
<1>. DEFINE new == [sid |-> "", cancel |-> FALSE, ready |-> "no"]
            away == [at |-> "idle", s |-> Absent]
<1>1. new \in SessionRecord /\ ~new.cancel /\ new.ready = "no" /\ away \in PlayerRecord /\ away.at = "idle"
  BY DEF SessionRecord, PlayerRecord, Absent
<1>2. session = [s \in Sessions |-> new] /\ player = [p \in Players |-> away]
  BY DEF PlayInit
<1>. HIDE DEF new, away
<1>3. InMap = {} /\ madeS = 0 /\ before = {} /\ procs = {} /\ sessions = [i \in Sids |-> 0]
  BY DEF PlayInit, InMap, Absent
<1>4. PlaybackTyping
  <2>1. session \in [Sessions -> SessionRecord] /\ player \in [Players -> PlayerRecord]
    BY <1>1, <1>2
  <2>2. sessions \in [Sids -> 0..MaxMade]
    BY <1>3
  <2>3. dirs \in [Sids -> {"none", "empty", "playlist"}]
    BY DEF PlayInit
  <2>4. stopping \in [Sessions -> {"no", "cancel", "remove"}]
    BY DEF PlayInit
  <2>5. procs \subseteq Sessions /\ madeS \in 0..MaxMade
    BY <1>3
  <2>. QED BY <2>1, <2>2, <2>3, <2>4, <2>5 DEF PlaybackTyping
<1>5. MapInv
  <2>1. Cardinality(InMap) <= MaxSessions
    BY <1>3, FS_EmptySet
  <2>. QED BY <1>3, <2>1 DEF MapInv, InMapAsMade, Ordered, Absent
<1>6. SessionsMade
  <2>1. \A s \in Sessions : session[s] = new /\ stopping[s] = "no"
    BY <1>2 DEF PlayInit
  <2>2. \A q \in Players : player[q] = away
    BY <1>2
  <2>. QED BY <1>1, <1>3, <2>1, <2>2 DEF SessionsMade
<1>8. MadeByOne
  BY <1>1, <1>2 DEF MadeByOne, Making
<1>7. StoppedOutside /\ SoundInMap
  BY <1>3 DEF StoppedOutside, SoundInMap
<1>. QED BY <1>4, <1>5, <1>6, <1>7, <1>8 DEF PlaybackInv

-----------------------------------------------------------------------------
\* A step at which no session enters or leaves the map, and none begins to be stopped.
LEMMA MapRests ==
  ASSUME PlaybackInv, PlaybackTyping', UNCHANGED <<sessions, madeS, sharedDir>>,
         Ordered(before', InMap),
         \A s \in Sessions : session'[s].sid = session[s].sid,
         \A s \in Sessions : ~(s <= madeS) => session'[s] = session[s],
         \A s \in Sessions : stopping'[s] # "no" => stopping[s] # "no",
         \A p \in Players : player'[p].at # "idle" => player'[p].s \in 1..madeS,
         MadeByOne', SoundInMap'
  PROVE  PlaybackInv'
<1>1. /\ InMap \subseteq 1..madeS /\ 1..madeS \subseteq Sessions
  BY InMapIsCurrent DEF PlaybackInv, MapInv
<1>2. InMap' = InMap /\ \A s \in Sessions : Sid(s)' = Sid(s)
  BY DEF InMap, Sid
<1>3. MapInv'
  <2>1. InMapAsMade'
    BY <1>1, <1>2 DEF PlaybackInv, MapInv, InMapAsMade
  <2>2. Cardinality(InMap') <= MaxSessions
    BY <1>2 DEF PlaybackInv, MapInv
  <2>. QED BY <1>2, <2>1, <2>2 DEF MapInv
<1>4. SessionsMade'
  BY <1>1, <1>2 DEF PlaybackInv, SessionsMade
<1>5. StoppedOutside'
  BY <1>1, <1>2 DEF PlaybackInv, StoppedOutside
<1>. QED BY <1>3, <1>4, <1>5 DEF PlaybackInv

\* One request moves on.
LEMMA RequestMoves ==
  ASSUME PlaybackTyping, NEW p \in Players, NEW rec \in PlayerRecord,
         player' = [player EXCEPT ![p] = rec]
  PROVE  /\ player' \in [Players -> PlayerRecord] /\ player'[p] = rec
         /\ \A q \in Players \ {p} : player'[q] = player[q]
  BY DEF PlaybackTyping

\* A hit and a file served change the order only.
LEMMA TouchStep ==
  ASSUME PlaybackInv, NEW i \in Sids, ServeFile(i) \/ \E p \in Players : EnsureHit(p, i)
  PROVE  PlaybackInv'
<1>1. /\ sessions[i] # Absent /\ before' = Touched(sessions[i])
      /\ UNCHANGED <<sessions, madeS, session, procs, dirs, stopping, sharedDir, early>>
  BY DEF ServeFile, EnsureHit
<1>2. PICK s \in InMap : s = sessions[i]
  BY <1>1 DEF InMap
<1>3. Ordered(before', InMap)
  <2>1. Ordered(before, InMap)
    BY DEF PlaybackInv, MapInv
  <2>2. Ordered(Without({s}) \cup ((InMap \ {s}) \X {s}), (InMap \ {s}) \cup {s})
    BY <2>1, OrderKept, s \notin InMap \ {s} DEF Without
  <2>3. (InMap \ {s}) \cup {s} = InMap
    OBVIOUS
  <2>. QED BY <1>1, <1>2, <2>2, <2>3 DEF Touched
<1>4. s \in 1..madeS /\ madeS \in 0..MaxMade
  BY <1>2, InMapIsCurrent DEF PlaybackInv, MapInv, PlaybackTyping
<1>5. /\ player' \in [Players -> PlayerRecord]
      /\ \A q \in Players : \/ player'[q] = player[q]
                            \/ player'[q].at = "wait" /\ player'[q].s = s
  <2>1. CASE ServeFile(i)
    BY <2>1 DEF ServeFile, PlaybackInv, PlaybackTyping
  <2>2. CASE \E p \in Players : EnsureHit(p, i)
    <3>1. PICK p \in Players : EnsureHit(p, i)
      BY <2>2
    <3>. DEFINE rec == [at |-> "wait", s |-> s]
    <3>4. s \in 0..MaxMade
      BY <1>4, PlaybackAssumption
    <3>2. rec \in PlayerRecord /\ rec.at = "wait" /\ rec.s = s
      BY <3>4 DEF PlayerRecord
    <3>3. player' = [player EXCEPT ![p] = rec]
      BY <1>2, <3>1 DEF EnsureHit
    <3>. HIDE DEF rec
    <3>. QED BY <3>2, <3>3, RequestMoves DEF PlaybackInv
  <2>. QED BY <2>1, <2>2
<1>6. PlaybackTyping'
  BY <1>1, <1>5 DEF PlaybackInv, PlaybackTyping
<1>7. \A p \in Players : player'[p].at # "idle" => player'[p].s \in 1..madeS
  BY <1>4, <1>5 DEF PlaybackInv, SessionsMade
<1>8. InMap' = InMap
  BY <1>1 DEF InMap
<1>9. MadeByOne'
  <2>1. \A p \in Players : Making(p)' => Making(p) /\ player'[p] = player[p]
    BY <1>5 DEF Making
  <2>. QED BY <1>1, <1>8, <2>1 DEF PlaybackInv, MadeByOne
<1>10. SoundInMap'
  BY <1>1, <1>8 DEF PlaybackInv, SoundInMap, Sid
<1>. QED BY <1>1, <1>3, <1>6, <1>7, <1>9, <1>10, MapRests

\* mkdir, the start of ffmpeg, the answer.
LEMMA WorkStep ==
  ASSUME PlaybackInv, NEW p \in Players, Mkdir(p) \/ StartTranscode(p) \/ Answered(p)
  PROVE  PlaybackInv'
<1>0. /\ UNCHANGED <<sessions, before, madeS, stopping, sharedDir, early>>
      /\ player[p] \in PlayerRecord
  BY DEF Mkdir, StartTranscode, Answered, PlaybackInv, PlaybackTyping
<1>1. PICK rec \in PlayerRecord :
        /\ player' = [player EXCEPT ![p] = rec]
        /\ IF Mkdir(p) THEN rec.at = "start" /\ rec.s = player[p].s ELSE rec.at # "start" /\ rec.at # "mkdir"
        /\ rec.at # "idle" => rec.s = player[p].s
  <2>1. CASE Answered(p)
    <3>. DEFINE rec == [at |-> "idle", s |-> Absent]
    <3>1. rec \in PlayerRecord
      BY PlaybackAssumption DEF PlayerRecord, Absent
    <3>. QED BY <2>1, <3>1 DEF Answered, Mkdir
  <2>2. CASE Mkdir(p) \/ StartTranscode(p)
    <3>1. PICK place \in {"start", "wait"} :
            /\ player' = [player EXCEPT ![p].at = place]
            /\ IF Mkdir(p) THEN place = "start" ELSE place = "wait"
      BY <2>2 DEF Mkdir, StartTranscode
    <3>. DEFINE rec == [player[p] EXCEPT !.at = place]
    <3>2. rec \in PlayerRecord /\ rec.at = place /\ rec.s = player[p].s
      BY <1>0 DEF PlayerRecord
    <3>3. player' = [player EXCEPT ![p] = rec]
      BY <3>1 DEF PlaybackInv, PlaybackTyping
    <3>. HIDE DEF rec
    <3>. QED BY <3>1, <3>2, <3>3
  <2>. QED BY <2>1, <2>2
<1>2. /\ player' \in [Players -> PlayerRecord] /\ player'[p] = rec
      /\ \A q \in Players \ {p} : player'[q] = player[q]
  BY <1>1, RequestMoves DEF PlaybackInv
<1>3. player[p].at # "idle" /\ player[p].s \in 1..madeS /\ 1..madeS \subseteq Sessions
  BY InMapIsCurrent DEF Mkdir, StartTranscode, Answered, PlaybackInv, MapInv, SessionsMade
<1>4. PICK s \in Sessions : s = player[p].s /\ s \in 1..madeS
  BY <1>3
<1>5. /\ session' \in [Sessions -> SessionRecord]
      /\ \A t \in Sessions : session'[t].sid = session[t].sid /\ session'[t].ready = session[t].ready
      /\ \A t \in Sessions : t # s \/ Mkdir(p) => session'[t] = session[t]
  <2>1. CASE Mkdir(p) \/ Answered(p)
    BY <2>1 DEF Mkdir, Answered, PlaybackInv, PlaybackTyping
  <2>2. CASE StartTranscode(p)
    <3>. DEFINE new == [session[s] EXCEPT !.cancel = TRUE]
    <3>1. session[s] \in SessionRecord
      BY DEF PlaybackInv, PlaybackTyping
    <3>2. new \in SessionRecord /\ new.sid = session[s].sid /\ new.ready = session[s].ready
      BY <3>1 DEF SessionRecord
    <3>3. session' = [session EXCEPT ![s] = new]
      BY <1>4, <2>2 DEF StartTranscode, PlaybackInv, PlaybackTyping
    <3>4. ~Mkdir(p)
      BY <2>2 DEF StartTranscode, Mkdir
    <3>. HIDE DEF new
    <3>. QED BY <3>2, <3>3, <3>4 DEF PlaybackInv, PlaybackTyping
  <2>. QED BY <2>1, <2>2
<1>6. /\ procs' \subseteq Sessions
      /\ procs' = procs \/ (procs' = procs \cup {s} /\ Making(p))
  BY <1>4 DEF Mkdir, StartTranscode, Answered, PlaybackInv, PlaybackTyping, Making
<1>7. /\ dirs' \in [Sids -> {"none", "empty", "playlist"}]
      /\ \A i \in Sids : dirs[i] = "playlist" => dirs'[i] = "playlist"
  <2>1. dirs \in [Sids -> {"none", "empty", "playlist"}]
    BY DEF PlaybackInv, PlaybackTyping
  <2>2. CASE Mkdir(p)
    <3>1. PICK i \in Sids : dirs' = [dirs EXCEPT ![i] = IF dirs[i] = "none" THEN "empty" ELSE dirs[i]]
      BY <1>3, <2>2 DEF Mkdir, PlaybackInv, SessionsMade
    <3>. QED BY <2>1, <3>1
  <2>3. CASE StartTranscode(p) \/ Answered(p)
    BY <2>1, <2>3 DEF StartTranscode, Answered
  <2>. QED BY <2>2, <2>3
<1>8. PlaybackTyping'
  BY <1>0, <1>2, <1>5, <1>6, <1>7 DEF PlaybackInv, PlaybackTyping
<1>9. \A q \in Players : player'[q].at # "idle" => player'[q].s \in 1..madeS
  BY <1>1, <1>2, <1>3 DEF PlaybackInv, SessionsMade
<1>10. InMap' = InMap
  BY <1>0 DEF InMap
<1>11. MadeByOne'
  <2>1. \A q \in Players : Making(q)' => Making(q) /\ player'[q].s = player[q].s /\ (q = p => Mkdir(p))
    BY <1>1, <1>2 DEF Making, Mkdir
  <2>2. \A q \in Players : Making(q) => player[q].s \in Sessions
    BY <1>3 DEF Making, PlaybackInv, SessionsMade
  <2>3. \A q \in Players : Making(q)' => session'[player[q].s] = session[player[q].s]
    <3>. SUFFICES ASSUME NEW q \in Players, Making(q)', ~Mkdir(p), player[q].s = s
                  PROVE  session'[s] = session[s]
      BY <1>5, <2>1, <2>2
    <3>1. CASE Answered(p)
      BY <3>1 DEF Answered
    <3>2. CASE StartTranscode(p)
      <4>1. Making(p) /\ q # p
        BY <2>1, <3>2 DEF StartTranscode, Making
      <4>. QED BY <1>4, <2>1, <4>1 DEF PlaybackInv, MadeByOne
    <3>. QED BY <3>1, <3>2
  <2>. QED BY <1>0, <1>10, <2>1, <2>3 DEF PlaybackInv, MadeByOne
<1>12. SoundInMap'
  <2>1. \A t \in InMap : t \in Sessions /\ Sid(t) \in Sids /\ Sid(t)' = Sid(t)
    BY <1>5, InMapIsCurrent DEF PlaybackInv, MapInv, Sid
  <2>2. \A t \in InMap' : session'[t].ready = "ok" => dirs'[Sid(t)'] = "playlist" \/ t \in sharedDir'
    BY <1>0, <1>5, <1>7, <1>10, <2>1 DEF PlaybackInv, SoundInMap
  <2>3. \A t \in 1..madeS : t \in procs' => t \in InMap \/ stopping[t] = "cancel" \/ t \in early
    BY <1>4, <1>6 DEF PlaybackInv, SoundInMap, MadeByOne
  <2>. QED BY <1>0, <1>10, <2>2, <2>3 DEF SoundInMap
<1>13. \A t \in Sessions : ~(t <= madeS) => session'[t] = session[t]
  BY <1>4, <1>5
<1>. QED BY <1>0, <1>5, <1>8, <1>9, <1>11, <1>12, <1>13, MapRests DEF PlaybackInv, MapInv

\* awaitReady finds the playlist, or gives up.
LEMMA PollStep ==
  ASSUME PlaybackInv, NEW s \in Sessions, PlaylistReady(s) \/ PlaylistLate(s)
  PROVE  PlaybackInv'
<1>0. /\ UNCHANGED <<sessions, before, madeS, procs, dirs, stopping, player, sharedDir, early>>
      /\ session[s].cancel /\ session[s] \in SessionRecord
  BY DEF PlaylistReady, PlaylistLate, Polled, PlaybackInv, PlaybackTyping
<1>1. s <= madeS
  BY <1>0 DEF PlaybackInv, SessionsMade
<1>2. PICK ready \in {"ok", "err"} :
        session' = [session EXCEPT ![s].ready = ready] /\ (ready = "ok" => dirs[Sid(s)] = "playlist")
  BY DEF PlaylistReady, PlaylistLate
<1>. DEFINE new == [session[s] EXCEPT !.ready = ready]
<1>3. new \in SessionRecord /\ new.sid = session[s].sid /\ new.cancel = session[s].cancel /\ new.ready = ready
  BY <1>0 DEF SessionRecord
<1>4. session' = [session EXCEPT ![s] = new]
  BY <1>2 DEF PlaybackInv, PlaybackTyping
<1>. HIDE DEF new
<1>5. /\ session' \in [Sessions -> SessionRecord] /\ session'[s] = new
      /\ \A t \in Sessions \ {s} : session'[t] = session[t]
  BY <1>3, <1>4 DEF PlaybackInv, PlaybackTyping
<1>6. PlaybackTyping'
  BY <1>0, <1>5 DEF PlaybackInv, PlaybackTyping
<1>7. \A t \in Sessions : session'[t].sid = session[t].sid /\ session'[t].cancel = session[t].cancel
  BY <1>3, <1>5
<1>8. InMap' = InMap
  BY <1>0 DEF InMap
<1>9. MadeByOne'
  <2>1. \A p \in Players : Making(p) => player[p].s \in Sessions
    BY InMapIsCurrent DEF Making, PlaybackInv, SessionsMade, MapInv
  <2>. QED BY <1>0, <1>7, <1>8, <2>1 DEF PlaybackInv, MadeByOne, Making
<1>10. SoundInMap'
  <2>1. \A t \in InMap : t \in Sessions /\ Sid(t)' = Sid(t)
    BY <1>7, InMapIsCurrent DEF PlaybackInv, MapInv, Sid
  <2>2. \A t \in InMap : session'[t].ready = "ok" => dirs[Sid(t)] = "playlist" \/ t \in sharedDir
    BY <1>2, <1>3, <1>5, <2>1 DEF PlaybackInv, SoundInMap
  <2>3. \A t \in 1..madeS : t \in procs => t \in InMap \/ stopping[t] = "cancel" \/ t \in early
    BY DEF PlaybackInv, SoundInMap
  <2>. QED BY <1>0, <1>8, <2>1, <2>2, <2>3 DEF SoundInMap
<1>. QED BY <1>0, <1>1, <1>5, <1>6, <1>7, <1>9, <1>10, MapRests DEF PlaybackInv, MapInv, SessionsMade

\* stop(): the cancel function if there is one, then the directory.
LEMMA StopCancelStep ==
  ASSUME PlaybackInv, NEW s \in Sessions, StopCancel(s)
  PROVE  PlaybackInv'
<1>0. /\ UNCHANGED <<sessions, before, madeS, session, dirs, player, sharedDir>>
      /\ stopping[s] = "cancel" /\ stopping' = [stopping EXCEPT ![s] = "remove"]
      /\ procs' = procs \ (IF session[s].cancel THEN {s} ELSE {})
      /\ early' = IF session[s].cancel THEN early ELSE early \cup {s}
      /\ stopping \in [Sessions -> {"no", "cancel", "remove"}]
  BY DEF StopCancel, PlaybackInv, PlaybackTyping
<1>1. PlaybackTyping'
  BY <1>0 DEF PlaybackInv, PlaybackTyping
<1>2. InMap' = InMap /\ InMap \subseteq Sessions /\ 1..madeS \subseteq Sessions
  BY <1>0, InMapIsCurrent DEF InMap, PlaybackInv, MapInv
<1>3. \A t \in Sessions : stopping'[t] = IF t = s THEN "remove" ELSE stopping[t]
  BY <1>0
<1>4. MadeByOne'
  <2>1. \A p \in Players : Making(p) => player[p].s \in Sessions
    BY <1>2 DEF Making, PlaybackInv, SessionsMade
  <2>2. \A p \in Players : Making(p) =>
          player[p].s \in InMap \/ stopping'[player[p].s] = "cancel" \/ player[p].s \in early'
    BY <1>0, <1>3, <2>1 DEF PlaybackInv, MadeByOne
  <2>. QED BY <1>0, <1>2, <2>2 DEF PlaybackInv, MadeByOne, Making
<1>5. SoundInMap'
  BY <1>0, <1>2, <1>3 DEF PlaybackInv, SoundInMap, Sid
<1>. QED BY <1>0, <1>1, <1>3, <1>4, <1>5, MapRests DEF PlaybackInv, MapInv, SessionsMade

\* The directory goes under no session that has it to itself.
LEMMA StopRemoveStep ==
  ASSUME PlaybackInv, NEW s \in Sessions, StopRemove(s)
  PROVE  PlaybackInv'
<1>0. /\ UNCHANGED <<sessions, before, madeS, session, procs, player, sharedDir, early>>
      /\ stopping[s] = "remove" /\ stopping' = [stopping EXCEPT ![s] = "no"]
      /\ dirs' = [dirs EXCEPT ![Sid(s)] = "none"]
      /\ stopping \in [Sessions -> {"no", "cancel", "remove"}]
      /\ dirs \in [Sids -> {"none", "empty", "playlist"}]
  BY DEF StopRemove, PlaybackInv, PlaybackTyping
<1>1. PlaybackTyping'
  BY <1>0 DEF PlaybackInv, PlaybackTyping
<1>2. InMap' = InMap /\ InMap \subseteq 1..madeS /\ 1..madeS \subseteq Sessions
  BY <1>0, InMapIsCurrent DEF InMap, PlaybackInv, MapInv
<1>3. \A t \in Sessions : stopping'[t] = IF t = s THEN "no" ELSE stopping[t]
  BY <1>0
<1>4. s \in 1..madeS /\ s \notin InMap
  <2>1. s <= madeS
    BY <1>0 DEF PlaybackInv, SessionsMade
  <2>. QED BY <1>0, <2>1 DEF PlaybackInv, StoppedOutside, Sessions, PlaybackTyping
<1>5. MadeByOne'
  <2>1. \A p \in Players : Making(p) => player[p].s \in Sessions
    BY <1>2 DEF Making, PlaybackInv, SessionsMade
  <2>2. \A p \in Players : Making(p) =>
          player[p].s \in InMap \/ stopping'[player[p].s] = "cancel" \/ player[p].s \in early
    BY <1>0, <1>3, <2>1 DEF PlaybackInv, MadeByOne
  <2>. QED BY <1>0, <1>2, <2>2 DEF PlaybackInv, MadeByOne, Making
<1>6. SoundInMap'
  <2>1. ASSUME NEW t \in InMap, session[t].ready = "ok"
        PROVE  dirs'[Sid(t)] = "playlist" \/ t \in sharedDir
    <3>1. CASE Sid(t) = Sid(s)
      <4>1. t # s /\ stopping[s] # "no"
        BY <1>0, <1>4
      <4>. QED BY <1>4, <2>1, <3>1, <4>1 DEF PlaybackInv, StoppedOutside
    <3>2. CASE Sid(t) # Sid(s)
      <4>1. Sid(t) \in Sids
        BY <1>2 DEF PlaybackInv, SessionsMade
      <4>. QED BY <1>0, <2>1, <3>2, <4>1 DEF PlaybackInv, SoundInMap
    <3>. QED BY <3>1, <3>2
  <2>2. \A t \in 1..madeS : t \in procs => t \in InMap \/ stopping'[t] = "cancel" \/ t \in early
    BY <1>0, <1>2, <1>3 DEF PlaybackInv, SoundInMap
  <2>. QED BY <1>0, <1>2, <2>1, <2>2 DEF SoundInMap, Sid
<1>. QED BY <1>0, <1>1, <1>3, <1>5, <1>6, MapRests DEF PlaybackInv, MapInv, SessionsMade

\* ffmpeg writes its playlist and exits.
LEMMA FfmpegStep ==
  ASSUME PlaybackInv, NEW s \in Sessions, WritePlaylist(s) \/ TranscodeEnds(s)
  PROVE  PlaybackInv'
<1>0. /\ UNCHANGED <<sessions, before, madeS, session, stopping, player, sharedDir, early>>
      /\ dirs \in [Sids -> {"none", "empty", "playlist"}] /\ procs \subseteq Sessions /\ procs' \subseteq procs
  BY DEF WritePlaylist, TranscodeEnds, PlaybackInv, PlaybackTyping
<1>1. /\ dirs' \in [Sids -> {"none", "empty", "playlist"}]
      /\ \A i \in Sids : dirs[i] = "playlist" => dirs'[i] = "playlist"
  BY <1>0 DEF WritePlaylist, TranscodeEnds
<1>2. PlaybackTyping'
  BY <1>0, <1>1 DEF PlaybackInv, PlaybackTyping
<1>3. InMap' = InMap /\ \A t \in InMap : Sid(t) \in Sids
  BY <1>0, InMapIsCurrent DEF InMap, PlaybackInv, MapInv
<1>4. MadeByOne'
  BY <1>0, <1>3 DEF PlaybackInv, MadeByOne, Making
<1>5. SoundInMap'
  BY <1>0, <1>1, <1>3 DEF PlaybackInv, SoundInMap, Sid
<1>. QED BY <1>0, <1>2, <1>4, <1>5, MapRests DEF PlaybackInv, MapInv, SessionsMade

-----------------------------------------------------------------------------
\* Sessions leave the map to be stopped: EnsureFails, CollectIdle.
LEMMA RetiredMap ==
  ASSUME PlaybackInv, NEW S \in SUBSET InMap, Retired(S), UNCHANGED <<madeS, sharedDir>>,
         \A s \in Sessions : session'[s].sid = session[s].sid
  PROVE  /\ InMap' = InMap \ S /\ MapInv' /\ StoppedOutside'
         /\ sessions' \in [Sids -> 0..MaxMade]
         /\ stopping' \in [Sessions -> {"no", "cancel", "remove"}]
         /\ \A s \in Sessions : stopping'[s] = IF s \in S THEN "cancel" ELSE stopping[s]
<1>1. /\ InMap \subseteq 1..madeS /\ 1..madeS \subseteq Sessions
      /\ \A s \in InMap : Sid(s) \in Sids /\ sessions[Sid(s)] = s
      /\ IsFiniteSet(InMap) /\ Cardinality(InMap) \in Nat
  BY InMapIsCurrent DEF PlaybackInv, MapInv
<1>2. /\ sessions' = [i \in Sids |-> IF sessions[i] \in S THEN Absent ELSE sessions[i]]
      /\ before' = Without(S)
      /\ stopping' = [s \in Sessions |-> IF s \in S THEN "cancel" ELSE stopping[s]]
  BY DEF Retired
<1>3. \A s \in Sessions : stopping'[s] = IF s \in S THEN "cancel" ELSE stopping[s]
  BY <1>2
<1>4. stopping' \in [Sessions -> {"no", "cancel", "remove"}] /\ sessions' \in [Sids -> 0..MaxMade]
  <2>1. \A i \in Sids : sessions[i] \in 0..MaxMade
    BY DEF PlaybackInv, PlaybackTyping
  <2>2. Absent \in 0..MaxMade
    BY PlaybackAssumption DEF Absent
  <2>3. \A s \in Sessions : stopping[s] \in {"no", "cancel", "remove"}
    BY DEF PlaybackInv, PlaybackTyping
  <2>. QED BY <1>2, <2>1, <2>2, <2>3
<1>5. InMap' = InMap \ S
  BY <1>2 DEF InMap
<1>6. \A s \in Sessions : Sid(s)' = Sid(s)
  BY DEF Sid
<1>7. MapInv'
  <2>1. InMapAsMade'
    BY <1>1, <1>2, <1>6 DEF PlaybackInv, MapInv, InMapAsMade
  <2>2. Cardinality(InMap') <= MaxSessions
    <3>1. Cardinality(InMap \ S) <= Cardinality(InMap) /\ IsFiniteSet(InMap \ S)
      BY <1>1, FS_Subset, InMap \ S \subseteq InMap
    <3>2. Cardinality(InMap \ S) \in Nat
      BY <3>1, FS_CardinalityType
    <3>. QED BY <1>1, <1>5, <3>1, <3>2, PlaybackAssumption DEF PlaybackInv, MapInv
  <2>3. Ordered(before', InMap')
    <3>1. PICK x : x \notin InMap
      BY <1>1, madeS + 1 \notin 1..madeS DEF PlaybackInv, PlaybackTyping
    <3>2. Ordered(Without(S), InMap \ S)
      BY <3>1, OrderKept DEF Without, PlaybackInv, MapInv
    <3>. QED BY <1>2, <1>5, <3>2
  <2>. QED BY <2>1, <2>2, <2>3 DEF MapInv
<1>8. StoppedOutside'
  <2>1. \A s \in InMap' : stopping'[s] = "no"
    BY <1>1, <1>3, <1>5 DEF PlaybackInv, StoppedOutside
  <2>2. ASSUME NEW s \in InMap' \ sharedDir, NEW t \in 1..madeS, t # s, Sid(t) = Sid(s)
        PROVE  stopping'[t] = "no"
    <3>1. t \notin S
      BY <1>1, <1>5, <2>2
    <3>2. stopping[t] = "no"
      BY <1>5, <2>2 DEF PlaybackInv, StoppedOutside
    <3>. QED BY <1>1, <1>3, <3>1, <3>2
  <2>3. \A s \in InMap' \ sharedDir', t \in 1..madeS' : t # s /\ Sid(t)' = Sid(s)' => stopping'[t] = "no"
    <3>. SUFFICES ASSUME NEW s \in InMap' \ sharedDir, NEW t \in 1..madeS, t # s, Sid(t)' = Sid(s)'
                  PROVE  stopping'[t] = "no"
      OBVIOUS
    <3>1. s \in Sessions /\ t \in Sessions
      BY <1>1, <1>5
    <3>2. Sid(t) = Sid(s)
      BY <1>6, <3>1
    <3>. QED BY <2>2, <3>2
  <2>. QED BY <2>1, <2>3 DEF StoppedOutside
<1>. QED BY <1>3, <1>4, <1>5, <1>7, <1>8

\* A session that cannot be started is dropped from the map; who made it has answered.
LEMMA FailStep ==
  ASSUME PlaybackInv, NEW p \in Players, EnsureFails(p)
  PROVE  PlaybackInv'
<1>0. /\ UNCHANGED <<madeS, procs, dirs, sharedDir, early>> /\ Making(p)
      /\ player' = [player EXCEPT ![p] = [at |-> "idle", s |-> Absent]]
  BY DEF EnsureFails, Making
<1>1. PICK s \in Sessions : s = player[p].s /\ s \in 1..madeS
  BY <1>0, InMapIsCurrent DEF Making, PlaybackInv, MapInv, SessionsMade
<1>. DEFINE cancel == player[p].at = "start"
            new == [session[s] EXCEPT !.ready = "err", !.cancel = cancel]
<1>2. cancel \in BOOLEAN /\ session[s] \in SessionRecord
  BY DEF PlaybackInv, PlaybackTyping
<1>3. session' = [session EXCEPT ![s] = new]
  BY <1>1 DEF EnsureFails, PlaybackInv, PlaybackTyping
<1>. HIDE DEF cancel
<1>4. new \in SessionRecord /\ new.sid = session[s].sid /\ new.ready = "err"
  BY <1>2 DEF SessionRecord
<1>. HIDE DEF new
<1>5. /\ session' \in [Sessions -> SessionRecord] /\ session'[s] = new
      /\ \A t \in Sessions \ {s} : session'[t] = session[t]
  BY <1>3, <1>4 DEF PlaybackInv, PlaybackTyping
<1>6. \A t \in Sessions : session'[t].sid = session[t].sid
  BY <1>4, <1>5
<1>7. PICK S \in SUBSET InMap : Retired(S)
  <2>1. Sid(s) \in Sids
    BY <1>1 DEF PlaybackInv, SessionsMade
  <2>2. {sessions[Sid(s)]} \ {Absent} \subseteq InMap
    BY <2>1 DEF InMap
  <2>. QED BY <1>1, <2>2 DEF EnsureFails
<1>8. /\ InMap' = InMap \ S /\ MapInv' /\ StoppedOutside'
      /\ sessions' \in [Sids -> 0..MaxMade]
      /\ stopping' \in [Sessions -> {"no", "cancel", "remove"}]
      /\ \A t \in Sessions : stopping'[t] = IF t \in S THEN "cancel" ELSE stopping[t]
  BY <1>0, <1>6, <1>7, RetiredMap
<1>9. InMap \subseteq 1..madeS /\ 1..madeS \subseteq Sessions
  BY InMapIsCurrent DEF PlaybackInv, MapInv
<1>. DEFINE away == [at |-> "idle", s |-> Absent]
<1>10. /\ player' \in [Players -> PlayerRecord] /\ player'[p].at = "idle"
       /\ \A q \in Players \ {p} : player'[q] = player[q]
  <2>1. away \in PlayerRecord /\ away.at = "idle"
    BY PlaybackAssumption DEF PlayerRecord, Absent
  <2>. HIDE DEF away
  <2>2. player' = [player EXCEPT ![p] = away]
    BY <1>0 DEF away
  <2>. QED BY <2>1, <2>2, RequestMoves DEF PlaybackInv
<1>11. PlaybackTyping'
  BY <1>0, <1>5, <1>8, <1>10 DEF PlaybackInv, PlaybackTyping
<1>12. SessionsMade'
  <2>1. \A t \in 1..madeS : Sid(t)' \in Sids
    BY <1>6, <1>9 DEF PlaybackInv, SessionsMade, Sid
  <2>2. \A t \in Sessions : ~(t <= madeS) => session'[t] = session[t] /\ stopping'[t] = stopping[t]
    BY <1>1, <1>5, <1>8, <1>9
  <2>3. \A q \in Players : player'[q].at # "idle" => player'[q].s \in 1..madeS
    BY <1>10 DEF PlaybackInv, SessionsMade
  <2>. QED BY <1>0, <2>1, <2>2, <2>3 DEF PlaybackInv, SessionsMade
<1>13. MadeByOne'
  <2>1. \A q \in Players : Making(q)' => q # p /\ Making(q) /\ player'[q] = player[q]
    BY <1>10 DEF Making
  <2>2. \A q \in Players : Making(q)' => player[q].s # s /\ player[q].s \in Sessions
    BY <1>0, <1>1, <1>9, <2>1 DEF PlaybackInv, MadeByOne, SessionsMade, Making
  <2>3. \A q \in Players : Making(q)' =>
          player[q].s \in InMap' \/ stopping'[player[q].s] = "cancel" \/ player[q].s \in early
    BY <1>8, <2>1, <2>2 DEF PlaybackInv, MadeByOne
  <2>. QED BY <1>0, <1>5, <2>1, <2>2, <2>3 DEF PlaybackInv, MadeByOne
<1>14. SoundInMap'
  <2>1. \A t \in InMap' : session'[t].ready = "ok" => dirs[Sid(t)] = "playlist" \/ t \in sharedDir
    BY <1>4, <1>5, <1>8, <1>9 DEF PlaybackInv, SoundInMap
  <2>2. \A t \in 1..madeS : t \in procs => t \in InMap' \/ stopping'[t] = "cancel" \/ t \in early
    BY <1>8, <1>9 DEF PlaybackInv, SoundInMap
  <2>3. \A t \in InMap' : Sid(t)' = Sid(t)
    BY <1>6, <1>8, <1>9 DEF Sid
  <2>. QED BY <1>0, <2>1, <2>2, <2>3 DEF SoundInMap
<1>. QED BY <1>8, <1>11, <1>12, <1>13, <1>14 DEF PlaybackInv

\* Idle sessions are dropped likewise.
LEMMA CollectStep ==
  ASSUME PlaybackInv, CollectIdle
  PROVE  PlaybackInv'
<1>0. UNCHANGED <<madeS, session, procs, dirs, player, sharedDir, early>>
  BY DEF CollectIdle
<1>1. PICK S \in SUBSET InMap : Retired(S)
  BY DEF CollectIdle
<1>2. /\ InMap' = InMap \ S /\ MapInv' /\ StoppedOutside'
      /\ sessions' \in [Sids -> 0..MaxMade]
      /\ stopping' \in [Sessions -> {"no", "cancel", "remove"}]
      /\ \A t \in Sessions : stopping'[t] = IF t \in S THEN "cancel" ELSE stopping[t]
  BY <1>0, <1>1, RetiredMap
<1>3. InMap \subseteq 1..madeS /\ 1..madeS \subseteq Sessions
  BY InMapIsCurrent DEF PlaybackInv, MapInv
<1>4. PlaybackTyping'
  BY <1>0, <1>2 DEF PlaybackInv, PlaybackTyping
<1>5. SessionsMade'
  <2>1. \A t \in Sessions : ~(t <= madeS) => stopping'[t] = stopping[t]
    <3>. SUFFICES ASSUME NEW t \in Sessions, ~(t <= madeS) PROVE t \notin S
      BY <1>2
    <3>1. t \notin 1..madeS
      OBVIOUS
    <3>. QED BY <1>3, <3>1
  <2>. QED BY <1>0, <2>1 DEF PlaybackInv, SessionsMade, Sid
<1>6. MadeByOne'
  <2>1. \A q \in Players : Making(q) => player[q].s \in Sessions
    BY <1>3 DEF PlaybackInv, SessionsMade, Making
  <2>2. \A q \in Players : Making(q) =>
          player[q].s \in InMap' \/ stopping'[player[q].s] = "cancel" \/ player[q].s \in early
    BY <1>2, <2>1 DEF PlaybackInv, MadeByOne
  <2>. QED BY <1>0, <2>2 DEF PlaybackInv, MadeByOne, Making
<1>7. SoundInMap'
  BY <1>0, <1>2, <1>3 DEF PlaybackInv, SoundInMap, Sid
<1>. QED BY <1>2, <1>4, <1>5, <1>6, <1>7 DEF PlaybackInv

\* A new session takes its place in the map, and the least recently used one goes at capacity.
LEMMA MissStep ==
  ASSUME PlaybackInv, NEW p \in Players, NEW i \in Sids, EnsureMiss(p, i)
  PROVE  PlaybackInv'
<1>a. PICK new : new = madeS + 1
  OBVIOUS
<1>0. /\ player[p].at = "idle" /\ sessions[i] = Absent /\ madeS \in 0..MaxMade
      /\ UNCHANGED <<procs, dirs, early>>
      /\ new \in Sessions /\ new \notin 1..madeS /\ new # Absent /\ ~(new <= madeS)
      /\ \A s \in Sessions : s <= new <=> s <= madeS \/ s = new
      /\ madeS' = new
  BY <1>a, PlaybackAssumption DEF EnsureMiss, PlaybackInv, PlaybackTyping, Sessions, Absent
<1>1. PICK out \in Evictions :
        /\ sessions' = [j \in Sids |-> IF j = i THEN new ELSE IF sessions[j] \in out THEN Absent ELSE sessions[j]]
        /\ before' = Without(out) \cup ((InMap \ out) \X {new})
        /\ stopping' = [s \in Sessions |-> IF s \in out THEN "cancel" ELSE stopping[s]]
        /\ session' = [session EXCEPT ![new].sid = i]
        /\ player' = [player EXCEPT ![p] = [at |-> "mkdir", s |-> new]]
        /\ sharedDir' = IF \E s \in 1..madeS : Sid(s) = i /\ (s \in procs \/ stopping'[s] # "no" \/ ~session[s].cancel)
                     THEN sharedDir \cup {new} ELSE sharedDir
  BY <1>a DEF EnsureMiss
<1>2. /\ InMap \subseteq 1..madeS /\ 1..madeS \subseteq Sessions /\ InMap \subseteq Sessions
      /\ \A s \in InMap : Sid(s) \in Sids /\ sessions[Sid(s)] = s
      /\ \A j \in Sids : sessions[j] # Absent => sessions[j] \in InMap
      /\ IsFiniteSet(InMap) /\ Cardinality(InMap) \in Nat
  BY InMapIsCurrent DEF PlaybackInv, MapInv
<1>3. out \subseteq InMap /\ Cardinality(InMap \ out) + 1 <= MaxSessions /\ Cardinality(InMap \ out) \in Nat
  <2>1. CASE Cardinality(InMap) >= MaxSessions
    <3>1. PICK s \in InMap : out = {s}
      BY <1>1, <2>1 DEF Evictions, Oldest
    <3>2. Cardinality(InMap \ {s}) = Cardinality(InMap) - 1 /\ IsFiniteSet(InMap \ {s})
      BY <1>2, FS_RemoveElement
    <3>3. Cardinality(InMap \ {s}) \in Nat
      BY <3>2, FS_CardinalityType
    <3>. QED BY <1>2, <3>1, <3>2, <3>3, PlaybackAssumption DEF PlaybackInv, MapInv
  <2>2. CASE ~(Cardinality(InMap) >= MaxSessions)
    <3>1. out = {} /\ InMap \ {} = InMap
      BY <1>1, <2>2 DEF Evictions
    <3>. QED BY <1>2, <2>2, <3>1, PlaybackAssumption
  <2>. QED BY <2>1, <2>2
<1>4. InMap' = (InMap \ out) \cup {new}
  <2>1. new \in InMap'
    BY <1>0, <1>1 DEF InMap
  <2>2. \A s \in InMap \ out : Sid(s) # i /\ s # Absent
    BY <1>0, <1>2 DEF InMap
  <2>3. InMap \ out \subseteq InMap'
    BY <1>1, <1>2, <2>2 DEF InMap
  <2>4. InMap' \subseteq (InMap \ out) \cup {new}
    BY <1>1 DEF InMap
  <2>. QED BY <2>1, <2>3, <2>4
<1>. DEFINE rec == [session[new] EXCEPT !.sid = i]
<1>5. /\ rec \in SessionRecord /\ rec.sid = i /\ rec.ready = "no" /\ ~rec.cancel
  <2>1. session[new] \in SessionRecord /\ session[new].ready = "no" /\ ~session[new].cancel
    BY <1>0 DEF PlaybackInv, PlaybackTyping, SessionsMade
  <2>. QED BY <2>1 DEF SessionRecord
<1>6. session' = [session EXCEPT ![new] = rec]
  BY <1>1 DEF PlaybackInv, PlaybackTyping
<1>. HIDE DEF rec
<1>7. /\ session' \in [Sessions -> SessionRecord] /\ session'[new] = rec
      /\ \A s \in Sessions \ {new} : session'[s] = session[s]
  BY <1>0, <1>5, <1>6 DEF PlaybackInv, PlaybackTyping
<1>8. Sid(new)' = i /\ \A s \in 1..madeS : s # new /\ Sid(s)' = Sid(s)
  BY <1>0, <1>2, <1>5, <1>7 DEF Sid
<1>9. \A s \in Sessions : stopping'[s] = IF s \in out THEN "cancel" ELSE stopping[s]
  BY <1>1
<1>10. stopping'[new] = "no" /\ new \notin out
  BY <1>0, <1>2, <1>3, <1>9 DEF PlaybackInv, SessionsMade
<1>. DEFINE asks == [at |-> "mkdir", s |-> new]
<1>11. /\ player' \in [Players -> PlayerRecord] /\ player'[p].at = "mkdir" /\ player'[p].s = new
       /\ \A q \in Players \ {p} : player'[q] = player[q]
  <2>1. new \in 0..MaxMade
    BY <1>0 DEF Sessions
  <2>2. asks \in PlayerRecord /\ asks.at = "mkdir" /\ asks.s = new
    BY <2>1 DEF PlayerRecord
  <2>3. player' = [player EXCEPT ![p] = asks]
    BY <1>1
  <2>. HIDE DEF asks
  <2>. QED BY <2>2, <2>3, RequestMoves DEF PlaybackInv
<1>12. PlaybackTyping'
  <2>1. sessions' \in [Sids -> 0..MaxMade]
    <3>1. \A j \in Sids : sessions[j] \in 0..MaxMade
      BY DEF PlaybackInv, PlaybackTyping
    <3>2. new \in 0..MaxMade /\ Absent \in 0..MaxMade
      BY <1>0, PlaybackAssumption DEF Sessions, Absent
    <3>. QED BY <1>1, <3>1, <3>2
  <2>2. stopping' \in [Sessions -> {"no", "cancel", "remove"}]
    <3>1. \A s \in Sessions : stopping[s] \in {"no", "cancel", "remove"}
      BY DEF PlaybackInv, PlaybackTyping
    <3>. QED BY <1>1, <3>1
  <2>3. madeS' \in 0..MaxMade
    BY <1>0, PlaybackAssumption DEF Sessions
  <2>. QED BY <1>0, <1>7, <1>11, <2>1, <2>2, <2>3 DEF PlaybackInv, PlaybackTyping
<1>13. 1..madeS' = (1..madeS) \cup {new}
  BY <1>a, <1>0
<1>14. MapInv'
  <2>1. InMapAsMade'
    <3>. SUFFICES ASSUME NEW j \in Sids, sessions'[j] # Absent
                  PROVE  sessions'[j] \in 1..madeS' /\ session'[sessions'[j]].sid = j
      BY DEF InMapAsMade, Sid
    <3>1. CASE j = i
      BY <1>1, <1>5, <1>7, <1>13, <3>1
    <3>2. CASE j # i
      <4>1. sessions'[j] = sessions[j] /\ sessions[j] \in 1..madeS /\ Sid(sessions[j]) = j
        BY <1>1, <3>2 DEF PlaybackInv, MapInv, InMapAsMade
      <4>2. session'[sessions[j]].sid = j
        BY <1>8, <4>1 DEF Sid
      <4>. QED BY <1>13, <4>1, <4>2
    <3>. QED BY <3>1, <3>2
  <2>2. Cardinality(InMap') <= MaxSessions
    <3>1. new \notin InMap \ out /\ IsFiniteSet(InMap \ out)
      BY <1>0, <1>2, FS_Subset, InMap \ out \subseteq InMap
    <3>2. Cardinality((InMap \ out) \cup {new}) = Cardinality(InMap \ out) + 1
      BY <3>1, FS_AddElement
    <3>. QED BY <1>3, <1>4, <3>2
  <2>3. Ordered(before', InMap')
    <3>1. new \notin InMap \ out /\ Ordered(before, InMap)
      BY <1>0, <1>2 DEF PlaybackInv, MapInv
    <3>2. Ordered(Without(out) \cup ((InMap \ out) \X {new}), (InMap \ out) \cup {new})
      BY <3>1, OrderKept DEF Without
    <3>. QED BY <1>1, <1>4, <3>2
  <2>. QED BY <2>1, <2>2, <2>3 DEF MapInv
<1>15. SessionsMade'
  <2>1. \A s \in 1..madeS' : Sid(s)' \in Sids
    BY <1>8, <1>13 DEF PlaybackInv, SessionsMade
  <2>2. \A s \in Sessions : ~(s <= madeS') => s # new /\ ~(s <= madeS) /\ s \notin InMap
    <3>. SUFFICES ASSUME NEW s \in Sessions, ~(s <= madeS') PROVE s # new /\ ~(s <= madeS) /\ s \notin InMap
      OBVIOUS
    <3>1. s # new /\ ~(s <= madeS)
      BY <1>0
    <3>2. s \notin 1..madeS
      BY <3>1
    <3>. QED BY <1>2, <3>1, <3>2
  <2>3. \A s \in Sessions : ~(s <= madeS') => session'[s] = session[s] /\ stopping'[s] = stopping[s]
    BY <1>3, <1>7, <1>9, <2>2
  <2>4. \A q \in Players : player'[q].at # "idle" => player'[q].s \in 1..madeS'
    BY <1>11, <1>13 DEF PlaybackInv, SessionsMade
  <2>. QED BY <2>1, <2>2, <2>3, <2>4 DEF PlaybackInv, SessionsMade
<1>16. MadeByOne'
  <2>1. \A q \in Players \ {p} : Making(q)' => Making(q) /\ player'[q] = player[q] /\ player[q].s \in 1..madeS /\ player[q].s # new
    BY <1>0, <1>11 DEF Making, PlaybackInv, SessionsMade
  <2>2. \A q \in Players \ {p} : Making(q)' =>
          /\ ~session'[player'[q].s].cancel
          /\ player'[q].s \in InMap' \/ stopping'[player'[q].s] = "cancel" \/ player'[q].s \in early'
          /\ \A r \in Players : Making(r)' /\ player'[r].s = player'[q].s => r = q
    <3>. SUFFICES ASSUME NEW q \in Players \ {p}, Making(q)'
                  PROVE  /\ ~session'[player'[q].s].cancel
                         /\ player'[q].s \in InMap' \/ stopping'[player'[q].s] = "cancel" \/ player'[q].s \in early'
                         /\ \A r \in Players : Making(r)' /\ player'[r].s = player'[q].s => r = q
      OBVIOUS
    <3>1. player[q].s \in Sessions /\ player[q].s # new /\ player'[q] = player[q] /\ Making(q)
      BY <1>2, <2>1
    <3>2. ~session'[player[q].s].cancel
      BY <1>7, <3>1 DEF PlaybackInv, MadeByOne
    <3>3. player[q].s \in InMap' \/ stopping'[player[q].s] = "cancel" \/ player[q].s \in early'
      BY <1>0, <1>4, <1>9, <3>1 DEF PlaybackInv, MadeByOne
    <3>4. \A r \in Players : Making(r)' /\ player'[r].s = player'[q].s => r = q
      BY <1>11, <2>1, <3>1 DEF PlaybackInv, MadeByOne
    <3>. QED BY <3>1, <3>2, <3>3, <3>4
  <2>3. /\ ~session'[new].cancel /\ new \in InMap'
        /\ \A r \in Players : Making(r)' /\ player'[r].s = new => r = p
    BY <1>4, <1>5, <1>7, <2>1
  <2>. QED BY <1>11, <2>2, <2>3 DEF MadeByOne
<1>17. StoppedOutside'
  <2>1. \A s \in InMap' : stopping'[s] = "no"
    BY <1>2, <1>4, <1>9, <1>10 DEF PlaybackInv, StoppedOutside
  <2>2. ASSUME NEW s \in InMap' \ sharedDir', NEW t \in 1..madeS', t # s, Sid(t)' = Sid(s)'
        PROVE  stopping'[t] = "no"
    <3>1. CASE t = new
      BY <1>10, <3>1
    <3>2. CASE s = new /\ t # new
      <4>1. t \in 1..madeS /\ Sid(t) = i
        BY <1>8, <1>13, <2>2, <3>2
      <4>2. new \notin sharedDir'
        BY <2>2, <3>2
      <4>. QED BY <1>1, <4>1, <4>2
    <3>3. CASE s # new /\ t # new
      <4>1. /\ t \in 1..madeS /\ s \in InMap \ out /\ s \notin sharedDir
            /\ s \in 1..madeS /\ Sid(t) = Sid(s)
        BY <1>1, <1>2, <1>4, <1>8, <1>13, <2>2, <3>3
      <4>2. t \notin out
        BY <1>2, <1>3, <2>2, <4>1
      <4>. QED BY <1>2, <1>9, <2>2, <4>1, <4>2 DEF PlaybackInv, StoppedOutside
    <3>. QED BY <3>1, <3>2, <3>3
  <2>. QED BY <2>1, <2>2 DEF StoppedOutside, Sid
<1>18. SoundInMap'
  <2>1. ASSUME NEW s \in InMap', session'[s].ready = "ok"
        PROVE  dirs'[Sid(s)'] = "playlist" \/ s \in sharedDir'
    <3>1. s # new
      BY <1>5, <1>7, <2>1
    <3>2. s \in InMap /\ s \in 1..madeS /\ session'[s] = session[s] /\ Sid(s)' = Sid(s)
      BY <1>2, <1>4, <1>7, <1>8, <3>1
    <3>. QED BY <1>0, <1>1, <2>1, <3>2 DEF PlaybackInv, SoundInMap
  <2>2. \A s \in 1..madeS' : s \in procs' => s \in InMap' \/ stopping'[s] = "cancel" \/ s \in early'
    BY <1>0, <1>2, <1>4, <1>9, <1>13 DEF PlaybackInv, SoundInMap
  <2>. QED BY <2>1, <2>2 DEF SoundInMap, Sid
<1>. QED BY <1>12, <1>14, <1>15, <1>16, <1>17, <1>18 DEF PlaybackInv

\* The invariant is inductive.
LEMMA PlaybackStep == PlaybackInv /\ [PlaybackNext]_playVars => PlaybackInv'
<1>. SUFFICES ASSUME PlaybackInv, [PlaybackNext]_playVars PROVE PlaybackInv'
  OBVIOUS
<1>1. CASE UNCHANGED playVars
  <2>. USE <1>1 DEF playVars
  <2>1. PlaybackTyping' /\ SessionsMade'
    BY DEF PlaybackInv, PlaybackTyping, SessionsMade, Sid
  <2>2. InMap' = InMap
    BY DEF InMap
  <2>3. MapInv'
    BY <2>2 DEF PlaybackInv, MapInv, InMapAsMade, Sid
  <2>4. MadeByOne' /\ StoppedOutside' /\ SoundInMap'
    BY <2>2 DEF PlaybackInv, MadeByOne, Making, StoppedOutside, SoundInMap, Sid
  <2>. QED BY <2>1, <2>3, <2>4 DEF PlaybackInv
<1>2. ASSUME NEW p \in Players, EnsureStep(p) \/ \E i \in Sids : EnsureHit(p, i) \/ EnsureMiss(p, i)
      PROVE  PlaybackInv'
  BY <1>2, WorkStep, FailStep, TouchStep, MissStep DEF EnsureStep
<1>3. ASSUME NEW s \in Sessions,
             PlaylistReady(s) \/ PlaylistLate(s) \/ StopCancel(s) \/ StopRemove(s) \/ WritePlaylist(s) \/ TranscodeEnds(s)
      PROVE  PlaybackInv'
  BY <1>3, PollStep, StopCancelStep, StopRemoveStep, FfmpegStep
<1>. QED BY <1>1, <1>2, <1>3, TouchStep, CollectStep DEF PlaybackNext

-----------------------------------------------------------------------------
(***************************************************************************)
(* The RTSP server's publications.                                         *)
(***************************************************************************)
\* The records of a publication and of a client.
PubRecord    == [at : {"none", "made", "start", "running", "late", "ended", "closed"},
                 src : 0..MaxLives, srv : 0..MaxServers]
ClientRecord == [at : {"idle", "make", "insert"}, pub : 0..MaxPubs]

RepublishTyping ==
  /\ streams \in 0..MaxLives /\ live \in 0..streams
  /\ server \in 1..MaxServers /\ madeP \in 0..MaxPubs
  /\ pubs \in [1..MaxServers -> 0..MaxPubs]
  /\ pub \in [Pubs -> PubRecord] /\ client \in [Clients -> ClientRecord]

\* A publication is of a stream and a server there were, and nothing is published before it is made.
PubsMade ==
  \A p \in Pubs : IF p <= madeP THEN pub[p].src \in 1..streams /\ pub[p].srv \in 1..server
                                ELSE pub[p].at = "none"

\* A pump's publication is the one in its server's map, and that one was inserted.
PubsInMap ==
  /\ \A p \in Pubs : pub[p].at \in {"start", "running", "late", "ended"} => pubs[pub[p].srv] = p
  /\ \A g \in 1..MaxServers : pubs[g] # NoPub => pubs[g] <= madeP /\ pub[pubs[g]].at # "made"

\* A publication that was made is inserted by the one client who made it, at the current server.
Inserts(c, p) == client[c].at = "insert" /\ client[c].pub = p

PubsAnswered ==
  /\ \A c \in Clients : client[c].pub <= madeP
  /\ \A c \in Clients : client[c].at = "make" => client[c].pub = NoPub
  /\ \A c \in Clients : client[c].at = "idle" /\ client[c].pub # NoPub => pub[client[c].pub].at # "made"
  /\ \A c \in Clients : client[c].at = "insert" =>
       client[c].pub # NoPub /\ pub[client[c].pub].at = "made" /\ pub[client[c].pub].srv = server
  /\ \A c, d \in Clients : client[c].at = "insert" /\ Inserts(d, client[c].pub) => d = c
  /\ \A p \in Pubs : pub[p].at = "made" => \E c \in Clients : Inserts(c, p)

RepublishInv == RepublishTyping /\ PubsMade /\ PubsInMap /\ PubsAnswered

\* The invariant says what is checked.
LEMMA RepublishInvSays == RepublishInv => RepublishTypeOK /\ RepublishSound
<1>. SUFFICES ASSUME RepublishInv PROVE RepublishTypeOK /\ RepublishSound
  OBVIOUS
<1>. USE RepublishAssumption DEF RepublishInv
<1>1. RepublishTypeOK
  <2>1. \A g \in 1..MaxServers : pubs[g] \in 0..madeP
    <3>. SUFFICES ASSUME NEW g \in 1..MaxServers PROVE pubs[g] \in 0..madeP
      OBVIOUS
    <3>1. pubs[g] \in 0..MaxPubs /\ madeP \in Nat
      BY DEF RepublishTyping
    <3>2. pubs[g] # 0 => pubs[g] <= madeP
      BY DEF PubsInMap, NoPub
    <3>. QED BY <3>1, <3>2
  <2>2. \A p \in 1..madeP : p \in Pubs /\ p <= madeP
    BY DEF RepublishTyping, Pubs
  <2>. QED BY <2>1, <2>2 DEF PubsMade, RepublishTypeOK
<1>2. RepublishSound
  <2>1. ASSUME NEW c \in Clients, NEW p, Inserts(c, p)
        PROVE  client[c] = [at |-> "insert", pub |-> p]
    <3>1. client[c] \in ClientRecord
      BY DEF RepublishTyping
    <3>. QED BY <2>1, <3>1 DEF Inserts, ClientRecord
  <2>2. \A p \in 1..madeP : p \in Pubs
    BY DEF RepublishTyping, Pubs
  <2>3. \A p \in Pubs : pub[p].at = "made" => \E c \in Clients : client[c] = [at |-> "insert", pub |-> p]
    BY <2>1 DEF PubsAnswered
  <2>4. \A c \in Clients : client[c].at = "idle" /\ client[c].pub # NoPub => pub[client[c].pub].at # "made"
    BY DEF PubsAnswered
  <2>. QED BY <2>2, <2>3, <2>4 DEF RepublishSound, PubsInMap
<1>. QED BY <1>1, <1>2

\* Nothing is published at first.
LEMMA RepublishStart == RepublishInit => RepublishInv
  BY RepublishAssumption DEF RepublishInit, RepublishInv, RepublishTyping, PubsMade, PubsInMap, PubsAnswered, Inserts,
     PubRecord, ClientRecord, Pubs, NoPub

\* The camera's streams come and go; publications keep theirs.
LEMMA StreamStep ==
  ASSUME RepublishInv, StreamStarts \/ StreamEnds
  PROVE  RepublishInv'
<1>. USE RepublishAssumption DEF RepublishInv
<1>1. /\ streams' \in 0..MaxLives /\ live' \in 0..streams' /\ streams <= streams'
      /\ UNCHANGED <<server, pubs, pub, madeP, client>>
  BY DEF StreamStarts, StreamEnds, RepublishTyping
<1>2. RepublishTyping'
  BY <1>1 DEF RepublishTyping
<1>3. streams \in Nat /\ streams' \in Nat
  BY <1>1 DEF RepublishTyping
<1>4. PubsMade'
  BY <1>1, <1>3 DEF PubsMade
<1>. QED BY <1>1, <1>2, <1>4 DEF PubsInMap, PubsAnswered, Inserts

\* A server is replaced when nobody waits for it, so that nothing made is left behind.
LEMMA ReplaceStep ==
  ASSUME RepublishInv, ReplaceServer
  PROVE  RepublishInv'
<1>. USE RepublishAssumption DEF RepublishInv
<1>1. /\ server' \in 1..MaxServers /\ server' = server + 1 /\ server \in Nat /\ madeP \in Nat
      /\ client' = [c \in Clients |-> [at |-> "idle", pub |-> NoPub]]
      /\ UNCHANGED <<live, streams, pubs, pub, madeP>>
      /\ \A c \in Clients : client[c].at = "idle"
  BY DEF ReplaceServer, RepublishTyping
<1>2. \A c \in Clients : client'[c].at = "idle" /\ client'[c].pub = NoPub
  BY <1>1
<1>3. RepublishTyping'
  BY <1>1 DEF RepublishTyping, ClientRecord, NoPub
<1>4. PubsMade'
  BY <1>1 DEF PubsMade
<1>5. PubsInMap'
  BY <1>1 DEF PubsInMap
<1>6. \A p \in Pubs : pub[p].at # "made"
  BY <1>1 DEF PubsAnswered, Inserts
<1>7. PubsAnswered'
  BY <1>1, <1>2, <1>6 DEF PubsAnswered, Inserts, NoPub
<1>. QED BY <1>3, <1>4, <1>5, <1>7

\* A client is answered, or waits for a publication of its own.
LEMMA AskStep ==
  ASSUME RepublishInv, NEW c \in Clients, OnDescribe(c) \/ NotFound(c)
  PROVE  RepublishInv'
<1>. USE RepublishAssumption DEF RepublishInv
<1>1. PICK rec \in ClientRecord :
        /\ client' = [client EXCEPT ![c] = rec] /\ rec.pub <= madeP /\ rec.at \in {"idle", "make"}
        /\ rec.at = "make" => rec.pub = NoPub
        /\ rec.at = "idle" /\ rec.pub # NoPub => pub[rec.pub].at # "made"
  <2>0. client[c] \in ClientRecord /\ madeP \in Nat /\ server \in 1..MaxServers /\ client \in [Clients -> ClientRecord]
    BY DEF RepublishTyping
  <2>1. CASE OnDescribe(c) /\ pubs[server] # NoPub
    <3>. DEFINE rec == [at |-> "idle", pub |-> pubs[server]]
    <3>1. rec \in ClientRecord
      BY <2>0 DEF ClientRecord, RepublishTyping
    <3>. QED BY <2>0, <2>1, <3>1 DEF OnDescribe, PubsInMap
  <2>2. CASE OnDescribe(c) /\ pubs[server] = NoPub
    <3>. DEFINE rec == [at |-> "make", pub |-> NoPub]
    <3>1. rec \in ClientRecord
      BY DEF ClientRecord, NoPub
    <3>2. /\ client' = [client EXCEPT ![c] = rec] /\ rec.at = "make" /\ rec.pub = NoPub
          /\ NoPub <= madeP
      BY <2>0, <2>2 DEF OnDescribe, NoPub
    <3>. HIDE DEF rec
    <3>. QED BY <3>1, <3>2
  <2>3. CASE NotFound(c)
    <3>. DEFINE rec == [client[c] EXCEPT !.at = "idle"]
    <3>1. rec \in ClientRecord /\ rec.at = "idle" /\ rec.pub = NoPub
      BY <2>0, <2>3 DEF ClientRecord, NotFound, PubsAnswered
    <3>2. client' = [client EXCEPT ![c] = rec]
      BY <2>0, <2>3 DEF NotFound
    <3>3. NoPub <= madeP
      BY <2>0 DEF NoPub
    <3>. HIDE DEF rec
    <3>. QED BY <3>1, <3>2, <3>3
  <2>. QED BY <2>1, <2>2, <2>3
<1>2. UNCHANGED <<live, streams, server, pubs, pub, madeP>> /\ client[c].at # "insert"
  BY DEF OnDescribe, NotFound
<1>3. /\ client' \in [Clients -> ClientRecord] /\ client'[c] = rec
      /\ \A d \in Clients \ {c} : client'[d] = client[d]
  BY <1>1 DEF RepublishTyping
<1>4. RepublishTyping' /\ PubsMade' /\ PubsInMap'
  BY <1>2, <1>3 DEF RepublishTyping, PubsMade, PubsInMap
<1>5. PubsAnswered'
  <2>1. \A d \in Clients, p \in Pubs : Inserts(d, p)' <=> Inserts(d, p)
    BY <1>1, <1>2, <1>3 DEF Inserts
  <2>2. \A d \in Clients : client'[d].at = "insert" => d # c /\ client'[d] = client[d]
    BY <1>1, <1>3
  <2>3. /\ \A d \in Clients : client'[d].pub <= madeP'
        /\ \A d \in Clients : client'[d].at = "make" => client'[d].pub = NoPub
        /\ \A d \in Clients : client'[d].at = "idle" /\ client'[d].pub # NoPub => pub'[client'[d].pub].at # "made"
    BY <1>1, <1>2, <1>3 DEF PubsAnswered
  <2>4. \A d \in Clients : client'[d].at = "insert" =>
       client'[d].pub # NoPub /\ pub'[client'[d].pub].at = "made" /\ pub'[client'[d].pub].srv = server'
    BY <2>2, <1>2 DEF PubsAnswered
  <2>5. \A d, e \in Clients : client'[d].at = "insert" /\ Inserts(e, client[d].pub)' => e = d
    BY <2>2 DEF PubsAnswered, Inserts
  <2>6. \A p \in Pubs : pub'[p].at = "made" => \E d \in Clients : Inserts(d, p)'
    BY <1>2, <2>1 DEF PubsAnswered
  <2>. QED BY <2>2, <2>3, <2>4, <2>5, <2>6 DEF PubsAnswered, Inserts
<1>. QED BY <1>4, <1>5

\* One makes a publication, of the stream there is.
LEMMA MakeStep ==
  ASSUME RepublishInv, NEW c \in Clients, MakePub(c)
  PROVE  RepublishInv'
<1>. USE RepublishAssumption DEF RepublishInv
<1>1. PICK p \in Pubs : p = madeP + 1
  BY DEF MakePub, RepublishTyping, Pubs
<1>. DEFINE new == [at |-> "made", src |-> live, srv |-> server]
            rec == [at |-> "insert", pub |-> p]
<1>2. /\ madeP' = p /\ pub' = [pub EXCEPT ![p] = new] /\ client' = [client EXCEPT ![c] = rec]
      /\ client[c].at = "make" /\ UNCHANGED <<live, streams, server, pubs>>
  BY <1>1 DEF MakePub
<1>3. /\ live \in 1..streams /\ streams \in 0..MaxLives /\ server \in 1..MaxServers /\ madeP \in 0..MaxPubs
      /\ pubs \in [1..MaxServers -> 0..MaxPubs]
  BY DEF MakePub, RepublishTyping
<1>4. new \in PubRecord /\ rec \in ClientRecord
  BY <1>3 DEF PubRecord, ClientRecord, Pubs
<1>5. new.at = "made" /\ new.src = live /\ new.srv = server /\ rec.at = "insert" /\ rec.pub = p
  OBVIOUS
<1>. HIDE DEF new, rec
<1>6. /\ pub' \in [Pubs -> PubRecord] /\ pub'[p] = new
      /\ \A q \in Pubs \ {p} : pub'[q] = pub[q]
      /\ client' \in [Clients -> ClientRecord] /\ client'[c] = rec
      /\ \A d \in Clients \ {c} : client'[d] = client[d]
  BY <1>2, <1>4 DEF RepublishTyping
<1>7. madeP' \in 0..MaxPubs /\ \A q \in Pubs : q <= madeP' <=> q <= madeP \/ q = p
  BY <1>1, <1>2, <1>3 DEF Pubs
<1>8. RepublishTyping'
  BY <1>2, <1>6, <1>7 DEF RepublishTyping
<1>9. pub[p].at = "none" /\ ~(p <= madeP) /\ p # NoPub
  BY <1>1, <1>3 DEF PubsMade, Pubs, NoPub
<1>10. PubsMade'
  BY <1>2, <1>3, <1>5, <1>6, <1>7 DEF PubsMade
<1>11. PubsInMap'
  <2>1. \A q \in Pubs : pub'[q].at \in {"start", "running", "late", "ended"} => pubs'[pub'[q].srv] = q
    BY <1>2, <1>5, <1>6 DEF PubsInMap
  <2>2. \A g \in 1..MaxServers : pubs[g] # NoPub => pubs[g] \in Pubs \ {p} /\ pubs[g] <= madeP /\ pub[pubs[g]].at # "made"
    BY <1>3, <1>9 DEF PubsInMap, Pubs, NoPub
  <2>. QED BY <1>2, <1>6, <1>7, <2>1, <2>2 DEF PubsInMap
<1>12. PubsAnswered'
  <2>1. \A d \in Clients \ {c} : client'[d] = client[d] /\ client[d].pub <= madeP /\ client[d].pub # p
    BY <1>6, <1>9 DEF PubsAnswered
  <2>2. \A d \in Clients : client[d].pub \in 0..MaxPubs /\ (client[d].pub # NoPub => client[d].pub \in Pubs)
    BY DEF RepublishTyping, ClientRecord, Pubs, NoPub
  <2>3. \A d \in Clients : client'[d].pub <= madeP'
    BY <1>1, <1>2, <1>3, <1>5, <1>6, <2>1, <2>2
  <2>4. \A d \in Clients : client'[d].at \in {"make", "idle"} => d # c
    BY <1>5, <1>6
  <2>5. \A d \in Clients : client'[d].at = "make" => client'[d].pub = NoPub
    BY <2>1, <2>4 DEF PubsAnswered
  <2>6. \A d \in Clients : client'[d].at = "idle" /\ client'[d].pub # NoPub => pub'[client'[d].pub].at # "made"
    BY <1>6, <2>1, <2>2, <2>4 DEF PubsAnswered
  <2>7. \A d \in Clients : client'[d].at = "insert" =>
       client'[d].pub # NoPub /\ pub'[client'[d].pub].at = "made" /\ pub'[client'[d].pub].srv = server'
    BY <1>2, <1>5, <1>6, <1>9, <2>1, <2>2 DEF PubsAnswered
  <2>8. \A d, e \in Clients : client'[d].at = "insert" /\ client'[e].at = "insert" /\ client'[e].pub = client'[d].pub => e = d
    BY <1>5, <1>6, <2>1 DEF PubsAnswered, Inserts
  <2>9. \A q \in Pubs : pub'[q].at = "made" => \E d \in Clients : client'[d].at = "insert" /\ client'[d].pub = q
    <3>. SUFFICES ASSUME NEW q \in Pubs, pub'[q].at = "made"
                  PROVE  \E d \in Clients : client'[d].at = "insert" /\ client'[d].pub = q
      OBVIOUS
    <3>1. CASE q = p
      BY <1>5, <1>6, <3>1
    <3>2. CASE q # p
      <4>1. PICK d \in Clients : client[d].at = "insert" /\ client[d].pub = q
        BY <1>6, <3>2 DEF PubsAnswered, Inserts
      <4>2. d # c
        BY <1>2, <4>1
      <4>. QED BY <2>1, <4>1, <4>2
    <3>. QED BY <3>1, <3>2
  <2>. QED BY <2>3, <2>5, <2>6, <2>7, <2>8, <2>9 DEF PubsAnswered, Inserts
<1>. QED BY <1>8, <1>10, <1>11, <1>12

\* The second look at the map: one starts its pump, who lost the race closes its own.
LEMMA InsertStep ==
  ASSUME RepublishInv, NEW c \in Clients, InsertPub(c)
  PROVE  RepublishInv'
<1>. USE RepublishAssumption DEF RepublishInv
<1>0. /\ streams \in 0..MaxLives /\ server \in 1..MaxServers /\ madeP \in 0..MaxPubs
      /\ pubs \in [1..MaxServers -> 0..MaxPubs]
      /\ \A d \in Clients : client[d] \in ClientRecord
      /\ \A d \in Clients : client[d].pub \in 0..MaxPubs /\ (client[d].pub # NoPub => client[d].pub \in Pubs)
  BY DEF RepublishTyping, ClientRecord, Pubs, NoPub
<1>1. PICK p \in Pubs : p = client[c].pub
  BY <1>0 DEF InsertPub, PubsAnswered
<1>2. client[c].at = "insert" /\ pub[p].at = "made" /\ pub[p].srv = server /\ p <= madeP /\ p # NoPub
  BY <1>1 DEF InsertPub, PubsAnswered
<1>3. PICK place \in {"start", "closed"}, rec \in ClientRecord :
        /\ pub' = [pub EXCEPT ![p].at = place] /\ client' = [client EXCEPT ![c] = rec] /\ rec.at = "idle"
        /\ \/ place = "start" /\ pubs[server] = NoPub /\ pubs' = [pubs EXCEPT ![server] = p] /\ rec.pub = p
           \/ place = "closed" /\ pubs' = pubs /\ rec.pub = pubs[server] /\ rec.pub # NoPub
  <2>1. CASE pubs[server] = NoPub
    <3>. DEFINE rec == [client[c] EXCEPT !.at = "idle"]
    <3>1. rec \in ClientRecord /\ rec.at = "idle" /\ rec.pub = p
      BY <1>0, <1>1 DEF ClientRecord
    <3>2. client' = [client EXCEPT ![c] = rec]
      BY <2>1 DEF InsertPub, RepublishTyping
    <3>3. pub' = [pub EXCEPT ![p].at = "start"] /\ pubs' = [pubs EXCEPT ![server] = p]
      BY <1>1, <2>1 DEF InsertPub
    <3>. QED BY <2>1, <3>1, <3>2, <3>3
  <2>2. CASE pubs[server] # NoPub
    <3>. DEFINE rec == [at |-> "idle", pub |-> pubs[server]]
    <3>1. rec \in ClientRecord /\ rec.at = "idle" /\ rec.pub = pubs[server]
      BY <1>0 DEF ClientRecord
    <3>. QED BY <1>1, <2>2, <3>1 DEF InsertPub
  <2>. QED BY <2>1, <2>2
<1>. DEFINE new == [pub[p] EXCEPT !.at = place]
<1>4. UNCHANGED <<live, streams, server, madeP>>
  BY DEF InsertPub
<1>5. new \in PubRecord /\ new.at = place /\ new.src = pub[p].src /\ new.srv = server
  <2>1. pub[p] \in PubRecord
    BY DEF RepublishTyping
  <2>. QED BY <1>2, <2>1 DEF PubRecord
<1>6. pub' = [pub EXCEPT ![p] = new]
  BY <1>3 DEF RepublishTyping
<1>. HIDE DEF new
<1>7. /\ pub' \in [Pubs -> PubRecord] /\ pub'[p] = new
      /\ \A q \in Pubs \ {p} : pub'[q] = pub[q]
      /\ client' \in [Clients -> ClientRecord] /\ client'[c] = rec
      /\ \A d \in Clients \ {c} : client'[d] = client[d]
      /\ pubs' \in [1..MaxServers -> 0..MaxPubs]
      /\ \A g \in (1..MaxServers) \ {server} : pubs'[g] = pubs[g]
      /\ pubs'[server] = IF place = "start" THEN p ELSE pubs[server]
  <2>1. /\ pub' \in [Pubs -> PubRecord] /\ pub'[p] = new
        /\ \A q \in Pubs \ {p} : pub'[q] = pub[q]
    BY <1>5, <1>6 DEF RepublishTyping
  <2>2. /\ client' \in [Clients -> ClientRecord] /\ client'[c] = rec
        /\ \A d \in Clients \ {c} : client'[d] = client[d]
    BY <1>3 DEF RepublishTyping
  <2>3. p \in 0..MaxPubs
    BY DEF Pubs
  <2>4. /\ pubs' \in [1..MaxServers -> 0..MaxPubs]
        /\ \A g \in (1..MaxServers) \ {server} : pubs'[g] = pubs[g]
        /\ pubs'[server] = IF place = "start" THEN p ELSE pubs[server]
    BY <1>0, <1>3, <2>3
  <2>. QED BY <2>1, <2>2, <2>4
<1>8. RepublishTyping'
  BY <1>4, <1>7 DEF RepublishTyping
<1>9. PubsMade'
  BY <1>2, <1>4, <1>5, <1>7 DEF PubsMade
<1>10. PubsInMap'
  <2>1. ASSUME NEW q \in Pubs, pub'[q].at \in {"start", "running", "late", "ended"}
        PROVE  pubs'[pub'[q].srv] = q
    <3>1. CASE q = p
      BY <1>5, <1>7, <2>1, <3>1
    <3>2. CASE q # p
      <4>1. pub'[q] = pub[q] /\ pubs[pub[q].srv] = q /\ q # NoPub
        BY <1>7, <2>1, <3>2 DEF PubsInMap, Pubs, NoPub
      <4>2. pub[q].srv \in 1..MaxServers
        BY <2>1, <4>1, <1>0 DEF PubsMade, Pubs
      <4>3. pub[q].srv = server => place # "start"
        BY <1>3, <4>1
      <4>. QED BY <1>7, <4>1, <4>2, <4>3
    <3>. QED BY <3>1, <3>2
  <2>2. ASSUME NEW g \in 1..MaxServers, pubs'[g] # NoPub
        PROVE  pubs'[g] <= madeP' /\ pub'[pubs'[g]].at # "made"
    <3>1. CASE pubs'[g] = p
      BY <1>2, <1>3, <1>4, <1>5, <1>7, <3>1
    <3>2. CASE pubs'[g] # p
      <4>1. pubs'[g] = pubs[g]
        BY <1>7, <3>2
      <4>2. pubs[g] \in Pubs \ {p} /\ pubs[g] <= madeP /\ pub[pubs[g]].at # "made"
        BY <1>0, <2>2, <3>2, <4>1 DEF PubsInMap, Pubs, NoPub
      <4>. QED BY <1>4, <1>7, <4>1, <4>2
    <3>. QED BY <3>1, <3>2
  <2>. QED BY <2>1, <2>2 DEF PubsInMap
<1>11. PubsAnswered'
  <2>1. rec.pub <= madeP /\ rec.pub \in Pubs /\ pub'[rec.pub].at # "made"
    <3>1. CASE rec.pub = p
      BY <1>2, <1>3, <1>5, <1>7, <3>1
    <3>2. CASE rec.pub # p
      <4>1. rec.pub = pubs[server] /\ rec.pub # NoPub
        BY <1>3, <3>2
      <4>2. rec.pub \in Pubs
        BY <1>0, <4>1 DEF Pubs, NoPub
      <4>3. rec.pub <= madeP /\ pub[rec.pub].at # "made"
        BY <1>0, <4>1 DEF PubsInMap
      <4>. QED BY <1>7, <3>2, <4>2, <4>3
    <3>. QED BY <3>1, <3>2
  <2>2. \A d \in Clients \ {c} : client'[d] = client[d] /\ (client[d].at = "insert" => client[d].pub # p)
    BY <1>1, <1>2, <1>7 DEF PubsAnswered, Inserts
  <2>3. \A d \in Clients : client'[d].at \in {"make", "insert"} => d # c
    BY <1>3, <1>7
  <2>4. \A d \in Clients : client'[d].pub <= madeP'
    BY <1>4, <1>7, <2>1 DEF PubsAnswered
  <2>5. \A d \in Clients : client'[d].at = "make" => client'[d].pub = NoPub
    BY <2>2, <2>3 DEF PubsAnswered
  <2>6. \A d \in Clients : client'[d].at = "idle" /\ client'[d].pub # NoPub => pub'[client'[d].pub].at # "made"
    <3>. SUFFICES ASSUME NEW d \in Clients, client'[d].at = "idle", client'[d].pub # NoPub
                  PROVE  pub'[client'[d].pub].at # "made"
      OBVIOUS
    <3>1. CASE d = c
      BY <1>7, <2>1, <3>1
    <3>2. CASE d # c
      <4>1. client'[d] = client[d] /\ client[d].pub \in Pubs /\ pub[client[d].pub].at # "made"
        BY <1>0, <2>2, <3>2 DEF PubsAnswered
      <4>2. client[d].pub # p
        BY <1>2, <4>1
      <4>. QED BY <1>7, <4>1, <4>2
    <3>. QED BY <3>1, <3>2
  <2>7. \A d \in Clients : client'[d].at = "insert" =>
       client'[d].pub # NoPub /\ pub'[client'[d].pub].at = "made" /\ pub'[client'[d].pub].srv = server'
    BY <1>0, <1>4, <1>7, <2>2, <2>3 DEF PubsAnswered
  <2>8. \A d, e \in Clients : client'[d].at = "insert" /\ client'[e].at = "insert" /\ client'[e].pub = client'[d].pub => e = d
    BY <2>2, <2>3 DEF PubsAnswered, Inserts
  <2>9. \A q \in Pubs : pub'[q].at = "made" => \E d \in Clients : client'[d].at = "insert" /\ client'[d].pub = q
    <3>. SUFFICES ASSUME NEW q \in Pubs, pub'[q].at = "made"
                  PROVE  \E d \in Clients : client'[d].at = "insert" /\ client'[d].pub = q
      OBVIOUS
    <3>1. q # p
      BY <1>3, <1>5, <1>7
    <3>2. PICK d \in Clients : client[d].at = "insert" /\ client[d].pub = q
      BY <1>7, <3>1 DEF PubsAnswered, Inserts
    <3>3. d # c
      BY <1>1, <3>1, <3>2
    <3>. QED BY <2>2, <3>2, <3>3
  <2>. QED BY <2>4, <2>5, <2>6, <2>7, <2>8, <2>9 DEF PubsAnswered, Inserts
<1>. QED BY <1>8, <1>9, <1>10, <1>11

\* A pump starts, ends and leaves the map; no client moves.
LEMMA PumpSteps ==
  ASSUME RepublishInv, NEW p \in Pubs, PumpStep(p)
  PROVE  RepublishInv'
<1>. USE RepublishAssumption DEF RepublishInv
<1>1. PICK place \in {"late", "running", "ended", "closed"} :
        /\ pub' = [pub EXCEPT ![p].at = place] /\ pub[p].at \in {"start", "running", "ended"}
        /\ IF place = "closed" THEN pubs' = [pubs EXCEPT ![pub[p].srv] = IF @ = p THEN NoPub ELSE @] ELSE pubs' = pubs
  BY DEF PumpStep, PumpAttach, PumpEnds, RemovePub
<1>2. UNCHANGED <<live, streams, server, madeP, client>>
  BY DEF PumpStep, PumpAttach, PumpEnds, RemovePub
<1>3. pub[p] \in PubRecord /\ madeP \in Nat /\ server \in 1..MaxServers /\ pubs \in [1..MaxServers -> 0..MaxPubs]
  BY DEF RepublishTyping
<1>. DEFINE new == [pub[p] EXCEPT !.at = place]
<1>4. new \in PubRecord /\ new.at = place /\ new.src = pub[p].src /\ new.srv = pub[p].srv
  BY <1>3 DEF PubRecord
<1>5. pub' = [pub EXCEPT ![p] = new]
  BY <1>1 DEF RepublishTyping
<1>. HIDE DEF new
<1>6. /\ pub' \in [Pubs -> PubRecord] /\ pub'[p] = new
      /\ \A q \in Pubs \ {p} : pub'[q] = pub[q]
  BY <1>4, <1>5 DEF RepublishTyping
<1>7. p <= madeP /\ pub[p].srv \in 1..MaxServers /\ p # NoPub
  BY <1>1, <1>3 DEF PubsMade, Pubs, NoPub
<1>8. /\ pubs' \in [1..MaxServers -> 0..MaxPubs]
      /\ \A g \in 1..MaxServers : \/ pubs'[g] = pubs[g] /\ (place = "closed" => pubs[g] # p \/ g # pub[p].srv)
                                  \/ pubs'[g] = NoPub /\ pubs[g] = p /\ place = "closed"
  BY <1>1, <1>3, <1>7 DEF NoPub
<1>9. RepublishTyping'
  BY <1>2, <1>6, <1>8 DEF RepublishTyping
<1>10. PubsMade'
  BY <1>2, <1>4, <1>6, <1>7 DEF PubsMade
<1>11. PubsInMap'
  <2>1. ASSUME NEW q \in Pubs, pub'[q].at \in {"start", "running", "late", "ended"}
        PROVE  pubs'[pub'[q].srv] = q
    <3>1. pubs[pub[q].srv] = q /\ pub'[q].srv = pub[q].srv /\ (q = p => place # "closed") /\ q <= madeP
      BY <1>1, <1>3, <1>4, <1>6, <1>7, <2>1 DEF PubsInMap, PubsMade
    <3>2. pub[q].srv \in 1..MaxServers
      BY <3>1, <1>3 DEF PubsMade
    <3>. QED BY <1>8, <3>1, <3>2
  <2>2. ASSUME NEW g \in 1..MaxServers, pubs'[g] # NoPub
        PROVE  pubs'[g] <= madeP' /\ pub'[pubs'[g]].at # "made"
    <3>1. pubs'[g] = pubs[g]
      BY <1>8, <2>2
    <3>2. pubs[g] \in Pubs /\ pubs[g] <= madeP /\ pub[pubs[g]].at # "made"
      BY <1>3, <2>2, <3>1 DEF PubsInMap, Pubs, NoPub
    <3>. QED BY <1>1, <1>2, <1>4, <1>6, <3>1, <3>2
  <2>. QED BY <2>1, <2>2 DEF PubsInMap
<1>12. \A q \in Pubs : (pub'[q].at = "made" <=> pub[q].at = "made") /\ pub'[q].srv = pub[q].srv
  BY <1>1, <1>4, <1>6
<1>13. \A c \in Clients : client[c].pub # NoPub => client[c].pub \in Pubs
  BY DEF RepublishTyping, ClientRecord, Pubs, NoPub
<1>14. PubsAnswered'
  BY <1>2, <1>12, <1>13 DEF PubsAnswered, Inserts
<1>. QED BY <1>9, <1>10, <1>11, <1>14

\* The invariant is inductive.
LEMMA RepublishStep == RepublishInv /\ [RepublishNext]_republishVars => RepublishInv'
<1>. SUFFICES ASSUME RepublishInv, [RepublishNext]_republishVars PROVE RepublishInv'
  OBVIOUS
<1>1. CASE UNCHANGED republishVars
  BY <1>1 DEF republishVars, RepublishInv, RepublishTyping, PubsMade, PubsInMap, PubsAnswered, Inserts
<1>2. CASE RepublishNext
  BY <1>2, StreamStep, ReplaceStep, AskStep, MakeStep, InsertStep, PumpSteps DEF RepublishNext, DescribeStep
<1>. QED BY <1>1, <1>2

-----------------------------------------------------------------------------
(***************************************************************************)
(* The parts together.                                                     *)
(***************************************************************************)
OutputsInv == TranscoderInv /\ WatchInv /\ PlaybackInv /\ RepublishInv

\* It says what is checked.
LEMMA OutputsInvSays == OutputsInv => OutputsTypeOK /\ TranscoderSound /\ SharedOutputsSound
<1>. SUFFICES ASSUME OutputsInv PROVE OutputsTypeOK /\ TranscoderSound /\ SharedOutputsSound
  OBVIOUS
<1>1. TranscodeTypeOK /\ TranscoderSound
  BY TranscodeTypingIsTypeOK, TranscoderInvSays DEF OutputsInv, TranscoderInv, TranscoderSound
<1>2. PlaybackTypeOK /\ PlaybackSound
  BY PlaybackInvSays DEF OutputsInv
<1>3. RepublishTypeOK /\ RepublishSound
  BY RepublishInvSays DEF OutputsInv
<1>. QED BY <1>1, <1>2, <1>3 DEF OutputsInv, WatchInv, OutputsTypeOK, SharedOutputsSound

\* A step of one part is a step of that part and none of the others.
LEMMA OutputsStep == OutputsInv /\ [OutputsNext]_outputsVars => OutputsInv'
<1>. SUFFICES ASSUME OutputsInv, [OutputsNext]_outputsVars PROVE OutputsInv'
  OBVIOUS
<1>1. /\ [TranscodeNext]_transcodeVars /\ [WatchNext]_watchVars
      /\ [PlaybackNext]_playVars /\ [RepublishNext]_republishVars
  BY DEF OutputsNext, outputsVars
<1>. QED BY <1>1, TranscoderStep, WatchStep, PlaybackStep, RepublishStep DEF OutputsInv

\* The invariant, of every behaviour.
LEMMA OutputsInvHolds == OutputsSpec => []OutputsInv
<1>1. OutputsInit => OutputsInv
  BY TranscoderStart, WatchStart, PlaybackStart, RepublishStart DEF OutputsInit, OutputsInv
<1>. QED BY <1>1, OutputsStep, PTL DEF OutputsSpec

(***************************************************************************)
(* Every map, count and record of the outputs keeps its type; there are    *)
(* never more playback sessions than maxSessions, and the order of their   *)
(* last accesses, by which evictLocked chooses, is a total one             *)
(* (transcode.go, rechls.go, server.go).                                   *)
(***************************************************************************)
THEOREM OutputsTypeCorrect == OutputsSpec => []OutputsTypeOK
  BY OutputsInvHolds, OutputsInvSays, PTL

(***************************************************************************)
(* However viewers come, wait, give up and leave, and however often ffmpeg *)
(* dies or the source is replaced under them: a transcoder's count is its  *)
(* viewers', it has one process, and the idle timer stops none that        *)
(* somebody joined before it was told to stop (transcode.go 121-286).      *)
(***************************************************************************)
THEOREM TranscoderAgrees == OutputsSpec => []TranscoderSound
  BY OutputsInvHolds, OutputsInvSays, PTL

(***************************************************************************)
(* Whatever fails or ends while a viewer is served, the reference is given *)
(* back once and the reader removed; a ready playback session has its      *)
(* playlist, and its process can be stopped; publications that run are in  *)
(* their server's map, one each (api/stream.go, rechls.go, server.go).     *)
(***************************************************************************)
THEOREM SharedOutputsAgree == OutputsSpec => []SharedOutputsSound
  BY OutputsInvHolds, OutputsInvSays, PTL

=============================================================================
