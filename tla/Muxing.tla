-------------------------------- MODULE Muxing --------------------------------
(***************************************************************************)
(* Packaging a live stream for one viewer: fragmented MP4 for the browser  *)
(* (Fragmenter, mse/streamer.go) and FLV (FlvMuxer, restream/flv.go).  Both *)
(* are fed by a lossy reader of the stream, which may begin and lose units *)
(* anywhere.  A unit is its number, which is also its time.                *)
(***************************************************************************)
EXTENDS Integers, Sequences, FiniteSets, SequencesExt, FiniteSetsExt

CONSTANTS
  aacFrameSamples,  \* duration of an audio frame
  AudioPerFragment, \* frames of a fragment without video
  MaxPushed          \* bound: units of the stream

ASSUME MuxingAssumption ==
  {aacFrameSamples, AudioPerFragment, MaxPushed} \subseteq Nat \ {0}

Kinds == {"key", "inter", "audio"}
NoTime  == -1

VARIABLES
  hasVid,    \* the stream has a video track
  source,    \* the units so far, by their kinds
  given,     \* those the reader delivered
  frag,      \* Fragmenter: [pending, first, frags]
  flv        \* FlvMuxer: [base, tags]

muxVars == <<hasVid, source, given, frag, flv>>

MuxInit ==
  /\ hasVid \in BOOLEAN
  /\ source = <<>> /\ given = {}
  /\ frag = [pending |-> [video |-> <<>>, audio |-> <<>>], first |-> [video |-> NoTime, audio |-> NoTime], frags |-> <<>>]
  /\ flv = [base |-> [video |-> NoTime, audio |-> NoTime], tags |-> <<>>]

Track(kind) == IF kind = "audio" THEN "audio" ELSE "video"

(* extractDTS fails until a keyframe has come.                              *)
Established(u) == \E k \in given' : k <= u /\ source'[k] = "key"

-----------------------------------------------------------------------------
(* A sample lasts until the next one, a fragment's last video sample until  *)
(* the boundary.                                                            *)
Durations(track, dts, boundary) ==
  [i \in DOMAIN dts |->
     IF i < Len(dts) THEN dts[i + 1] - dts[i]
     ELSE IF track = "video" THEN boundary - dts[i] ELSE aacFrameSamples]

flushFragment(F, boundary) ==
  LET first == [t \in DOMAIN F.first |->
                  IF F.first[t] = NoTime /\ F.pending[t] # <<>> THEN Head(F.pending[t]) ELSE F.first[t]]
      part(t) == [dts |-> F.pending[t], base |-> IF F.pending[t] = <<>> THEN NoTime ELSE Head(F.pending[t]) - first[t],
                  durations |-> Durations(t, F.pending[t], boundary)]
  IN [pending |-> [video |-> <<>>, audio |-> <<>>], first |-> first,
      frags |-> Append(F.frags, [video |-> part("video"), audio |-> part("audio")])]

pushVideoAppendFirst(F, u, kind) == \* mutant: the keyframe joins the fragment it ends
  LET G == [F EXCEPT !.pending.video = Append(@, u)]
  IN IF kind = "key" /\ F.pending.video # <<>> THEN flushFragment(G, u + 1) ELSE G

(* A keyframe closes the fragment before it.                                *)
pushVideo(F, u, kind) ==
  LET G == IF kind = "key" /\ F.pending.video # <<>> THEN flushFragment(F, u) ELSE F
  IN [G EXCEPT !.pending.video = Append(@, u)]

pushAudio(F, u) ==
  LET G == [F EXCEPT !.pending.audio = Append(@, u)]
  IN IF ~hasVid /\ Len(G.pending.audio) >= AudioPerFragment THEN flushFragment(G, u + aacFrameSamples) ELSE G

Fragmented(F, u, kind) ==
  IF kind = "audio" THEN pushAudio(F, u) ELSE IF Established(u) THEN pushVideo(F, u, kind) ELSE F

(* FLV needs a video track.  Each track counts from its own first unit, in  *)
(* whole milliseconds, two to three ticks of the clock.                     *)
Millis(t) == (2 * t) \div 3

Tagged(M, u, kind) ==
  LET t    == Track(kind)
      base == IF M.base[t] = NoTime THEN Millis(u) ELSE M.base[t]
  IN IF ~hasVid \/ (t = "video" /\ ~Established(u)) THEN M
     ELSE [base |-> [M.base EXCEPT ![t] = base],
           tags |-> Append(M.tags, [track |-> t, unit |-> u, ts |-> Max({0, Millis(u) - base})])]

-----------------------------------------------------------------------------
PushUnit(kind) ==
  LET u == Len(source) + 1
  IN /\ u <= MaxPushed
     /\ source' = Append(source, kind)
     /\ given' = given \cup {u}
     /\ frag' = Fragmented(frag, u, kind)
     /\ flv' = Tagged(flv, u, kind)
     /\ UNCHANGED hasVid

(* The viewer is slow, or not there yet.                                    *)
DropUnit(kind) ==
  /\ Len(source) < MaxPushed
  /\ source' = Append(source, kind)
  /\ UNCHANGED <<hasVid, given, frag, flv>>

MuxNext == \E kind \in IF hasVid THEN Kinds ELSE {"audio"} : PushUnit(kind) \/ DropUnit(kind)

-----------------------------------------------------------------------------
MuxTypeOK ==
  /\ given \subseteq DOMAIN source
  /\ \A t \in {"video", "audio"} : ToSet(frag.pending[t]) \subseteq given

Total(durations) ==
  LET sum[n \in 0..Len(durations)] == IF n = 0 THEN 0 ELSE sum[n - 1] + durations[n] IN sum[Len(durations)]

(* Whatever the reader loses, the fragments play without a gap: each begins *)
(* with a keyframe, where the one before ends; every unit given, of video   *)
(* from the first keyframe on, is in one of them or pending, in order       *)
(* (streamer.go 121-224).                                                   *)
FragmentsPlay ==
  LET part(n, t) == frag.frags[n][t]
      played(t)  == {n \in DOMAIN frag.frags : part(n, t).dts # <<>>}
      all(t)     == FlattenSeq([n \in DOMAIN frag.frags |-> part(n, t).dts]) \o frag.pending[t]
      usable(u)  == Track(source[u]) = "audio" \/ \E k \in given : k <= u /\ source[k] = "key"
      due(t)     == {u \in given : Track(source[u]) = t /\ usable(u)}
  IN /\ \A t \in {"video", "audio"} :
          /\ ToSet(all(t)) = due(t) /\ \A i \in 2..Len(all(t)) : all(t)[i - 1] < all(t)[i]
          /\ \A m, n \in played(t) : m < n => part(m, t).base < part(n, t).base
     /\ \A n \in played("video") : source[Head(part(n, "video").dts)] = "key"
     /\ \A m, n \in played("video") : m < n /\ (m + 1..n - 1) \cap played("video") = {} =>
          part(n, "video").base = part(m, "video").base + Total(part(m, "video").durations)

(* FLV timestamps are off by less than a millisecond, from the first of     *)
(* their track, whatever the reader loses (flv.go 108-171).                 *)
TimestampsTrue ==
  \A i, j \in DOMAIN flv.tags :
    flv.tags[i].track = flv.tags[j].track /\ i < j =>
      LET d == 3 * (flv.tags[j].ts - flv.tags[i].ts) - 2 * (flv.tags[j].unit - flv.tags[i].unit) IN d \in -2..2

(* What a viewer gets plays.                                                *)
MuxSound == FragmentsPlay /\ TimestampsTrue
=============================================================================
