------------------------------- MODULE RtspPull -------------------------------
(***************************************************************************)
(* The callback of a pulled RTSP video track (rtsp/source.go 178-238).  An *)
(* access unit comes in one packet or in several; gortsplib tells the time *)
(* of a packet once it has seen one whose decoding and presentation times  *)
(* agree, which is the first packet of a keyframe, and its decoder returns *)
(* the unit with the last packet.  A packet is [au, part, of]; some are    *)
(* lost.                                                                   *)
(***************************************************************************)
EXTENDS Integers, Sequences, FiniteSets, SequencesExt, FiniteSetsExt

CONSTANTS
  Sizes,       \* numbers of packets a unit may have
  MaxSentAUs,  \* bound: units sent
  MaxAway      \* bound: packets lost

ASSUME RtspPullAssumption ==
  Sizes \subseteq Nat \ {0} /\ MaxSentAUs \in Nat /\ MaxAway \in Nat

VARIABLES
  coming,   \* packets of the unit being sent that are still to come
  sentAU,   \* units sent so far
  keys,     \* those that are keyframes
  locked,   \* PacketPTS knows the time of this track
  partial,  \* the decoder's fragments: the packets of one unit, from its first
  pulled,   \* what WriteUnit got
  came,     \* history: packets that came
  away      \* packets lost

pullVars == <<coming, sentAU, keys, locked, partial, pulled, came, away>>

PullInit ==
  /\ coming = <<>> /\ sentAU = 0 /\ keys = {}
  /\ locked = FALSE /\ partial = <<>> /\ pulled = <<>> /\ came = {} /\ away = 0

SendAU ==
  /\ coming = <<>> /\ sentAU < MaxSentAUs
  /\ \E of \in Sizes : coming' = [i \in 1..of |-> [au |-> sentAU + 1, part |-> i, of |-> of]]
  /\ keys' \in {keys, keys \cup {sentAU + 1}}
  /\ sentAU' = sentAU + 1
  /\ UNCHANGED <<locked, partial, pulled, came, away>>

(* dec.Decode: what it keeps, and the unit it returns if any.               *)
Kept(p) ==
  IF p.part = 1 THEN <<p>>
  ELSE IF partial # <<>> /\ Last(partial) = [p EXCEPT !.part = @ - 1] THEN Append(partial, p) ELSE <<>>
Whole(frags) == frags # <<>> /\ Last(frags).part = Last(frags).of

PTSEqualsDTS(p) == p.au \in keys /\ p.part = 1

Decode(p) ==
  IF Whole(Kept(p)) THEN partial' = <<>> /\ pulled' = Append(pulled, p.au)
                    ELSE partial' = Kept(p) /\ UNCHANGED pulled

(* The callback: the time of every packet first, then the decoder.          *)
OnPacketRTP(p) ==
  /\ locked' = (locked \/ PTSEqualsDTS(p))
  /\ IF locked' THEN Decode(p) ELSE UNCHANGED <<partial, pulled>>

Arrive ==
  /\ coming # <<>>
  /\ coming' = Tail(coming) /\ came' = came \cup {Head(coming)}
  /\ OnPacketRTP(Head(coming))
  /\ UNCHANGED <<sentAU, keys, away>>

Lose ==
  /\ coming # <<>> /\ away < MaxAway
  /\ coming' = Tail(coming) /\ away' = away + 1
  /\ UNCHANGED <<sentAU, keys, locked, partial, pulled, came>>

PullNext == SendAU \/ Arrive \/ Lose

-----------------------------------------------------------------------------
(* The decoder holds the first packets of a single unit, not all of it.     *)
PullTypeOK ==
  /\ ToSet(pulled) \subseteq 1..sentAU
  /\ \A i \in DOMAIN partial :
       partial[i].part = i /\ i < partial[i].of /\ partial[i].au = partial[1].au

(* From the first keyframe whose first packet comes, every unit that comes  *)
(* whole is written, once and in the order sent, and nothing else is, also  *)
(* when the keyframe comes in several packets (source.go 186-192).          *)
PulledInOrder ==
  LET whole == {a \in 1..sentAU : \E p \in came : p.au = a /\ \A i \in 1..p.of : [p EXCEPT !.part = i] \in came}
      begun == {a \in whole : \E k \in keys : k <= a /\ \E p \in came : p.au = k /\ p.part = 1}
  IN /\ ToSet(pulled) = begun
     /\ \A i, j \in DOMAIN pulled : i < j => pulled[i] < pulled[j]
=============================================================================
