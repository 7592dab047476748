------------------------------- MODULE GBMedia -------------------------------
(***************************************************************************)
(* From RTP packets to access units (gb28181/rtp.go, ps.go, media.go): the *)
(* packets of one timestamp are a frame, sorted by sequence number; the    *)
(* program stream inside yields the video NAL units; once the codec and    *)
(* its parameter sets are known the stream starts, one unit per frame.     *)
(*                                                                         *)
(* A packet is its number among all packets of the session and carries one *)
(* element of the program stream.  Sequence numbers and timestamps are     *)
(* narrowed to SeqWidth and TsWidth and wrap within the session.           *)
(***************************************************************************)
EXTENDS Integers, Sequences, FiniteSets, SequencesExt, FiniteSetsExt

CONSTANTS
  SeqWidth, TsWidth,  \* width of sequence numbers and timestamps
  MaxPackets,     \* maxPacketsPerFrame
  TsStep,         \* time between two frames
  Window,         \* bound: packets on their way at one time
  MaxLost         \* bound: packets lost

ASSUME GBMediaAssumption ==
  /\ {SeqWidth, TsWidth, MaxPackets, TsStep} \subseteq Nat \ {0} /\ {Window, MaxLost} \subseteq Nat
  /\ 5 <= MaxPackets /\ MaxPackets < SeqWidth \div 2   \* a frame of the session fits
  /\ 2 * TsStep < TsWidth \div 2   \* two frames in a row may be lost

(* A session: an IDR frame, a frame with audio in front, an IDR frame.  The *)
(* program stream map is there or not.                                      *)
Elements(codec, map) ==
  LET sets  == IF codec = "H265" THEN <<"VPS", "SPS", "PPS">> ELSE <<"SPS", "PPS">>
      video(frame, types) == [i \in DOMAIN types |-> [frame |-> frame, el |-> types[i]]]
  IN video(1, (IF map THEN <<"PSM">> ELSE <<>>) \o sets \o <<"IDR">>)
     \o video(2, <<"audio", "P">>)
     \o video(3, sets \o <<"IDR">>)

NoCodec == ""

VARIABLES
  elements,  \* what the device sends
  codecSent, \* the codec of it
  next,      \* the next packet to send
  flight,    \* packets on their way
  asm,       \* frameAssembler: [have, ts, pkts]
  prod,      \* mediaProducer: [codec, sets, ready, havePrev, prevTS, pts]
  written,   \* what WriteUnit got: [pts, pkts]
  arrived,   \* history: packets that arrived
  crossed    \* history: a packet arrived after the last one of its frame, or a later one's

mediaVars == <<elements, codecSent, next, flight, asm, prod, written, arrived, crossed>>

MediaInit ==
  /\ codecSent \in {"H264", "H265"}
  /\ \E map \in BOOLEAN : elements = Elements(codecSent, map)
  /\ next = 1 /\ flight = {}
  /\ asm = [have |-> FALSE, ts |-> 0, pkts |-> <<>>]
  /\ prod = [codec |-> NoCodec, sets |-> {}, ready |-> FALSE, havePrev |-> FALSE, prevTS |-> 0, pts |-> 0]
  /\ written = <<>>
  /\ arrived = {} /\ crossed = FALSE

FrameOf(i) == elements[i].frame
El(i)      == elements[i].el
Time(f)    == f * TsStep
Number(i)   == (SeqWidth - 3 + i) % SeqWidth
Stamp(i)    == (TsWidth - 2 * TsStep + Time(FrameOf(i))) % TsWidth
Marker(i)  == i = Len(elements) \/ FrameOf(i + 1) # FrameOf(i)

(* int16(a - b), int32(a - b)                                               *)
Signed(d, mod) == IF d % mod < mod \div 2 THEN d % mod ELSE (d % mod) - mod

-----------------------------------------------------------------------------
InVideo(i) == El(i) \notin {"PSM", "audio"}

(* The video elements; and the codec the map names, if the map stands       *)
(* before the video in this very segment.                                   *)
demuxPS(pkts) == FlattenSeq([j \in DOMAIN pkts |-> IF InVideo(pkts[j]) THEN <<pkts[j]>> ELSE <<>>])

MapCodec(pkts) ==
  IF \E j, k \in DOMAIN pkts : j < k /\ El(pkts[j]) = "PSM" /\ InVideo(pkts[k]) THEN codecSent ELSE NoCodec

(* An H.265 VPS gives the codec away, else an H.264 SPS.                    *)
sniffCodec(pkts) ==
  LET seen == {El(pkts[j]) : j \in DOMAIN pkts}
  IN IF MapCodec(pkts) # NoCodec THEN MapCodec(pkts)
     ELSE IF "VPS" \in seen \/ ("SPS" \in seen /\ codecSent = "H264") THEN codecSent ELSE NoCodec

(* collectParamSets reads a NAL by the codec that was found.                *)
collectParamSets(P, pkts) ==
  IF P.codec = codecSent
  THEN [P EXCEPT !.sets = @ \cup ({El(pkts[j]) : j \in DOMAIN pkts} \cap {"VPS", "SPS", "PPS"})]
  ELSE P

Clock(P, ts) ==
  [P EXCEPT !.pts = IF P.havePrev THEN @ + Signed(ts - P.prevTS, TsWidth) ELSE @,
            !.prevTS = ts, !.havePrev = TRUE]

tryReady(P) == {"SPS", "PPS"} \subseteq P.sets

(* handleFrame: a frame without video changes nothing.                      *)
handleFrame(P, us, ts, pkts) ==
  LET video == demuxPS(pkts)
      codec == IF P.codec = NoCodec THEN sniffCodec(pkts) ELSE P.codec
      Q     == Clock(collectParamSets([P EXCEPT !.codec = codec], video), ts)
      ready == P.ready \/ tryReady(Q)
  IN IF video = <<>> THEN [prod |-> P, units |-> us]
     ELSE [prod  |-> [Q EXCEPT !.ready = ready],
           units |-> IF ready THEN Append(us, [pts |-> Q.pts, pkts |-> video]) ELSE us]

-----------------------------------------------------------------------------
SortedUnwrapped(pkts) == \* mutant: sequence numbers compared as they are
  LET places == CHOOSE p \in [DOMAIN pkts -> DOMAIN pkts] :
                  \A i, j \in DOMAIN pkts : i < j => Number(pkts[p[i]]) < Number(pkts[p[j]])
  IN [j \in DOMAIN pkts |-> pkts[places[j]]]

(* The packets of a frame, sorted.                                          *)
Sorted(pkts) ==
  LET places == CHOOSE p \in [DOMAIN pkts -> DOMAIN pkts] :
                  \A i, j \in DOMAIN pkts : i < j => Signed(Number(pkts[p[i]]) - Number(pkts[p[j]]), SeqWidth) < 0
  IN [j \in DOMAIN pkts |-> pkts[places[j]]]

(* The assembler's state with what the producer has made of it: A is        *)
(* [asm, prod, units].                                                      *)
flush(A) ==
  LET done == handleFrame(A.prod, A.units, A.asm.ts, Sorted(A.asm.pkts))
  IN [asm |-> [A.asm EXCEPT !.have = FALSE, !.pkts = <<>>], prod |-> done.prod, units |-> done.units]

push(A, i) ==
  LET B == IF A.asm.have /\ A.asm.ts # Stamp(i) THEN flush(A) ELSE A
      C == [B EXCEPT !.asm = [have |-> TRUE, ts |-> Stamp(i),
                              pkts |-> IF Len(@.pkts) < MaxPackets THEN Append(@.pkts, i) ELSE @.pkts]]
  IN IF Marker(i) THEN flush(C) ELSE C

Receive(i) ==
  /\ i \in flight
  /\ flight' = flight \ {i}
  /\ LET A == push([asm |-> asm, prod |-> prod, units |-> written], i)
     IN asm' = A.asm /\ prod' = A.prod /\ written' = A.units
  /\ arrived' = arrived \cup {i}
  /\ crossed' = (crossed \/ \E j \in arrived : j > i /\ (Marker(j) \/ FrameOf(j) > FrameOf(i)))
  /\ UNCHANGED <<elements, codecSent, next>>

SendPacket ==
  /\ next <= Len(elements) /\ Cardinality(flight) < Window
  /\ flight' = flight \cup {next}
  /\ next' = next + 1
  /\ UNCHANGED <<elements, codecSent, asm, prod, written, arrived, crossed>>

LosePacket(i) ==
  /\ i \in flight /\ next - 1 - Cardinality(flight) - Cardinality(arrived) < MaxLost
  /\ flight' = flight \ {i}
  /\ UNCHANGED <<elements, codecSent, next, asm, prod, written, arrived, crossed>>

MediaNext == SendPacket \/ \E i \in flight : Receive(i) \/ LosePacket(i)

-----------------------------------------------------------------------------
MediaTypeOK ==
  /\ arrived \subseteq DOMAIN elements /\ arrived \cap flight = {}
  /\ prod.codec \in {NoCodec, codecSent}
  /\ asm.have <=> asm.pkts # <<>>

(* What is published is what was sent: a unit holds packets of one frame in *)
(* their order, and the PTSs are as far apart as the frames, although both  *)
(* counters wrap; and unless packets came after their frame's end, it holds *)
(* all of the frame that arrived, and no frame is left out once the stream  *)
(* runs (gb28181/rtp.go, ps.go, media.go).                                  *)
UnitsFaithful ==
  LET video(f) == {i \in arrived : InVideo(i) /\ FrameOf(i) = f}
      frame(u) == FrameOf(Head(u.pkts))
  IN \A n \in DOMAIN written :
       LET u == written[n]
       IN /\ \A j \in 2..Len(u.pkts) : FrameOf(u.pkts[j]) = frame(u) /\ u.pkts[j - 1] < u.pkts[j]
          /\ \A m \in DOMAIN written : u.pts - written[m].pts = Time(frame(u)) - Time(frame(written[m]))
          /\ ~crossed =>
               /\ ToSet(u.pkts) = video(frame(u))
               /\ \A f \in frame(u)..3 : video(f) \cap ToSet(asm.pkts) = {} /\ video(f) # {} =>
                    \E m \in DOMAIN written : frame(written[m]) = f
=============================================================================
