-------------------------------- MODULE Ingest --------------------------------
(***************************************************************************)
(* One publishing RTMP connection (rtmp/server.go): parameter sets arrive  *)
(* in sequence headers, the first video frame after one announces the      *)
(* stream to the camera manager, which may refuse it, and frames become    *)
(* units.  A sequence header or audio configuration is its version, a      *)
(* message's time is narrowed to Width, as RTMP's timestamp is.            *)
(***************************************************************************)
EXTENDS Integers, Sequences

CONSTANTS
  Width,        \* width of a timestamp
  MaxMessages,  \* bound: messages of the connection
  MaxJump       \* bound: time between two messages

ASSUME IngestAssumption ==
  {Width, MaxMessages} \subseteq Nat \ {0} /\ MaxJump \in Nat /\ MaxJump < Width \div 2

NoConfig == 0
NoTrack  == 0

VARIABLES
  clockR,    \* the encoder's time
  messages,  \* messages so far; the number of one versions what it configures
  conn,      \* connHandler: [sps, audio, video, audioTrack, published, closed]
  announced, \* what OnPublishStart was told: per call [sps, audio, taken]
  stopped,   \* calls of OnPublishStop
  sent       \* the units written: [track, key, sps, audio, pts, time]

ingestVars == <<clockR, messages, conn, announced, stopped, sent>>

IngestInit ==
  /\ clockR \in {0, Width - 2} /\ messages = 0
  /\ conn = [sps |-> NoConfig, audio |-> NoConfig, video |-> NoTrack, audioTrack |-> NoTrack,
             published |-> FALSE, closed |-> FALSE]
  /\ announced = <<>> /\ stopped = 0 /\ sent = <<>>

(* The next message, after some time.                                       *)
MessageArrives ==
  /\ ~conn.closed /\ messages < MaxMessages
  /\ messages' = messages + 1
  /\ \E d \in 0..MaxJump : clockR' = clockR + d

VideoHeader ==
  /\ MessageArrives
  /\ conn' = [conn EXCEPT !.sps = messages + 1]
  /\ UNCHANGED <<announced, stopped, sent>>

AudioHeader ==
  /\ MessageArrives
  /\ conn' = [conn EXCEPT !.audio = messages + 1]
  /\ UNCHANGED <<announced, stopped, sent>>

(* publish: the tracks are those whose configuration has come.              *)
publish(c, taken) ==
  [c EXCEPT !.video = 1, !.audioTrack = IF c.audio # NoConfig THEN 2 ELSE @, !.published = taken]

VideoUnit(key) ==
  [track |-> 1, key |-> key, sps |-> IF key THEN conn.sps ELSE NoConfig, audio |-> NoConfig,
   pts |-> clockR' % Width, time |-> clockR']

AudioUnit ==
  [track |-> conn.audioTrack, key |-> TRUE, sps |-> NoConfig, audio |-> conn.audio, pts |-> clockR' % Width, time |-> clockR']

(* A frame before the sequence header is dropped; one that a refused        *)
(* publish would have carried is too, and the next one asks again.          *)
VideoFrame(key, takes) ==
  LET asks == ~conn.published /\ conn.sps # NoConfig
      c    == IF asks THEN publish(conn, takes) ELSE conn
  IN /\ MessageArrives
     /\ conn' = c
     /\ announced' = IF asks THEN Append(announced, [sps |-> conn.sps, audio |-> conn.audio, taken |-> takes]) ELSE announced
     /\ sent' = IF c.published THEN Append(sent, VideoUnit(key)) ELSE sent
     /\ UNCHANGED stopped

AudioFrame ==
  /\ MessageArrives
  /\ sent' = IF conn.published /\ conn.audioTrack # NoTrack /\ conn.audio # NoConfig
             THEN Append(sent, AudioUnit) ELSE sent
  /\ UNCHANGED <<conn, announced, stopped>>

OnClose ==
  /\ ~conn.closed
  /\ conn' = [conn EXCEPT !.closed = TRUE]
  /\ stopped' = IF conn.published THEN stopped + 1 ELSE stopped
  /\ UNCHANGED <<clockR, messages, announced, sent>>

IngestNext ==
  \/ VideoHeader \/ AudioHeader \/ AudioFrame \/ OnClose
  \/ \E key, takes \in BOOLEAN : VideoFrame(key, takes)

-----------------------------------------------------------------------------
IngestTypeOK ==
  /\ conn.video \in {NoTrack, 1} /\ conn.audioTrack \in {NoTrack, 2}
  /\ conn.published => conn.sps # NoConfig

(* The manager hears of each publish it took once, and of its end; audio    *)
(* is written only to a track it was told of; each keyframe carries the     *)
(* parameter sets in force, the announced ones or newer; and units are as   *)
(* far apart as their times, but for one turn of the timestamp              *)
(* (rtmp/server.go 103-225, 227-237).                                       *)
IngestSound ==
  LET taken == {n \in DOMAIN announced : announced[n].taken}
  IN /\ \A m, n \in taken : m = n
     /\ stopped = IF conn.closed /\ taken # {} THEN 1 ELSE 0
     /\ \A i \in DOMAIN sent :
          \E n \in taken :
            /\ sent[i].track = 2 => announced[n].audio # NoConfig
            /\ sent[i].track = 1 /\ sent[i].key => sent[i].sps >= announced[n].sps
     /\ \A i, j \in DOMAIN sent : i < j =>
          \/ sent[j].pts - sent[i].pts = sent[j].time - sent[i].time
          \/ sent[j].time \div Width > sent[i].time \div Width
     /\ \A i \in DOMAIN sent : sent[i].track # NoTrack
=============================================================================
