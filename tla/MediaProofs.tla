------------------------------ MODULE MediaProofs ------------------------------
(***************************************************************************)
(* Footage on its way, for streams, recordings and archives of any length: *)
(* what RTMP ingest tells the manager and sends, which units a pulled RTSP *)
(* track and a GB/T 28181 session yield, what the recorder's files hold    *)
(* and that no row is left open, the fragments and FLV timestamps viewers  *)
(* get, and that an archive reads as it was written.  One invariant per    *)
(* part, of its states alone; the parts of MCMedia share no variable.      *)
(***************************************************************************)
EXTENDS MCMedia, DataFacts, TLAPS

-----------------------------------------------------------------------------
(* RTMP ingest.                                                             *)
Connection ==
  [sps : Nat, audio : Nat, video : {NoTrack, 1}, audioTrack : {NoTrack, 2}, published : BOOLEAN, closed : BOOLEAN]
Announcement == [sps : Nat, audio : Nat, taken : BOOLEAN]
SentUnit == [track : {1, 2}, key : BOOLEAN, sps : Nat, audio : Nat, pts : Nat, time : Nat]

IngestTyping ==
  /\ clockR \in Nat /\ messages \in Nat /\ stopped \in Nat
  /\ conn \in Connection /\ announced \in Seq(Announcement) /\ sent \in Seq(SentUnit)

(* At most one publish was taken; as long as none was, nothing is published *)
(* and nothing is sent.                                                     *)
PublishedOnce ==
  /\ \A m, n \in DOMAIN announced : announced[m].taken /\ announced[n].taken => m = n
  /\ conn.published <=> \E n \in DOMAIN announced : announced[n].taken
  /\ stopped = IF conn.closed /\ conn.published THEN 1 ELSE 0
  /\ ~conn.published => sent = <<>>

(* What was announced is in force or was, and configurations only get newer.*)
ConfigsGrow ==
  /\ conn.sps <= messages
  /\ conn.published => conn.sps # NoConfig
  /\ conn.audioTrack = 2 => conn.audio # NoConfig
  /\ \A n \in DOMAIN announced :
       /\ announced[n].sps <= conn.sps
       /\ announced[n].taken /\ conn.audioTrack = 2 => announced[n].audio # NoConfig

(* A unit is in the track it is for, and carries what is due.               *)
UnitsFit ==
  \A i \in DOMAIN sent : \A n \in DOMAIN announced : announced[n].taken =>
    /\ sent[i].track = 2 => announced[n].audio # NoConfig
    /\ sent[i].track = 1 /\ sent[i].key => sent[i].sps >= announced[n].sps

(* Times do not go back, and a timestamp is its time, narrowed.             *)
TimesGrow ==
  /\ \A i \in DOMAIN sent : sent[i].time <= clockR /\ sent[i].pts = sent[i].time % Width
  /\ \A i, j \in DOMAIN sent : i < j => sent[i].time <= sent[j].time

IngestInv == IngestTyping /\ PublishedOnce /\ ConfigsGrow /\ UnitsFit /\ TimesGrow

LEMMA IngestInitInv == IngestInit => IngestInv
<1> SUFFICES ASSUME IngestInit PROVE IngestInv
  OBVIOUS
<1>1. Width - 2 \in Nat
  BY IngestAssumption
<1>2. IngestTyping
  BY <1>1 DEF IngestInit, IngestTyping, Connection, NoConfig, NoTrack
<1> QED
  BY <1>2 DEF IngestInit, IngestInv, PublishedOnce, ConfigsGrow, UnitsFit, TimesGrow, NoConfig, NoTrack

(* What has been sent and announced, one by one.                            *)
LEMMA SentMembers == ASSUME IngestInv PROVE
  /\ \A i \in DOMAIN sent :
       sent[i] \in SentUnit /\ sent[i].time \in Nat /\ sent[i].sps \in Nat /\ sent[i].track \in {1, 2}
  /\ \A n \in DOMAIN announced : announced[n] \in Announcement /\ announced[n].sps \in Nat
<1>1. sent \in Seq(SentUnit) /\ announced \in Seq(Announcement)
  BY DEF IngestInv, IngestTyping
<1>2. (\A i \in DOMAIN sent : sent[i] \in SentUnit) /\ \A n \in DOMAIN announced : announced[n] \in Announcement
  BY <1>1
<1>3. /\ \A u \in SentUnit : u.time \in Nat /\ u.sps \in Nat /\ u.track \in {1, 2}
      /\ \A a \in Announcement : a.sps \in Nat
  BY DEF SentUnit, Announcement
<1> QED
  BY <1>2, <1>3

(* A message of any kind moves the clock on.                                *)
LEMMA ClockMoves == ASSUME IngestInv, MessageArrives PROVE
  clockR' \in Nat /\ clockR <= clockR' /\ messages' = messages + 1 /\ messages' \in Nat /\ ~conn.closed
<1>1. PICK d \in 0..MaxJump : clockR' = clockR + d
  BY DEF MessageArrives
<1> QED
  BY <1>1, IngestAssumption DEF MessageArrives, IngestInv, IngestTyping

(* A unit with the time of its message, and what is due, may be sent.       *)
LEMMA UnitSent ==
  ASSUME IngestInv, MessageArrives, NEW u \in SentUnit, sent' = Append(sent, u),
         u.time = clockR', u.pts = clockR' % Width
  PROVE  /\ sent' \in Seq(SentUnit)
         /\ DOMAIN sent' = DOMAIN sent \cup {Len(sent) + 1} /\ sent'[Len(sent) + 1] = u
         /\ \A i \in DOMAIN sent : sent'[i] = sent[i]
         /\ TimesGrow'
<1>1. sent \in Seq(SentUnit) /\ Len(sent) \in Nat /\ DOMAIN sent = 1..Len(sent)
  BY DEF IngestInv, IngestTyping
<1>2. /\ sent' \in Seq(SentUnit)
      /\ DOMAIN sent' = DOMAIN sent \cup {Len(sent) + 1} /\ sent'[Len(sent) + 1] = u
      /\ \A i \in DOMAIN sent : sent'[i] = sent[i]
  BY <1>1
<1>3. clockR' \in Nat /\ clockR \in Nat /\ clockR <= clockR'
  BY ClockMoves DEF IngestInv, IngestTyping
<1>4. \A i \in DOMAIN sent : sent[i].time \in Nat /\ sent[i].time <= clockR /\ sent[i].pts = sent[i].time % Width
  BY SentMembers DEF IngestInv, TimesGrow
<1>5. \A i \in DOMAIN sent' : sent'[i].time <= clockR' /\ sent'[i].pts = sent'[i].time % Width
  BY <1>2, <1>3, <1>4
<1>6. ASSUME NEW i \in DOMAIN sent', NEW j \in DOMAIN sent', i < j PROVE sent'[i].time <= sent'[j].time
  <2>1. i \in DOMAIN sent
    BY <1>1, <1>2, <1>6
  <2>2. CASE j \in DOMAIN sent
    BY <1>2, <1>6, <2>1, <2>2 DEF IngestInv, TimesGrow
  <2>3. CASE j = Len(sent) + 1
    BY <1>2, <1>3, <1>4, <2>1, <2>3
  <2> QED
    BY <1>2, <2>2, <2>3
<1> QED
  BY <1>2, <1>5, <1>6 DEF TimesGrow

(* No unit: times stay as they are.                                         *)
LEMMA NoUnitSent == ASSUME IngestInv, clockR' \in Nat, clockR <= clockR', UNCHANGED sent PROVE TimesGrow'
<1>1. \A i \in DOMAIN sent : sent[i].time \in Nat /\ sent[i].time <= clockR
  BY SentMembers DEF IngestInv, TimesGrow
<1>2. clockR \in Nat
  BY DEF IngestInv, IngestTyping
<1>3. \A i \in DOMAIN sent' : sent'[i].time <= clockR'
  BY <1>1, <1>2
<1> QED
  BY <1>3 DEF IngestInv, TimesGrow

LEMMA HeaderKeeps == IngestInv /\ (VideoHeader \/ AudioHeader) => IngestInv'
<1> SUFFICES ASSUME IngestInv, VideoHeader \/ AudioHeader PROVE IngestInv'
  OBVIOUS
<1>0. MessageArrives /\ UNCHANGED <<announced, stopped, sent>>
  BY DEF VideoHeader, AudioHeader
<1>1. clockR' \in Nat /\ clockR <= clockR' /\ messages' = messages + 1 /\ messages' \in Nat /\ messages \in Nat
  BY <1>0, ClockMoves DEF IngestInv, IngestTyping
<1>2. /\ conn' \in Connection /\ conn'.published = conn.published /\ conn'.closed = conn.closed
      /\ conn'.audioTrack = conn.audioTrack
      /\ conn'.sps \in {conn.sps, messages + 1} /\ conn'.audio \in {conn.audio, messages + 1}
  BY <1>1 DEF VideoHeader, AudioHeader, IngestInv, IngestTyping, Connection
<1>3. conn.sps \in Nat /\ conn.audio \in Nat /\ announced \in Seq(Announcement)
  BY DEF IngestInv, IngestTyping, Connection
<1>4. IngestTyping'
  BY <1>0, <1>1, <1>2 DEF IngestInv, IngestTyping
<1>5. PublishedOnce'
  BY <1>0, <1>2 DEF IngestInv, PublishedOnce
<1>6. ConfigsGrow'
  <2>1. conn.sps <= conn'.sps /\ conn'.sps <= messages' /\ (conn.audio # NoConfig => conn'.audio # NoConfig)
    BY <1>1, <1>2, <1>3 DEF IngestInv, ConfigsGrow, NoConfig
  <2>2. \A n \in DOMAIN announced : announced[n].sps \in Nat /\ announced[n].sps <= conn.sps
    BY SentMembers DEF IngestInv, ConfigsGrow
  <2>3. conn'.sps \in Nat
    BY <1>1, <1>2, <1>3
  <2>4. \A n \in DOMAIN announced : announced[n].sps <= conn'.sps
    BY <1>3, <2>1, <2>2, <2>3
  <2>5. conn'.published => conn'.sps # NoConfig
    BY <1>2, <1>3, <2>1, <2>3 DEF IngestInv, ConfigsGrow, NoConfig
  <2> QED
    BY <1>0, <1>2, <2>1, <2>4, <2>5 DEF IngestInv, ConfigsGrow
<1>7. UnitsFit'
  BY <1>0 DEF IngestInv, UnitsFit
<1>8. TimesGrow'
  BY <1>0, <1>1, NoUnitSent
<1> QED
  BY <1>4, <1>5, <1>6, <1>7, <1>8 DEF IngestInv

(* The connection's publish, at a frame that asks.                          *)
LEMMA PublishKeeps ==
  ASSUME IngestInv, NEW takes \in BOOLEAN, ~conn.published, conn.sps # NoConfig, conn' = publish(conn, takes),
         announced' = Append(announced, [sps |-> conn.sps, audio |-> conn.audio, taken |-> takes]),
         messages' = messages + 1, UNCHANGED stopped, ~conn.closed
  PROVE  /\ conn' \in Connection /\ announced' \in Seq(Announcement)
         /\ conn'.published = takes
         /\ \A m, n \in DOMAIN announced' : announced'[m].taken /\ announced'[n].taken => m = n
         /\ conn'.published <=> \E n \in DOMAIN announced' : announced'[n].taken
         /\ stopped' = IF conn'.closed /\ conn'.published THEN 1 ELSE 0
         /\ ConfigsGrow'
         /\ conn'.sps = conn.sps /\ conn'.audio = conn.audio
<1> PICK a : a = [sps |-> conn.sps, audio |-> conn.audio, taken |-> takes]
  OBVIOUS
<1>1. conn \in Connection /\ conn.sps \in Nat /\ conn.audio \in Nat /\ messages \in Nat
  BY DEF IngestInv, IngestTyping, Connection
<1>2. a \in Announcement /\ a.taken = takes /\ a.sps = conn.sps /\ a.audio = conn.audio
  BY <1>1 DEF Announcement
<1>3. /\ conn' \in Connection /\ conn'.published = takes /\ conn'.closed = conn.closed
      /\ conn'.sps = conn.sps /\ conn'.audio = conn.audio
      /\ conn'.audioTrack = IF conn.audio # NoConfig THEN 2 ELSE conn.audioTrack
  BY <1>1 DEF publish, Connection
<1>4. announced \in Seq(Announcement) /\ Len(announced) \in Nat
  BY DEF IngestInv, IngestTyping
<1>5. /\ announced' \in Seq(Announcement)
      /\ DOMAIN announced' = DOMAIN announced \cup {Len(announced) + 1}
      /\ announced'[Len(announced) + 1] = a
      /\ Len(announced) + 1 \notin DOMAIN announced
      /\ \A n \in DOMAIN announced : announced'[n] = announced[n]
  BY <1>2, <1>4
<1>6. \A n \in DOMAIN announced : ~announced[n].taken
  BY DEF IngestInv, PublishedOnce
<1>7. \A n \in DOMAIN announced' : announced'[n].taken => n = Len(announced) + 1 /\ takes
  BY <1>2, <1>5, <1>6
<1>8. conn'.published <=> \E n \in DOMAIN announced' : announced'[n].taken
  BY <1>2, <1>3, <1>5, <1>7
<1>9. ConfigsGrow'
  <2>1. conn'.sps <= messages'
    BY <1>1, <1>3 DEF IngestInv, ConfigsGrow
  <2>2. conn'.audioTrack = 2 => conn'.audio # NoConfig
    BY <1>3 DEF IngestInv, ConfigsGrow, NoTrack
  <2>3. ASSUME NEW n \in DOMAIN announced'
        PROVE  /\ announced'[n].sps <= conn'.sps
               /\ announced'[n].taken /\ conn'.audioTrack = 2 => announced'[n].audio # NoConfig
    <3>1. CASE n \in DOMAIN announced
      BY <1>3, <1>5, <1>6, <3>1 DEF IngestInv, ConfigsGrow
    <3>2. CASE n = Len(announced) + 1
      BY <1>1, <1>2, <1>3, <1>5, <2>2, <3>2
    <3> QED
      BY <1>5, <3>1, <3>2
  <2> QED
    BY <1>3, <2>1, <2>2, <2>3 DEF ConfigsGrow
<1> QED
  BY <1>3, <1>5, <1>7, <1>8, <1>9 DEF IngestInv, PublishedOnce

(* A frame after the publish, or one that is dropped, leaves it alone.      *)
LEMMA UnpublishedKeeps ==
  ASSUME IngestInv, MessageArrives, UNCHANGED <<conn, announced, stopped>>
  PROVE  ConfigsGrow'
<1>1. messages' = messages + 1 /\ messages \in Nat /\ conn.sps \in Nat
  BY DEF MessageArrives, IngestInv, IngestTyping, Connection
<1>2. conn'.sps <= messages'
  BY <1>1 DEF IngestInv, ConfigsGrow
<1> QED
  BY <1>2 DEF IngestInv, ConfigsGrow

LEMMA VideoFrameKeeps ==
  ASSUME IngestInv, NEW key \in BOOLEAN, NEW takes \in BOOLEAN, VideoFrame(key, takes)
  PROVE  IngestInv'
<1> DEFINE asks == ~conn.published /\ conn.sps # NoConfig
<1>0. MessageArrives /\ UNCHANGED stopped
  BY DEF VideoFrame
<1>1. clockR' \in Nat /\ clockR <= clockR' /\ messages' = messages + 1 /\ messages' \in Nat /\ ~conn.closed
  BY <1>0, ClockMoves
(* What the publish, if any, leaves.                                        *)
<1>2. /\ conn' \in Connection /\ announced' \in Seq(Announcement)
      /\ \A m, n \in DOMAIN announced' : announced'[m].taken /\ announced'[n].taken => m = n
      /\ conn'.published <=> \E n \in DOMAIN announced' : announced'[n].taken
      /\ stopped' = IF conn'.closed /\ conn'.published THEN 1 ELSE 0
      /\ ConfigsGrow'
      /\ conn'.sps = conn.sps
      /\ asks \/ UNCHANGED <<conn, announced>>
  <2>1. CASE asks
    <3>1. conn' = publish(conn, takes) /\ announced' = Append(announced, [sps |-> conn.sps, audio |-> conn.audio, taken |-> takes])
      BY <2>1 DEF VideoFrame
    <3> QED
      BY <1>0, <1>1, <2>1, <3>1, PublishKeeps
  <2>2. CASE ~asks
    <3>1. UNCHANGED <<conn, announced>>
      BY <2>2 DEF VideoFrame
    <3> QED
      BY <1>0, <3>1, UnpublishedKeeps DEF IngestInv, IngestTyping, PublishedOnce
  <2> QED
    BY <2>1, <2>2
<1>3. asks => sent = <<>>
  BY DEF IngestInv, PublishedOnce
<1>4. CASE conn'.published
  <2> PICK u : u = VideoUnit(key)
    OBVIOUS
  <2>1. sent' = Append(sent, u)
    BY <1>4 DEF VideoFrame
  <2>2. u \in SentUnit /\ u.time = clockR' /\ u.pts = clockR' % Width /\ u.track = 1 /\ (u.key => u.sps = conn.sps)
    <3>1. conn.sps \in Nat /\ clockR' % Width \in Nat
      BY <1>1, IngestAssumption DEF IngestInv, IngestTyping, Connection
    <3> QED
      BY <1>1, <3>1 DEF VideoUnit, SentUnit, NoConfig
  <2>3. /\ sent' \in Seq(SentUnit)
        /\ DOMAIN sent' = DOMAIN sent \cup {Len(sent) + 1} /\ sent'[Len(sent) + 1] = u
        /\ \A i \in DOMAIN sent : sent'[i] = sent[i]
        /\ TimesGrow'
    BY <1>0, <2>1, <2>2, UnitSent
  <2>4. ASSUME NEW i \in DOMAIN sent', NEW n \in DOMAIN announced', announced'[n].taken
        PROVE  /\ sent'[i].track = 2 => announced'[n].audio # NoConfig
               /\ sent'[i].track = 1 /\ sent'[i].key => sent'[i].sps >= announced'[n].sps
    <3>1. CASE i \in DOMAIN sent
      <4>1. UNCHANGED announced
        BY <1>2, <1>3, <3>1
      <4> QED
        BY <2>3, <2>4, <3>1, <4>1 DEF IngestInv, UnitsFit
    <3>2. CASE i = Len(sent) + 1
      <4>1. announced'[n].sps <= conn.sps
        BY <1>2 DEF ConfigsGrow
      <4>2. announced'[n].sps \in Nat /\ conn.sps \in Nat
        <5>1. announced'[n] \in Announcement
          BY <1>2
        <5> QED
          BY <5>1 DEF Announcement, IngestInv, IngestTyping, Connection
      <4> QED
        BY <2>2, <2>3, <3>2, <4>1, <4>2
    <3> QED
      BY <2>3, <3>1, <3>2
  <2>5. UnitsFit'
    BY <2>4 DEF UnitsFit
  <2> QED
    BY <1>0, <1>1, <1>2, <1>4, <2>3, <2>5 DEF IngestInv, IngestTyping, PublishedOnce
<1>5. CASE ~conn'.published
  <2>1. UNCHANGED sent
    BY <1>5 DEF VideoFrame
  <2>2. sent = <<>>
    BY <1>2, <1>3, <1>5 DEF IngestInv, PublishedOnce
  <2>3. TimesGrow'
    BY <1>1, <2>1, NoUnitSent
  <2>4. UnitsFit'
    BY <2>1, <2>2 DEF UnitsFit
  <2> QED
    BY <1>0, <1>1, <1>2, <1>5, <2>1, <2>2, <2>3, <2>4 DEF IngestInv, IngestTyping, PublishedOnce
<1> QED
  BY <1>4, <1>5

LEMMA AudioFrameKeeps == ASSUME IngestInv, AudioFrame PROVE IngestInv'
<1>0. MessageArrives /\ UNCHANGED <<conn, announced, stopped>>
  BY DEF AudioFrame
<1>1. clockR' \in Nat /\ clockR <= clockR' /\ messages' \in Nat
  BY <1>0, ClockMoves
<1>2. ConfigsGrow'
  BY <1>0, UnpublishedKeeps
<1>3. CASE UNCHANGED sent
  <2>1. TimesGrow'
    BY <1>1, <1>3, NoUnitSent
  <2> QED
    BY <1>0, <1>1, <1>2, <1>3, <2>1 DEF IngestInv, IngestTyping, PublishedOnce, UnitsFit
<1>4. CASE sent' # sent
  <2> PICK u : u = AudioUnit
    OBVIOUS
  <2>1. sent' = Append(sent, u) /\ conn.published /\ conn.audioTrack # NoTrack
    BY <1>4 DEF AudioFrame
  <2>2. conn.audioTrack = 2 /\ conn.audio \in Nat
    BY <2>1 DEF IngestInv, IngestTyping, Connection
  <2>3. u \in SentUnit /\ u.time = clockR' /\ u.pts = clockR' % Width /\ u.track = 2
    <3>1. clockR' % Width \in Nat
      BY <1>1, IngestAssumption
    <3> QED
      BY <1>1, <2>2, <3>1 DEF AudioUnit, SentUnit, NoConfig
  <2>4. /\ sent' \in Seq(SentUnit)
        /\ DOMAIN sent' = DOMAIN sent \cup {Len(sent) + 1} /\ sent'[Len(sent) + 1] = u
        /\ \A i \in DOMAIN sent : sent'[i] = sent[i]
        /\ TimesGrow'
    BY <1>0, <2>1, <2>3, UnitSent
  <2>5. \A n \in DOMAIN announced : announced[n].taken => announced[n].audio # NoConfig
    BY <2>2 DEF IngestInv, ConfigsGrow
  <2>6. UnitsFit'
    BY <1>0, <2>3, <2>4, <2>5 DEF IngestInv, UnitsFit
  <2> QED
    BY <1>0, <1>1, <1>2, <2>1, <2>4, <2>6 DEF IngestInv, IngestTyping, PublishedOnce
<1> QED
  BY <1>3, <1>4

LEMMA OnCloseKeeps == ASSUME IngestInv, OnClose PROVE IngestInv'
<1>1. conn \in Connection /\ conn.closed = FALSE /\ conn.published \in BOOLEAN
  BY DEF OnClose, IngestInv, IngestTyping, Connection
<1>2. /\ conn' \in Connection /\ conn'.closed /\ conn'.published = conn.published /\ conn'.sps = conn.sps
      /\ conn'.audio = conn.audio /\ conn'.audioTrack = conn.audioTrack
  BY <1>1 DEF OnClose, Connection
<1>3. UNCHANGED <<clockR, messages, announced, sent>> /\ stopped = 0 /\ stopped' = IF conn.published THEN 1 ELSE 0
  BY <1>1 DEF OnClose, IngestInv, PublishedOnce
<1> QED
  BY <1>2, <1>3 DEF IngestInv, IngestTyping, PublishedOnce, ConfigsGrow, UnitsFit, TimesGrow

LEMMA IngestNextKeeps == ASSUME IngestInv, [IngestNext]_ingestVars PROVE IngestInv'
<1>1. CASE VideoHeader \/ AudioHeader
  BY <1>1, HeaderKeeps
<1>2. CASE AudioFrame
  BY <1>2, AudioFrameKeeps
<1>3. CASE OnClose
  BY <1>3, OnCloseKeeps
<1>4. ASSUME NEW key \in BOOLEAN, NEW takes \in BOOLEAN, VideoFrame(key, takes) PROVE IngestInv'
  BY <1>4, VideoFrameKeeps
<1>5. CASE UNCHANGED ingestVars
  BY <1>5 DEF ingestVars, IngestInv, IngestTyping, PublishedOnce, ConfigsGrow, UnitsFit, TimesGrow
<1> QED
  BY <1>1, <1>2, <1>3, <1>4, <1>5 DEF IngestNext

(* Times as far apart as their timestamps, unless a turn is between them.   *)
LEMMA Narrowed ==
  ASSUME NEW s \in Nat, NEW t \in Nat, s <= t, NEW W \in Nat \ {0}
  PROVE  (t % W) - (s % W) = t - s \/ t \div W > s \div W
<1>1. s = W * (s \div W) + (s % W) /\ t = W * (t \div W) + (t % W)
  OBVIOUS
<1>2. s \div W \in Nat /\ t \div W \in Nat /\ s % W \in 0..W - 1 /\ t % W \in 0..W - 1
  OBVIOUS
<1>3. s \div W <= t \div W
  <2> SUFFICES ASSUME s \div W >= (t \div W) + 1 PROVE FALSE
    BY <1>2
  <2>1. W * (s \div W) >= W * (t \div W) + W
    BY <1>2
  <2> QED
    BY <1>1, <1>2, <2>1
<1>4. CASE s \div W = t \div W
  BY <1>1, <1>2, <1>4
<1> QED
  BY <1>2, <1>3, <1>4

LEMMA IngestInvImplies == IngestInv => IngestTypeOK /\ IngestSound
<1> SUFFICES ASSUME IngestInv PROVE IngestTypeOK /\ IngestSound
  OBVIOUS
<1> DEFINE taken == {n \in DOMAIN announced : announced[n].taken}
<1>1. IngestTypeOK
  BY DEF IngestInv, IngestTyping, Connection, ConfigsGrow, IngestTypeOK
<1>2. \A m, n \in taken : m = n
  BY DEF IngestInv, PublishedOnce
<1>3. stopped = IF conn.closed /\ taken # {} THEN 1 ELSE 0
  BY DEF IngestInv, PublishedOnce
<1>4. ASSUME NEW i \in DOMAIN sent
      PROVE  \E n \in taken : /\ sent[i].track = 2 => announced[n].audio # NoConfig
                              /\ sent[i].track = 1 /\ sent[i].key => sent[i].sps >= announced[n].sps
  <2>1. conn.published
    BY DEF IngestInv, PublishedOnce
  <2>2. PICK n \in DOMAIN announced : announced[n].taken
    BY <2>1 DEF IngestInv, PublishedOnce
  <2> QED
    BY <2>2 DEF IngestInv, UnitsFit
<1>5. ASSUME NEW i \in DOMAIN sent, NEW j \in DOMAIN sent, i < j
      PROVE  \/ sent[j].pts - sent[i].pts = sent[j].time - sent[i].time
             \/ sent[j].time \div Width > sent[i].time \div Width
  <2>1. sent[i].time \in Nat /\ sent[j].time \in Nat
    BY SentMembers
  <2>2. /\ sent[i].time <= sent[j].time
        /\ sent[i].pts = sent[i].time % Width /\ sent[j].pts = sent[j].time % Width
    BY <1>5 DEF IngestInv, TimesGrow
  <2>3. Width \in Nat \ {0}
    BY IngestAssumption
  <2> QED
    BY <2>1, <2>2, <2>3, Narrowed
<1>6. \A i \in DOMAIN sent : sent[i].track # NoTrack
  BY SentMembers DEF NoTrack
<1> QED
  BY <1>1, <1>2, <1>3, <1>4, <1>5, <1>6 DEF IngestSound

-----------------------------------------------------------------------------
(* The RTSP pull.                                                           *)
Packet == [au : Nat, part : Nat, of : Nat]

(* What a packet says, with another part.                                   *)
Part(p, i) == [p EXCEPT !.part = i]

LEMMA PartIs ==
  ASSUME NEW p \in Packet, NEW i \in Nat
  PROVE  Part(p, i) \in Packet /\ Part(p, i).au = p.au /\ Part(p, i).part = i /\ Part(p, i).of = p.of
  BY DEF Part, Packet

LEMMA SamePacket ==
  ASSUME NEW p \in Packet, NEW q \in Packet, p.au = q.au, p.part = q.part, p.of = q.of
  PROVE  p = q
  BY DEF Packet

PullTyping ==
  /\ sentAU \in Nat /\ keys \subseteq 1..sentAU /\ locked \in BOOLEAN
  /\ coming \in Seq(Packet) /\ partial \in Seq(Packet) /\ came \subseteq Packet
  /\ pulled \in Seq(Nat)

(* What is coming is the rest of the last unit, and has not come.           *)
RestIsComing ==
  /\ \A i \in DOMAIN coming :
       /\ coming[i].au = sentAU /\ coming[i].of = coming[1].of
       /\ coming[i].part = coming[1].part + i - 1
  /\ coming # <<>> => coming[1].part >= 1 /\ coming[1].part + Len(coming) - 1 = coming[1].of /\ sentAU >= 1
  /\ \A p \in came :
       /\ p.au \in 1..sentAU /\ p.part \in 1..p.of
       /\ coming # <<>> /\ p.au = sentAU => p.of = coming[1].of /\ p.part < coming[1].part
  /\ \A p, q \in came : p.au = q.au => p.of = q.of

(* The decoder holds the first packets of a unit, which came.               *)
FragmentsCame ==
  \A i \in DOMAIN partial :
    partial[i] \in came /\ partial[i].part = i /\ i < partial[i].of /\ partial[i].au = partial[1].au

(* The time is known since a keyframe's first packet came.                  *)
LockedByKey == locked <=> \E p \in came : p.au \in keys /\ p.part = 1

(* The decoder holds all of the unit under way, if nothing of it was lost   *)
(* and the time was known.                                                  *)
FragmentsKept ==
  coming # <<>> /\ coming[1].part > 1 /\ locked
  /\ (\A i \in 1..coming[1].part - 1 : Part(coming[1], i) \in came)
    => Len(partial) = coming[1].part - 1 /\ partial[1].au = sentAU

WholeUnits == {a \in 1..sentAU : \E p \in came : p.au = a /\ \A i \in 1..p.of : Part(p, i) \in came}
Begun == {a \in WholeUnits : \E k \in keys : k <= a /\ \E p \in came : p.au = k /\ p.part = 1}

PulledRight ==
  /\ \A a \in Nat : a \in Begun <=> \E i \in DOMAIN pulled : pulled[i] = a
  /\ \A i, j \in DOMAIN pulled : i < j => pulled[i] < pulled[j]

PullInv == PullTyping /\ RestIsComing /\ FragmentsCame /\ LockedByKey /\ FragmentsKept /\ PulledRight

LEMMA PullInitInv == PullInit => PullInv
<1> SUFFICES ASSUME PullInit PROVE PullInv
  OBVIOUS
<1>1. PullTyping /\ FragmentsCame
  <2>1. <<>> \in Seq(Packet) /\ <<>> \in Seq(Nat) /\ DOMAIN <<>> = {}
    OBVIOUS
  <2>2. FragmentsCame
    BY <2>1 DEF PullInit, FragmentsCame
  <2> QED
    BY <2>1, <2>2 DEF PullInit, PullTyping
<1>3. RestIsComing /\ LockedByKey /\ FragmentsKept
  BY DEF PullInit, RestIsComing, LockedByKey, FragmentsKept
<1>2. PulledRight
  BY DEF PullInit, PulledRight, Begun, WholeUnits
<1> QED
  BY <1>1, <1>2, <1>3 DEF PullInv

LEMMA PullInvImplies == PullInv => PullTypeOK /\ PulledInOrder
<1> SUFFICES ASSUME PullInv PROVE PullTypeOK /\ PulledInOrder
  OBVIOUS
<1>1. pulled \in Seq(Nat) /\ \A i \in DOMAIN pulled : pulled[i] \in Nat
  BY DEF PullInv, PullTyping
<1>2. ToSet(pulled) = Begun
  <2>1. Begun \subseteq Nat
    BY DEF Begun, WholeUnits
  <2> QED
    BY <1>1, <2>1 DEF ToSet, PullInv, PulledRight
<1>3. PulledInOrder
  BY <1>2 DEF PulledInOrder, PullInv, PulledRight, Begun, WholeUnits, Part
<1>4. ToSet(pulled) \subseteq 1..sentAU
  BY <1>2 DEF Begun, WholeUnits
<1>5. \A i \in DOMAIN partial :
        partial[i].part = i /\ i < partial[i].of /\ partial[i].au = partial[1].au
  BY DEF PullInv, FragmentsCame
<1> QED
  BY <1>3, <1>4, <1>5 DEF PullTypeOK

LEMMA SendAUKeeps == ASSUME PullInv, SendAU PROVE PullInv'
<1>1. PICK of \in Sizes : coming' = [i \in 1..of |-> [au |-> sentAU + 1, part |-> i, of |-> of]]
  BY DEF SendAU
<1>2. of \in Nat /\ of >= 1
  BY RtspPullAssumption
<1>3. /\ coming = <<>> /\ sentAU' = sentAU + 1 /\ keys' \in {keys, keys \cup {sentAU + 1}}
      /\ UNCHANGED <<locked, partial, pulled, came, away>>
  BY DEF SendAU
<1>4. sentAU \in Nat /\ keys \subseteq 1..sentAU /\ came \subseteq Packet
  BY DEF PullInv, PullTyping
<1>5. /\ coming' \in Seq(Packet) /\ Len(coming') = of /\ DOMAIN coming' = 1..of /\ coming' # <<>>
      /\ \A i \in 1..of : coming'[i] = [au |-> sentAU + 1, part |-> i, of |-> of]
  <2>1. \A i \in 1..of : [au |-> sentAU + 1, part |-> i, of |-> of] \in Packet
    BY <1>2, <1>4 DEF Packet
  <2> QED
    BY <1>1, <1>2, <2>1
<1>6. \A i \in 1..of : coming'[i].au = sentAU + 1 /\ coming'[i].part = i /\ coming'[i].of = of
  BY <1>5
<1>7. \A p \in came : p.au \in 1..sentAU /\ p.part \in 1..p.of
  BY DEF PullInv, RestIsComing
<1>8. PullTyping'
  BY <1>3, <1>4, <1>5 DEF PullInv, PullTyping
<1>9. RestIsComing'
  <2>1. \A p \in came : p.au \in 1..sentAU' /\ p.au # sentAU'
    BY <1>3, <1>4, <1>7
  <2>2. \A p, q \in came : p.au = q.au => p.of = q.of
    BY DEF PullInv, RestIsComing
  <2>3. \A i \in DOMAIN coming' :
           /\ coming'[i].au = sentAU' /\ coming'[i].of = coming'[1].of
           /\ coming'[i].part = coming'[1].part + i - 1
    BY <1>2, <1>3, <1>5, <1>6
  <2>4. coming'[1].part >= 1 /\ coming'[1].part + Len(coming') - 1 = coming'[1].of /\ sentAU' >= 1
    BY <1>2, <1>3, <1>4, <1>5, <1>6
  <2> QED
    BY <1>3, <1>7, <2>1, <2>2, <2>3, <2>4 DEF RestIsComing
<1>10. FragmentsCame'
  BY <1>3 DEF PullInv, FragmentsCame
<1>11. LockedByKey'
  BY <1>3, <1>4, <1>7 DEF PullInv, LockedByKey
<1>12. FragmentsKept'
  BY <1>2, <1>6 DEF FragmentsKept
<1>13. PulledRight'
  <2>1. WholeUnits' = WholeUnits
    BY <1>3, <1>4, <1>7 DEF WholeUnits
  <2>2. Begun' = Begun
    <3>1. \A k \in keys' : (\E p \in came : p.au = k) => k \in keys
      BY <1>3, <1>4, <1>7
    <3> QED
      BY <1>3, <2>1, <3>1 DEF Begun
  <2> QED
    BY <1>3, <2>2 DEF PullInv, PulledRight
<1> QED
  BY <1>8, <1>9, <1>10, <1>11, <1>12, <1>13 DEF PullInv

LEMMA MaybeEmpty ==
  ASSUME NEW F, NEW t \in Seq(F)
  PROVE  Len(t) \in Nat /\ (t = <<>> <=> Len(t) = 0) /\ (t # <<>> => 1 \in DOMAIN t)
  OBVIOUS

(* The next packet, and what comes after it.                                *)
LEMMA NextPacket ==
  ASSUME PullInv, coming # <<>>, NEW p, p = Head(coming)
  PROVE  /\ p = coming[1] /\ p \in Packet /\ p.au = sentAU /\ p.part \in 1..p.of /\ p \notin came
         /\ sentAU \in Nat /\ sentAU >= 1 /\ p.part \in Nat /\ p.of \in Nat
         /\ Tail(coming) \in Seq(Packet)
         /\ \A i \in DOMAIN Tail(coming) :
              /\ Tail(coming)[i].au = sentAU /\ Tail(coming)[i].of = p.of
              /\ Tail(coming)[i].part = p.part + i
         /\ Tail(coming) = <<>> <=> p.part = p.of
         /\ p.part + Len(Tail(coming)) = p.of
         /\ Tail(coming) # <<>> => 1 \in DOMAIN Tail(coming)
<1>1. coming \in Seq(Packet) /\ Len(coming) \in Nat \ {0} /\ p = coming[1] /\ 1 \in DOMAIN coming
  BY DEF PullInv, PullTyping
<1>2. p \in Packet /\ p.part \in Nat /\ p.of \in Nat
  <2>1. p \in Packet
    BY <1>1
  <2> QED
    BY <2>1 DEF Packet
<1>3. p.au = sentAU /\ sentAU \in Nat /\ sentAU >= 1
  BY <1>1 DEF PullInv, PullTyping, RestIsComing
<1>4. p.part >= 1 /\ p.part + Len(coming) - 1 = p.of
  BY <1>1 DEF PullInv, RestIsComing
<1>5. p \notin came
  BY <1>1, <1>2, <1>3 DEF PullInv, RestIsComing
<1>6. /\ Tail(coming) \in Seq(Packet) /\ Len(Tail(coming)) = Len(coming) - 1
      /\ \A i \in DOMAIN Tail(coming) : i \in Nat /\ i + 1 \in DOMAIN coming /\ Tail(coming)[i] = coming[i + 1]
  BY <1>1
<1>7. \A i \in DOMAIN Tail(coming) :
         /\ Tail(coming)[i].au = sentAU /\ Tail(coming)[i].of = p.of
         /\ Tail(coming)[i].part = p.part + i
  <2>1. \A i \in DOMAIN coming : coming[i].au = sentAU /\ coming[i].of = p.of /\ coming[i].part = p.part + i - 1
    BY <1>1 DEF PullInv, RestIsComing
  <2> SUFFICES ASSUME NEW i \in DOMAIN Tail(coming)
               PROVE  /\ Tail(coming)[i].au = sentAU /\ Tail(coming)[i].of = p.of
                      /\ Tail(coming)[i].part = p.part + i
    OBVIOUS
  <2>2. i \in Nat /\ i + 1 \in DOMAIN coming /\ Tail(coming)[i] = coming[i + 1]
    BY <1>6
  <2>3. Tail(coming)[i].au = sentAU /\ Tail(coming)[i].of = p.of /\ Tail(coming)[i].part = p.part + (i + 1) - 1
    BY <2>1, <2>2
  <2>4. p.part + (i + 1) - 1 = p.part + i
    BY <1>2, <2>2
  <2> QED
    BY <2>3, <2>4
<1>8. p.part \in 1..p.of /\ p.part + Len(Tail(coming)) = p.of
  BY <1>1, <1>2, <1>4, <1>6
<1>9. (Tail(coming) = <<>> <=> Len(Tail(coming)) = 0) /\ (Tail(coming) # <<>> => 1 \in DOMAIN Tail(coming))
  BY <1>6, MaybeEmpty
<1>10. Tail(coming) = <<>> <=> p.part = p.of
  BY <1>1, <1>2, <1>6, <1>8, <1>9
<1> QED
  BY <1>1, <1>2, <1>3, <1>5, <1>6, <1>7, <1>8, <1>9, <1>10

(* After it the rest of the unit is coming.                                 *)
LEMMA RestGoesOn ==
  ASSUME PullInv, coming # <<>>, coming' = Tail(coming), sentAU' = sentAU, NEW p, p = Head(coming)
  PROVE  /\ coming' # <<>> => coming'[1].of = p.of /\ coming'[1].part = p.part + 1
         /\ \A i \in DOMAIN coming' :
              /\ coming'[i].au = sentAU' /\ coming'[i].of = coming'[1].of
              /\ coming'[i].part = coming'[1].part + i - 1
         /\ coming' # <<>> =>
              coming'[1].part >= 1 /\ coming'[1].part + Len(coming') - 1 = coming'[1].of /\ sentAU' >= 1
<1> PICK m, of, rest : m = p.part /\ of = p.of /\ rest = coming'
  OBVIOUS
<1>1. /\ m \in 1..of /\ m \in Nat /\ of \in Nat /\ sentAU >= 1 /\ rest \in Seq(Packet)
      /\ \A i \in DOMAIN rest : rest[i].au = sentAU /\ rest[i].of = of /\ rest[i].part = m + i
      /\ m + Len(rest) = of
      /\ rest # <<>> => 1 \in DOMAIN rest
  BY NextPacket
<1>2. rest # <<>> => rest[1].of = of /\ rest[1].part = m + 1
  BY <1>1
<1>3. ASSUME NEW i \in DOMAIN rest
      PROVE  /\ rest[i].au = sentAU /\ rest[i].of = rest[1].of
             /\ rest[i].part = rest[1].part + i - 1
  <2>1. i \in Nat /\ rest # <<>>
    BY <1>1, <1>3
  <2>2. m + i = (m + 1) + i - 1
    BY <1>1, <2>1
  <2>3. rest[i].au = sentAU /\ rest[i].of = of /\ rest[i].part = m + i
    BY <1>1
  <2> QED
    BY <1>2, <2>1, <2>2, <2>3
<1>4. ASSUME rest # <<>> PROVE rest[1].part >= 1 /\ rest[1].part + Len(rest) - 1 = rest[1].of
  <2> PICK n : n = Len(rest)
    OBVIOUS
  <2>1. n \in Nat /\ m + n = of /\ m >= 1
    BY <1>1
  <2>2. m + 1 >= 1 /\ (m + 1) + n - 1 = of
    BY <1>1, <2>1
  <2> QED
    BY <1>2, <1>4, <2>2
<1> QED
  BY <1>1, <1>2, <1>3, <1>4

LEMMA LoseKeeps == ASSUME PullInv, Lose PROVE PullInv'
<1> PICK p : p = Head(coming)
  OBVIOUS
<1>1. coming # <<>> /\ coming' = Tail(coming) /\ UNCHANGED <<sentAU, keys, locked, partial, pulled, came>>
  BY DEF Lose
<1>2. /\ p = coming[1] /\ p \in Packet /\ p.au = sentAU /\ p.part \in 1..p.of /\ p \notin came
      /\ p.part \in Nat /\ p.of \in Nat /\ sentAU >= 1 /\ coming' \in Seq(Packet)
      /\ \A i \in DOMAIN coming' :
           /\ coming'[i].au = sentAU /\ coming'[i].of = p.of
           /\ coming'[i].part = p.part + i
      /\ p.part + Len(coming') = p.of
      /\ coming' # <<>> => 1 \in DOMAIN coming'
  BY <1>1, NextPacket
<1>3. PullTyping'
  BY <1>1, <1>2 DEF PullInv, PullTyping
<1>4. RestIsComing'
  <2>1. /\ coming' # <<>> => coming'[1].of = p.of /\ coming'[1].part = p.part + 1
        /\ \A i \in DOMAIN coming' :
             /\ coming'[i].au = sentAU' /\ coming'[i].of = coming'[1].of
             /\ coming'[i].part = coming'[1].part + i - 1
        /\ coming' # <<>> =>
             coming'[1].part >= 1 /\ coming'[1].part + Len(coming') - 1 = coming'[1].of /\ sentAU' >= 1
    BY <1>1, RestGoesOn
  <2>4. \A q \in came : q.part \in Nat /\ (q.au = sentAU => q.of = p.of /\ q.part < p.part)
    BY <1>1, <1>2 DEF PullInv, PullTyping, RestIsComing, Packet
  <2>5. ASSUME NEW q \in came
        PROVE  /\ q.au \in 1..sentAU /\ q.part \in 1..q.of
               /\ coming' # <<>> /\ q.au = sentAU => q.of = coming'[1].of /\ q.part < coming'[1].part
    <3>1. q.au \in 1..sentAU /\ q.part \in 1..q.of
      BY DEF PullInv, RestIsComing
    <3>2. q.au = sentAU => q.of = p.of /\ q.part < p.part + 1
      BY <1>2, <2>4
    <3> QED
      BY <2>1, <3>1, <3>2
  <2>6. \A q, o \in came : q.au = o.au => q.of = o.of
    BY DEF PullInv, RestIsComing
  <2> QED
    BY <1>1, <2>1, <2>5, <2>6 DEF RestIsComing
<1>5. FragmentsKept'
  <2>0. ASSUME coming' # <<>>
        PROVE  coming'[1].part > 1 /\ coming'[1].part = p.part + 1 /\ p.part \in 1..coming'[1].part - 1
    BY <1>2, <2>0
  <2> SUFFICES ASSUME coming' # <<>>, Part(coming'[1], p.part) \in came PROVE FALSE
    BY <1>1, <2>0 DEF FragmentsKept
  <2> PICK q : q = coming'[1]
    OBVIOUS
  <2>1. q \in Packet /\ q.au = sentAU /\ q.of = p.of
    BY <1>2
  <2>2. Part(q, p.part) = p
    <3>1. /\ Part(q, p.part) \in Packet /\ Part(q, p.part).au = q.au
          /\ Part(q, p.part).part = p.part /\ Part(q, p.part).of = q.of
      BY <1>2, <2>1, PartIs
    <3> QED
      BY <1>2, <2>1, <3>1, SamePacket
  <2> QED
    BY <1>2, <2>2
<1>6. FragmentsCame' /\ LockedByKey' /\ PulledRight'
  BY <1>1 DEF PullInv, FragmentsCame, LockedByKey, PulledRight, Begun, WholeUnits
<1> QED
  BY <1>3, <1>4, <1>5, <1>6 DEF PullInv

(* The decoder goes on with a packet if it has all of the unit before it,   *)
(* and what it then has are the packets up to this one.                     *)
LEMMA KeptIs ==
  ASSUME PullInv, Arrive, NEW p, p = Head(coming)
  PROVE  /\ Kept(p) # <<>> =>
              /\ Kept(p) \in Seq(Packet) /\ Len(Kept(p)) = p.part /\ Last(Kept(p)) = p
              /\ \A i \in 1..p.part : Kept(p)[i] = Part(p, i) /\ Part(p, i) \in came'
         /\ locked' /\ (\A i \in 1..p.part - 1 : Part(p, i) \in came) => Kept(p) # <<>>
<1>1. coming # <<>> /\ came' = came \cup {p} /\ locked' = (locked \/ PTSEqualsDTS(p))
  BY DEF Arrive, OnPacketRTP
<1>2. /\ p = coming[1] /\ p \in Packet /\ p.au = sentAU /\ p.part \in 1..p.of
      /\ p.part \in Nat /\ p.of \in Nat
  BY <1>1, NextPacket
<1>3. partial \in Seq(Packet) /\ Len(partial) \in Nat /\ DOMAIN partial = 1..Len(partial) /\ came \subseteq Packet
  BY DEF PullInv, PullTyping
<1>4. Part(p, p.part) = p
  BY <1>2, PartIs, SamePacket
<1>5. CASE p.part = 1
  <2>1. Kept(p) = <<p>>
    BY <1>5 DEF Kept
  <2>2. /\ <<p>> \in Seq(Packet) /\ Len(<<p>>) = 1 /\ <<p>>[1] = p /\ <<p>> # <<>>
        /\ Last(<<p>>) = p
    BY <1>2 DEF Last
  <2>3. \A i \in 1..1 : i = 1
    OBVIOUS
  <2> QED
    BY <1>1, <1>4, <1>5, <2>1, <2>2, <2>3
<1>6. CASE p.part # 1
  <2> PICK before : before = Part(p, p.part - 1)
    OBVIOUS
  <2>1. p.part - 1 \in Nat /\ p.part - 1 >= 1
    BY <1>2, <1>6
  <2>2. before \in Packet /\ before.au = p.au /\ before.part = p.part - 1 /\ before.of = p.of
    BY <1>2, <2>1, PartIs
  <2>3. Kept(p) = IF partial # <<>> /\ Last(partial) = before THEN Append(partial, p) ELSE <<>>
    BY <1>6 DEF Kept, Part
  <2>4. ASSUME Kept(p) # <<>>
        PROVE  /\ Kept(p) \in Seq(Packet) /\ Len(Kept(p)) = p.part /\ Last(Kept(p)) = p
               /\ \A i \in 1..p.part : Kept(p)[i] = Part(p, i) /\ Part(p, i) \in came'
    <3>1. partial # <<>> /\ Last(partial) = before /\ Kept(p) = Append(partial, p)
      BY <2>3, <2>4
    <3>2. Len(partial) \in DOMAIN partial /\ partial[Len(partial)] = before /\ 1 \in DOMAIN partial
      BY <1>3, <3>1 DEF Last
    <3>3. Len(partial) = p.part - 1
      BY <2>2, <3>2 DEF PullInv, FragmentsCame
    <3>4. /\ Append(partial, p) \in Seq(Packet) /\ Len(Append(partial, p)) = Len(partial) + 1
          /\ Append(partial, p)[Len(partial) + 1] = p
          /\ \A i \in DOMAIN partial : Append(partial, p)[i] = partial[i]
      BY <1>2, <1>3
    <3>5. ASSUME NEW i \in DOMAIN partial PROVE partial[i] = Part(p, i) /\ partial[i] \in came
      <4>1. partial[i] \in came /\ partial[i].part = i /\ partial[i].au = partial[1].au /\ before \in came
            /\ before.au = partial[1].au
        BY <3>2 DEF PullInv, FragmentsCame
      <4>2. partial[i].of = before.of
        BY <4>1 DEF PullInv, RestIsComing
      <4>3. i \in Nat /\ partial[i] \in Packet
        BY <1>3, <4>1
      <4>4. Part(p, i) \in Packet /\ Part(p, i).au = p.au /\ Part(p, i).part = i /\ Part(p, i).of = p.of
        BY <1>2, <4>3, PartIs
      <4> QED
        BY <2>2, <4>1, <4>2, <4>3, <4>4, SamePacket
    <3>6. \A i \in 1..p.part : i \in DOMAIN partial \/ i = p.part
      BY <1>2, <1>3, <3>3
    <3>7. Len(Append(partial, p)) = p.part /\ Append(partial, p)[p.part] = p
      BY <1>2, <3>3, <3>4
    <3>8. Last(Append(partial, p)) = p
      BY <3>7 DEF Last
    <3> QED
      BY <1>1, <1>4, <3>1, <3>4, <3>5, <3>6, <3>7, <3>8
  <2>5. ASSUME locked', \A i \in 1..p.part - 1 : Part(p, i) \in came PROVE Kept(p) # <<>>
    <3>1. locked
      BY <1>1, <1>6, <2>5 DEF PTSEqualsDTS
    <3>2. Len(partial) = p.part - 1 /\ partial[1].au = sentAU
      BY <1>1, <1>2, <2>1, <2>5, <3>1 DEF PullInv, FragmentsKept
    <3>3. partial # <<>> /\ p.part - 1 \in DOMAIN partial
      BY <1>3, <2>1, <3>2
    <3>4. Last(partial) = partial[p.part - 1]
      BY <3>2 DEF Last
    <3>5. /\ partial[p.part - 1] \in came /\ partial[p.part - 1].part = p.part - 1
          /\ partial[p.part - 1].au = sentAU
      BY <3>2, <3>3 DEF PullInv, FragmentsCame
    <3>6. partial[p.part - 1].of = p.of
      BY <1>1, <1>2, <3>5 DEF PullInv, RestIsComing
    <3>7. partial[p.part - 1] = before
      BY <1>2, <1>3, <2>2, <3>5, <3>6, SamePacket
    <3>8. Kept(p) = Append(partial, p)
      BY <2>3, <3>3, <3>4, <3>7
    <3> QED
      BY <1>2, <1>3, <3>8
  <2> QED
    BY <2>4, <2>5
<1> QED
  BY <1>5, <1>6

LEMMA ArriveKeeps == ASSUME PullInv, Arrive PROVE PullInv'
<1> PICK p : p = Head(coming)
  OBVIOUS
<1> PICK kept : kept = Kept(p)
  OBVIOUS
<1>1. /\ coming # <<>> /\ coming' = Tail(coming) /\ came' = came \cup {p}
      /\ locked' = (locked \/ PTSEqualsDTS(p)) /\ UNCHANGED <<sentAU, keys>>
      /\ IF locked' THEN Decode(p) ELSE UNCHANGED <<partial, pulled>>
  BY DEF Arrive, OnPacketRTP
<1>2. /\ p = coming[1] /\ p \in Packet /\ p.au = sentAU /\ p.part \in 1..p.of /\ p \notin came
      /\ p.part \in Nat /\ p.of \in Nat /\ sentAU \in Nat /\ sentAU >= 1 /\ coming' \in Seq(Packet)
      /\ \A i \in DOMAIN coming' :
           /\ coming'[i].au = sentAU /\ coming'[i].of = p.of
           /\ coming'[i].part = p.part + i
      /\ p.part + Len(coming') = p.of
      /\ coming' = <<>> <=> p.part = p.of
      /\ coming' # <<>> => 1 \in DOMAIN coming'
  BY <1>1, NextPacket
<1>3. /\ kept # <<>> =>
           /\ kept \in Seq(Packet) /\ Len(kept) = p.part /\ Last(kept) = p
           /\ \A i \in 1..p.part : kept[i] = Part(p, i) /\ Part(p, i) \in came'
      /\ locked' /\ (\A i \in 1..p.part - 1 : Part(p, i) \in came) => kept # <<>>
  BY KeptIs
<1>4. IF locked' /\ kept # <<>> /\ p.part = p.of
      THEN partial' = <<>> /\ pulled' = Append(pulled, sentAU)
      ELSE partial' = (IF locked' THEN kept ELSE partial) /\ pulled' = pulled
  BY <1>1, <1>2, <1>3 DEF Decode, Whole
<1>5. /\ came \subseteq Packet /\ came' \subseteq Packet /\ keys \subseteq 1..sentAU
      /\ pulled \in Seq(Nat) /\ partial \in Seq(Packet) /\ locked \in BOOLEAN
  BY <1>1, <1>2 DEF PullInv, PullTyping
(* What came of the unit under way came before this packet.                 *)
<1>6. \A q \in came : /\ q.part \in Nat /\ q.of \in Nat /\ q.au \in 1..sentAU /\ q.part \in 1..q.of
                      /\ q.au = sentAU => q.of = p.of /\ q.part < p.part
  BY <1>1, <1>2, <1>5 DEF PullInv, RestIsComing, Packet
<1>7. PullTyping'
  <2>1. pulled' \in Seq(Nat)
    <3>1. Append(pulled, sentAU) \in Seq(Nat)
      BY <1>2, <1>5
    <3> QED
      BY <1>4, <1>5, <3>1
  <2>2. partial' \in Seq(Packet)
    <3>1. <<>> \in Seq(Packet)
      OBVIOUS
    <3>2. kept \in Seq(Packet)
      BY <1>3, <3>1
    <3> QED
      BY <1>4, <1>5, <3>1, <3>2
  <2>3. locked' \in BOOLEAN
    BY <1>1, <1>5 DEF PTSEqualsDTS
  <2> QED
    BY <1>1, <1>2, <1>5, <2>1, <2>2, <2>3 DEF PullTyping
<1>8. RestIsComing'
  <2>1. /\ coming' # <<>> => coming'[1].of = p.of /\ coming'[1].part = p.part + 1
        /\ \A i \in DOMAIN coming' :
             /\ coming'[i].au = sentAU' /\ coming'[i].of = coming'[1].of
             /\ coming'[i].part = coming'[1].part + i - 1
        /\ coming' # <<>> =>
             coming'[1].part >= 1 /\ coming'[1].part + Len(coming') - 1 = coming'[1].of /\ sentAU' >= 1
    BY <1>1, RestGoesOn
  <2>4. ASSUME NEW q \in came'
        PROVE  /\ q.au \in 1..sentAU' /\ q.part \in 1..q.of
               /\ coming' # <<>> /\ q.au = sentAU' => q.of = coming'[1].of /\ q.part < coming'[1].part
    <3>1. CASE q \in came
      <4>1. q.au \in 1..sentAU /\ q.part \in 1..q.of
        BY <1>6, <3>1
      <4>2. q.au = sentAU => q.of = p.of /\ q.part < p.part + 1
        BY <1>2, <1>6, <3>1
      <4> QED
        BY <1>1, <2>1, <4>1, <4>2
    <3>2. CASE q = p
      <4>1. q.au \in 1..sentAU /\ q.part \in 1..q.of /\ q.part < p.part + 1 /\ q.of = p.of
        BY <1>2, <3>2
      <4> QED
        BY <1>1, <2>1, <4>1
    <3> QED
      BY <1>1, <3>1, <3>2
  <2>5. \A q, o \in came' : q.au = o.au => q.of = o.of
    BY <1>1, <1>2, <1>6 DEF PullInv, RestIsComing
  <2> QED
    BY <2>1, <2>4, <2>5 DEF RestIsComing
<1>9. FragmentsCame'
  <2>1. CASE partial' = <<>>
    <3>1. DOMAIN <<>> = {}
      OBVIOUS
    <3> QED
      BY <2>1, <3>1 DEF FragmentsCame
  <2>2. CASE partial' = partial
    BY <1>1, <2>2 DEF PullInv, FragmentsCame
  <2>3. CASE partial' = kept /\ kept # <<>> /\ p.part # p.of
    <3>1. DOMAIN kept = 1..p.part /\ 1 \in 1..p.part /\ \A i \in 1..p.part : i \in Nat /\ i < p.of
      BY <1>2, <1>3, <2>3
    <3>2. \A i \in 1..p.part : kept[i] \in came' /\ kept[i].part = i /\ kept[i].of = p.of /\ kept[i].au = p.au
      <4> SUFFICES ASSUME NEW i \in 1..p.part
                   PROVE  kept[i] \in came' /\ kept[i].part = i /\ kept[i].of = p.of /\ kept[i].au = p.au
        OBVIOUS
      <4>1. kept[i] = Part(p, i) /\ Part(p, i) \in came' /\ i \in Nat
        BY <1>3, <2>3, <3>1
      <4>2. Part(p, i).au = p.au /\ Part(p, i).part = i /\ Part(p, i).of = p.of
        BY <1>2, <4>1, PartIs
      <4> QED
        BY <4>1, <4>2
    <3>3. \A i \in 1..p.part : i < kept[i].of /\ kept[i].au = kept[1].au
      BY <3>1, <3>2
    <3>4. \A i \in DOMAIN kept : kept[i] \in came' /\ kept[i].part = i /\ i < kept[i].of /\ kept[i].au = kept[1].au
      BY <3>1, <3>2, <3>3
    <3>5. partial' = kept
      BY <2>3
    <3> QED
      BY <3>4, <3>5, Zenon DEF FragmentsCame
  <2> QED
    BY <1>4, <2>1, <2>2, <2>3
<1>10. LockedByKey'
  <2>1. PTSEqualsDTS(p) <=> p.au \in keys /\ p.part = 1
    BY DEF PTSEqualsDTS
  <2> QED
    BY <1>1, <2>1 DEF PullInv, LockedByKey
<1>11. FragmentsKept'
  <2> SUFFICES ASSUME coming' # <<>>, locked', \A i \in 1..coming'[1].part - 1 : Part(coming'[1], i) \in came'
               PROVE  Len(partial') = coming'[1].part - 1 /\ partial'[1].au = sentAU'
    BY DEF FragmentsKept
  <2> PICK q : q = coming'[1]
    OBVIOUS
  <2>1. q \in Packet /\ q.au = sentAU /\ q.of = p.of /\ q.part = p.part + 1 /\ p.part # p.of
    BY <1>2
  <2>2. ASSUME NEW i \in 1..p.part - 1 PROVE Part(p, i) \in came
    <3>1. i \in Nat /\ i \in 1..q.part - 1 /\ i # p.part
      BY <1>2, <2>1
    <3>2. Part(q, i) \in Packet /\ Part(q, i).au = q.au /\ Part(q, i).part = i /\ Part(q, i).of = q.of
      BY <2>1, <3>1, PartIs
    <3>3. Part(p, i) \in Packet /\ Part(p, i).au = p.au /\ Part(p, i).part = i /\ Part(p, i).of = p.of
      BY <1>2, <3>1, PartIs
    <3>4. Part(p, i) = Part(q, i)
      BY <1>2, <2>1, <3>2, <3>3, SamePacket
    <3>5. Part(q, i) \in came' /\ Part(p, i) # p
      BY <3>1, <3>3
    <3> QED
      BY <1>1, <3>4, <3>5
  <2>3. kept # <<>> /\ partial' = kept
    BY <1>3, <1>4, <2>1, <2>2
  <2>4. Len(kept) = p.part /\ 1 \in 1..p.part /\ kept[1] = Part(p, 1)
    BY <1>2, <1>3, <2>3
  <2>5. kept[1].au = sentAU
    <3>1. 1 \in Nat
      OBVIOUS
    <3>2. Part(p, 1).au = p.au
      BY <1>2, <3>1, PartIs
    <3> QED
      BY <1>2, <2>4, <3>2
  <2> QED
    BY <1>1, <1>2, <2>1, <2>3, <2>4, <2>5
(* Only the unit under way may have become whole, with its last packet.     *)
<1>12. ASSUME NEW a, a # sentAU PROVE a \in Begun' <=> a \in Begun
  <2>1. a \in WholeUnits' <=> a \in WholeUnits
    <3>1. ASSUME NEW q \in came, q.au = a, NEW i \in 1..q.of PROVE Part(q, i) \in came' <=> Part(q, i) \in came
      <4>1. q \in Packet /\ i \in Nat
        BY <1>5, <1>6, <3>1
      <4>2. Part(q, i).au = a
        BY <3>1, <4>1, PartIs
      <4> QED
        BY <1>1, <1>2, <1>12, <4>2
    <3>2. \A q \in came' : q.au = a => q \in came
      BY <1>1, <1>2, <1>12
    <3> QED
      BY <1>1, <3>1, <3>2 DEF WholeUnits
  <2>2. \A k \in keys : k <= a /\ a \in 1..sentAU => k # sentAU
    BY <1>2, <1>5, <1>12
  <2>3. a \in WholeUnits => a \in 1..sentAU
    BY DEF WholeUnits
  <2> QED
    BY <1>1, <1>2, <2>1, <2>2, <2>3 DEF Begun
<1>13. sentAU \notin Begun
  <2> SUFFICES ASSUME sentAU \in WholeUnits PROVE FALSE
    BY DEF Begun
  <2>1. PICK q \in came : q.au = sentAU /\ \A i \in 1..q.of : Part(q, i) \in came
    BY DEF WholeUnits
  <2>2. q.of = p.of /\ Part(q, p.part) \in came /\ q \in Packet
    BY <1>2, <1>5, <1>6, <2>1
  <2>3. Part(q, p.part).au = sentAU /\ Part(q, p.part).part = p.part
    BY <1>2, <2>1, <2>2, PartIs
  <2> QED
    BY <1>2, <1>6, <2>2, <2>3
<1>14. sentAU \in Begun' <=> locked' /\ kept # <<>> /\ p.part = p.of
  <2>1. ASSUME locked', kept # <<>>, p.part = p.of PROVE sentAU \in Begun'
    <3>1. sentAU \in WholeUnits'
      BY <1>1, <1>2, <1>3, <2>1 DEF WholeUnits
    <3>2. PICK q \in came' : q.au \in keys' /\ q.part = 1
      BY <1>10, <2>1 DEF LockedByKey
    <3>3. q.au <= sentAU /\ q.au \in keys'
      <4>1. q.au \in 1..sentAU
        BY <1>1, <1>5, <3>2
      <4> QED
        BY <1>2, <3>2, <4>1
    <3> QED
      BY <1>1, <3>1, <3>2, <3>3 DEF Begun
  <2>2. ASSUME sentAU \in Begun' PROVE locked' /\ kept # <<>> /\ p.part = p.of
    <3>1. PICK q \in came' : q.au = sentAU /\ \A i \in 1..q.of : Part(q, i) \in came'
      BY <1>1, <2>2 DEF Begun, WholeUnits
    <3>2. q.of = p.of /\ q \in Packet
      BY <1>1, <1>2, <1>6, <3>1, <1>5
    <3>3. ASSUME NEW i \in 1..p.of PROVE Part(p, i) \in came'
      <4>1. i \in Nat /\ Part(q, i) \in came'
        BY <3>1, <3>2, <3>3
      <4>2. Part(q, i) \in Packet /\ Part(q, i).au = q.au /\ Part(q, i).part = i /\ Part(q, i).of = q.of
        BY <3>2, <4>1, PartIs
      <4>3. Part(p, i) \in Packet /\ Part(p, i).au = p.au /\ Part(p, i).part = i /\ Part(p, i).of = p.of
        BY <1>2, <4>1, PartIs
      <4>4. Part(p, i) = Part(q, i)
        BY <1>2, <3>1, <3>2, <4>2, <4>3, SamePacket
      <4> QED
        BY <4>1, <4>4
    <3>4. p.part = p.of
      <4>1. p.of \in 1..p.of
        BY <1>2
      <4>2. Part(p, p.of).part = p.of /\ Part(p, p.of).au = sentAU
        BY <1>2, PartIs
      <4>3. Part(p, p.of) \in came'
        BY <3>3, <4>1
      <4> QED
        BY <1>1, <1>2, <1>6, <4>2, <4>3
    <3>5. locked'
      BY <1>10, <2>2 DEF LockedByKey, Begun
    <3>6. ASSUME NEW i \in 1..p.part - 1 PROVE Part(p, i) \in came
      <4>1. i \in Nat /\ i \in 1..p.of /\ i # p.part
        BY <1>2, <3>4
      <4>2. Part(p, i) \in came' /\ Part(p, i).part # p.part
        BY <1>2, <3>3, <4>1, PartIs
      <4> QED
        BY <1>1, <4>2
    <3> QED
      BY <1>3, <3>4, <3>5, <3>6
  <2> QED
    BY <2>1, <2>2
<1>15. PulledRight'
  <2>1. \A i \in DOMAIN pulled : pulled[i] \in Nat /\ pulled[i] \in Begun
    BY <1>5 DEF PullInv, PulledRight
  <2>2. CASE locked' /\ kept # <<>> /\ p.part = p.of
    <3>1. pulled' = Append(pulled, sentAU)
      BY <1>4, <2>2
    <3>2. /\ DOMAIN pulled' = DOMAIN pulled \cup {Len(pulled) + 1} /\ pulled'[Len(pulled) + 1] = sentAU
          /\ \A i \in DOMAIN pulled : pulled'[i] = pulled[i] /\ i <= Len(pulled)
          /\ Len(pulled) \in Nat
      BY <1>2, <1>5, <3>1
    <3>3. \A i \in DOMAIN pulled : pulled[i] < sentAU
      <4>1. \A a \in Begun : a \in 1..sentAU
        BY DEF Begun, WholeUnits
      <4> QED
        BY <1>2, <1>13, <2>1, <4>1
    <3>4. ASSUME NEW a \in Nat PROVE a \in Begun' <=> \E i \in DOMAIN pulled' : pulled'[i] = a
      <4>1. CASE a = sentAU
        BY <1>14, <2>2, <3>2, <4>1
      <4>2. CASE a # sentAU
        <5>1. a \in Begun' <=> \E i \in DOMAIN pulled : pulled[i] = a
          BY <1>12, <4>2 DEF PullInv, PulledRight
        <5> QED
          BY <3>2, <4>2, <5>1
      <4> QED
        BY <4>1, <4>2
    <3>5. ASSUME NEW i \in DOMAIN pulled', NEW j \in DOMAIN pulled', i < j PROVE pulled'[i] < pulled'[j]
      <4>1. i \in DOMAIN pulled
        BY <1>5, <3>2, <3>5
      <4>2. CASE j \in DOMAIN pulled
        BY <3>2, <3>5, <4>1, <4>2 DEF PullInv, PulledRight
      <4>3. CASE j = Len(pulled) + 1
        BY <3>2, <3>3, <4>1, <4>3
      <4> QED
        BY <3>2, <4>2, <4>3
    <3> QED
      BY <3>4, <3>5 DEF PulledRight
  <2>3. CASE ~(locked' /\ kept # <<>> /\ p.part = p.of)
    <3>1. pulled' = pulled
      BY <1>4, <2>3
    <3>2. \A a \in Nat : a \in Begun' <=> a \in Begun
      BY <1>12, <1>13, <1>14, <2>3
    <3> QED
      BY <3>1, <3>2 DEF PullInv, PulledRight
  <2> QED
    BY <2>2, <2>3
<1> QED
  BY <1>7, <1>8, <1>9, <1>10, <1>11, <1>15 DEF PullInv

LEMMA PullNextKeeps == ASSUME PullInv, [PullNext]_pullVars PROVE PullInv'
<1>1. CASE SendAU
  BY <1>1, SendAUKeeps
<1>2. CASE Arrive
  BY <1>2, ArriveKeeps
<1>3. CASE Lose
  BY <1>3, LoseKeeps
<1>4. CASE UNCHANGED pullVars
  BY <1>4 DEF pullVars, PullInv, PullTyping, RestIsComing, FragmentsCame, LockedByKey, FragmentsKept,
              PulledRight, Begun, WholeUnits
<1> QED
  BY <1>1, <1>2, <1>3, <1>4 DEF PullNext

-----------------------------------------------------------------------------
(* The recorder.                                                            *)

(* A file and a recorder have their fields; what samples they hold is of no *)
(* account here.                                                            *)
IsFile(f) ==
  f = [start |-> f.start, trigger |-> f.trigger, video |-> f.video, audio |-> f.audio, row |-> f.row]

IsRecorder(s) ==
  /\ s = [video |-> s.video, audio |-> s.audio, gops |-> s.gops, wall |-> s.wall,
          files |-> s.files, open |-> s.open, end |-> s.end, torn |-> s.torn]
  /\ s.open \in BOOLEAN

(* The files: all of them have their fields, and the row of the last one is *)
(* open exactly while the file is.                                          *)
FilesFit(files, open) ==
  /\ \E F : files \in Seq(F)
  /\ open => files # <<>>
  /\ \A n \in DOMAIN files : IsFile(files[n]) /\ (files[n].row = "open" <=> n = Len(files) /\ open)

Fits(s) == IsRecorder(s) /\ FilesFit(s.files, s.open)

RowsInv == Fits(r) /\ (r.open => run = "running")

LEMMA RowsInvInit == ASSUME RecorderInit PROVE RowsInv
PROOF
  <1>1. IsRecorder(r) /\ r.files = <<>> /\ r.open = FALSE
    BY DEF RecorderInit, IsRecorder
  <1>2. <<>> \in Seq({})
    OBVIOUS
  <1> QED
    BY <1>1, <1>2 DEF RowsInv, Fits, FilesFit

(* What is a sequence, and a sequence with one element more.                *)
LEMMA ExtendedFits ==
  ASSUME NEW f, IsFile(f), NEW video, NEW audio
  PROVE  IsFile(Extended(f, video, audio)) /\ Extended(f, video, audio).row = f.row
PROOF
  <1> PICK v, a : v = f.video \o video /\ a = f.audio \o audio
    OBVIOUS
  <1>0. PICK c1, c2, c3, c4, c5 :
        /\ c1 = f.start /\ c2 = f.trigger /\ c5 = f.row
        /\ f \in [start : {c1}, trigger : {c2}, video : {c3}, audio : {c4}, row : {c5}]
    BY DEF IsFile
  <1> PICK g : g = [f EXCEPT !.video = v, !.audio = a]
    OBVIOUS
  <1>1. g = Extended(f, video, audio)
    BY DEF Extended
  <1>2. g \in [start : {c1}, trigger : {c2}, video : {v}, audio : {a}, row : {c5}]
    BY <1>0
  <1>3. IsFile(g) /\ g.row = f.row
    BY <1>0, <1>2 DEF IsFile
  <1> QED
    BY <1>1, <1>3

LEMMA ASequence ==
  ASSUME NEW F, NEW k \in Nat, NEW g \in [1..k -> F]
  PROVE  g \in Seq(F) /\ Len(g) = k /\ DOMAIN g = 1..k
PROOF
  OBVIOUS

LEMMA LongerSeq ==
  ASSUME NEW F, NEW files \in Seq(F), NEW file
  PROVE  /\ Append(files, file) \in Seq(F \cup {file})
         /\ Append(files, file) # <<>>
         /\ Len(Append(files, file)) = Len(files) + 1
         /\ DOMAIN Append(files, file) = 1..Len(files) + 1
         /\ Append(files, file)[Len(files) + 1] = file
         /\ \A n \in DOMAIN files : n <= Len(files) /\ Append(files, file)[n] = files[n]
PROOF
  <1>1. files \in Seq(F \cup {file}) /\ Len(files) \in Nat
    OBVIOUS
  <1> QED
    BY <1>1

(* The last file, which is open, changes, and its row if it closes.         *)
LEMMA FileChanged ==
  ASSUME NEW files, FilesFit(files, TRUE), NEW open \in BOOLEAN,
         NEW file, IsFile(file), file.row = "open" <=> open,
         NEW k, k = Len(files), NEW after, after = [files EXCEPT ![k] = file]
  PROVE  FilesFit(after, open)
PROOF
  <1>1. PICK F : files \in Seq(F)
    BY DEF FilesFit
  <1>2. k \in Nat /\ DOMAIN files = 1..k
    BY <1>1
  <1>3. files # <<>> /\ k \in 1..k
    BY <1>1, <1>2 DEF FilesFit
  <1>4. files \in [1..k -> F]
    BY <1>1, <1>2
  <1>5. \E G : after \in [1..k -> G]
    <2>1. after \in [1..k -> F \cup {file}]
      BY <1>4
    <2> QED
      BY <2>1
  <1>6. (\E G : after \in Seq(G)) /\ Len(after) = k /\ DOMAIN after = 1..k
    <2>1. PICK G, g : g = after /\ g \in [1..k -> G]
      BY <1>5
    <2>2. g \in [1..k -> G]
      BY <2>1
    <2>3. g \in Seq(G) /\ Len(g) = k /\ DOMAIN g = 1..k
      BY <1>2, <2>2, ASequence
    <2> QED
      BY <2>1, <2>3
  <1>7. after # <<>>
    BY <1>3, <1>6
  <1>8. \A n \in 1..k : after[n] = IF n = k THEN file ELSE files[n]
    BY <1>2
  <1>9. \A n \in 1..k : IsFile(files[n]) /\ (files[n].row = "open" <=> n = k)
    BY <1>2 DEF FilesFit
  <1>10. \A n \in DOMAIN after : IsFile(after[n]) /\ (after[n].row = "open" <=> n = Len(after) /\ open)
    BY <1>6, <1>8, <1>9
  <1> QED
    BY <1>6, <1>7, <1>10 DEF FilesFit

(* A file more, with a row that is open if the file is.                     *)
LEMMA FilesGrow ==
  ASSUME NEW files, FilesFit(files, FALSE), NEW open \in BOOLEAN, NEW file, IsFile(file), file.row = "open" <=> open
  PROVE  FilesFit(Append(files, file), open)
PROOF
  <1>1. PICK F : files \in Seq(F)
    BY DEF FilesFit
  <1> PICK after : after = Append(files, file)
    OBVIOUS
  <1>2. /\ after \in Seq(F \cup {file}) /\ after # <<>> /\ Len(after) = Len(files) + 1
        /\ DOMAIN after = 1..Len(files) + 1 /\ after[Len(files) + 1] = file
        /\ \A n \in DOMAIN files : n <= Len(files) /\ after[n] = files[n]
    BY <1>1, LongerSeq
  <1>3. DOMAIN files = 1..Len(files) /\ Len(files) \in Nat
    BY <1>1
  <1>4. \A n \in 1..Len(files) + 1 : n \in DOMAIN files \/ n = Len(files) + 1
    BY <1>3
  <1>5. \A n \in DOMAIN after : IsFile(after[n]) /\ (after[n].row = "open" <=> n = Len(after) /\ open)
    BY <1>2, <1>3, <1>4 DEF FilesFit
  <1> QED
    BY <1>2, <1>5 DEF FilesFit

-----------------------------------------------------------------------------
(* The helpers of the handlers.                                             *)

(* What concerns other fields leaves the files.                             *)
LEMMA OtherFields ==
  ASSUME NEW s, Fits(s), NEW t, IsRecorder(t), t.files = s.files, t.open = s.open
  PROVE  Fits(t)
PROOF
  BY DEF Fits

LEMMA InLastFileFits ==
  ASSUME NEW s, Fits(s), s.open, NEW video, NEW audio
  PROVE  Fits(InLastFile(s, video, audio)) /\ InLastFile(s, video, audio).open
PROOF
  <1>1. IsRecorder(s) /\ FilesFit(s.files, TRUE) /\ s.open = TRUE
    BY DEF Fits, IsRecorder
  <1> PICK F : s.files \in Seq(F)
    BY <1>1 DEF FilesFit
  <1> PICK k \in DOMAIN s.files : k = Len(s.files)
    BY <1>1 DEF FilesFit
  <1> PICK f : f = s.files[k] /\ IsFile(f)
    BY <1>1 DEF FilesFit
  <1> PICK file : file = Extended(f, video, audio)
    OBVIOUS
  <1>2. IsFile(file) /\ file.row = "open"
    BY <1>1, ExtendedFits DEF FilesFit
  <1> PICK after : after = [s.files EXCEPT ![k] = file]
    OBVIOUS
  <1>3. FilesFit(after, TRUE)
    BY <1>1, <1>2, FileChanged
  <1> PICK t : t = InLastFile(s, video, audio)
    OBVIOUS
  <1>4. t = [s EXCEPT !.files[k] = file]
    BY DEF InLastFile
  <1>5. IsRecorder(t) /\ t.files = after /\ t.open = TRUE
    BY <1>1, <1>4 DEF IsRecorder
  <1> QED
    BY <1>3, <1>5 DEF Fits

(* What else a recorder holds may change.                                   *)
LEMMA BufferFits ==
  ASSUME NEW s, Fits(s), NEW new, NEW t,
         \/ t = [s EXCEPT !.wall = new]
         \/ t = [s EXCEPT !.torn = new]
         \/ t = [s EXCEPT !.gops = new]
         \/ t = [s EXCEPT !.video = new]
         \/ t = [s EXCEPT !.audio = new]
  PROVE  Fits(t) /\ t.open = s.open
PROOF
  <1>1. IsRecorder(s) /\ FilesFit(s.files, s.open)
    BY DEF Fits
  <1>2. IsRecorder(t) /\ t.files = s.files /\ t.open = s.open
    BY <1>1 DEF IsRecorder
  <1> QED
    BY <1>2, OtherFields

LEMMA TracksFit ==
  ASSUME NEW s, Fits(s), NEW video, NEW audio, NEW t, t = [s EXCEPT !.video = video, !.audio = audio]
  PROVE  Fits(t) /\ t.open = s.open
PROOF
  <1>1. IsRecorder(s) /\ FilesFit(s.files, s.open)
    BY DEF Fits
  <1>2. IsRecorder(t) /\ t.files = s.files /\ t.open = s.open
    BY <1>1 DEF IsRecorder
  <1> QED
    BY <1>2, OtherFields

LEMMA StashFits ==
  ASSUME NEW s, Fits(s)
  PROVE  Fits(StashGOP(s)) /\ StashGOP(s).open = s.open
PROOF
  <1>1. IsRecorder(s) /\ FilesFit(s.files, s.open)
    BY DEF Fits
  <1> PICK gops, t : t = [s EXCEPT !.gops = gops, !.video = <<>>, !.audio = <<>>] /\ t = StashGOP(s)
    BY DEF StashGOP
  <1>2. IsRecorder(t) /\ t.files = s.files /\ t.open = s.open
    BY <1>1 DEF IsRecorder
  <1> QED
    BY <1>2, OtherFields

LEMMA FlushFits ==
  ASSUME NEW s, Fits(s)
  PROVE  Fits(Flush(s)) /\ Flush(s).open = s.open
PROOF
  <1>1. CASE s.open
    <2> PICK t : t = InLastFile(s, s.video, s.audio)
      OBVIOUS
    <2>1. Fits(t) /\ t.open
      BY <1>1, InLastFileFits
    <2> PICK u : u = [t EXCEPT !.video = <<>>, !.audio = <<>>]
      OBVIOUS
    <2>2. Fits(u) /\ u.open = t.open
      BY <2>1, TracksFit, Zenon
    <2>3. t.open = s.open
      BY <1>1, <2>1 DEF Fits, IsRecorder
    <2>4. Flush(s) = u
      BY <1>1 DEF Flush
    <2> QED
      BY <2>2, <2>3, <2>4
  <1>2. CASE ~s.open
    BY <1>2 DEF Flush
  <1> QED
    BY <1>1, <1>2

(* The GOP a keyframe ends.                                                 *)
LEMMA ClosedFits ==
  ASSUME NEW s, Fits(s)
  PROVE  Fits(CloseGOP(s)) /\ CloseGOP(s).open = s.open
PROOF
  <1>1. Fits(Flush(s)) /\ Flush(s).open = s.open
    BY FlushFits
  <1>2. Fits(StashGOP(s)) /\ StashGOP(s).open = s.open
    BY StashFits
  <1> PICK dropped : dropped = [s EXCEPT !.video = <<>>, !.audio = <<>>]
    OBVIOUS
  <1>3. Fits(dropped) /\ dropped.open = s.open
    BY TracksFit, ZenonT(60)
  <1>4. CloseGOP(s) = s \/ CloseGOP(s) = Flush(s) \/ CloseGOP(s) = StashGOP(s) \/ CloseGOP(s) = dropped
    BY Zenon DEF CloseGOP
  <1> QED
    BY <1>1, <1>2, <1>3, <1>4

LEMMA PushFits ==
  ASSUME NEW s, Fits(s)
  PROVE  Fits(Push(s)) /\ Push(s).open = s.open
PROOF
  BY BufferFits DEF Push

(* A file is opened, its row with it unless that is what failed.            *)
LEMMA OpenFits ==
  ASSUME NEW s, Fits(s), ~s.open, NEW start
  PROVE  /\ Fits(OpenSegment(s, start)) /\ OpenSegment(s, start).open
         /\ \A fault : Fits(FailedOpen(s, start, fault)) /\ ~FailedOpen(s, start, fault).open
PROOF
  <1>1. IsRecorder(s) /\ FilesFit(s.files, FALSE) /\ s.open = FALSE
    BY DEF Fits, IsRecorder
  <1>2. ASSUME NEW row
        PROVE  IsFile(NewFile(start, row)) /\ NewFile(start, row).row = row
    BY DEF NewFile, IsFile
  <1> PICK end : end = SegmentEnd(start)
    OBVIOUS
  <1>3. Fits(OpenSegment(s, start)) /\ OpenSegment(s, start).open
    <2> PICK files : files = Append(s.files, NewFile(start, "open"))
      OBVIOUS
    <2>1. FilesFit(files, TRUE)
      BY <1>1, <1>2, FilesGrow
    <2> PICK t : t = OpenSegment(s, start)
      OBVIOUS
    <2>2. t = [s EXCEPT !.files = files, !.open = TRUE, !.end = end]
      BY DEF OpenSegment
    <2>3. IsRecorder(t) /\ t.files = files /\ t.open = TRUE
      BY <1>1, <2>2 DEF IsRecorder
    <2> QED
      BY <2>1, <2>3 DEF Fits
  <1>4. ASSUME NEW fault
        PROVE  Fits(FailedOpen(s, start, fault)) /\ ~FailedOpen(s, start, fault).open
    <2> PICK files : files = Append(s.files, NewFile(start, "none"))
      OBVIOUS
    <2>1. FilesFit(files, FALSE)
      BY <1>1, <1>2, FilesGrow
    <2> PICK t : t = [s EXCEPT !.files = files]
      OBVIOUS
    <2>2. IsRecorder(t) /\ t.files = files /\ t.open = FALSE
      BY <1>1 DEF IsRecorder
    <2>3. Fits(t) /\ ~t.open
      BY <2>1, <2>2 DEF Fits
    <2>4. FailedOpen(s, start, fault) \in {s, t}
      BY DEF FailedOpen
    <2> QED
      BY <2>3, <2>4
  <1> QED
    BY <1>3, <1>4

(* However finalize ends, no file is open.                                  *)
ClosedAs(s, t) == \E row \in {"final", "incomplete"} : t = FinalizeUnflushed(s, row)

LEMMA FinalizationFits ==
  ASSUME NEW s, Fits(s), NEW t \in Finalizations(s)
  PROVE  Fits(t) /\ ~t.open
PROOF
  <1>1. ASSUME NEW u, Fits(u), NEW v, ClosedAs(u, v)
        PROVE  Fits(v) /\ ~v.open
    <2> PICK row \in {"final", "incomplete"} : v = FinalizeUnflushed(u, row)
      BY <1>1 DEF ClosedAs
    <2>1. CASE u.open
      <3>1. IsRecorder(u) /\ FilesFit(u.files, TRUE) /\ u.open = TRUE
        BY <1>1, <2>1 DEF Fits, IsRecorder
      <3> PICK F : u.files \in Seq(F)
        BY <3>1 DEF FilesFit
      <3> PICK k \in DOMAIN u.files : k = Len(u.files)
        BY <3>1 DEF FilesFit
      <3> PICK f : f = u.files[k] /\ IsFile(f)
        BY <3>1 DEF FilesFit
      <3> PICK file : file = [f EXCEPT !.row = row]
        OBVIOUS
      <3>2. IsFile(file) /\ (file.row = "open" <=> FALSE)
        BY DEF IsFile
      <3> PICK after : after = [u.files EXCEPT ![k] = file]
        OBVIOUS
      <3>3. FilesFit(after, FALSE)
        BY <3>1, <3>2, FileChanged
      <3>4. v = [u EXCEPT !.files = after, !.open = FALSE]
        BY <2>1 DEF FinalizeUnflushed
      <3>5. IsRecorder(v) /\ v.files = after /\ v.open = FALSE
        BY <3>1, <3>4 DEF IsRecorder
      <3> QED
        BY <3>3, <3>5 DEF Fits
    <2>2. CASE ~u.open
      BY <1>1, <2>2 DEF FinalizeUnflushed
    <2> QED
      BY <2>1, <2>2
  <1>2. CASE \E row \in Completions : t = Finalize(s, row)
    <2>1. ClosedAs(Flush(s), t)
      BY <1>2 DEF ClosedAs, Finalize, Completions
    <2> QED
      BY <1>1, <2>1, FlushFits
  <1>3. CASE \E row \in Completions : t = [FinalizeUnflushed(s, row) EXCEPT !.torn = TRUE]
    <2> PICK u : ClosedAs(s, u) /\ t = [u EXCEPT !.torn = TRUE]
      BY <1>3 DEF ClosedAs, Completions
    <2>1. Fits(u) /\ ~u.open
      BY <1>1
    <2> QED
      BY <2>1, BufferFits
  <1> QED
    BY <1>2, <1>3 DEF Finalizations
-----------------------------------------------------------------------------
(* The steps.                                                               *)

(* A handler goes on, with a file that is open only while Run lasts; or it  *)
(* returns, and what is open is closed.                                     *)
LEMMA Continues ==
  ASSUME run = "running", NEW s, Fits(s), Continue(s)
  PROVE  RowsInv'
PROOF
  BY DEF Continue, RowsInv, Fits, IsRecorder, FilesFit, IsFile

LEMMA Returns ==
  ASSUME NEW s, Fits(s), NEW outcome, Return(s, outcome)
  PROVE  RowsInv'
PROOF
  <1>1. r' \in Finalizations(s)
    BY DEF Return
  <1>2. Fits(r') /\ ~r'.open
    BY <1>1, FinalizationFits
  <1> QED
    BY <1>2 DEF RowsInv, Fits, IsRecorder, FilesFit, IsFile

LEMMA FailsToOpen ==
  ASSUME NEW s, Fits(s), ~s.open, NEW start, OpenError(s, start)
  PROVE  RowsInv'
PROOF
  <1> PICK fault : Return(FailedOpen(s, start, fault), "failed")
    BY DEF OpenError
  <1>1. Fits(FailedOpen(s, start, fault))
    BY OpenFits
  <1> QED
    BY <1>1, Returns

(* The pre-roll goes into the file that was opened for it.                  *)
LEMMA PrerollFits ==
  ASSUME NEW s, Fits(s), s.open, NEW k
  PROVE  /\ Fits(WriteGOPs(s, k)) /\ WriteGOPs(s, k).open
         /\ Fits(WritePreroll(s)) /\ WritePreroll(s).open
PROOF
  <1>1. ASSUME NEW n
        PROVE  Fits(WriteGOPs(s, n)) /\ WriteGOPs(s, n).open
    <2> PICK video, audio : WriteGOPs(s, n) = InLastFile(s, video, audio)
      BY DEF WriteGOPs
    <2> QED
      BY InLastFileFits
  <1> PICK t : t = WriteGOPs(s, Len(s.gops))
    OBVIOUS
  <1> PICK u : u = WritePreroll(s)
    OBVIOUS
  <1>2. Fits(t) /\ t.open
    BY <1>1
  <1>3. u = [t EXCEPT !.gops = <<>>]
    BY DEF WritePreroll
  <1>4. Fits(u) /\ u.open = t.open
    BY <1>2, <1>3, BufferFits
  <1> QED
    BY <1>1, <1>2, <1>4
LEMMA KeyRows ==
  ASSUME RowsInv, Key
  PROVE  RowsInv'
PROOF
  <1>1. run = "running"
    BY DEF Key, Arrives
  <1> PICK on, tick, s :
        /\ s = [CloseGOP(r) EXCEPT !.wall = now + tick]
        /\ \/ r.open /\ r.video # <<>> /\ WriteError(r)
           \/ on /\ ~s.open /\ KeyOpens(s)
           \/ on /\ s.open /\ RotateDue(s, s.wall) /\ KeyRotates(s)
           \/ on /\ s.open /\ ~RotateDue(s, s.wall) /\ Continue(Push(s))
           \/ ~on /\ \E closed \in Finalizations(s) : Continue(Push(closed))
    BY DEF Key
  <1>2. Fits(s)
    <2>1. Fits(CloseGOP(r))
      BY ClosedFits DEF RowsInv
    <2> QED
      BY <2>1, BufferFits
  <1>3. CASE WriteError(r)
    BY <1>3, Returns DEF WriteError, RowsInv
  <1>4. CASE ~s.open /\ KeyOpens(s)
    <2> PICK start, opened : start = PrerollStart(s) /\ opened = OpenSegment(s, start)
      OBVIOUS
    <2>1. \/ Continue(Push(WritePreroll(opened)))
          \/ OpenError(s, start)
          \/ \E k \in 0..Len(s.gops) - 1 : WriteError(WriteGOPs(opened, k))
      BY <1>4 DEF KeyOpens
    <2>2. Fits(opened) /\ opened.open
      BY <1>2, <1>4, OpenFits
    <2>3. CASE Continue(Push(WritePreroll(opened)))
      <3>1. Fits(Push(WritePreroll(opened)))
        BY <2>2, PrerollFits, PushFits
      <3> QED
        BY <1>1, <2>3, <3>1, Continues
    <2>4. CASE OpenError(s, start)
      BY <1>2, <1>4, <2>4, FailsToOpen
    <2>5. ASSUME NEW k, WriteError(WriteGOPs(opened, k))
          PROVE  RowsInv'
      <3>1. Fits(WriteGOPs(opened, k))
        BY <2>2, PrerollFits
      <3> QED
        BY <2>5, <3>1, Returns DEF WriteError
    <2> QED
      BY <2>1, <2>3, <2>4, <2>5
  <1>5. CASE KeyRotates(s)
    <2> PICK closed \in Finalizations(s) :
          \/ Continue(Push(OpenSegment(closed, s.wall)))
          \/ OpenError(closed, s.wall)
      BY <1>5 DEF KeyRotates
    <2>1. Fits(closed) /\ ~closed.open
      BY <1>2, FinalizationFits
    <2>2. Fits(Push(OpenSegment(closed, s.wall)))
      BY <2>1, OpenFits, PushFits
    <2> QED
      BY <1>1, <2>1, <2>2, Continues, FailsToOpen
  <1>6. CASE Continue(Push(s))
    BY <1>1, <1>2, <1>6, PushFits, Continues
  <1>7. ASSUME NEW closed \in Finalizations(s), Continue(Push(closed))
        PROVE  RowsInv'
    <2>1. Fits(Push(closed))
      BY <1>2, FinalizationFits, PushFits
    <2> QED
      BY <1>1, <1>7, <2>1, Continues
  <1> QED
    BY <1>3, <1>4, <1>5, <1>6, <1>7

LEMMA InterRows ==
  ASSUME RowsInv, Inter
  PROVE  RowsInv'
PROOF
  <1> PICK s : s \in {Push(r), r} /\ Continue(s) /\ run = "running"
    BY DEF Inter, Arrives
  <1>1. Fits(r) /\ Fits(Push(r))
    BY PushFits DEF RowsInv
  <1> QED
    BY <1>1, Continues

LEMMA AudioRows ==
  ASSUME RowsInv, Audio
  PROVE  RowsInv'
PROOF
  <1> DEFINE Flushing(t) == Continue(Flush(t)) \/ (t.audio # <<>> /\ WriteError(t))
  <1> DEFINE Opening(t, at) == Flushing(OpenSegment(t, at)) \/ OpenError(t, at)
  <1> PICK s, at :
        /\ s = [r EXCEPT !.audio = Append(r.audio, Len(units) + 1)]
        /\ \/ Continue(s)
           \/ ~s.open /\ Opening(s, at)
           \/ \E t \in Finalizations(s) : Opening(t, at)
           \/ Flushing(s)
    BY DEF Audio
  <1>1. run = "running"
    BY DEF Audio, Arrives
  <1>2. Fits(s)
    BY BufferFits DEF RowsInv
  <1>3. ASSUME NEW t, Fits(t), Flushing(t)
        PROVE  RowsInv'
    BY <1>1, <1>3, FlushFits, Continues, Returns DEF WriteError
  <1>4. ASSUME NEW t, Fits(t), ~t.open, Opening(t, at)
        PROVE  RowsInv'
    <2>1. Fits(OpenSegment(t, at))
      BY <1>4, OpenFits
    <2> HIDE DEF Flushing
    <2> QED
      BY <1>3, <1>4, <2>1, FailsToOpen
  <1> HIDE DEF Flushing, Opening
  <1>5. ASSUME NEW t \in Finalizations(s), Opening(t, at)
        PROVE  RowsInv'
    BY <1>2, <1>4, <1>5, FinalizationFits
  <1> QED
    BY <1>1, <1>2, <1>3, <1>4, <1>5, Continues

LEMMA RowsInvNext ==
  ASSUME RowsInv, [RecorderNext]_recorderVars
  PROVE  RowsInv'
PROOF
  <1>1. CASE Key
    BY <1>1, KeyRows
  <1>2. CASE Inter
    BY <1>2, InterRows
  <1>3. CASE Audio
    BY <1>3, AudioRows
  <1>4. CASE Stop
    BY <1>4, Returns DEF Stop, RowsInv
  <1>5. CASE UNCHANGED recorderVars
    BY <1>5 DEF recorderVars, RowsInv, Fits, IsRecorder, FilesFit, IsFile
  <1> QED
    BY <1>1, <1>2, <1>3, <1>4, <1>5 DEF RecorderNext

LEMMA RowsInvImplies == RowsInv => RowsCompleted
PROOF
  BY DEF RowsInv, RowsCompleted, Fits, FilesFit, IsRecorder

-----------------------------------------------------------------------------
(* What the recorder's files and buffers hold.                              *)
VideoIn(x) == Range(x.video)
AudioIn(x) == Range(x.audio)
Held(x)    == VideoIn(x) \cup AudioIn(x)

Unit == [kind : {"key", "inter", "audio"}, on : BOOLEAN, at : Nat]
Gop  == [wall : Nat, video : Seq(Nat), audio : Seq(Nat)]
RecorderRecord ==
  [video : Seq(Nat), audio : Seq(Nat), gops : Seq(Gop), wall : Nat,
   files : Seq(Files), open : BOOLEAN, end : Nat, torn : BOOLEAN]

(* Numbers of units: video, and a keyframe of it.                           *)
Frame(U, i) == U[i].kind # "audio"
KeyAt(U, i)   == U[i].kind = "key"

(* A run of frames, from a keyframe on.                                     *)
FramesInARow(U, X) ==
  /\ \A a, b \in X : \A i \in a..b : Frame(U, i) => i \in X
  /\ \A a \in X : KeyAt(U, a) \/ \E b \in X : b < a

(* Audio Y goes with video X: it came after its first frame, or that is the *)
(* first keyframe of all.                                                   *)
Together(U, X, Y, m) ==
  X # {} => \/ \A a \in Y : \E v \in X : v < a
            \/ \A k \in 1..m : KeyAt(U, k) => \E v \in X : v <= k

(* No GOP that came after the one that opened the file began past its end.  *)
Cut(U, f, X) ==
  \A i \in X : KeyAt(U, i) /\ i > f.trigger => f.start <= U[i].at /\ U[i].at < SegmentEnd(f.start)

(* What is in order, among the first m units.                               *)
InLine(x, m) ==
  /\ x.video \in Seq(Nat) /\ x.audio \in Seq(Nat)
  /\ Rising(x.video) /\ Rising(x.audio) /\ Held(x) \subseteq 1..m

GoodFile(U, f, m) ==
  /\ f \in Files /\ InLine(f, m) /\ FramesInARow(U, VideoIn(f))
  /\ Together(U, VideoIn(f), AudioIn(f), m) /\ Cut(U, f, VideoIn(f))

GoodFiles(U, files, m) ==
  /\ files \in Seq(Files)
  /\ \A n \in 1..Len(files) : GoodFile(U, files[n], m)
  /\ \A i, j \in 1..Len(files) : i < j => Precedes(Held(files[i]), Held(files[j]))

LeadingKey(U, X, t) ==
  \E k \in X : KeyAt(U, k) /\ U[k].at = t /\ \A b \in X : k <= b

GoodGop(U, g, m, w) ==
  /\ g \in Gop /\ InLine(g, m) /\ g.wall <= w
  /\ LeadingKey(U, VideoIn(g), g.wall) /\ Together(U, VideoIn(g), AudioIn(g), m)

GoodGops(U, s, m) ==
  /\ s.gops \in Seq(Gop)
  /\ \A n \in 1..Len(s.gops) : GoodGop(U, s.gops[n], m, s.wall)
  /\ \A i, j \in 1..Len(s.gops) : i < j => Precedes(Held(s.gops[i]), Held(s.gops[j]))
  /\ \A n \in 1..Len(s.gops) : Precedes(Held(s.gops[n]), Held(s))
  /\ \A i \in 1..Len(s.files), n \in 1..Len(s.gops) : Precedes(Held(s.files[i]), Held(s.gops[n]))

GoodPending(U, s, m) ==
  /\ InLine(s, m)
  /\ \A i \in 1..Len(s.files) : Precedes(Held(s.files[i]), Held(s))
  /\ VideoIn(s) # {} => LeadingKey(U, VideoIn(s), s.wall)
  /\ VideoIn(s) = {} /\ AudioIn(s) # {} => \A k \in 1..m : ~ KeyAt(U, k)
  /\ Together(U, VideoIn(s), AudioIn(s), m)

LastFile(s) == s.files[Len(s.files)]

GoodOpen(U, s) ==
  s.open =>
    /\ s.files # <<>> /\ s.gops = <<>> /\ s.end = SegmentEnd(LastFile(s).start)
    /\ Cut(U, LastFile(s), VideoIn(s))
    /\ mode # "audio" => /\ LastFile(s).start <= s.wall
                         /\ VideoIn(LastFile(s)) = {} => AudioIn(LastFile(s)) = {}

InGops(s) == UNION {VideoIn(s.gops[n]) : n \in 1..Len(s.gops)}
Buffered(s) == InGops(s) \cup VideoIn(s)
Recorded(files) == UNION {VideoIn(files[n]) : n \in 1..Len(files)}
Current(s) == Buffered(s) \cup (IF s.open THEN VideoIn(LastFile(s)) ELSE {})

UpToDate(U, s, m) ==
  \A a \in Current(s), i \in 1..m : a <= i /\ Frame(U, i) => i \in Current(s)

NoneLost(U, s, m) ==
  ~ s.torn => \A i \in 1..m : Frame(U, i) /\ U[i].on =>
    i \in Recorded(s.files) \/ (s.open /\ i \in VideoIn(s))

FileReaches(U, files, n) ==
  \A i \in 1..files[n].trigger - 1 :
     KeyAt(U, i) /\ (\A q \in 1..n - 1 : \A j \in VideoIn(files[q]) : j < i) =>
        \/ i \in VideoIn(files[n])
        \/ \E k \in VideoIn(files[n]) : k > i /\ KeyAt(U, k) /\ U[k].at + PreRoll <= U[files[n].trigger].at

FilesReach(U, s) ==
  ~ s.torn /\ mode = "gated" =>
    \A n \in 1..Len(s.files) : s.files[n].trigger <= Len(U) /\ FileReaches(U, s.files, n)

BufferReaches(U, s, m) ==
  ~ s.torn /\ mode = "gated" =>
    \A i \in 1..m : KeyAt(U, i) /\ (\A j \in Recorded(s.files) : j < i) =>
        \/ i \in Buffered(s)
        \/ \E k \in Buffered(s) : k > i /\ KeyAt(U, k) /\ U[k].at + PreRoll <= s.wall

NoVideo(U, s, m) ==
  mode = "audio" =>
    /\ \A i \in 1..m : ~ Frame(U, i)
    /\ Recorded(s.files) = {} /\ s.gops = <<>> /\ VideoIn(s) = {}

Good(U, s, m) ==
  /\ s \in RecorderRecord
  /\ GoodFiles(U, s.files, m) /\ GoodGops(U, s, m) /\ GoodPending(U, s, m) /\ GoodOpen(U, s)
  /\ UpToDate(U, s, m) /\ NoneLost(U, s, m) /\ FilesReach(U, s) /\ BufferReaches(U, s, m)
  /\ NoVideo(U, s, m)

AtRest(U, s, t) ==
  LET keyframes == {i \in 1..Len(U) : KeyAt(U, i)} IN
  mode # "audio" =>
    /\ s.video = <<>> <=> keyframes = {}
    /\ s.open => s.video # <<>>
    /\ keyframes # {} => U[Len(U)].on = s.open /\ (mode = "continuous" => s.open)
    /\ s.wall = t

FilesOK(U, s, t, how) ==
  /\ U \in Seq(Unit) /\ s \in RecorderRecord /\ t \in Nat /\ how \in {"running", "failed", "over"}
  /\ GoodFiles(U, s.files, Len(U))
  /\ how = "running" => Good(U, s, Len(U)) /\ AtRest(U, s, t)
  /\ how # "running" => ~ s.open
  /\ how = "over" => NoneLost(U, s, Len(U)) /\ FilesReach(U, s)

FilesInv ==
  /\ mode \in {"continuous", "gated", "audio"} /\ align \in BOOLEAN
  /\ FilesOK(units, r, now, run)

-----------------------------------------------------------------------------
(* What is true of the first units stays true as more come.                 *)
Agree(U, W, m) == m \in Nat /\ \A i \in 1..m : W[i] = U[i]

LEMMA PartsAge ==
  ASSUME NEW U, NEW W, NEW m \in Nat, NEW n \in Nat, m <= n, Agree(U, W, m)
  PROVE  /\ \A x : InLine(x, m) => InLine(x, n)
         /\ \A X : X \subseteq 1..m /\ FramesInARow(U, X) => FramesInARow(W, X)
         /\ \A X, Y : X \subseteq 1..m /\ Together(U, X, Y, m) => Together(W, X, Y, n)
         /\ \A X, f : X \subseteq 1..m /\ Cut(U, f, X) => Cut(W, f, X)
         /\ \A X, t : X \subseteq 1..m /\ LeadingKey(U, X, t) => LeadingKey(W, X, t)
PROOF
  <1>0. \A i \in 1..m : i \in 1..n
    OBVIOUS
  <1>1. \A x : InLine(x, m) => InLine(x, n)
    BY <1>0 DEF InLine
  <1>2. ASSUME NEW X, X \subseteq 1..m, FramesInARow(U, X)
        PROVE  FramesInARow(W, X)
    <2>1. \A a, b \in X : \A i \in a..b : i \in 1..m /\ W[i] = U[i] /\ W[a] = U[a]
      BY <1>2 DEF Agree
    <2>2. \A a \in X : W[a] = U[a]
      BY <1>2 DEF Agree
    <2> QED
      BY <1>2, <2>1, <2>2 DEF FramesInARow, Frame, KeyAt
  <1>3. ASSUME NEW X, NEW Y, X \subseteq 1..m, Together(U, X, Y, m)
        PROVE  Together(W, X, Y, n)
    <2>1. CASE X = {} \/ \A a \in Y : \E v \in X : v < a
      BY <2>1 DEF Together
    <2>2. CASE X # {} /\ \A k \in 1..m : KeyAt(U, k) => \E v \in X : v <= k
      <3>1. ASSUME NEW k \in 1..n, KeyAt(W, k)
            PROVE  \E v \in X : v <= k
        <4>1. CASE k \in 1..m
          BY <2>2, <3>1, <4>1 DEF Agree, KeyAt
        <4>2. CASE k \notin 1..m
          <5> PICK v \in X : TRUE
            BY <2>2
          <5> QED
            BY <1>3, <4>2
        <4> QED
          BY <4>1, <4>2
      <3> QED
        BY <3>1 DEF Together
    <2> QED
      BY <1>3, <2>1, <2>2 DEF Together
  <1>4. \A X, f : X \subseteq 1..m /\ Cut(U, f, X) => Cut(W, f, X)
    BY DEF Cut, Agree, KeyAt
  <1>5. ASSUME NEW X, NEW t, X \subseteq 1..m, LeadingKey(U, X, t)
        PROVE  LeadingKey(W, X, t)
    BY <1>5 DEF LeadingKey, Agree, KeyAt
  <1> QED
    BY <1>1, <1>2, <1>3, <1>4, <1>5

LEMMA FilesAge ==
  ASSUME NEW U, NEW W, NEW m \in Nat, NEW n \in Nat, m <= n, Agree(U, W, m),
         NEW files, GoodFiles(U, files, m)
  PROVE  GoodFiles(W, files, n)
PROOF
  <1>1. ASSUME NEW i \in 1..Len(files)
        PROVE  GoodFile(W, files[i], n)
    <2>1. GoodFile(U, files[i], m)
      BY DEF GoodFiles
    <2>2. VideoIn(files[i]) \subseteq 1..m
      BY <2>1 DEF GoodFile, InLine, Held
    <2> QED
      BY <2>1, <2>2, PartsAge DEF GoodFile
  <1> QED
    BY <1>1 DEF GoodFiles

LEMMA GopsAge ==
  ASSUME NEW U, NEW W, NEW m \in Nat, NEW n \in Nat, m <= n, Agree(U, W, m),
         NEW s, GoodGops(U, s, m)
  PROVE  GoodGops(W, s, n)
PROOF
  <1>1. ASSUME NEW i \in 1..Len(s.gops)
        PROVE  GoodGop(W, s.gops[i], n, s.wall)
    <2>1. GoodGop(U, s.gops[i], m, s.wall)
      BY DEF GoodGops
    <2>2. VideoIn(s.gops[i]) \subseteq 1..m
      BY <2>1 DEF GoodGop, InLine, Held
    <2> QED
      BY <2>1, <2>2, PartsAge DEF GoodGop
  <1> QED
    BY <1>1 DEF GoodGops

LEMMA AllAges ==
  ASSUME NEW U, NEW W, NEW m \in Nat, Agree(U, W, m), Len(U) = m, Len(W) \in Nat, m <= Len(W),
         NEW s, Good(U, s, m)
  PROVE  Good(W, s, m)
PROOF
  <1>1. s \in RecorderRecord /\ NoVideo(W, s, m)
    BY DEF Good, NoVideo, Frame, Agree
  <1>2. GoodFiles(W, s.files, m) /\ GoodGops(W, s, m)
    BY FilesAge, GopsAge DEF Good
  <1>3. VideoIn(s) \subseteq 1..m /\ InLine(s, m)
    BY DEF Good, GoodPending, InLine, Held
  <1>4. GoodPending(W, s, m)
    <2>1. \A k \in 1..m : KeyAt(W, k) <=> KeyAt(U, k)
      BY DEF Agree, KeyAt
    <2>2. VideoIn(s) # {} => LeadingKey(W, VideoIn(s), s.wall)
      BY <1>3, PartsAge DEF Good, GoodPending
    <2>3. Together(W, VideoIn(s), AudioIn(s), m)
      BY <1>3, PartsAge DEF Good, GoodPending
    <2> QED
      BY <2>1, <2>2, <2>3 DEF Good, GoodPending
  <1>5. GoodOpen(W, s)
    BY <1>3, PartsAge DEF Good, GoodOpen
  <1>6. UpToDate(W, s, m) /\ NoneLost(W, s, m)
    BY DEF Good, UpToDate, NoneLost, Agree, Frame
  <1>7. \A k \in 1..m : W[k] = U[k]
    BY DEF Agree
  <1>8. FilesReach(W, s)
    <2> SUFFICES ASSUME ~ s.torn, mode = "gated", NEW n \in 1..Len(s.files)
                 PROVE  s.files[n].trigger <= Len(W) /\ FileReaches(W, s.files, n)
      BY DEF FilesReach
    <2>1. s.files[n].trigger <= m /\ FileReaches(U, s.files, n)
      BY DEF Good, FilesReach
    <2>2. GoodFile(U, s.files[n], m)
      BY DEF Good, GoodFiles
    <2>3. VideoIn(s.files[n]) \subseteq 1..m /\ s.files[n].trigger \in Nat
      BY <2>2 DEF GoodFile, InLine, Held, Files
    <2>4. CASE s.files[n].trigger = 0
      BY <2>1, <2>4 DEF FileReaches
    <2>5. CASE s.files[n].trigger # 0
      <3>1. \A i \in 1..s.files[n].trigger - 1 : i \in 1..m
        BY <2>1, <2>3
      <3>2. s.files[n].trigger \in 1..m
        BY <2>1, <2>3, <2>5
      <3>3. FileReaches(W, s.files, n)
        BY <1>7, <2>1, <2>3, <3>1, <3>2 DEF FileReaches, KeyAt
      <3>4. s.files[n].trigger <= Len(W)
        BY <2>1, <2>3
      <3> QED
        BY <3>3, <3>4
    <2> QED
      BY <2>3, <2>4, <2>5
  <1>9. BufferReaches(W, s, m)
    <2>1. Buffered(s) \subseteq 1..m
      <3>1. \A n \in 1..Len(s.gops) : VideoIn(s.gops[n]) \subseteq 1..m
        BY DEF Good, GoodGops, GoodGop, InLine, Held
      <3>2. InGops(s) \subseteq 1..m
        BY <3>1, Zenon DEF InGops
      <3> QED
        BY <1>3, <3>2, Zenon DEF Buffered
    <2> QED
      BY <1>7, <2>1 DEF Good, BufferReaches, KeyAt
  <1> QED
    BY <1>1, <1>2, <1>4, <1>5, <1>6, <1>8, <1>9 DEF Good

-----------------------------------------------------------------------------
(* A sample arrives.                                                        *)
LEMMA Lines ==
  ASSUME NEW x \in Seq(Nat), NEW m \in Nat, Rising(x), Range(x) \subseteq 1..m
  PROVE  /\ Append(x, m + 1) \in Seq(Nat) /\ Append(x, m + 1) # <<>>
         /\ Rising(Append(x, m + 1)) /\ Range(Append(x, m + 1)) = Range(x) \cup {m + 1}
PROOF
  <1>1. Precedes(Range(x), {m + 1})
    BY DEF Precedes
  <1> QED
    BY <1>1, Appended, SMTT(30)

FrameAdded(s, t, m)  == t = [s EXCEPT !.video = Append(@, m + 1)]
SampleAdded(s, t, m) == t = [s EXCEPT !.audio = Append(@, m + 1)]

LEMMA VideoPushed ==
  ASSUME NEW s \in RecorderRecord, NEW m \in Nat, InLine(s, m), NEW t,
         FrameAdded(s, t, m)
  PROVE  /\ t \in RecorderRecord
         /\ t.files = s.files /\ t.gops = s.gops /\ t.open = s.open /\ t.wall = s.wall
         /\ t.end = s.end /\ t.torn = s.torn /\ t.audio = s.audio /\ t.video # <<>>
         /\ VideoIn(t) = VideoIn(s) \cup {m + 1} /\ AudioIn(t) = AudioIn(s)
         /\ Held(t) = Held(s) \cup {m + 1} /\ InLine(t, m + 1)
PROOF
  <1>1. s.video \in Seq(Nat) /\ Rising(s.video) /\ Range(s.video) \subseteq 1..m
    BY DEF InLine, Held, VideoIn
  <1>2. /\ Append(s.video, m + 1) \in Seq(Nat) /\ Append(s.video, m + 1) # <<>>
        /\ Rising(Append(s.video, m + 1)) /\ Range(Append(s.video, m + 1)) = Range(s.video) \cup {m + 1}
    BY <1>1, Lines
  <1>3. /\ t \in RecorderRecord /\ t.video = Append(s.video, m + 1)
        /\ t.files = s.files /\ t.gops = s.gops /\ t.open = s.open /\ t.wall = s.wall
        /\ t.end = s.end /\ t.torn = s.torn /\ t.audio = s.audio
    BY <1>2 DEF RecorderRecord, FrameAdded
  <1>4. VideoIn(t) = VideoIn(s) \cup {m + 1} /\ AudioIn(t) = AudioIn(s)
    BY <1>2, <1>3 DEF VideoIn, AudioIn
  <1>5. Held(t) = Held(s) \cup {m + 1}
    BY <1>4 DEF Held
  <1>6. InLine(t, m + 1)
    <2>1. Held(s) \subseteq 1..m + 1
      BY DEF InLine
    <2>2. Held(t) \subseteq 1..m + 1
      <3>1. m + 1 \in 1..m + 1
        OBVIOUS
      <3> QED
        BY <1>5, <2>1, <3>1, Zenon
    <2>3. Rising(t.video) /\ Rising(t.audio) /\ t.video \in Seq(Nat) /\ t.audio \in Seq(Nat)
      BY <1>2, <1>3 DEF InLine, RecorderRecord
    <2> QED
      BY <2>2, <2>3 DEF InLine
  <1> QED
    BY <1>2, <1>3, <1>4, <1>5, <1>6

LEMMA AudioPushed ==
  ASSUME NEW s \in RecorderRecord, NEW m \in Nat, InLine(s, m), NEW t,
         SampleAdded(s, t, m)
  PROVE  /\ t \in RecorderRecord
         /\ t.files = s.files /\ t.gops = s.gops /\ t.open = s.open /\ t.wall = s.wall
         /\ t.end = s.end /\ t.torn = s.torn /\ t.video = s.video /\ t.audio # <<>>
         /\ AudioIn(t) = AudioIn(s) \cup {m + 1} /\ VideoIn(t) = VideoIn(s)
         /\ Held(t) = Held(s) \cup {m + 1} /\ InLine(t, m + 1)
PROOF
  <1>1. s.audio \in Seq(Nat) /\ Rising(s.audio) /\ Range(s.audio) \subseteq 1..m
    BY DEF InLine, Held, AudioIn
  <1>2. /\ Append(s.audio, m + 1) \in Seq(Nat) /\ Append(s.audio, m + 1) # <<>>
        /\ Rising(Append(s.audio, m + 1)) /\ Range(Append(s.audio, m + 1)) = Range(s.audio) \cup {m + 1}
    BY <1>1, Lines
  <1>3. /\ t \in RecorderRecord /\ t.audio = Append(s.audio, m + 1)
        /\ t.files = s.files /\ t.gops = s.gops /\ t.open = s.open /\ t.wall = s.wall
        /\ t.end = s.end /\ t.torn = s.torn /\ t.video = s.video
    BY <1>2 DEF RecorderRecord, SampleAdded
  <1>4. VideoIn(t) = VideoIn(s) /\ AudioIn(t) = AudioIn(s) \cup {m + 1}
    BY <1>2, <1>3 DEF VideoIn, AudioIn
  <1>5. Held(t) = Held(s) \cup {m + 1}
    BY <1>4 DEF Held
  <1>6. InLine(t, m + 1)
    <2>1. Held(s) \subseteq 1..m + 1
      BY DEF InLine
    <2>2. Held(t) \subseteq 1..m + 1
      <3>1. m + 1 \in 1..m + 1
        OBVIOUS
      <3> QED
        BY <1>5, <2>1, <3>1, Zenon
    <2>3. Rising(t.video) /\ Rising(t.audio) /\ t.video \in Seq(Nat) /\ t.audio \in Seq(Nat)
      BY <1>2, <1>3 DEF InLine, RecorderRecord
    <2> QED
      BY <2>2, <2>3 DEF InLine
  <1> QED
    BY <1>2, <1>3, <1>4, <1>5, <1>6

(* What a video buffer and the waiting GOPs hold.                           *)
LEMMA Videos ==
  ASSUME NEW s \in RecorderRecord
  PROVE  /\ VideoIn(s) = {} <=> s.video = <<>>
         /\ AudioIn(s) = {} <=> s.audio = <<>>
PROOF
  <1>1. s.video \in Seq(Nat) /\ s.audio \in Seq(Nat)
    BY DEF RecorderRecord
  <1> QED
    BY <1>1, Elements1 DEF VideoIn, AudioIn

(* The files and the GOPs are as they were.                                 *)
LEMMA SameBuffers ==
  ASSUME NEW s, NEW t, t.files = s.files, t.gops = s.gops, t.open = s.open
  PROVE  /\ InGops(t) = InGops(s) /\ Recorded(t.files) = Recorded(s.files)
         /\ LastFile(t) = LastFile(s)
PROOF
  BY DEF InGops, Recorded, LastFile

LEMMA FrameKeeps ==
  ASSUME NEW U, NEW m \in Nat, Len(U) \in Nat, m + 1 <= Len(U), NEW s, Good(U, s, m),
         NEW t, FrameAdded(s, t, m),
         mode # "audio", Frame(U, m + 1), U[m + 1].on => s.open,
         KeyAt(U, m + 1) => /\ s.video = <<>> /\ U[m + 1].at = s.wall
                            /\ s.open /\ m + 1 > LastFile(s).trigger => s.wall < s.end,
         ~ KeyAt(U, m + 1) => s.video # <<>>
  PROVE  Good(U, t, m + 1)
PROOF
  <1>1. s \in RecorderRecord /\ InLine(s, m) /\ VideoIn(s) \subseteq 1..m
    BY DEF Good, GoodPending, InLine, Held
  <1>2. /\ t \in RecorderRecord
        /\ t.files = s.files /\ t.gops = s.gops /\ t.open = s.open /\ t.wall = s.wall
        /\ t.end = s.end /\ t.torn = s.torn /\ t.audio = s.audio /\ t.video # <<>>
        /\ VideoIn(t) = VideoIn(s) \cup {m + 1} /\ AudioIn(t) = AudioIn(s)
        /\ Held(t) = Held(s) \cup {m + 1} /\ InLine(t, m + 1)
    BY <1>1, VideoPushed, Zenon
  <1>3. /\ InGops(t) = InGops(s) /\ Recorded(t.files) = Recorded(s.files)
        /\ LastFile(t) = LastFile(s)
    BY <1>2, SameBuffers
  <1>4. VideoIn(s) = {} <=> s.video = <<>>
    BY <1>1, Videos
  <1>5. m + 1 \in Nat /\ m <= m + 1 /\ Agree(U, U, m) /\ \A i \in 1..m + 1 : i \in 1..m \/ i = m + 1
    BY DEF Agree
  <1>6. \A i \in 1..m : i < m + 1 /\ ~ (i > m + 1) /\ i # m + 1
    OBVIOUS
  <1>7. GoodFiles(U, t.files, m + 1)
    BY <1>2, <1>5, FilesAge DEF Good
  <1>8. GoodGops(U, t, m + 1)
    <2>1. GoodGops(U, s, m + 1) /\ GoodGops(U, s, m)
      BY <1>5, GopsAge DEF Good
    <2>2. \A n \in 1..Len(s.gops) : Held(s.gops[n]) \subseteq 1..m
      BY <2>1 DEF GoodGops, GoodGop, InLine
    <2>3. \A n \in 1..Len(s.gops) : Precedes(Held(s.gops[n]), Held(t))
      BY <1>2, <1>6, <2>1, <2>2 DEF GoodGops, Precedes
    <2> QED
      BY <1>2, <2>1, <2>3 DEF GoodGops
  <1>9. GoodPending(U, t, m + 1)
    <2>1. \A n \in 1..Len(s.files) : Held(s.files[n]) \subseteq 1..m
      BY DEF Good, GoodFiles, GoodFile, InLine
    <2>2. \A n \in 1..Len(s.files) : Precedes(Held(s.files[n]), Held(t))
      BY <1>2, <1>6, <2>1 DEF Good, GoodPending, Precedes
    <2>3. LeadingKey(U, VideoIn(t), t.wall) /\ Together(U, VideoIn(t), AudioIn(t), m + 1)
      <3>1. CASE KeyAt(U, m + 1)
        <4>1. VideoIn(t) = {m + 1} /\ U[m + 1].at = t.wall
          BY <1>2, <1>4, <3>1
        <4>2. LeadingKey(U, VideoIn(t), t.wall)
          BY <3>1, <4>1 DEF LeadingKey
        <4>3. CASE AudioIn(s) = {}
          BY <1>2, <4>2, <4>3 DEF Together
        <4>4. CASE AudioIn(s) # {}
          <5>1. \A k \in 1..m : ~ KeyAt(U, k)
            BY <1>4, <3>1, <4>4 DEF Good, GoodPending
          <5>2. \A k \in 1..m + 1 : KeyAt(U, k) => m + 1 <= k
            BY <1>5, <5>1
          <5>3. Together(U, VideoIn(t), AudioIn(t), m + 1)
            BY <4>1, <5>2 DEF Together
          <5> QED
            BY <4>2, <5>3
        <4> QED
          BY <4>3, <4>4
      <3>2. CASE ~ KeyAt(U, m + 1)
        <4>1. LeadingKey(U, VideoIn(s), s.wall) /\ Together(U, VideoIn(s), AudioIn(s), m) /\ VideoIn(s) # {}
          BY <1>4, <3>2 DEF Good, GoodPending
        <4>2. LeadingKey(U, VideoIn(t), t.wall)
          <5> PICK k \in VideoIn(s) : KeyAt(U, k) /\ U[k].at = s.wall /\ \A b \in VideoIn(s) : k <= b
            BY <4>1 DEF LeadingKey
          <5>0. \A b \in VideoIn(t) : b \in VideoIn(s) \/ b = m + 1
            BY <1>2, Zenon
          <5>1. k \in VideoIn(t) /\ \A b \in VideoIn(t) : k <= b
            BY <1>1, <1>2, <5>0
          <5> QED
            BY <1>2, <5>1 DEF LeadingKey
        <4>3. CASE \A a \in AudioIn(s) : \E v \in VideoIn(s) : v < a
          BY <1>2, <4>2, <4>3 DEF Together
        <4>4. CASE \A k \in 1..m : KeyAt(U, k) => \E v \in VideoIn(s) : v <= k
          BY <1>2, <1>5, <3>2, <4>2, <4>4 DEF Together
        <4> QED
          BY <4>1, <4>3, <4>4 DEF Together
      <3> QED
        BY <3>1, <3>2
    <2> QED
      BY <1>2, <2>2, <2>3 DEF GoodPending
  <1>10. GoodOpen(U, t)
    <2> SUFFICES ASSUME s.open
                 PROVE  Cut(U, LastFile(s), VideoIn(t))
      BY <1>2, <1>3 DEF Good, GoodOpen
    <2>1. /\ Cut(U, LastFile(s), VideoIn(s)) /\ s.end = SegmentEnd(LastFile(s).start)
          /\ LastFile(s).start <= s.wall
      BY DEF Good, GoodOpen
    <2>2. KeyAt(U, m + 1) /\ m + 1 > LastFile(s).trigger =>
            LastFile(s).start <= U[m + 1].at /\ U[m + 1].at < SegmentEnd(LastFile(s).start)
      BY <2>1
    <2> QED
      BY <1>2, <2>1, <2>2 DEF Cut
  <1>11. UpToDate(U, t, m + 1)
    <2>1. Current(t) = Current(s) \cup {m + 1}
      BY <1>2, <1>3 DEF Current, Buffered
    <2>2. \A i \in 1..m : ~ (m + 1 <= i)
      OBVIOUS
    <2> QED
      BY <1>5, <2>1, <2>2 DEF Good, UpToDate
  <1>12. NoneLost(U, t, m + 1)
    BY <1>2, <1>3, <1>5 DEF Good, NoneLost
  <1>13. FilesReach(U, t)
    BY <1>2 DEF Good, FilesReach
  <1>14. BufferReaches(U, t, m + 1)
    <2>1. Buffered(t) = Buffered(s) \cup {m + 1}
      BY <1>2, <1>3 DEF Buffered
    <2> QED
      BY <1>2, <1>3, <1>5, <2>1 DEF Good, BufferReaches
  <1> QED
    BY <1>2, <1>7, <1>8, <1>9, <1>10, <1>11, <1>12, <1>13, <1>14 DEF Good, NoVideo

LEMMA SampleKeeps ==
  ASSUME NEW U, NEW m \in Nat, Len(U) \in Nat, m + 1 <= Len(U), NEW s, Good(U, s, m),
         NEW t, SampleAdded(s, t, m),
         ~ Frame(U, m + 1), s.video = <<>> => \A k \in 1..m : ~ KeyAt(U, k)
  PROVE  Good(U, t, m + 1)
PROOF
  <1>1. s \in RecorderRecord /\ InLine(s, m) /\ VideoIn(s) \subseteq 1..m
    BY DEF Good, GoodPending, InLine, Held
  <1>2. /\ t \in RecorderRecord
        /\ t.files = s.files /\ t.gops = s.gops /\ t.open = s.open /\ t.wall = s.wall
        /\ t.end = s.end /\ t.torn = s.torn /\ t.video = s.video /\ t.audio # <<>>
        /\ AudioIn(t) = AudioIn(s) \cup {m + 1} /\ VideoIn(t) = VideoIn(s)
        /\ Held(t) = Held(s) \cup {m + 1} /\ InLine(t, m + 1)
    BY <1>1, AudioPushed, Zenon
  <1>3. /\ InGops(t) = InGops(s) /\ Recorded(t.files) = Recorded(s.files)
        /\ LastFile(t) = LastFile(s)
    BY <1>2, SameBuffers
  <1>4. VideoIn(s) = {} <=> s.video = <<>>
    BY <1>1, Videos
  <1>5. m + 1 \in Nat /\ m <= m + 1 /\ Agree(U, U, m) /\ \A i \in 1..m + 1 : i \in 1..m \/ i = m + 1
    BY DEF Agree
  <1>6. \A i \in 1..m : i < m + 1 /\ ~ (i > m + 1) /\ i # m + 1
    OBVIOUS
  <1>7. ~ KeyAt(U, m + 1)
    BY DEF KeyAt, Frame
  <1>8. GoodFiles(U, t.files, m + 1)
    BY <1>2, <1>5, FilesAge DEF Good
  <1>9. GoodGops(U, t, m + 1)
    <2>1. GoodGops(U, s, m + 1) /\ GoodGops(U, s, m)
      BY <1>5, GopsAge DEF Good
    <2>2. \A n \in 1..Len(s.gops) : Held(s.gops[n]) \subseteq 1..m
      BY <2>1 DEF GoodGops, GoodGop, InLine
    <2>3. \A n \in 1..Len(s.gops) : Precedes(Held(s.gops[n]), Held(t))
      BY <1>2, <1>6, <2>1, <2>2 DEF GoodGops, Precedes
    <2> QED
      BY <1>2, <2>1, <2>3 DEF GoodGops
  <1>10. GoodPending(U, t, m + 1)
    <2>1. \A n \in 1..Len(s.files) : Held(s.files[n]) \subseteq 1..m
      BY DEF Good, GoodFiles, GoodFile, InLine
    <2>2. \A n \in 1..Len(s.files) : Precedes(Held(s.files[n]), Held(t))
      BY <1>2, <1>6, <2>1 DEF Good, GoodPending, Precedes
    <2>3. VideoIn(t) # {} => LeadingKey(U, VideoIn(t), t.wall)
      BY <1>2 DEF Good, GoodPending
    <2>4. Together(U, VideoIn(t), AudioIn(t), m + 1)
      <3>1. CASE VideoIn(s) # {} /\ \A a \in AudioIn(s) : \E v \in VideoIn(s) : v < a
        <4>1. \E v \in VideoIn(s) : v < m + 1
          BY <1>1, <1>6, <3>1
        <4> QED
          BY <1>2, <3>1, <4>1 DEF Together
      <3>2. CASE \A k \in 1..m : KeyAt(U, k) => \E v \in VideoIn(s) : v <= k
        BY <1>2, <1>5, <1>7, <3>2 DEF Together
      <3>3. CASE VideoIn(s) = {}
        BY <1>2, <3>3 DEF Together
      <3>4. Together(U, VideoIn(s), AudioIn(s), m)
        BY DEF Good, GoodPending
      <3> QED
        BY <3>1, <3>2, <3>3, <3>4 DEF Together
    <2>5. VideoIn(t) = {} => \A k \in 1..m + 1 : ~ KeyAt(U, k)
      BY <1>2, <1>4, <1>5, <1>7
    <2> QED
      BY <1>2, <2>2, <2>3, <2>4, <2>5 DEF GoodPending
  <1>11. GoodOpen(U, t)
    BY <1>2, <1>3 DEF Good, GoodOpen
  <1>12. UpToDate(U, t, m + 1)
    <2>1. Current(t) = Current(s)
      BY <1>2, <1>3 DEF Current, Buffered
    <2> QED
      BY <1>5, <2>1 DEF Good, UpToDate
  <1>13. NoneLost(U, t, m + 1)
    BY <1>2, <1>3, <1>5 DEF Good, NoneLost
  <1>14. FilesReach(U, t)
    BY <1>2 DEF Good, FilesReach
  <1>15. BufferReaches(U, t, m + 1)
    <2>1. Buffered(t) = Buffered(s)
      BY <1>2, <1>3 DEF Buffered
    <2> QED
      BY <1>2, <1>3, <1>5, <1>7, <2>1 DEF Good, BufferReaches
  <1>16. NoVideo(U, t, m + 1)
    BY <1>2, <1>3, <1>5 DEF Good, NoVideo
  <1> QED
    BY <1>2, <1>8, <1>9, <1>10, <1>11, <1>12, <1>13, <1>14, <1>15, <1>16 DEF Good

-----------------------------------------------------------------------------
(* The open file gets samples.                                              *)
LastFileGets(s, t, v, a) == t = InLastFile(s, v, a)

LEMMA LastFileGrows ==
  ASSUME NEW s \in RecorderRecord, s.files # <<>>, NEW v \in Seq(Nat), NEW a \in Seq(Nat),
         NEW t, LastFileGets(s, t, v, a)
  PROVE  /\ t \in RecorderRecord /\ Len(t.files) = Len(s.files) /\ t.files # <<>>
         /\ \A n \in 1..Len(s.files) - 1 : t.files[n] = s.files[n]
         /\ LastFile(t).start = LastFile(s).start /\ LastFile(t).trigger = LastFile(s).trigger
         /\ LastFile(t).video = LastFile(s).video \o v /\ LastFile(t).audio = LastFile(s).audio \o a
         /\ t.gops = s.gops /\ t.open = s.open /\ t.wall = s.wall
         /\ t.end = s.end /\ t.torn = s.torn /\ t.video = s.video /\ t.audio = s.audio
PROOF
  <1> PICK l, files, f : l = Len(s.files) /\ files = s.files /\ f = s.files[l]
    OBVIOUS
  <1>1. files \in Seq(Files) /\ l \in Nat \ {0} /\ DOMAIN files = 1..l /\ f \in Files
    BY DEF RecorderRecord
  <1> PICK g : g = Extended(f, v, a)
    OBVIOUS
  <1>2. /\ g \in Files /\ g.start = f.start /\ g.trigger = f.trigger
        /\ g.video = f.video \o v /\ g.audio = f.audio \o a
    <2>1. f.video \o v \in Seq(Nat) /\ f.audio \o a \in Seq(Nat)
      BY <1>1 DEF Files
    <2> QED
      BY <1>1, <2>1 DEF Files, Extended
  <1> PICK h : h = [files EXCEPT ![l] = g]
    OBVIOUS
  <1>3. h \in Seq(Files) /\ Len(h) = l /\ h[l] = g /\ \A n \in 1..l - 1 : h[n] = files[n]
    BY <1>1, <1>2
  <1>4. t = [s EXCEPT !.files = h]
    BY DEF InLastFile, LastFileGets
  <1>5. /\ t \in RecorderRecord /\ t.files = h
        /\ t.gops = s.gops /\ t.open = s.open /\ t.wall = s.wall
        /\ t.end = s.end /\ t.torn = s.torn /\ t.video = s.video /\ t.audio = s.audio
    BY <1>3, <1>4 DEF RecorderRecord
  <1>6. LastFile(t) = g /\ LastFile(s) = f /\ h # <<>>
    BY <1>1, <1>3, <1>5 DEF LastFile
  <1> QED
    BY <1>2, <1>3, <1>5, <1>6

FileGets(f, g, v, a) == g.video = f.video \o v /\ g.audio = f.audio \o a

LEMMA GrownFile ==
  ASSUME NEW m \in Nat, NEW f, InLine(f, m), NEW v \in Seq(Nat), NEW a \in Seq(Nat),
         Rising(v), Rising(a), Range(v) \subseteq 1..m, Range(a) \subseteq 1..m,
         Precedes(Held(f), Range(v)), Precedes(Held(f), Range(a)),
         NEW g, FileGets(f, g, v, a)
  PROVE  /\ InLine(g, m) /\ VideoIn(g) = VideoIn(f) \cup Range(v)
         /\ AudioIn(g) = AudioIn(f) \cup Range(a)
         /\ Held(g) = Held(f) \cup (Range(v) \cup Range(a))
PROOF
  <1>0. g.video = f.video \o v /\ g.audio = f.audio \o a
    BY DEF FileGets
  <1> PICK x, y : x = f.video /\ y = f.audio
    OBVIOUS
  <1>1. x \in Seq(Nat) /\ y \in Seq(Nat) /\ Rising(x) /\ Rising(y)
    BY DEF InLine
  <1>2. Precedes(Range(x), Range(v)) /\ Precedes(Range(y), Range(a))
    BY DEF Precedes, Held, VideoIn, AudioIn
  <1>3. x \o v \in Seq(Nat) /\ Range(x \o v) = Range(x) \cup Range(v) /\ Rising(x \o v)
    BY <1>1, <1>2, Joined
  <1>4. y \o a \in Seq(Nat) /\ Range(y \o a) = Range(y) \cup Range(a) /\ Rising(y \o a)
    BY <1>1, <1>2, Joined
  <1>5. VideoIn(g) = VideoIn(f) \cup Range(v) /\ AudioIn(g) = AudioIn(f) \cup Range(a)
    BY <1>0, <1>3, <1>4 DEF VideoIn, AudioIn
  <1>6. Held(g) = Held(f) \cup (Range(v) \cup Range(a))
    BY <1>5 DEF Held
  <1>7. Held(g) \subseteq 1..m
    BY <1>6 DEF InLine
  <1> QED
    BY <1>0, <1>3, <1>4, <1>5, <1>6, <1>7 DEF InLine

(* What is put into the last file goes with what it holds.                  *)
GoesInto(U, s, X, Y, m) ==
  /\ X \cup Y \subseteq 1..m
  /\ \A n \in 1..Len(s.files) : Precedes(Held(s.files[n]), X \cup Y)
  /\ FramesInARow(U, VideoIn(LastFile(s)) \cup X)
  /\ Together(U, VideoIn(LastFile(s)) \cup X, AudioIn(LastFile(s)) \cup Y, m)
  /\ Cut(U, LastFile(s), X)

(* The last file has got video X and audio Y.                               *)
Grew(s, t, X, Y) ==
  /\ t \in RecorderRecord /\ Len(t.files) = Len(s.files) /\ t.files # <<>>
  /\ \A n \in 1..Len(s.files) - 1 : t.files[n] = s.files[n]
  /\ LastFile(t).start = LastFile(s).start /\ LastFile(t).trigger = LastFile(s).trigger
  /\ VideoIn(LastFile(t)) = VideoIn(LastFile(s)) \cup X
  /\ AudioIn(LastFile(t)) = AudioIn(LastFile(s)) \cup Y
  /\ \A n \in 1..Len(s.files) : VideoIn(s.files[n]) \subseteq VideoIn(t.files[n])
  /\ Recorded(t.files) = Recorded(s.files) \cup X
  /\ t.open = s.open /\ t.wall = s.wall /\ t.end = s.end /\ t.torn = s.torn

LEMMA FilesGrowGood ==
  ASSUME NEW U, NEW m \in Nat, NEW s \in RecorderRecord, s.files # <<>>, GoodFiles(U, s.files, m),
         NEW v \in Seq(Nat), NEW a \in Seq(Nat), Rising(v), Rising(a),
         GoesInto(U, s, Range(v), Range(a), m), NEW t, LastFileGets(s, t, v, a)
  PROVE  GoodFiles(U, t.files, m) /\ Grew(s, t, Range(v), Range(a))
PROOF
  <1> PICK l, X, Y : l = Len(s.files) /\ X = Range(v) /\ Y = Range(a)
    OBVIOUS
  <1>1. /\ t \in RecorderRecord /\ Len(t.files) = l
        /\ \A n \in 1..l - 1 : t.files[n] = s.files[n]
        /\ LastFile(t).start = LastFile(s).start /\ LastFile(t).trigger = LastFile(s).trigger
        /\ LastFile(t).video = LastFile(s).video \o v /\ LastFile(t).audio = LastFile(s).audio \o a
    BY LastFileGrows
  <1>2. l \in Nat \ {0} /\ l \in 1..l /\ LastFile(s) = s.files[l] /\ LastFile(t) = t.files[l]
    BY <1>1 DEF RecorderRecord, LastFile
  <1> PICK f, g : f = LastFile(s) /\ g = LastFile(t)
    OBVIOUS
  <1>3. GoodFile(U, f, m)
    BY <1>2 DEF GoodFiles
  <1>4. Precedes(Held(f), X \cup Y) /\ X \cup Y \subseteq 1..m
    BY <1>2 DEF GoesInto
  <1>5. /\ InLine(g, m) /\ VideoIn(g) = VideoIn(f) \cup X
        /\ AudioIn(g) = AudioIn(f) \cup Y /\ Held(g) = Held(f) \cup (X \cup Y)
    <2>1. InLine(f, m) /\ FileGets(f, g, v, a)
      BY <1>1, <1>3 DEF GoodFile, FileGets
    <2>2. /\ Precedes(Held(f), Range(v)) /\ Precedes(Held(f), Range(a))
          /\ Range(v) \subseteq 1..m /\ Range(a) \subseteq 1..m
      BY <1>4 DEF Precedes
    <2>3. /\ InLine(g, m) /\ VideoIn(g) = VideoIn(f) \cup Range(v)
          /\ AudioIn(g) = AudioIn(f) \cup Range(a) /\ Held(g) = Held(f) \cup (Range(v) \cup Range(a))
      BY <2>1, <2>2, GrownFile
    <2> QED
      BY <2>3
  <1>6. g \in Files
    BY <1>1, <1>2 DEF RecorderRecord
  <1>7. Cut(U, g, VideoIn(g))
    <2>1. Cut(U, f, VideoIn(f)) /\ Cut(U, f, X)
      BY <1>3 DEF GoodFile, GoesInto
    <2> QED
      BY <1>1, <1>5, <2>1 DEF Cut
  <1>8. GoodFile(U, g, m)
    BY <1>5, <1>6, <1>7 DEF GoodFile, GoesInto
  <1>9. \A n \in 1..l : n = l \/ (n \in 1..l - 1 /\ t.files[n] = s.files[n])
    BY <1>1, <1>2
  <1>10. \A n \in 1..l : GoodFile(U, t.files[n], m)
    BY <1>2, <1>8, <1>9 DEF GoodFiles
  <1>11. /\ \A n \in 1..l : VideoIn(s.files[n]) \subseteq VideoIn(t.files[n])
         /\ \A n \in 1..l : Held(t.files[n]) \subseteq Held(s.files[n]) \cup (X \cup Y)
    <2>1. VideoIn(s.files[l]) \subseteq VideoIn(t.files[l]) /\ Held(t.files[l]) \subseteq Held(s.files[l]) \cup (X \cup Y)
      BY <1>2, <1>5
    <2> QED
      BY <1>9, <2>1
  <1>12. ASSUME NEW i \in 1..l, NEW j \in 1..l, i < j
         PROVE  Precedes(Held(t.files[i]), Held(t.files[j]))
    <2>1. t.files[i] = s.files[i] /\ Precedes(Held(s.files[i]), Held(s.files[j]))
      <3>1. i \in 1..l - 1
        BY <1>2, <1>12
      <3> QED
        BY <1>1, <1>12, <3>1 DEF GoodFiles
    <2>2. Precedes(Held(s.files[i]), X \cup Y)
      BY DEF GoesInto
    <2>3. Held(t.files[j]) \subseteq Held(s.files[j]) \cup (X \cup Y)
      BY <1>11
    <2> QED
      BY <2>1, <2>2, <2>3 DEF Precedes
  <1>13. GoodFiles(U, t.files, m)
    BY <1>1, <1>10, <1>12 DEF GoodFiles, RecorderRecord
  <1>14. Recorded(t.files) = Recorded(s.files) \cup X
    <2>1. VideoIn(t.files[l]) = VideoIn(s.files[l]) \cup X
      BY <1>2, <1>5
    <2>2. ASSUME NEW i
          PROVE  i \in Recorded(t.files) <=> i \in Recorded(s.files) \/ i \in X
      <3>1. i \in Recorded(t.files) <=> \E n \in 1..l : i \in VideoIn(t.files[n])
        BY <1>1 DEF Recorded
      <3>2. i \in Recorded(s.files) <=> \E n \in 1..l : i \in VideoIn(s.files[n])
        BY DEF Recorded
      <3> QED
        BY <1>2, <1>9, <2>1, <3>1, <3>2
    <2> QED
      BY <2>2
  <1>15. t.open = s.open /\ t.wall = s.wall /\ t.end = s.end /\ t.torn = s.torn /\ t.files # <<>>
    BY LastFileGrows
  <1> QED
    BY <1>1, <1>5, <1>11, <1>13, <1>14, <1>15 DEF Grew

-----------------------------------------------------------------------------
(* What is pending goes into the open file.                                 *)
LEMMA PendingFits ==
  ASSUME NEW U, NEW m \in Nat, NEW s, Good(U, s, m), s.open,
         s.video # <<>> \/ mode = "audio" \/ s.audio = <<>>
  PROVE  GoesInto(U, s, VideoIn(s), AudioIn(s), m)
PROOF
  <1> PICK l, f, FV, FA, PV, PA : /\ l = Len(s.files) /\ f = LastFile(s)
                                  /\ FV = VideoIn(f) /\ FA = AudioIn(f)
                                  /\ PV = VideoIn(s) /\ PA = AudioIn(s)
    OBVIOUS
  <1>1. /\ s \in RecorderRecord /\ s.files # <<>> /\ s.gops = <<>> /\ Cut(U, f, PV)
        /\ mode # "audio" /\ FV = {} => FA = {}
    BY DEF Good, GoodOpen
  <1>2. l \in Nat \ {0} /\ l \in 1..l /\ f = s.files[l]
    BY <1>1 DEF RecorderRecord, LastFile
  <1>3. GoodFile(U, f, m)
    BY <1>2 DEF Good, GoodFiles
  <1>4. Held(s) = PV \cup PA /\ Held(s) \subseteq 1..m /\ FV \subseteq 1..m
    BY <1>3 DEF Good, GoodPending, InLine, Held, GoodFile
  <1>5. Current(s) = FV \cup PV
    <2>1. InGops(s) = {}
      <3>1. Len(s.gops) = 0 /\ 1..0 = {}
        BY <1>1
      <3> QED
        BY <3>1 DEF InGops
    <2> QED
      BY <2>1 DEF Current, Buffered
  <1>6. \A n \in 1..l : Precedes(Held(s.files[n]), PV \cup PA)
    BY <1>4 DEF Good, GoodPending
  <1>7. (PV = {} <=> s.video = <<>>) /\ (PA = {} <=> s.audio = <<>>)
    BY <1>1, Videos
  <1>8. PV # {} => LeadingKey(U, PV, s.wall)
    BY DEF Good, GoodPending
  <1>9. FramesInARow(U, FV \cup PV)
    <2>1. ASSUME NEW a \in FV \cup PV, NEW b \in FV \cup PV, NEW i \in a..b, Frame(U, i)
          PROVE  i \in FV \cup PV
      <3>1. a \in 1..m /\ b \in 1..m
        BY <1>4
      <3>2. i \in 1..m /\ a <= i
        BY <3>1
      <3> QED
        BY <1>5, <2>1, <3>2 DEF Good, UpToDate
    <2>2. ASSUME NEW a \in FV
          PROVE  KeyAt(U, a) \/ \E b \in FV \cup PV : b < a
      BY <1>3 DEF GoodFile, FramesInARow
    <2>3. ASSUME NEW a \in PV
          PROVE  KeyAt(U, a) \/ \E b \in FV \cup PV : b < a
      <3> PICK k \in PV : KeyAt(U, k) /\ \A b \in PV : k <= b
        BY <1>8 DEF LeadingKey
      <3>1. k \in 1..m /\ a \in 1..m /\ k <= a
        BY <1>4
      <3>2. k = a \/ k < a
        BY <3>1
      <3> QED
        BY <3>2
    <2> QED
      BY <2>1, <2>2, <2>3 DEF FramesInARow
  <1>10. Together(U, FV \cup PV, FA \cup PA, m)
    <2>0. Together(U, FV, FA, m) /\ Together(U, PV, PA, m)
      BY <1>3 DEF GoodFile, Good, GoodPending
    <2>1. CASE FV = {} /\ PV = {}
      BY <2>1 DEF Together
    <2>2. CASE FV = {} /\ PV # {}
      <3>1. FA = {}
        BY <1>1, <1>7, <2>2 DEF Good, NoVideo
      <3>2. FV \cup PV = PV /\ FA \cup PA = PA
        BY <2>2, <3>1
      <3> QED
        BY <2>0, <3>2
    <2>3. CASE FV # {} /\ \A a \in FA : \E v \in FV : v < a
      <3> PICK w \in FV : TRUE
        BY <2>3
      <3>1. \A a \in PA : w < a
        BY <1>2, <1>6 DEF Precedes, Held
      <3>2. \A a \in FA \cup PA : \E v \in FV \cup PV : v < a
        BY <2>3, <3>1
      <3> QED
        BY <3>2 DEF Together
    <2>4. CASE FV # {} /\ \A k \in 1..m : KeyAt(U, k) => \E v \in FV : v <= k
      BY <2>4 DEF Together
    <2> QED
      BY <2>0, <2>1, <2>2, <2>3, <2>4 DEF Together
  <1> QED
    BY <1>1, <1>4, <1>6, <1>9, <1>10 DEF GoesInto

Flushed(s, t) == t = [InLastFile(s, s.video, s.audio) EXCEPT !.video = <<>>, !.audio = <<>>]

(* The files after one of them has grown reach back as far.                 *)
LEMMA ReachGrows ==
  ASSUME NEW U, NEW s \in RecorderRecord, FilesReach(U, s), NEW t,
         Len(t.files) = Len(s.files), t.torn = s.torn,
         \A n \in 1..Len(s.files) - 1 : t.files[n] = s.files[n],
         LastFile(t).trigger = LastFile(s).trigger,
         \A n \in 1..Len(s.files) : VideoIn(s.files[n]) \subseteq VideoIn(t.files[n])
  PROVE  FilesReach(U, t)
PROOF
  <1> SUFFICES ASSUME ~ s.torn, mode = "gated", NEW n \in 1..Len(s.files)
               PROVE  t.files[n].trigger <= Len(U) /\ FileReaches(U, t.files, n)
    BY DEF FilesReach
  <1>1. s.files[n].trigger <= Len(U) /\ FileReaches(U, s.files, n)
    BY DEF FilesReach
  <1>2. Len(s.files) \in Nat
    BY DEF RecorderRecord
  <1>3. t.files[n].trigger = s.files[n].trigger
    <2>1. n = Len(s.files) \/ n \in 1..Len(s.files) - 1
      BY <1>2
    <2> QED
      BY <2>1 DEF LastFile
  <1>4. \A q \in 1..n - 1 : t.files[q] = s.files[q]
    BY <1>2
  <1> QED
    BY <1>1, <1>3, <1>4 DEF FileReaches

LEMMA EmptyPart ==
  ASSUME NEW x, x.video = <<>>, x.audio = <<>>, NEW m
  PROVE  InLine(x, m) /\ VideoIn(x) = {} /\ AudioIn(x) = {} /\ Held(x) = {}
PROOF
  BY Nothing DEF InLine, Held, VideoIn, AudioIn

FlushedTo(s, t) ==
  /\ Grew(s, t, VideoIn(s), AudioIn(s))
  /\ t.gops = s.gops /\ t.video = <<>> /\ t.audio = <<>>

LEMMA FlushedFields ==
  ASSUME NEW U, NEW m \in Nat, NEW s \in RecorderRecord, s.files # <<>>, GoodFiles(U, s.files, m),
         InLine(s, m), GoesInto(U, s, VideoIn(s), AudioIn(s), m), NEW t, Flushed(s, t)
  PROVE  FlushedTo(s, t) /\ GoodFiles(U, t.files, m)
PROOF
  <1> PICK v, a : v = s.video /\ a = s.audio
    OBVIOUS
  <1> PICK x : x = InLastFile(s, v, a)
    OBVIOUS
  <1>1. v \in Seq(Nat) /\ a \in Seq(Nat) /\ Rising(v) /\ Rising(a)
    BY DEF InLine
  <1>2. VideoIn(s) = Range(v) /\ AudioIn(s) = Range(a)
    BY DEF VideoIn, AudioIn
  <1>3. LastFileGets(s, x, v, a) /\ GoesInto(U, s, Range(v), Range(a), m)
    BY <1>2 DEF LastFileGets
  <1>4. x.gops = s.gops
    BY <1>1, <1>3, LastFileGrows
  <1>5. GoodFiles(U, x.files, m) /\ Grew(s, x, Range(v), Range(a))
    BY <1>1, <1>3, FilesGrowGood
  <1>6. t = [x EXCEPT !.video = <<>>, !.audio = <<>>]
    BY DEF Flushed
  <1>7. x \in RecorderRecord
    BY <1>5 DEF Grew
  <1>8. /\ t \in RecorderRecord /\ t.files = x.files /\ t.video = <<>> /\ t.audio = <<>>
        /\ t.gops = x.gops /\ t.open = x.open /\ t.wall = x.wall /\ t.end = x.end /\ t.torn = x.torn
    <2> PICK e : e = <<>> /\ e \in Seq(Nat)
      BY Nothing
    <2>1. t = [x EXCEPT !.video = e, !.audio = e]
      BY <1>6
    <2> HIDE <1>6
    <2> QED
      BY <1>7, <2>1 DEF RecorderRecord
  <1>9. LastFile(t) = LastFile(x)
    BY <1>8 DEF LastFile
  <1>10. Grew(s, t, Range(v), Range(a))
    BY <1>5, <1>8, <1>9 DEF Grew
  <1> QED
    BY <1>2, <1>4, <1>5, <1>8, <1>10 DEF FlushedTo

LEMMA FlushKeeps ==
  ASSUME NEW U, NEW m \in Nat, NEW s, Good(U, s, m), s.open, NEW t, Flushed(s, t),
         s.video # <<>> \/ mode = "audio" \/ s.audio = <<>>
  PROVE  Good(U, t, m)
PROOF
  <1>1. /\ s \in RecorderRecord /\ s.files # <<>> /\ GoodFiles(U, s.files, m) /\ InLine(s, m)
        /\ s.gops = <<>> /\ Len(s.gops) = 0 /\ 1..0 = {}
    BY DEF Good, GoodOpen, GoodPending
  <1>2. GoesInto(U, s, VideoIn(s), AudioIn(s), m)
    BY PendingFits
  <1>31. FlushedTo(s, t) /\ GoodFiles(U, t.files, m)
    BY <1>1, <1>2, FlushedFields
  <1>3. /\ t \in RecorderRecord /\ Len(t.files) = Len(s.files) /\ t.files # <<>>
        /\ \A n \in 1..Len(s.files) - 1 : t.files[n] = s.files[n]
        /\ LastFile(t).start = LastFile(s).start /\ LastFile(t).trigger = LastFile(s).trigger
        /\ t.gops = s.gops /\ t.open = s.open /\ t.wall = s.wall
        /\ t.end = s.end /\ t.torn = s.torn /\ t.video = <<>> /\ t.audio = <<>>
        /\ GoodFiles(U, t.files, m)
        /\ VideoIn(LastFile(t)) = VideoIn(LastFile(s)) \cup VideoIn(s)
        /\ AudioIn(LastFile(t)) = AudioIn(LastFile(s)) \cup AudioIn(s)
        /\ \A n \in 1..Len(s.files) : VideoIn(s.files[n]) \subseteq VideoIn(t.files[n])
        /\ Recorded(t.files) = Recorded(s.files) \cup VideoIn(s)
    BY <1>31 DEF FlushedTo, Grew
  <1>4. InLine(t, m) /\ VideoIn(t) = {} /\ AudioIn(t) = {} /\ Held(t) = {}
    BY <1>3, EmptyPart
  <1>5. InGops(t) = {} /\ InGops(s) = {}
    BY <1>1, <1>3 DEF InGops
  <1>6. (VideoIn(s) = {} <=> s.video = <<>>) /\ (AudioIn(s) = {} <=> s.audio = <<>>)
    BY <1>1, Videos
  <1>7. GoodGops(U, t, m)
    BY <1>1, <1>3 DEF GoodGops
  <1>8. GoodPending(U, t, m)
    BY <1>4 DEF GoodPending, Precedes, Together
  <1>9. GoodOpen(U, t)
    <2>1. Cut(U, LastFile(t), VideoIn(t))
      BY <1>4 DEF Cut
    <2>2. /\ s.end = SegmentEnd(LastFile(s).start)
          /\ mode # "audio" => /\ LastFile(s).start <= s.wall
                               /\ VideoIn(LastFile(s)) = {} => AudioIn(LastFile(s)) = {}
      BY DEF Good, GoodOpen
    <2>3. mode # "audio" /\ VideoIn(LastFile(t)) = {} => AudioIn(LastFile(t)) = {}
      BY <1>3, <1>6, <2>2
    <2> QED
      BY <1>1, <1>3, <2>1, <2>2, <2>3 DEF GoodOpen
  <1>10. UpToDate(U, t, m)
    <2>1. Current(t) = Current(s)
      BY <1>3, <1>4, <1>5 DEF Current, Buffered
    <2> QED
      BY <2>1 DEF Good, UpToDate
  <1>11. NoneLost(U, t, m)
    BY <1>3, <1>4 DEF Good, NoneLost
  <1>12. FilesReach(U, t)
    <2>1. FilesReach(U, s)
      BY DEF Good
    <2> QED
      BY <1>1, <1>3, <2>1, ReachGrows
  <1>13. BufferReaches(U, t, m)
    <2>1. Buffered(s) = VideoIn(s) /\ VideoIn(s) \subseteq 1..m
      BY <1>1, <1>5 DEF Buffered, InLine, Held
    <2> SUFFICES ASSUME ~ s.torn, mode = "gated", NEW i \in 1..m, KeyAt(U, i),
                        \A j \in Recorded(t.files) : j < i
                 PROVE  FALSE
      BY <1>3 DEF BufferReaches
    <2>2. \/ i \in VideoIn(s)
          \/ \E k \in VideoIn(s) : k > i
      BY <1>3, <2>1 DEF Good, BufferReaches
    <2> QED
      BY <1>3, <2>1, <2>2
  <1>14. NoVideo(U, t, m)
    BY <1>3, <1>4 DEF Good, NoVideo
  <1> QED
    BY <1>3, <1>7, <1>8, <1>9, <1>10, <1>11, <1>12, <1>13, <1>14 DEF Good

-----------------------------------------------------------------------------
(* What a keyframe ends goes to the waiting GOPs, of which the oldest go.   *)
TailOf(k, h, c) ==
  /\ k \in Seq(Gop) /\ Len(k) = Len(h) - c + 1
  /\ \A i \in 1..Len(h) - c + 1 : k[i] = h[c + i - 1]

LEMMA PrunedTail ==
  ASSUME NEW h \in Seq(Gop), h # <<>>, NEW w \in Nat
  PROVE  \E c \in 1..Len(h) : TailOf(Prune(h, w), h, c) /\ (c = 1 \/ w - h[c].wall >= PreRoll)
PROOF
  <1> PICK S : S = {i \in DOMAIN h : w - h[i].wall >= PreRoll}
    OBVIOUS
  <1> PICK l : l = Len(h)
    OBVIOUS
  <1>1. l \in Nat \ {0} /\ DOMAIN h = 1..l /\ S \subseteq 1..l /\ S \subseteq 0..l
    OBVIOUS
  <1>2. Prune(h, w) = IF S = {} THEN h ELSE SubSeq(h, Max(S), l)
    BY DEF Prune
  <1>3. CASE S = {}
    <2>1. Prune(h, w) = h /\ 1 \in 1..l
      BY <1>1, <1>2, <1>3
    <2>2. l - 1 + 1 = l /\ \A i \in 1..l : 1 + i - 1 = i
      BY <1>1
    <2>3. TailOf(h, h, 1)
      BY <1>1, <2>2 DEF TailOf
    <2> QED
      BY <2>1, <2>3
  <1>4. CASE S # {}
    <2> PICK c : c = Max(S)
      OBVIOUS
    <2>1. c \in S
      BY <1>1, <1>4, Greatest
    <2>2. c \in 1..l /\ w - h[c].wall >= PreRoll
      BY <1>1, <2>1
    <2> PICK k : k = SubSeq(h, c, l)
      OBVIOUS
    <2>31. Len(k) = l - c + 1
      BY <1>1, <2>2
    <2>32. \A i \in c..l : h[i] \in Gop
      BY <1>1, <2>2
    <2>33. k \in Seq(Gop)
      BY <1>1, <2>2, <2>32
    <2>3. Len(k) = l - c + 1 /\ k \in Seq(Gop)
      BY <2>31, <2>33
    <2>4. ASSUME NEW i \in 1..l - c + 1
          PROVE  k[i] = h[c + i - 1]
      <3>1. c + i - 1 = i + c - 1 /\ i \in 1..(1 + l - c)
        BY <1>1, <2>2
      <3>2. SubSeq(h, c, l)[i] = h[i + c - 1]
        BY <1>1, <2>2, <3>1
      <3> QED
        BY <3>1, <3>2
    <2>5. TailOf(k, h, c)
      BY <2>3, <2>4 DEF TailOf
    <2>6. Prune(h, w) = k
      BY <1>2, <1>4
    <2> QED
      BY <2>2, <2>5, <2>6
  <1> QED
    BY <1>3, <1>4

Stashed(s, t) == t = StashGOP(s)

(* The GOPs are the ones there were and one more, but for the oldest.       *)
StashedTo(s, t, h, c) ==
  /\ t \in RecorderRecord /\ h \in Seq(Gop) /\ Len(h) = Len(s.gops) + 1
  /\ \A n \in 1..Len(s.gops) : h[n] = s.gops[n]
  /\ h[Len(h)].video = s.video /\ h[Len(h)].audio = s.audio /\ h[Len(h)].wall = s.wall
  /\ c \in 1..Len(h) /\ Len(t.gops) = Len(h) - c + 1
  /\ \A i \in 1..Len(h) - c + 1 : t.gops[i] = h[c + i - 1]
  /\ c = 1 \/ s.wall - h[c].wall >= PreRoll
  /\ t.files = s.files /\ t.open = s.open /\ t.wall = s.wall /\ t.end = s.end /\ t.torn = s.torn
  /\ t.video = <<>> /\ t.audio = <<>>

LEMMA StashedFields ==
  ASSUME NEW s \in RecorderRecord, NEW t, Stashed(s, t)
  PROVE  \E h, c : StashedTo(s, t, h, c)
PROOF
  <1> PICK g, w : g = [wall |-> s.wall, video |-> s.video, audio |-> s.audio] /\ w = s.wall
    OBVIOUS
  <1> PICK h : h = Append(s.gops, g)
    OBVIOUS
  <1>1. g \in Gop /\ w \in Nat /\ g.video = s.video /\ g.audio = s.audio /\ g.wall = s.wall /\ s.gops \in Seq(Gop)
    BY DEF RecorderRecord, Gop
  <1>2. /\ h \in Seq(Gop) /\ h # <<>> /\ Len(h) = Len(s.gops) + 1 /\ h[Len(h)] = g
        /\ \A n \in 1..Len(s.gops) : h[n] = s.gops[n]
    BY <1>1
  <1>21. h \in Seq(Gop) /\ h # <<>> /\ w \in Nat
    BY <1>1, <1>2
  <1>3. PICK c \in 1..Len(h) : TailOf(Prune(h, w), h, c) /\ (c = 1 \/ w - h[c].wall >= PreRoll)
    BY <1>21, PrunedTail, Zenon
  <1> PICK k, e : k = Prune(h, w) /\ e = <<>> /\ e \in Seq(Nat)
    BY Nothing
  <1>4. t = [s EXCEPT !.gops = k, !.video = e, !.audio = e]
    BY DEF Stashed, StashGOP
  <1>5. k \in Seq(Gop)
    BY <1>3 DEF TailOf
  <1>6. /\ t \in RecorderRecord /\ t.gops = k /\ t.video = e /\ t.audio = e
        /\ t.files = s.files /\ t.open = s.open /\ t.wall = s.wall /\ t.end = s.end /\ t.torn = s.torn
    BY <1>4, <1>5 DEF RecorderRecord
  <1>7. /\ c \in 1..Len(h) /\ Len(k) = Len(h) - c + 1 /\ \A i \in 1..Len(h) - c + 1 : k[i] = h[c + i - 1]
        /\ c = 1 \/ s.wall - h[c].wall >= PreRoll
    BY <1>3 DEF TailOf
  <1>8. h[Len(h)].video = s.video /\ h[Len(h)].audio = s.audio /\ h[Len(h)].wall = s.wall
    BY <1>1, <1>2
  <1>9. StashedTo(s, t, h, c)
    BY <1>2, <1>6, <1>7, <1>8 DEF StashedTo
  <1> QED
    BY <1>9

(* With the buffers empty, what is waiting is in the GOPs.                  *)
LEMMA StashKeeps ==
  ASSUME NEW U, NEW m \in Nat, NEW s, Good(U, s, m), ~ s.open, s.video # <<>>, mode = "gated",
         NEW t, Stashed(s, t)
  PROVE  Good(U, t, m)
PROOF
  <1>1. s \in RecorderRecord /\ InLine(s, m) /\ GoodGops(U, s, m) /\ GoodPending(U, s, m)
    BY DEF Good, GoodPending
  <1> PICK h, c : StashedTo(s, t, h, c)
    BY <1>1, StashedFields
  <1> PICK l : l = Len(h)
    OBVIOUS
  <1>2. /\ t \in RecorderRecord /\ h \in Seq(Gop) /\ l = Len(s.gops) + 1
        /\ \A n \in 1..l - 1 : h[n] = s.gops[n]
        /\ h[l].video = s.video /\ h[l].audio = s.audio /\ h[l].wall = s.wall
        /\ c \in 1..l /\ Len(t.gops) = l - c + 1
        /\ \A i \in 1..l - c + 1 : t.gops[i] = h[c + i - 1]
        /\ c = 1 \/ s.wall - h[c].wall >= PreRoll
    BY <1>1 DEF StashedTo, RecorderRecord
  <1>3. /\ t.files = s.files /\ t.open = s.open /\ t.wall = s.wall /\ t.end = s.end /\ t.torn = s.torn
        /\ t.video = <<>> /\ t.audio = <<>>
    BY DEF StashedTo
  <1>4. l \in Nat \ {0} /\ l \in 1..l /\ \A n \in 1..l : n = l \/ n \in 1..l - 1
    <2>1. Len(s.gops) \in Nat
      BY <1>1 DEF RecorderRecord
    <2> QED
      BY <1>2, <2>1
  <1>5. InLine(t, m) /\ VideoIn(t) = {} /\ AudioIn(t) = {} /\ Held(t) = {}
    BY <1>3, EmptyPart
  <1>6. VideoIn(h[l]) = VideoIn(s) /\ AudioIn(h[l]) = AudioIn(s) /\ Held(h[l]) = Held(s)
    BY <1>2 DEF VideoIn, AudioIn, Held
  <1>7. \A n \in 1..l : GoodGop(U, h[n], m, s.wall)
    <2>1. VideoIn(s) # {}
      BY <1>1, Videos
    <2>2. h[l] \in Gop /\ s.wall \in Nat
      <3>1. h[l] \in Gop
        <4>0. h \in Seq(Gop)
          BY <1>2
        <4>1. \A n \in 1..Len(h) : h[n] \in Gop
          BY <4>0
        <4> QED
          BY <1>4, <4>1
      <3> QED
        BY <1>1, <3>1 DEF RecorderRecord
    <2>3. InLine(h[l], m)
      BY <1>1, <1>2, <1>6 DEF InLine
    <2>4. LeadingKey(U, VideoIn(h[l]), h[l].wall) /\ Together(U, VideoIn(h[l]), AudioIn(h[l]), m)
      BY <1>1, <1>2, <1>6, <2>1 DEF GoodPending
    <2>5. GoodGop(U, h[l], m, s.wall)
      BY <1>2, <2>2, <2>3, <2>4 DEF GoodGop
    <2>6. \A n \in 1..l - 1 : GoodGop(U, h[n], m, s.wall)
      BY <1>1, <1>2 DEF GoodGops
    <2> QED
      BY <1>4, <2>5, <2>6
  <1>22. \A n \in 1..l : VideoIn(h[n]) \subseteq 1..m
    BY <1>7 DEF GoodGop, InLine, Held
  <1>8. \A i, j \in 1..l : i < j => Precedes(Held(h[i]), Held(h[j]))
    <2> SUFFICES ASSUME NEW i \in 1..l, NEW j \in 1..l, i < j
                 PROVE  Precedes(Held(h[i]), Held(h[j]))
      OBVIOUS
    <2>1. i \in 1..Len(s.gops) /\ h[i] = s.gops[i]
      BY <1>2, <1>4
    <2>2. CASE j = l
      BY <1>1, <1>6, <2>1, <2>2 DEF GoodGops
    <2>3. CASE j # l
      <3>1. j \in 1..Len(s.gops) /\ h[j] = s.gops[j]
        BY <1>2, <1>4, <2>3
      <3> QED
        BY <1>1, <2>1, <3>1 DEF GoodGops
    <2> QED
      BY <2>2, <2>3
  <1>9. \A i \in 1..Len(s.files), n \in 1..l : Precedes(Held(s.files[i]), Held(h[n]))
    <2> SUFFICES ASSUME NEW i \in 1..Len(s.files), NEW n \in 1..l
                 PROVE  Precedes(Held(s.files[i]), Held(h[n]))
      OBVIOUS
    <2>1. CASE n = l
      BY <1>1, <1>6, <2>1 DEF GoodPending
    <2>2. CASE n # l
      <3>1. n \in 1..Len(s.gops) /\ h[n] = s.gops[n]
        BY <1>2, <1>4, <2>2
      <3> QED
        BY <1>1, <3>1 DEF GoodGops
    <2> QED
      BY <2>1, <2>2
  <1>10. /\ \A i \in 1..l - c + 1 : c + i - 1 \in 1..l /\ t.gops[i] = h[c + i - 1]
         /\ \A n \in c..l : n - c + 1 \in 1..l - c + 1 /\ t.gops[n - c + 1] = h[n]
    <2>1. \A i \in 1..l - c + 1 : c + i - 1 \in 1..l
      BY <1>2, <1>4
    <2>2. \A n \in c..l : n - c + 1 \in 1..l - c + 1 /\ c + (n - c + 1) - 1 = n
      BY <1>2, <1>4
    <2> QED
      BY <1>2, <2>1, <2>2
  <1>11. GoodGops(U, t, m)
    <2>1. t.gops \in Seq(Gop)
      BY <1>2 DEF RecorderRecord
    <2>2. \A n \in 1..Len(t.gops) : GoodGop(U, t.gops[n], m, t.wall)
      BY <1>2, <1>3, <1>7, <1>10
    <2>3. ASSUME NEW i \in 1..Len(t.gops), NEW j \in 1..Len(t.gops), i < j
          PROVE  Precedes(Held(t.gops[i]), Held(t.gops[j]))
      <3>1. c + i - 1 < c + j - 1
        BY <1>2, <2>3
      <3>2. i \in 1..l - c + 1 /\ j \in 1..l - c + 1
        BY <1>2
      <3>3. c + i - 1 \in 1..l /\ c + j - 1 \in 1..l
        BY <1>10, <3>2
      <3>4. Precedes(Held(h[c + i - 1]), Held(h[c + j - 1]))
        BY <1>8, <3>1, <3>3
      <3> QED
        BY <1>10, <3>2, <3>4
    <2>4. \A n \in 1..Len(t.gops) : Precedes(Held(t.gops[n]), Held(t))
      BY <1>5 DEF Precedes
    <2>5. \A i \in 1..Len(t.files), n \in 1..Len(t.gops) : Precedes(Held(t.files[i]), Held(t.gops[n]))
      BY <1>2, <1>3, <1>9, <1>10
    <2> QED
      BY <2>1, <2>2, <2>3, <2>4, <2>5 DEF GoodGops
  <1>12. GoodPending(U, t, m)
    BY <1>5 DEF GoodPending, Precedes, Together
  <1>13. GoodOpen(U, t)
    BY <1>3 DEF GoodOpen
  <1>14. \A i : i \in Buffered(s) <=> \E n \in 1..l : i \in VideoIn(h[n])
    <2>1. ASSUME NEW i
          PROVE  i \in InGops(s) <=> \E n \in 1..l - 1 : i \in VideoIn(h[n])
      <3>1. i \in InGops(s) <=> \E n \in 1..Len(s.gops) : i \in VideoIn(s.gops[n])
        BY Zenon DEF InGops
      <3>2. Len(s.gops) = l - 1
        BY <1>1, <1>2 DEF RecorderRecord
      <3> QED
        BY <1>2, <3>1, <3>2
    <2>2. \A n \in 1..l - 1 : n \in 1..l
      BY <1>4
    <2> QED
      BY <1>4, <1>6, <2>1, <2>2 DEF Buffered
  <1>15. \A i : i \in Buffered(t) <=> \E n \in c..l : i \in VideoIn(h[n])
    <2> SUFFICES ASSUME NEW i
                 PROVE  i \in Buffered(t) <=> \E n \in c..l : i \in VideoIn(h[n])
      OBVIOUS
    <2>1. i \in Buffered(t) <=> \E n \in 1..l - c + 1 : i \in VideoIn(t.gops[n])
      BY <1>2, <1>5 DEF Buffered, InGops
    <2>2. ASSUME NEW n \in 1..l - c + 1, i \in VideoIn(t.gops[n])
          PROVE  \E q \in c..l : i \in VideoIn(h[q])
      <3>1. c + n - 1 \in c..l
        BY <1>2, <1>4
      <3> QED
        BY <1>10, <2>2, <3>1
    <2> QED
      BY <1>10, <2>1, <2>2
  <1>16. \A n \in c..l : n \in 1..l
    BY <1>2, <1>4
  <1>17. ASSUME NEW i, NEW n \in 1..l, i \in VideoIn(h[n]), i \notin Buffered(t)
         PROVE  n < c /\ \A q \in c..l : \A k \in VideoIn(h[q]) : i < k
    <2>1. n < c
      BY <1>2, <1>4, <1>15, <1>17
    <2>2. ASSUME NEW q \in c..l, NEW k \in VideoIn(h[q])
          PROVE  i < k
      <3>1. q \in 1..l /\ n < q
        BY <1>2, <1>16, <2>1
      <3> QED
        BY <1>8, <1>17, <3>1 DEF Precedes, Held
    <2> QED
      BY <2>1, <2>2
  <1>18. UpToDate(U, t, m)
    <2>1. Current(s) = Buffered(s) /\ Current(t) = Buffered(t)
      BY <1>3 DEF Current
    <2> SUFFICES ASSUME NEW a \in Buffered(t), NEW i \in 1..m, a <= i, Frame(U, i)
                 PROVE  i \in Buffered(t)
      BY <2>1 DEF UpToDate
    <2> PICK n \in c..l : a \in VideoIn(h[n])
      BY <1>15
    <2>2. i \in Buffered(s)
      BY <1>14, <1>16, <2>1 DEF Good, UpToDate
    <2> PICK q \in 1..l : i \in VideoIn(h[q])
      BY <1>14, <2>2
    <2>3. a \in Nat
      BY <1>16, <1>22
    <2> QED
      BY <1>17, <2>3
  <1>19. NoneLost(U, t, m) /\ FilesReach(U, t)
    BY <1>3 DEF Good, NoneLost, FilesReach
  <1>20. BufferReaches(U, t, m)
    <2> SUFFICES ASSUME ~ s.torn, NEW i \in 1..m, KeyAt(U, i), \A j \in Recorded(s.files) : j < i
                 PROVE  \/ i \in Buffered(t)
                        \/ \E k \in Buffered(t) : k > i /\ KeyAt(U, k) /\ U[k].at + PreRoll <= s.wall
      BY <1>3 DEF BufferReaches
    <2>1. \/ i \in Buffered(s)
          \/ \E k \in Buffered(s) : k > i /\ KeyAt(U, k) /\ U[k].at + PreRoll <= s.wall
      BY DEF Good, BufferReaches
    <2>2. \A k \in Buffered(s) : k \in Nat
      BY <1>14, <1>22
    <2>3. ASSUME NEW k \in Buffered(s), i <= k, k \notin Buffered(t)
          PROVE  \E q \in Buffered(t) : q > i /\ KeyAt(U, q) /\ U[q].at + PreRoll <= s.wall
      <3> PICK n \in 1..l : k \in VideoIn(h[n])
        BY <1>14
      <3>1. n < c /\ \A q \in c..l : \A j \in VideoIn(h[q]) : k < j
        BY <1>17, <2>3
      <3>2. c \in c..l /\ c \in 1..l /\ s.wall - h[c].wall >= PreRoll
        BY <1>2, <1>4, <3>1
      <3>3. GoodGop(U, h[c], m, s.wall)
        BY <1>7, <3>2
      <3> PICK q \in VideoIn(h[c]) : KeyAt(U, q) /\ U[q].at = h[c].wall
        BY <3>3 DEF GoodGop, LeadingKey
      <3>4. q \in Buffered(t) /\ k < q /\ q \in Nat
        BY <1>14, <1>15, <1>16, <2>2, <3>1, <3>2
      <3>5. h[c].wall \in Nat /\ s.wall \in Nat /\ PreRoll \in Nat
        BY <1>1, <3>3, RecorderAssumption DEF GoodGop, Gop, RecorderRecord
      <3>6. U[q].at + PreRoll <= s.wall
        BY <3>2, <3>5
      <3>7. q > i
        <4>1. i \in Nat /\ k \in Nat
          BY <2>2
        <4> QED
          BY <2>3, <3>4, <4>1
      <3> QED
        BY <3>4, <3>6, <3>7
    <2>4. CASE i \in Buffered(s)
      BY <2>3, <2>4
    <2>5. CASE \E k \in Buffered(s) : k > i /\ KeyAt(U, k) /\ U[k].at + PreRoll <= s.wall
      <3> PICK k \in Buffered(s) : k > i /\ KeyAt(U, k) /\ U[k].at + PreRoll <= s.wall
        BY <2>5
      <3>1. i <= k
        BY <2>2
      <3> QED
        BY <2>3, <3>1
    <2> QED
      BY <2>1, <2>4, <2>5
  <1>21. NoVideo(U, t, m)
    BY DEF NoVideo
  <1> QED
    BY <1>2, <1>3, <1>11, <1>12, <1>13, <1>18, <1>19, <1>20, <1>21 DEF Good

-----------------------------------------------------------------------------
(* A file is opened, which begins with the waiting GOPs.                    *)
Opened(s, o, start) == o = OpenSegment(s, start)

OpenedTo(s, o, start) ==
  /\ o \in RecorderRecord /\ o.files # <<>> /\ Len(o.files) = Len(s.files) + 1
  /\ \A n \in 1..Len(s.files) : o.files[n] = s.files[n]
  /\ LastFile(o) = NewFile(start, "open") /\ LastFile(o).start = start
  /\ LastFile(o).trigger = Len(units) + 1
  /\ VideoIn(LastFile(o)) = {} /\ AudioIn(LastFile(o)) = {} /\ Held(LastFile(o)) = {}
  /\ o.open /\ o.end = SegmentEnd(start)
  /\ o.gops = s.gops /\ o.wall = s.wall /\ o.torn = s.torn /\ o.video = s.video /\ o.audio = s.audio
  /\ Recorded(o.files) = Recorded(s.files)

LEMMA NewFileFields ==
  ASSUME NEW start \in Nat, NEW row \in {"none", "open"}, NEW f, f = NewFile(start, row), Len(units) \in Nat
  PROVE  /\ f \in Files /\ f.start = start /\ f.trigger = Len(units) + 1
         /\ f.video = <<>> /\ f.audio = <<>>
PROOF
  <1> PICK e : e = <<>> /\ e \in Seq(Nat)
    BY Nothing
  <1>1. f = [start |-> start, trigger |-> Len(units) + 1, video |-> e, audio |-> e, row |-> row]
    BY DEF NewFile
  <1> QED
    BY <1>1 DEF Files

LEMMA EndIsNat ==
  ASSUME NEW start \in Nat
  PROVE  SegmentEnd(start) \in Nat
PROOF
  <1>1. SegmentDur \in Nat \ {0}
    BY RecorderAssumption
  <1>2. start \div SegmentDur \in Nat
    BY <1>1
  <1>3. (start \div SegmentDur + 1) * SegmentDur \in Nat
    BY <1>1, <1>2
  <1> QED
    BY <1>1, <1>3 DEF SegmentEnd

OneFileMore(files, more, f) == more = Append(files, f)

LEMMA AFileMore ==
  ASSUME NEW files \in Seq(Files), NEW f \in Files, VideoIn(f) = {}, NEW more, OneFileMore(files, more, f)
  PROVE  /\ more \in Seq(Files) /\ Len(more) = Len(files) + 1 /\ more # <<>> /\ more[Len(more)] = f
         /\ \A n \in 1..Len(files) : more[n] = files[n]
         /\ Recorded(more) = Recorded(files)
PROOF
  <1>1. /\ more \in Seq(Files) /\ Len(more) = Len(files) + 1 /\ more # <<>> /\ more[Len(more)] = f
        /\ \A n \in 1..Len(files) : more[n] = files[n]
    BY DEF OneFileMore
  <1> PICK l : l = Len(files)
    OBVIOUS
  <1>2. l \in Nat /\ \A n \in 1..l + 1 : n = l + 1 \/ n \in 1..l
    OBVIOUS
  <1>3. \A n \in 1..l : n \in 1..l + 1
    BY <1>2
  <1>4. ASSUME NEW i
        PROVE  i \in Recorded(more) <=> i \in Recorded(files)
    <2>1. i \in Recorded(more) <=> \E n \in 1..l + 1 : i \in VideoIn(more[n])
      BY <1>1 DEF Recorded
    <2>2. i \in Recorded(files) <=> \E n \in 1..l : i \in VideoIn(files[n])
      BY DEF Recorded
    <2>3. i \notin VideoIn(more[l + 1])
      BY <1>1
    <2> QED
      BY <1>1, <1>2, <1>3, <2>1, <2>2, <2>3
  <1> QED
    BY <1>1, <1>4

LEMMA OpenedFields ==
  ASSUME NEW s \in RecorderRecord, NEW start \in Nat, NEW o, Opened(s, o, start), Len(units) \in Nat
  PROVE  OpenedTo(s, o, start)
PROOF
  <1> PICK f, e, files : f = NewFile(start, "open") /\ e = SegmentEnd(start) /\ files = s.files
    OBVIOUS
  <1> PICK h : h = Append(files, f)
    OBVIOUS
  <1>1. f \in Files /\ f.start = start /\ f.trigger = Len(units) + 1 /\ f.video = <<>> /\ f.audio = <<>>
    BY NewFileFields
  <1>2. VideoIn(f) = {} /\ AudioIn(f) = {} /\ Held(f) = {}
    BY <1>1, EmptyPart
  <1>3. e \in Nat
    BY EndIsNat
  <1>4. files \in Seq(Files) /\ OneFileMore(files, h, f)
    BY DEF RecorderRecord, OneFileMore
  <1>5. /\ h \in Seq(Files) /\ Len(h) = Len(files) + 1 /\ h # <<>> /\ h[Len(h)] = f
        /\ \A n \in 1..Len(files) : h[n] = files[n]
        /\ Recorded(h) = Recorded(files)
    BY <1>1, <1>2, <1>4, AFileMore
  <1>6. o = [s EXCEPT !.files = h, !.open = TRUE, !.end = e]
    BY DEF Opened, OpenSegment
  <1>7. /\ o \in RecorderRecord /\ o.files = h /\ o.open /\ o.end = e
        /\ o.gops = s.gops /\ o.wall = s.wall /\ o.torn = s.torn /\ o.video = s.video /\ o.audio = s.audio
    BY <1>3, <1>5, <1>6 DEF RecorderRecord
  <1>8. LastFile(o) = f
    BY <1>5, <1>7 DEF LastFile
  <1> QED
    BY <1>1, <1>2, <1>5, <1>7, <1>8 DEF OpenedTo

(* A file that holds nothing is as good as any.                             *)
LEMMA EmptyFileGood ==
  ASSUME NEW U, NEW m \in Nat, NEW f \in Files, f.video = <<>>, f.audio = <<>>
  PROVE  GoodFile(U, f, m)
PROOF
  BY EmptyPart DEF GoodFile, FramesInARow, Together, Cut

LEMMA OpenedFilesGood ==
  ASSUME NEW U, NEW m \in Nat, NEW files, GoodFiles(U, files, m), NEW more \in Seq(Files),
         Len(more) = Len(files) + 1, \A n \in 1..Len(files) : more[n] = files[n],
         more[Len(more)].video = <<>>, more[Len(more)].audio = <<>>
  PROVE  GoodFiles(U, more, m)
PROOF
  <1> PICK l : l = Len(files)
    OBVIOUS
  <1>1. files \in Seq(Files) /\ l \in Nat /\ Len(more) = l + 1
    BY DEF GoodFiles
  <1>2. \A n \in 1..l + 1 : n = l + 1 \/ (n \in 1..l /\ more[n] = files[n])
    BY <1>1
  <1>3. more[l + 1] \in Files /\ GoodFile(U, more[l + 1], m) /\ Held(more[l + 1]) = {}
    <2>1. l + 1 \in 1..l + 1
      BY <1>1
    <2>2. more[l + 1] \in Files
      BY <1>1, <2>1
    <2> QED
      BY <1>1, <2>2, EmptyFileGood, EmptyPart
  <1>4. \A n \in 1..l + 1 : GoodFile(U, more[n], m)
    BY <1>2, <1>3 DEF GoodFiles
  <1>5. ASSUME NEW i \in 1..l + 1, NEW j \in 1..l + 1, i < j
        PROVE  Precedes(Held(more[i]), Held(more[j]))
    <2>1. CASE j = l + 1
      BY <1>3, <2>1 DEF Precedes
    <2>2. CASE j # l + 1
      <3>1. j \in 1..l /\ more[j] = files[j]
        BY <1>2, <2>2
      <3>2. i \in 1..l /\ more[i] = files[i]
        BY <1>1, <1>2, <1>5, <3>1
      <3> QED
        BY <1>5, <3>1, <3>2 DEF GoodFiles
    <2> QED
      BY <2>1, <2>2
  <1> QED
    BY <1>1, <1>4, <1>5 DEF GoodFiles

(* The video and the audio of the first k GOPs.                             *)
FirstVideo(s, k) == UNION {VideoIn(s.gops[n]) : n \in 1..k}
FirstAudio(s, k) == UNION {AudioIn(s.gops[n]) : n \in 1..k}
VideoRow(s, k) == FlattenSeq([i \in 1..k |-> s.gops[i].video])
AudioRow(s, k) == FlattenSeq([i \in 1..k |-> s.gops[i].audio])

LEMMA RowsOfGops ==
  ASSUME NEW U, NEW m \in Nat, NEW s, GoodGops(U, s, m), NEW k \in 0..Len(s.gops), Len(s.gops) \in Nat
  PROVE  /\ VideoRow(s, k) \in Seq(Nat) /\ Rising(VideoRow(s, k)) /\ Range(VideoRow(s, k)) = FirstVideo(s, k)
         /\ AudioRow(s, k) \in Seq(Nat) /\ Rising(AudioRow(s, k)) /\ Range(AudioRow(s, k)) = FirstAudio(s, k)
PROOF
  <1>1. k \in Nat /\ \A n \in 1..k : n \in 1..Len(s.gops)
    OBVIOUS
  <1>2. \A n \in 1..k : InLine(s.gops[n], m)
    BY <1>1 DEF GoodGops, GoodGop
  <1>3. \A i, j \in 1..k : i < j => Precedes(Held(s.gops[i]), Held(s.gops[j]))
    BY <1>1 DEF GoodGops
  <1>4. VideoRow(s, k) \in Seq(Nat) /\ Rising(VideoRow(s, k)) /\ Range(VideoRow(s, k)) = FirstVideo(s, k)
    <2> PICK p : p = [i \in 1..k |-> s.gops[i].video]
      OBVIOUS
    <2>1. \A i \in 1..k : p[i] = s.gops[i].video /\ p[i] \in Seq(Nat) /\ Rising(p[i])
      BY <1>2 DEF InLine
    <2>2. p \in [1..k -> Seq(Nat)]
      BY <2>1
    <2>3. \A i \in 1..k : Range(p[i]) = VideoIn(s.gops[i])
      BY <2>1 DEF VideoIn
    <2>4. \A i, j \in 1..k : i < j => Precedes(Range(p[i]), Range(p[j]))
      BY <1>3, <2>3 DEF Precedes, Held
    <2>5. /\ FlattenSeq(p) \in Seq(Nat) /\ Rising(FlattenSeq(p))
          /\ Range(FlattenSeq(p)) = UNION {Range(p[i]) : i \in 1..k}
      <3>1. /\ FlattenSeq(p) \in Seq(Nat)
            /\ Range(FlattenSeq(p)) = UNION {Range(p[i]) : i \in 1..k}
            /\ (/\ \A i \in 1..k : Rising(p[i])
                /\ \A i, j \in 1..k : i < j => Precedes(Range(p[i]), Range(p[j])))
               => Rising(FlattenSeq(p))
        <4>1. FlatOf(FlattenSeq(p), p, k)
          BY <1>1, <2>2, Flattened
        <4> QED
          BY <4>1, Zenon DEF FlatOf
      <3> QED
        BY <2>1, <2>4, <3>1
    <2>6. UNION {Range(p[i]) : i \in 1..k} = FirstVideo(s, k)
      BY <2>3 DEF FirstVideo
    <2>7. VideoRow(s, k) = FlattenSeq(p)
      BY Zenon DEF VideoRow
    <2> QED
      BY <2>5, <2>6, <2>7
  <1>5. AudioRow(s, k) \in Seq(Nat) /\ Rising(AudioRow(s, k)) /\ Range(AudioRow(s, k)) = FirstAudio(s, k)
    <2> PICK p : p = [i \in 1..k |-> s.gops[i].audio]
      OBVIOUS
    <2>1. \A i \in 1..k : p[i] = s.gops[i].audio /\ p[i] \in Seq(Nat) /\ Rising(p[i])
      BY <1>2 DEF InLine
    <2>2. p \in [1..k -> Seq(Nat)]
      BY <2>1
    <2>3. \A i \in 1..k : Range(p[i]) = AudioIn(s.gops[i])
      BY <2>1 DEF AudioIn
    <2>4. \A i, j \in 1..k : i < j => Precedes(Range(p[i]), Range(p[j]))
      BY <1>3, <2>3 DEF Precedes, Held
    <2>5. /\ FlattenSeq(p) \in Seq(Nat) /\ Rising(FlattenSeq(p))
          /\ Range(FlattenSeq(p)) = UNION {Range(p[i]) : i \in 1..k}
      <3>1. /\ FlattenSeq(p) \in Seq(Nat)
            /\ Range(FlattenSeq(p)) = UNION {Range(p[i]) : i \in 1..k}
            /\ (/\ \A i \in 1..k : Rising(p[i])
                /\ \A i, j \in 1..k : i < j => Precedes(Range(p[i]), Range(p[j])))
               => Rising(FlattenSeq(p))
        <4>1. FlatOf(FlattenSeq(p), p, k)
          BY <1>1, <2>2, Flattened
        <4> QED
          BY <4>1, Zenon DEF FlatOf
      <3> QED
        BY <2>1, <2>4, <3>1
    <2>6. UNION {Range(p[i]) : i \in 1..k} = FirstAudio(s, k)
      BY <2>3 DEF FirstAudio
    <2>7. AudioRow(s, k) = FlattenSeq(p)
      BY Zenon DEF AudioRow
    <2> QED
      BY <2>5, <2>6, <2>7
  <1> QED
    BY <1>4, <1>5

(* The oldest GOPs go into the file that was opened for them.               *)
LEMMA GopsFit ==
  ASSUME NEW U, NEW m \in Nat, NEW s, Good(U, s, m), ~ s.open, m <= Len(units) + 1, Len(units) \in Nat,
         NEW start, NEW o, OpenedTo(s, o, start), NEW k \in 0..Len(s.gops)
  PROVE  GoesInto(U, o, FirstVideo(s, k), FirstAudio(s, k), m) /\ GoodFiles(U, o.files, m)
PROOF
  <1> PICK X, Y, g, l : X = FirstVideo(s, k) /\ Y = FirstAudio(s, k) /\ g = Len(s.gops) /\ l = Len(s.files)
    OBVIOUS
  <1>1. /\ s \in RecorderRecord /\ g \in Nat /\ l \in Nat /\ k \in Nat
        /\ GoodGops(U, s, m) /\ GoodPending(U, s, m) /\ GoodFiles(U, s.files, m)
    BY DEF Good, RecorderRecord
  <1>2. \A n \in 1..k : n \in 1..g
    BY <1>1
  <1>3. /\ \A i : i \in X <=> \E n \in 1..k : i \in VideoIn(s.gops[n])
        /\ \A i : i \in Y <=> \E n \in 1..k : i \in AudioIn(s.gops[n])
    BY Zenon DEF FirstVideo, FirstAudio
  <1>4. \A n \in 1..g : GoodGop(U, s.gops[n], m, s.wall) /\ Held(s.gops[n]) \subseteq 1..m
    BY <1>1 DEF GoodGops, GoodGop, InLine
  <1>5. \A i \in X \cup Y : \E n \in 1..k : i \in Held(s.gops[n])
    BY <1>3 DEF Held
  <1>6. X \cup Y \subseteq 1..m
    BY <1>2, <1>4, <1>5
  <1>7. /\ Len(o.files) = l + 1 /\ LastFile(o) = o.files[l + 1]
        /\ VideoIn(LastFile(o)) = {} /\ AudioIn(LastFile(o)) = {} /\ Held(LastFile(o)) = {}
        /\ \A n \in 1..l : o.files[n] = s.files[n]
        /\ LastFile(o).trigger = Len(units) + 1 /\ o \in RecorderRecord
    BY DEF OpenedTo, LastFile
  <1>8. \A n \in 1..l + 1 : n \in 1..l \/ n = l + 1
    BY <1>1
  <1>9. ASSUME NEW n \in 1..l + 1
        PROVE  Precedes(Held(o.files[n]), X \cup Y)
    <2>1. CASE n = l + 1
      BY <1>7, <2>1 DEF Precedes
    <2>2. CASE n \in 1..l
      <3>1. \A q \in 1..g : Precedes(Held(s.files[n]), Held(s.gops[q]))
        BY <1>1, <2>2 DEF GoodGops
      <3>2. o.files[n] = s.files[n]
        BY <1>7, <2>2
      <3> QED
        BY <1>2, <1>5, <3>1, <3>2 DEF Precedes
    <2> QED
      BY <1>8, <2>1, <2>2
  <1>10. ASSUME NEW a \in X, NEW b \in X, NEW i \in a..b, Frame(U, i)
         PROVE  i \in X
    <2>1. a \in 1..m /\ b \in 1..m
      BY <1>6
    <2>2. i \in 1..m /\ a <= i /\ i <= b
      BY <2>1
    <2> PICK n \in 1..k : a \in VideoIn(s.gops[n])
      BY <1>3
    <2> PICK q \in 1..k : b \in VideoIn(s.gops[q])
      BY <1>3
    <2>3. \A e : e \in InGops(s) <=> \E p \in 1..g : e \in VideoIn(s.gops[p])
      BY Zenon DEF InGops
    <2>4. Current(s) = InGops(s) \cup VideoIn(s)
      BY DEF Current, Buffered
    <2>5. i \in InGops(s) \cup VideoIn(s)
      <3>1. a \in Current(s)
        BY <1>2, <2>3, <2>4
      <3>2. UpToDate(U, s, m)
        BY DEF Good
      <3>3. i \in Current(s)
        BY <1>10, <2>2, <3>1, <3>2 DEF UpToDate
      <3> QED
        BY <2>4, <3>3
    <2>6. CASE i \in VideoIn(s)
      <3>1. Precedes(Held(s.gops[q]), Held(s))
        BY <1>1, <1>2 DEF GoodGops
      <3>2. b < i
        BY <2>6, <3>1 DEF Precedes, Held
      <3> QED
        BY <2>1, <2>2, <3>2
    <2>7. CASE i \in InGops(s)
      <3> PICK p \in 1..g : i \in VideoIn(s.gops[p])
        BY <2>3, <2>7
      <3>1. CASE p \in 1..k
        BY <1>3, <3>1
      <3>2. CASE p \notin 1..k
        <4>1. q < p /\ q \in 1..g
          BY <1>1, <1>2, <3>2
        <4>2. Precedes(Held(s.gops[q]), Held(s.gops[p]))
          BY <1>1, <4>1 DEF GoodGops
        <4>3. b < i
          BY <4>2 DEF Precedes, Held
        <4> QED
          BY <2>1, <2>2, <4>3
      <3> QED
        BY <3>1, <3>2
    <2> QED
      BY <2>5, <2>6, <2>7
  <1>11. ASSUME NEW a \in X
         PROVE  KeyAt(U, a) \/ \E b \in X : b < a
    <2> PICK n \in 1..k : a \in VideoIn(s.gops[n])
      BY <1>3
    <2> PICK q \in VideoIn(s.gops[n]) : KeyAt(U, q) /\ \A b \in VideoIn(s.gops[n]) : q <= b
      BY <1>2, <1>4 DEF GoodGop, LeadingKey
    <2>1. q \in X /\ q <= a /\ q \in 1..m /\ a \in 1..m
      BY <1>3, <1>6
    <2>2. q = a \/ q < a
      BY <2>1
    <2> QED
      BY <2>1, <2>2
  <1>12. FramesInARow(U, X)
    BY <1>10, <1>11 DEF FramesInARow
  <1>13. Together(U, X, Y, m)
    <2>1. \A n \in 1..k : Together(U, VideoIn(s.gops[n]), AudioIn(s.gops[n]), m) /\ VideoIn(s.gops[n]) # {}
      BY <1>2, <1>4 DEF GoodGop, LeadingKey
    <2>2. CASE \E n \in 1..k : \A q \in 1..m : KeyAt(U, q) => \E v \in VideoIn(s.gops[n]) : v <= q
      <3>1. \A q \in 1..m : KeyAt(U, q) => \E v \in X : v <= q
        BY <1>3, <2>2
      <3> QED
        BY <3>1 DEF Together
    <2>3. CASE \A n \in 1..k : ~ \A q \in 1..m : KeyAt(U, q) => \E v \in VideoIn(s.gops[n]) : v <= q
      <3>1. \A n \in 1..k : \A a \in AudioIn(s.gops[n]) : \E v \in VideoIn(s.gops[n]) : v < a
        BY <2>1, <2>3 DEF Together
      <3>2. \A a \in Y : \E v \in X : v < a
        BY <1>3, <3>1
      <3> QED
        BY <3>2 DEF Together
    <2> QED
      BY <2>2, <2>3
  <1>14. Cut(U, LastFile(o), X)
    <2>1. \A i \in X : ~ (i > Len(units) + 1)
      BY <1>6
    <2> QED
      BY <1>7, <2>1 DEF Cut
  <1>15. VideoIn(LastFile(o)) \cup X = X /\ AudioIn(LastFile(o)) \cup Y = Y
    BY <1>7
  <1>16. GoesInto(U, o, X, Y, m)
    BY <1>6, <1>7, <1>9, <1>12, <1>13, <1>14, <1>15 DEF GoesInto
  <1>17. GoodFiles(U, o.files, m)
    <2>1. o.files[Len(o.files)].video = <<>> /\ o.files[Len(o.files)].audio = <<>>
      BY <1>7 DEF OpenedTo, NewFile
    <2>2. o.files \in Seq(Files)
      BY <1>7 DEF RecorderRecord
    <2> QED
      BY <1>1, <1>7, <2>1, <2>2, OpenedFilesGood
  <1> QED
    BY <1>16, <1>17

Wrote(o, t, k) == t = WriteGOPs(o, k)
SamePending(s, t) == t.gops = s.gops /\ t.video = s.video /\ t.audio = s.audio

LEMMA WroteFields ==
  ASSUME NEW U, NEW m \in Nat, NEW s, Good(U, s, m), ~ s.open, m <= Len(units) + 1, Len(units) \in Nat,
         NEW start, NEW o, OpenedTo(s, o, start), NEW k \in 0..Len(s.gops), NEW t, Wrote(o, t, k)
  PROVE  /\ Grew(o, t, FirstVideo(s, k), FirstAudio(s, k)) /\ GoodFiles(U, t.files, m)
         /\ SamePending(s, t)
PROOF
  <1> PICK v, a : v = VideoRow(s, k) /\ a = AudioRow(s, k)
    OBVIOUS
  <1>1. s \in RecorderRecord /\ GoodGops(U, s, m) /\ Len(s.gops) \in Nat
    BY DEF Good, RecorderRecord
  <1>2. /\ v \in Seq(Nat) /\ Rising(v) /\ Range(v) = FirstVideo(s, k)
        /\ a \in Seq(Nat) /\ Rising(a) /\ Range(a) = FirstAudio(s, k)
    BY <1>1, RowsOfGops
  <1>3. /\ o \in RecorderRecord /\ o.files # <<>> /\ o.gops = s.gops /\ o.video = s.video /\ o.audio = s.audio
    BY DEF OpenedTo
  <1>4. LastFileGets(o, t, v, a)
    BY <1>3 DEF Wrote, WriteGOPs, LastFileGets, VideoRow, AudioRow
  <1>5. GoesInto(U, o, FirstVideo(s, k), FirstAudio(s, k), m) /\ GoodFiles(U, o.files, m)
    BY GopsFit
  <1>6. GoesInto(U, o, Range(v), Range(a), m)
    BY <1>2, <1>5
  <1>7. GoodFiles(U, t.files, m) /\ Grew(o, t, Range(v), Range(a))
    BY <1>2, <1>3, <1>4, <1>5, <1>6, FilesGrowGood
  <1>8. t.gops = o.gops /\ t.video = o.video /\ t.audio = o.audio
    BY <1>2, <1>3, <1>4, LastFileGrows
  <1> QED
    BY <1>2, <1>3, <1>7, <1>8 DEF SamePending

(* The file t starts with is opened and the GOPs that waited are in it.     *)
StartsWith(s, o, t, start) ==
  /\ OpenedTo(s, o, start) /\ Grew(o, t, InGops(s), FirstAudio(s, Len(s.gops)))
  /\ t.gops = <<>> /\ t.video = s.video /\ t.audio = s.audio

LEMMA OpenKeeps ==
  ASSUME NEW U, NEW m \in Nat, NEW s, Good(U, s, m), ~ s.open, s.video = <<>>,
         Len(units) \in Nat, m <= Len(units) + 1, Len(units) + 1 <= Len(U),
         NEW start, NEW o, NEW t, StartsWith(s, o, t, start), GoodFiles(U, t.files, m),
         mode # "audio" => start <= s.wall,
         mode = "gated" => m = Len(units) /\ U[m + 1].at = s.wall
  PROVE  Good(U, t, m)
PROOF
  <1> PICK X, Y, g, l : X = InGops(s) /\ Y = FirstAudio(s, Len(s.gops)) /\ g = Len(s.gops) /\ l = Len(s.files)
    OBVIOUS
  <1>1. /\ s \in RecorderRecord /\ g \in Nat /\ l \in Nat
        /\ GoodGops(U, s, m) /\ GoodPending(U, s, m) /\ GoodFiles(U, s.files, m)
    BY DEF Good, RecorderRecord
  <1>2. VideoIn(s) = {}
    BY <1>1, Videos
  <1>3. /\ o \in RecorderRecord /\ o.files # <<>> /\ Len(o.files) = l + 1
        /\ \A n \in 1..l : o.files[n] = s.files[n]
        /\ LastFile(o).start = start /\ LastFile(o).trigger = Len(units) + 1
        /\ VideoIn(LastFile(o)) = {} /\ AudioIn(LastFile(o)) = {}
        /\ o.open /\ o.end = SegmentEnd(start)
        /\ o.wall = s.wall /\ o.torn = s.torn
        /\ Recorded(o.files) = Recorded(s.files)
    BY DEF StartsWith, OpenedTo
  <1>4. /\ t \in RecorderRecord /\ Len(t.files) = l + 1 /\ t.files # <<>>
        /\ \A n \in 1..l : t.files[n] = s.files[n]
        /\ LastFile(t).start = start /\ LastFile(t).trigger = Len(units) + 1
        /\ VideoIn(LastFile(t)) = X /\ AudioIn(LastFile(t)) = Y
        /\ Recorded(t.files) = Recorded(s.files) \cup X
        /\ t.open /\ t.wall = s.wall /\ t.end = SegmentEnd(start) /\ t.torn = s.torn
        /\ t.gops = <<>> /\ t.video = s.video /\ t.audio = s.audio
    <2>1. Grew(o, t, X, Y) /\ t.gops = <<>> /\ t.video = s.video /\ t.audio = s.audio
      BY DEF StartsWith
    <2>2. \A n \in 1..l : n \in 1..Len(o.files) - 1
      BY <1>1, <1>3
    <2> QED
      BY <1>3, <2>1, <2>2 DEF Grew
  <1>5. VideoIn(t) = VideoIn(s) /\ AudioIn(t) = AudioIn(s) /\ Held(t) = Held(s) /\ InLine(t, m)
    BY <1>1, <1>4 DEF VideoIn, AudioIn, Held, InLine, GoodPending
  <1>6. Len(t.gops) = 0 /\ 1..0 = {} /\ InGops(t) = {}
    BY <1>4 DEF InGops
  <1>7. GoodGops(U, t, m)
    BY <1>4, <1>6 DEF GoodGops, RecorderRecord
  <1>8. \A n \in 1..l + 1 : n = l + 1 \/ n \in 1..l
    BY <1>1
  <1>9. LastFile(t) = t.files[l + 1]
    BY <1>4 DEF LastFile
  <1>10. GoodPending(U, t, m)
    <2>1. Precedes(X \cup Y, Held(s))
      <3>1. \A i \in X \cup Y : \E n \in 1..g : i \in Held(s.gops[n])
        BY DEF InGops, FirstAudio, Held
      <3> QED
        BY <1>1, <3>1 DEF GoodGops, Precedes
    <2>2. ASSUME NEW n \in 1..l + 1
          PROVE  Precedes(Held(t.files[n]), Held(t))
      <3>1. CASE n = l + 1
        <4>1. Held(t.files[n]) = X \cup Y
          BY <1>4, <1>9, <3>1 DEF Held
        <4> QED
          BY <1>5, <2>1, <4>1
      <3>2. CASE n \in 1..l
        BY <1>1, <1>4, <1>5, <3>2 DEF GoodPending
      <3> QED
        BY <1>8, <3>1, <3>2
    <2> QED
      BY <1>1, <1>2, <1>4, <1>5, <2>2 DEF GoodPending
  <1>11. GoodOpen(U, t)
    <2>1. Cut(U, LastFile(t), VideoIn(t))
      BY <1>2, <1>5 DEF Cut
    <2>2. X = {} => Y = {}
      <3>1. \A n \in 1..g : VideoIn(s.gops[n]) # {}
        BY <1>1 DEF GoodGops, GoodGop, LeadingKey
      <3>2. X = {} => \A n \in 1..g : VideoIn(s.gops[n]) = {}
        BY DEF InGops
      <3>3. X = {} => 1..g = {}
        BY <3>1, <3>2
      <3> QED
        BY <3>3 DEF FirstAudio
    <2> QED
      BY <1>4, <2>1, <2>2 DEF GoodOpen
  <1>12. Buffered(s) = X /\ Buffered(t) = {}
    BY <1>2, <1>5, <1>6 DEF Buffered
  <1>13. UpToDate(U, t, m)
    <2>1. Current(t) = Current(s)
      BY <1>4, <1>12 DEF Current
    <2>2. UpToDate(U, s, m)
      BY DEF Good
    <2> QED
      BY <2>1, <2>2 DEF UpToDate
  <1>14. NoneLost(U, t, m)
    <2>1. NoneLost(U, s, m)
      BY DEF Good
    <2> QED
      BY <1>4, <2>1 DEF NoneLost
  <1>15. ~ s.torn /\ mode = "gated" =>
           \A i \in 1..m : KeyAt(U, i) /\ (\A j \in Recorded(s.files) : j < i) =>
             \/ i \in X
             \/ \E k \in X : k > i /\ KeyAt(U, k) /\ U[k].at + PreRoll <= s.wall
    BY <1>12 DEF Good, BufferReaches
  <1>16. FilesReach(U, t)
    <2> SUFFICES ASSUME ~ s.torn, mode = "gated", NEW n \in 1..l + 1
                 PROVE  t.files[n].trigger <= Len(U) /\ FileReaches(U, t.files, n)
      BY <1>4 DEF FilesReach
    <2>1. \A q \in 1..l : t.files[q] = s.files[q]
      BY <1>4
    <2>2. CASE n \in 1..l
      <3>1. s.files[n].trigger <= Len(U) /\ FileReaches(U, s.files, n)
        BY <2>2 DEF Good, FilesReach
      <3>2. \A q \in 1..n - 1 : q \in 1..l
        BY <2>2
      <3> QED
        BY <2>1, <2>2, <3>1, <3>2 DEF FileReaches
    <2>3. CASE n = l + 1
      <3>1. t.files[n].trigger = m + 1 /\ VideoIn(t.files[n]) = X /\ n - 1 = l
        BY <1>1, <1>4, <1>9, <2>3
      <3>2. ASSUME NEW i \in 1..m, KeyAt(U, i), \A q \in 1..l : \A j \in VideoIn(t.files[q]) : j < i
            PROVE  \/ i \in X
                   \/ \E k \in X : k > i /\ KeyAt(U, k) /\ U[k].at + PreRoll <= U[m + 1].at
        <4>1. \A j \in Recorded(s.files) : j < i
          BY <2>1, <3>2 DEF Recorded
        <4> QED
          BY <1>15, <3>2, <4>1
      <3>3. (m + 1) - 1 = m
        OBVIOUS
      <3> QED
        BY <3>1, <3>2, <3>3 DEF FileReaches
    <2> QED
      BY <1>8, <2>2, <2>3
  <1>17. BufferReaches(U, t, m)
    <2> SUFFICES ASSUME ~ s.torn, mode = "gated", NEW i \in 1..m, KeyAt(U, i), \A j \in Recorded(t.files) : j < i
                 PROVE  FALSE
      BY <1>4 DEF BufferReaches
    <2>1. i \in X \/ \E k \in X : k > i
      BY <1>4, <1>15
    <2>2. \A k \in X : k \in Nat /\ k < i
      <3>1. X \subseteq 1..m
        <4>0. l + 1 \in 1..Len(t.files)
          BY <1>1, <1>4
        <4>1. GoodFile(U, t.files[l + 1], m)
          BY <4>0 DEF GoodFiles
        <4> QED
          BY <1>4, <1>9, <4>1 DEF GoodFile, InLine, Held
      <3> QED
        BY <1>4, <3>1
    <2> QED
      BY <2>1, <2>2
  <1>18. NoVideo(U, t, m)
    <2> SUFFICES ASSUME mode = "audio"
                 PROVE  NoVideo(U, t, m)
      BY DEF NoVideo
    <2>1. s.gops = <<>> /\ NoVideo(U, s, m)
      BY DEF Good, NoVideo
    <2>2. X = {}
      BY <2>1 DEF InGops
    <2> QED
      BY <1>4, <1>5, <2>1, <2>2 DEF NoVideo
  <1> QED
    BY <1>4, <1>7, <1>10, <1>11, <1>13, <1>14, <1>16, <1>17, <1>18 DEF Good

-----------------------------------------------------------------------------
(* A file is closed, its samples where they are.                            *)
SameContent(f, e) == /\ e.start = f.start /\ e.trigger = f.trigger
                     /\ e.video = f.video /\ e.audio = f.audio

ClosedTo(s, t) ==
  /\ t \in RecorderRecord /\ ~ t.open /\ Len(t.files) = Len(s.files)
  /\ \A n \in 1..Len(s.files) : SameContent(s.files[n], t.files[n])
  /\ t.gops = s.gops /\ t.wall = s.wall /\ t.video = s.video /\ t.audio = s.audio
  /\ s.torn => t.torn

LEMMA SameContentSame ==
  ASSUME NEW f, NEW e, SameContent(f, e)
  PROVE  VideoIn(e) = VideoIn(f) /\ AudioIn(e) = AudioIn(f) /\ Held(e) = Held(f)
PROOF
  BY DEF SameContent, VideoIn, AudioIn, Held

LEMMA ClosedFields ==
  ASSUME NEW s \in RecorderRecord, s.open => s.files # <<>>, NEW t, ClosedAs(s, t)
  PROVE  ClosedTo(s, t) /\ t.torn = s.torn
PROOF
  <1> PICK row \in {"final", "incomplete"} : t = FinalizeUnflushed(s, row)
    BY DEF ClosedAs
  <1>1. CASE ~ s.open
    BY <1>1 DEF FinalizeUnflushed, ClosedTo, SameContent
  <1>2. CASE s.open
    <2> PICK l, files, f : l = Len(s.files) /\ files = s.files /\ f = s.files[l]
      OBVIOUS
    <2>1. files \in Seq(Files) /\ l \in Nat \ {0} /\ DOMAIN files = 1..l /\ f \in Files
      BY <1>2 DEF RecorderRecord
    <2> PICK e : e = [f EXCEPT !.row = row]
      OBVIOUS
    <2>2. e \in Files /\ SameContent(f, e)
      BY <2>1 DEF Files, SameContent
    <2> PICK h : h = [files EXCEPT ![l] = e]
      OBVIOUS
    <2>3. h \in Seq(Files) /\ Len(h) = l /\ h[l] = e /\ \A n \in 1..l - 1 : h[n] = files[n]
      BY <2>1, <2>2
    <2>4. t = [s EXCEPT !.files = h, !.open = FALSE]
      BY <1>2 DEF FinalizeUnflushed
    <2>5. /\ t \in RecorderRecord /\ t.files = h /\ ~ t.open
          /\ t.gops = s.gops /\ t.wall = s.wall /\ t.torn = s.torn /\ t.video = s.video /\ t.audio = s.audio
      BY <2>3, <2>4 DEF RecorderRecord
    <2>6. ASSUME NEW n \in 1..l
          PROVE  SameContent(files[n], h[n])
      <3>1. n = l \/ n \in 1..l - 1
        BY <2>1
      <3> QED
        BY <2>2, <2>3, <3>1 DEF SameContent
    <2> QED
      BY <2>3, <2>5, <2>6 DEF ClosedTo
  <1> QED
    BY <1>1, <1>2

ClosedAlike(U, s, t, m) ==
  /\ GoodFiles(U, t.files, m) /\ Recorded(t.files) = Recorded(s.files)
  /\ \A n \in 1..Len(s.files) : /\ VideoIn(t.files[n]) = VideoIn(s.files[n])
                                /\ Held(t.files[n]) = Held(s.files[n])
                                /\ t.files[n].trigger = s.files[n].trigger

LEMMA ClosedGood ==
  ASSUME NEW U, NEW m \in Nat, NEW s, GoodFiles(U, s.files, m), NEW t, ClosedTo(s, t)
  PROVE  ClosedAlike(U, s, t, m)
PROOF
  <1> PICK l : l = Len(s.files)
    OBVIOUS
  <1>1. Len(t.files) = l /\ t.files \in Seq(Files) /\ \A n \in 1..l : t.files[n] \in Files
    BY DEF ClosedTo, RecorderRecord
  <1>2. \A n \in 1..l : SameContent(s.files[n], t.files[n])
    BY DEF ClosedTo
  <1>3. \A n \in 1..l : /\ VideoIn(t.files[n]) = VideoIn(s.files[n]) /\ AudioIn(t.files[n]) = AudioIn(s.files[n])
                        /\ Held(t.files[n]) = Held(s.files[n])
    BY <1>2, SameContentSame
  <1>4. \A n \in 1..l : GoodFile(U, t.files[n], m)
    <2> SUFFICES ASSUME NEW n \in 1..l
                 PROVE  GoodFile(U, t.files[n], m)
      OBVIOUS
    <2>1. GoodFile(U, s.files[n], m)
      BY DEF GoodFiles
    <2>2. SameContent(s.files[n], t.files[n])
      BY <1>2
    <2>3. InLine(t.files[n], m) /\ Cut(U, t.files[n], VideoIn(t.files[n]))
      BY <1>3, <2>1, <2>2 DEF GoodFile, InLine, Cut, SameContent
    <2> QED
      BY <1>1, <1>3, <2>1, <2>3 DEF GoodFile
  <1>5. \A i, j \in 1..l : i < j => Precedes(Held(t.files[i]), Held(t.files[j]))
    BY <1>3 DEF GoodFiles
  <1>6. Recorded(t.files) = Recorded(s.files)
    BY <1>1, <1>3 DEF Recorded
  <1> QED
    BY <1>1, <1>2, <1>3, <1>4, <1>5, <1>6 DEF GoodFiles, SameContent, ClosedAlike

LEMMA ClosedReach ==
  ASSUME NEW U, NEW m \in Nat, NEW s, GoodFiles(U, s.files, m), FilesReach(U, s), NEW t, ClosedTo(s, t)
  PROVE  FilesReach(U, t)
PROOF
  <1>0. ClosedAlike(U, s, t, m)
    BY ClosedGood
  <1>1. \A n \in 1..Len(s.files) : /\ VideoIn(t.files[n]) = VideoIn(s.files[n])
                                   /\ t.files[n].trigger = s.files[n].trigger
    BY <1>0 DEF ClosedAlike
  <1>2. Len(t.files) = Len(s.files) /\ (s.torn => t.torn)
    BY DEF ClosedTo
  <1> SUFFICES ASSUME ~ t.torn, mode = "gated", NEW n \in 1..Len(s.files)
               PROVE  t.files[n].trigger <= Len(U) /\ FileReaches(U, t.files, n)
    BY <1>2 DEF FilesReach
  <1>3. s.files[n].trigger <= Len(U) /\ FileReaches(U, s.files, n)
    BY <1>2 DEF FilesReach
  <1>4. \A q \in 1..n - 1 : q \in 1..Len(s.files)
    OBVIOUS
  <1> QED
    BY <1>1, <1>3, <1>4 DEF FileReaches

LEMMA CloseKeeps ==
  ASSUME NEW U, NEW m \in Nat, NEW s, Good(U, s, m), s.video = <<>>, NEW t, ClosedTo(s, t)
  PROVE  Good(U, t, m)
PROOF
  <1>1. /\ s \in RecorderRecord /\ GoodFiles(U, s.files, m) /\ GoodGops(U, s, m) /\ GoodPending(U, s, m)
        /\ GoodOpen(U, s) /\ FilesReach(U, s)
    BY DEF Good
  <1>2. /\ t \in RecorderRecord /\ ~ t.open /\ Len(t.files) = Len(s.files)
        /\ t.gops = s.gops /\ t.wall = s.wall /\ t.video = s.video /\ t.audio = s.audio
        /\ s.torn => t.torn
    BY DEF ClosedTo
  <1>0. ClosedAlike(U, s, t, m)
    BY <1>1, ClosedGood
  <1>3. /\ GoodFiles(U, t.files, m) /\ Recorded(t.files) = Recorded(s.files)
        /\ \A n \in 1..Len(s.files) : Held(t.files[n]) = Held(s.files[n])
    BY <1>0 DEF ClosedAlike
  <1>4. VideoIn(t) = VideoIn(s) /\ AudioIn(t) = AudioIn(s) /\ Held(t) = Held(s) /\ InLine(t, m)
    BY <1>1, <1>2 DEF VideoIn, AudioIn, Held, InLine, GoodPending
  <1>5. VideoIn(s) = {}
    BY <1>1, Videos
  <1>6. InGops(t) = InGops(s) /\ Buffered(t) = Buffered(s)
    BY <1>2, <1>4 DEF InGops, Buffered
  <1>7. GoodGops(U, t, m)
    BY <1>1, <1>2, <1>3, <1>4 DEF GoodGops
  <1>8. GoodPending(U, t, m)
    BY <1>1, <1>2, <1>3, <1>4 DEF GoodPending
  <1>9. UpToDate(U, t, m)
    <2>1. CASE s.open
      <3>1. s.gops = <<>> /\ Len(s.gops) = 0 /\ 1..0 = {}
        BY <1>1, <2>1 DEF GoodOpen
      <3>2. Current(t) = {}
        BY <1>2, <1>5, <1>6, <3>1 DEF Current, Buffered, InGops
      <3> QED
        BY <3>2 DEF UpToDate
    <2>2. CASE ~ s.open
      <3>1. Current(t) = Current(s)
        BY <1>2, <1>6, <2>2 DEF Current
      <3>2. UpToDate(U, s, m)
        BY DEF Good
      <3> QED
        BY <3>1, <3>2 DEF UpToDate
    <2> QED
      BY <2>1, <2>2
  <1>10. NoneLost(U, t, m) /\ NoVideo(U, t, m) /\ BufferReaches(U, t, m)
    <2>1. NoneLost(U, s, m) /\ NoVideo(U, s, m) /\ BufferReaches(U, s, m)
      BY DEF Good
    <2>2. NoneLost(U, t, m)
      BY <1>2, <1>3, <1>5, <2>1 DEF NoneLost
    <2>3. NoVideo(U, t, m)
      BY <1>2, <1>3, <1>4, <2>1 DEF NoVideo
    <2>4. BufferReaches(U, t, m)
      BY <1>2, <1>3, <1>6, <2>1 DEF BufferReaches
    <2> QED
      BY <2>2, <2>3, <2>4
  <1>11. FilesReach(U, t)
    BY <1>1, ClosedReach
  <1> QED
    BY <1>2, <1>3, <1>7, <1>8, <1>9, <1>10, <1>11 DEF Good, GoodOpen

-----------------------------------------------------------------------------
(* finalize: the tail is flushed, or lost, and the file is closed.          *)
Finalized(s, t) == t \in Finalizations(s)
Ended(U, t, m)  == t \in RecorderRecord /\ GoodFiles(U, t.files, m) /\ ~ t.open

LEMMA WaysToFinalize ==
  ASSUME NEW s \in RecorderRecord, s.open => s.files # <<>>, NEW t, Finalized(s, t)
  PROVE  \/ ~ s.open /\ t = s
         \/ s.open /\ ClosedTo(s, t) /\ t.torn
         \/ s.open /\ \E f : Flushed(s, f) /\ ClosedAs(f, t)
PROOF
  <1>1. CASE ~ s.open
    BY <1>1 DEF Finalized, Finalizations, Finalize, FinalizeUnflushed, Flush
  <1>2. CASE s.open
    <2>1. \E row \in Completions : t = Finalize(s, row) \/ t = [FinalizeUnflushed(s, row) EXCEPT !.torn = TRUE]
      BY <1>2 DEF Finalized, Finalizations
    <2>2. CASE \E row \in Completions : t = Finalize(s, row)
      BY <1>2, <2>2 DEF Finalize, Flush, Flushed, ClosedAs, Completions
    <2>3. CASE \E row \in Completions : t = [FinalizeUnflushed(s, row) EXCEPT !.torn = TRUE]
      <3> PICK u : ClosedAs(s, u) /\ t = [u EXCEPT !.torn = TRUE]
        BY <2>3 DEF ClosedAs, Completions
      <3>1. ClosedTo(s, u)
        BY <1>2, ClosedFields
      <3>2. t = [u EXCEPT !.torn = TRUE]
        OBVIOUS
      <3>3. u \in RecorderRecord
        BY <3>1 DEF ClosedTo
      <3>4. /\ t \in RecorderRecord /\ t.torn /\ t.files = u.files /\ t.open = u.open
            /\ t.gops = u.gops /\ t.wall = u.wall /\ t.video = u.video /\ t.audio = u.audio
        BY <3>2, <3>3 DEF RecorderRecord
      <3> QED
        BY <1>2, <3>1, <3>4 DEF ClosedTo
    <2> QED
      BY <2>1, <2>2, <2>3
  <1> QED
    BY <1>1, <1>2

LEMMA Ends ==
  ASSUME NEW U, NEW m \in Nat, NEW s \in RecorderRecord, GoodFiles(U, s.files, m),
         s.open => s.files # <<>>,
         s.open => InLine(s, m) /\ GoesInto(U, s, VideoIn(s), AudioIn(s), m),
         NEW t, Finalized(s, t)
  PROVE  Ended(U, t, m)
PROOF
  <1>1. CASE ~ s.open /\ t = s
    BY <1>1 DEF Ended
  <1>2. CASE s.open /\ ClosedTo(s, t) /\ t.torn
    <2>1. ClosedAlike(U, s, t, m)
      BY <1>2, ClosedGood
    <2> QED
      BY <1>2, <2>1 DEF ClosedAlike, ClosedTo, Ended
  <1>3. CASE s.open /\ \E f : Flushed(s, f) /\ ClosedAs(f, t)
    <2> PICK f : Flushed(s, f) /\ ClosedAs(f, t)
      BY <1>3
    <2>1. FlushedTo(s, f) /\ GoodFiles(U, f.files, m)
      BY <1>3, FlushedFields
    <2>2. f \in RecorderRecord /\ f.files # <<>>
      BY <2>1 DEF FlushedTo, Grew
    <2>3. ClosedTo(f, t)
      BY <2>2, ClosedFields
    <2>4. ClosedAlike(U, f, t, m)
      BY <2>1, <2>3, ClosedGood
    <2> QED
      BY <2>3, <2>4 DEF ClosedAlike, ClosedTo, Ended
  <1> QED
    BY <1>1, <1>2, <1>3, WaysToFinalize

LEMMA GoodEnds ==
  ASSUME NEW U, NEW m \in Nat, NEW s, Good(U, s, m),
         s.open => s.video # <<>> \/ mode = "audio" \/ s.audio = <<>>,
         NEW t, Finalized(s, t)
  PROVE  Ended(U, t, m) /\ NoneLost(U, t, m) /\ FilesReach(U, t)
PROOF
  <1>1. s \in RecorderRecord /\ GoodFiles(U, s.files, m) /\ GoodOpen(U, s) /\ InLine(s, m)
    BY DEF Good, GoodPending
  <1>2. s.open => s.files # <<>>
    BY <1>1 DEF GoodOpen
  <1>3. s.open => GoesInto(U, s, VideoIn(s), AudioIn(s), m)
    BY PendingFits
  <1>4. Ended(U, t, m)
    BY <1>1, <1>2, <1>3, Ends
  <1>5. CASE ~ s.open /\ t = s
    BY <1>4, <1>5 DEF Good
  <1>6. CASE s.open /\ ClosedTo(s, t) /\ t.torn
    BY <1>4, <1>6 DEF NoneLost, FilesReach
  <1>7. CASE s.open /\ \E f : Flushed(s, f) /\ ClosedAs(f, t)
    <2> PICK f : Flushed(s, f) /\ ClosedAs(f, t)
      BY <1>7
    <2>1. Good(U, f, m)
      BY <1>7, FlushKeeps
    <2>2. FlushedTo(s, f)
      BY <1>1, <1>2, <1>3, <1>7, FlushedFields
    <2>3. f \in RecorderRecord /\ f.files # <<>> /\ f.video = <<>>
      BY <2>2 DEF FlushedTo, Grew
    <2>4. ClosedTo(f, t)
      BY <2>3, ClosedFields
    <2>5. Good(U, t, m)
      BY <2>1, <2>3, <2>4, CloseKeeps
    <2> QED
      BY <1>4, <2>5 DEF Good
  <1> QED
    BY <1>1, <1>2, <1>5, <1>6, <1>7, WaysToFinalize

LEMMA FinalizeKeeps ==
  ASSUME NEW U, NEW m \in Nat, NEW s, Good(U, s, m), s.video = <<>>,
         s.open => mode = "audio" \/ s.audio = <<>>,
         NEW t, Finalized(s, t)
  PROVE  Good(U, t, m) /\ ~ t.open /\ t.video = <<>> /\ t.wall = s.wall /\ t.gops = s.gops
PROOF
  <1>1. s \in RecorderRecord /\ GoodFiles(U, s.files, m) /\ GoodOpen(U, s) /\ InLine(s, m)
    BY DEF Good, GoodPending
  <1>2. s.open => s.files # <<>>
    BY <1>1 DEF GoodOpen
  <1>3. s.open => GoesInto(U, s, VideoIn(s), AudioIn(s), m)
    BY PendingFits
  <1>5. CASE ~ s.open /\ t = s
    BY <1>5
  <1>6. CASE s.open /\ ClosedTo(s, t) /\ t.torn
    <2>1. Good(U, t, m)
      BY <1>6, CloseKeeps
    <2> QED
      BY <1>6, <2>1 DEF ClosedTo
  <1>7. CASE s.open /\ \E f : Flushed(s, f) /\ ClosedAs(f, t)
    <2> PICK f : Flushed(s, f) /\ ClosedAs(f, t)
      BY <1>7
    <2>1. Good(U, f, m)
      BY <1>7, FlushKeeps
    <2>2. FlushedTo(s, f)
      BY <1>1, <1>2, <1>3, <1>7, FlushedFields
    <2>3. f \in RecorderRecord /\ f.files # <<>> /\ f.video = <<>> /\ f.gops = s.gops /\ f.wall = s.wall
      BY <2>2 DEF FlushedTo, Grew
    <2>4. ClosedTo(f, t)
      BY <2>3, ClosedFields
    <2>5. Good(U, t, m)
      BY <2>1, <2>3, <2>4, CloseKeeps
    <2> QED
      BY <2>3, <2>4, <2>5 DEF ClosedTo
  <1> QED
    BY <1>1, <1>2, <1>5, <1>6, <1>7, WaysToFinalize

-----------------------------------------------------------------------------
(* Openings that fail, and the one that writes the pre-roll.                *)
FailedTo(s, f, start, fault) == f = FailedOpen(s, start, fault)

LEMMA FailedOpenEnds ==
  ASSUME NEW U, NEW m \in Nat, NEW s \in RecorderRecord, GoodFiles(U, s.files, m), ~ s.open,
         Len(units) \in Nat, NEW start \in Nat, NEW fault, NEW f, FailedTo(s, f, start, fault),
         NEW t, Finalized(f, t)
  PROVE  Ended(U, t, m)
PROOF
  <1>1. f \in RecorderRecord /\ GoodFiles(U, f.files, m) /\ ~ f.open
    <2>1. CASE f = s
      BY <2>1
    <2>2. CASE f = [s EXCEPT !.files = Append(@, NewFile(start, "none"))]
      <3> PICK files, e : files = s.files /\ e = NewFile(start, "none")
        OBVIOUS
      <3>1. files \in Seq(Files) /\ Len(files) \in Nat
        BY DEF RecorderRecord
      <3>2. e \in Files /\ e.video = <<>> /\ e.audio = <<>>
        BY NewFileFields
      <3> PICK more : more = Append(files, e)
        OBVIOUS
      <3>3. VideoIn(e) = {}
        BY <3>2, EmptyPart
      <3>4. OneFileMore(files, more, e)
        BY DEF OneFileMore
      <3>5. /\ more \in Seq(Files) /\ Len(more) = Len(files) + 1 /\ more[Len(more)] = e
            /\ \A n \in 1..Len(files) : more[n] = files[n]
        BY <3>1, <3>2, <3>3, <3>4, AFileMore
      <3>6. GoodFiles(U, files, m)
        OBVIOUS
      <3>7. GoodFiles(U, more, m)
        BY <3>2, <3>5, <3>6, OpenedFilesGood, ZenonT(60)
      <3>8. f = [s EXCEPT !.files = more]
        BY <2>2
      <3>9. f \in RecorderRecord /\ f.files = more /\ f.open = s.open
        BY <3>5, <3>8 DEF RecorderRecord
      <3> QED
        BY <3>7, <3>9
    <2> QED
      BY <2>1, <2>2 DEF FailedTo, FailedOpen
  <1> QED
    BY <1>1, Ends

LEMMA NothingPending ==
  ASSUME NEW U, NEW m \in Nat, NEW s, Good(U, s, m), s.video = <<>>, s.gops # <<>>
  PROVE  s.audio = <<>>
PROOF
  <1>1. s \in RecorderRecord /\ GoodGops(U, s, m) /\ GoodPending(U, s, m)
    BY DEF Good
  <1>2. 1 \in 1..Len(s.gops)
    BY <1>1 DEF RecorderRecord
  <1>3. GoodGop(U, s.gops[1], m, s.wall)
    BY <1>1, <1>2 DEF GoodGops
  <1>4. VideoIn(s.gops[1]) \subseteq 1..m
    BY <1>3 DEF GoodGop, InLine, Held
  <1>5. \E k \in 1..m : KeyAt(U, k)
    BY <1>3, <1>4 DEF GoodGop, LeadingKey
  <1>6. VideoIn(s) = {}
    BY <1>1, Videos
  <1>7. AudioIn(s) = {}
    BY <1>1, <1>5, <1>6 DEF GoodPending
  <1> QED
    BY <1>1, <1>7, Videos

LEMMA HalfWrittenEnds ==
  ASSUME NEW U, NEW m \in Nat, NEW s, Good(U, s, m), ~ s.open, s.video = <<>>,
         Len(units) \in Nat, m <= Len(units) + 1,
         NEW start, NEW o, OpenedTo(s, o, start), NEW k \in 0..Len(s.gops) - 1,
         NEW x, Wrote(o, x, k), NEW t, Finalized(x, t)
  PROVE  Ended(U, t, m)
PROOF
  <1>1. s \in RecorderRecord /\ Len(s.gops) \in Nat
    BY DEF Good, RecorderRecord
  <1>2. k \in 0..Len(s.gops) /\ s.gops # <<>>
    BY <1>1
  <1>3. Grew(o, x, FirstVideo(s, k), FirstAudio(s, k)) /\ GoodFiles(U, x.files, m)
    BY <1>2, WroteFields
  <1>4. SamePending(s, x)
    BY <1>2, WroteFields
  <1>5. s.audio = <<>>
    BY <1>2, NothingPending
  <1>6. x \in RecorderRecord /\ x.files # <<>>
    BY <1>3 DEF Grew
  <1>7. InLine(x, m) /\ VideoIn(x) = {} /\ AudioIn(x) = {} /\ Held(x) = {}
    BY <1>4, <1>5, EmptyPart DEF SamePending
  <1>8. GoesInto(U, x, VideoIn(x), AudioIn(x), m)
    <2>1. Len(x.files) \in 1..Len(x.files)
      BY <1>6 DEF RecorderRecord
    <2>2. GoodFile(U, LastFile(x), m)
      BY <1>3, <2>1 DEF GoodFiles, LastFile
    <2> QED
      BY <1>7, <2>2 DEF GoesInto, GoodFile, Precedes, Cut
  <1> QED
    BY <1>3, <1>6, <1>7, <1>8, Ends

LEMMA NoGops == <<>> \in Seq(Gop)
PROOF
  OBVIOUS

PrerollWritten(o, t) == t = WritePreroll(o)

LEMMA PrerollStarts ==
  ASSUME NEW U, NEW m \in Nat, NEW s, Good(U, s, m), ~ s.open, m <= Len(units) + 1, Len(units) \in Nat,
         NEW start, NEW o, OpenedTo(s, o, start), NEW t, PrerollWritten(o, t)
  PROVE  StartsWith(s, o, t, start) /\ GoodFiles(U, t.files, m)
PROOF
  <1> PICK g : g = Len(s.gops)
    OBVIOUS
  <1>1. g \in 0..Len(s.gops) /\ o.gops = s.gops
    BY DEF Good, RecorderRecord, OpenedTo
  <1> PICK w : w = WriteGOPs(o, g)
    OBVIOUS
  <1>2. Wrote(o, w, g)
    BY DEF Wrote
  <1>3. Grew(o, w, FirstVideo(s, g), FirstAudio(s, g)) /\ GoodFiles(U, w.files, m)
    BY <1>1, <1>2, WroteFields
  <1>4. SamePending(s, w)
    BY <1>1, <1>2, WroteFields
  <1>5. t = [w EXCEPT !.gops = <<>>]
    BY <1>1 DEF PrerollWritten, WritePreroll
  <1> PICK e : e = <<>> /\ e \in Seq(Gop)
    BY NoGops
  <1>6. /\ t \in RecorderRecord /\ t.files = w.files /\ t.gops = <<>> /\ t.video = w.video /\ t.audio = w.audio
        /\ t.open = w.open /\ t.wall = w.wall /\ t.end = w.end /\ t.torn = w.torn
    <2>1. w \in RecorderRecord /\ t = [w EXCEPT !.gops = e]
      BY <1>3, <1>5 DEF Grew
    <2> QED
      BY <2>1 DEF RecorderRecord
  <1>7. Grew(o, t, FirstVideo(s, g), FirstAudio(s, g))
    BY <1>3, <1>6 DEF Grew, LastFile
  <1>8. FirstVideo(s, g) = InGops(s)
    BY DEF FirstVideo, InGops
  <1> QED
    BY <1>3, <1>4, <1>6, <1>7, <1>8 DEF StartsWith, SamePending

LEMMA PlainStart ==
  ASSUME NEW s \in RecorderRecord, s.gops = <<>>, NEW start, NEW o, OpenedTo(s, o, start)
  PROVE  StartsWith(s, o, o, start)
PROOF
  <1>1. Len(s.gops) = 0 /\ 1..0 = {}
    OBVIOUS
  <1>2. InGops(s) = {} /\ FirstAudio(s, Len(s.gops)) = {}
    BY <1>1 DEF InGops, FirstAudio
  <1> QED
    BY <1>2 DEF StartsWith, OpenedTo, Grew

-----------------------------------------------------------------------------
(* The steps of the recorder.                                               *)
LEMMA SameMode ==
  ASSUME mode' = mode, align' = align
  PROVE  \A U, s, t, how : FilesOK(U, s, t, how) => FilesOK(U, s, t, how)'
PROOF
  <1>1. \A U, f, X : Cut(U, f, X) <=> Cut(U, f, X)'
    BY DEF Cut, SegmentEnd, KeyAt
  <1>2. \A U, f, m : GoodFile(U, f, m) <=> GoodFile(U, f, m)'
    BY <1>1 DEF GoodFile, InLine, FramesInARow, Together, Held, VideoIn, AudioIn, Rising, KeyAt, Frame
  <1>3. \A U, f, m : GoodFiles(U, f, m) <=> GoodFiles(U, f, m)'
    BY <1>2 DEF GoodFiles, Precedes, Held, VideoIn, AudioIn
  <1>4. \A U, s, m : GoodGops(U, s, m) <=> GoodGops(U, s, m)'
    OBVIOUS
  <1>5. \A U, s, m : GoodPending(U, s, m) <=> GoodPending(U, s, m)'
    OBVIOUS
  <1>6. \A U, s : GoodOpen(U, s) <=> GoodOpen(U, s)'
    BY <1>1 DEF GoodOpen, LastFile, SegmentEnd
  <1>7. \A U, s, m : UpToDate(U, s, m) <=> UpToDate(U, s, m)'
    OBVIOUS
  <1>8. \A U, s, m : NoneLost(U, s, m) <=> NoneLost(U, s, m)'
    OBVIOUS
  <1>9. \A U, s : FilesReach(U, s) <=> FilesReach(U, s)'
    BY DEF FilesReach
  <1>10. \A U, s, m : BufferReaches(U, s, m) <=> BufferReaches(U, s, m)'
    BY DEF BufferReaches
  <1>11. \A U, s, m : NoVideo(U, s, m) <=> NoVideo(U, s, m)'
    BY DEF NoVideo
  <1>12. \A U, s, m : Good(U, s, m) <=> Good(U, s, m)'
    BY <1>3, <1>4, <1>5, <1>6, <1>7, <1>8, <1>9, <1>10, <1>11 DEF Good
  <1>13. \A U, s, t : AtRest(U, s, t) <=> AtRest(U, s, t)'
    BY DEF AtRest
  <1> QED
    BY <1>3, <1>8, <1>9, <1>12, <1>13 DEF FilesOK

LEMMA StepDone ==
  ASSUME FilesInv, mode' = mode, align' = align, FilesOK(units', r', now', run')
  PROVE  FilesInv'
PROOF
  BY SameMode DEF FilesInv

(* The keyframe is the first of a GOP, in the file that is open, if any.    *)
LEMMA KeyPushed ==
  ASSUME NEW W \in Seq(Unit), NEW m \in Nat, Len(W) = m + 1, mode # "audio", NEW x, Good(W, x, m),
         NEW t, FrameAdded(x, t, m), KeyAt(W, m + 1), W[m + 1].on = x.open, NEW w, x.wall = w, W[m + 1].at = w,
         mode = "continuous" => x.open, x.video = <<>>,
         x.open /\ m + 1 > LastFile(x).trigger => x.wall < x.end
  PROVE  FilesOK(W, t, w, "running")
PROOF
  <1>1. x \in RecorderRecord /\ GoodPending(W, x, m) /\ Frame(W, m + 1)
    BY DEF Good, KeyAt, Frame
  <1>2. InLine(x, m)
    BY <1>1 DEF GoodPending
  <1>3. /\ t \in RecorderRecord /\ t.open = x.open /\ t.wall = x.wall /\ t.video # <<>>
    BY <1>1, <1>2, VideoPushed
  <1>4. Good(W, t, m + 1)
    BY <1>1, FrameKeeps
  <1>5. AtRest(W, t, w)
    BY <1>3 DEF AtRest
  <1> QED
    BY <1>1, <1>3, <1>4, <1>5 DEF FilesOK, Good, RecorderRecord

(* What closes the GOP that a keyframe ends.                                *)
GOPClosed(s, t) == t = CloseGOP(s)

LEMMA GOPCloses ==
  ASSUME NEW U, NEW m \in Nat, NEW s, Good(U, s, m), mode # "audio",
         mode \in {"continuous", "gated"}, s.open => s.video # <<>>,
         s.video # <<>> => s.open \/ mode = "gated", NEW t, GOPClosed(s, t)
  PROVE  /\ Good(U, t, m) /\ t.video = <<>> /\ t.open = s.open /\ t.wall = s.wall
         /\ t.open => t.audio = <<>>
PROOF
  <1>1. s \in RecorderRecord /\ GoodFiles(U, s.files, m) /\ GoodOpen(U, s) /\ InLine(s, m)
    BY DEF Good, GoodPending
  <1>2. CASE s.video = <<>>
    BY <1>2 DEF GOPClosed, CloseGOP
  <1>3. CASE s.video # <<>> /\ s.open
    <2>1. Flushed(s, t)
      BY <1>3 DEF GOPClosed, CloseGOP, Flush, Flushed
    <2>2. Good(U, t, m)
      BY <1>3, <2>1, FlushKeeps
    <2>3. GoesInto(U, s, VideoIn(s), AudioIn(s), m) /\ s.files # <<>>
      BY <1>1, <1>3, PendingFits DEF GoodOpen
    <2>4. FlushedTo(s, t)
      BY <1>1, <2>1, <2>3, FlushedFields
    <2> QED
      BY <2>2, <2>4 DEF FlushedTo, Grew
  <1>4. CASE s.video # <<>> /\ ~ s.open
    <2>1. Stashed(s, t) /\ mode = "gated"
      BY <1>4 DEF GOPClosed, CloseGOP, Stashed
    <2>2. Good(U, t, m)
      BY <1>4, <2>1, StashKeeps
    <2>3. \E h, c : StashedTo(s, t, h, c)
      BY <1>1, <2>1, StashedFields
    <2> QED
      BY <2>2, <2>3 DEF StashedTo
  <1> QED
    BY <1>2, <1>3, <1>4

WallMoved(s, t, w) == t = [s EXCEPT !.wall = w]

LEMMA BufferedCame ==
  ASSUME NEW U, NEW m, NEW s, Good(U, s, m)
  PROVE  Buffered(s) \subseteq 1..m
PROOF
  <1>1. \A n \in 1..Len(s.gops) : VideoIn(s.gops[n]) \subseteq 1..m
    BY DEF Good, GoodGops, GoodGop, InLine, Held
  <1>2. InGops(s) \subseteq 1..m
    BY <1>1, Zenon DEF InGops
  <1>3. VideoIn(s) \subseteq 1..m
    BY DEF Good, GoodPending, InLine, Held
  <1> QED
    BY <1>2, <1>3, Zenon DEF Buffered

LEMMA WallMoves ==
  ASSUME NEW U \in Seq(Unit), NEW m \in Nat, m <= Len(U), NEW s, Good(U, s, m), s.video = <<>>, NEW w \in Nat, s.wall <= w,
         NEW t, WallMoved(s, t, w)
  PROVE  /\ Good(U, t, m) /\ t.video = <<>> /\ t.open = s.open /\ t.wall = w /\ t.audio = s.audio
PROOF
  <1>1. s \in RecorderRecord /\ GoodFiles(U, s.files, m) /\ GoodGops(U, s, m) /\ GoodPending(U, s, m) /\ GoodOpen(U, s)
    BY DEF Good
  <1>2. /\ t \in RecorderRecord /\ t.files = s.files /\ t.gops = s.gops /\ t.open = s.open /\ t.wall = w
        /\ t.end = s.end /\ t.torn = s.torn /\ t.video = s.video /\ t.audio = s.audio
    BY <1>1 DEF WallMoved, RecorderRecord
  <1>3. VideoIn(s) = {} /\ s.wall \in Nat
    BY <1>1, Videos DEF RecorderRecord
  <1>4. VideoIn(t) = VideoIn(s) /\ AudioIn(t) = AudioIn(s) /\ Held(t) = Held(s)
    BY <1>2 DEF VideoIn, AudioIn, Held
  <1>5. InGops(t) = InGops(s) /\ Recorded(t.files) = Recorded(s.files) /\ LastFile(t) = LastFile(s)
    BY <1>2, SameBuffers
  <1>6. Buffered(t) = Buffered(s) /\ Current(t) = Current(s)
    BY <1>2, <1>4, <1>5 DEF Buffered, Current
  <1>7. GoodGops(U, t, m)
    <2>1. ASSUME NEW n \in 1..Len(s.gops)
          PROVE  GoodGop(U, t.gops[n], m, w)
      <3>1. GoodGop(U, s.gops[n], m, s.wall)
        BY <1>1 DEF GoodGops
      <3>2. s.gops[n].wall \in Nat
        BY <3>1 DEF GoodGop, Gop
      <3> QED
        BY <1>2, <1>3, <3>1, <3>2 DEF GoodGop
    <2> QED
      BY <1>1, <1>2, <1>4, <2>1 DEF GoodGops
  <1>8. GoodPending(U, t, m)
    BY <1>1, <1>2, <1>3, <1>4 DEF GoodPending, InLine
  <1>9. GoodOpen(U, t)
    <2> SUFFICES ASSUME s.open
                 PROVE  GoodOpen(U, t)
      BY <1>2 DEF GoodOpen
    <2>1. Len(s.files) \in 1..Len(s.files)
      BY <1>1 DEF GoodOpen, RecorderRecord
    <2>2. LastFile(s) \in Files
      BY <1>1, <2>1 DEF RecorderRecord, LastFile
    <2>3. LastFile(s).start \in Nat
      BY <2>2 DEF Files
    <2> QED
      BY <1>1, <1>2, <1>3, <1>4, <1>5, <2>3 DEF GoodOpen
  <1>10. UpToDate(U, t, m) /\ NoneLost(U, t, m) /\ FilesReach(U, t) /\ NoVideo(U, t, m)
    BY <1>2, <1>4, <1>6 DEF Good, UpToDate, NoneLost, FilesReach, NoVideo
  <1>11. BufferReaches(U, t, m)
    <2> SUFFICES ASSUME ~ s.torn, mode = "gated", NEW i \in 1..m, KeyAt(U, i), \A j \in Recorded(s.files) : j < i
                 PROVE  \/ i \in Buffered(s)
                        \/ \E k \in Buffered(s) : k > i /\ KeyAt(U, k) /\ U[k].at + PreRoll <= w
      BY <1>2, <1>5, <1>6 DEF BufferReaches
    <2>1. \/ i \in Buffered(s)
          \/ \E k \in Buffered(s) : k > i /\ KeyAt(U, k) /\ U[k].at + PreRoll <= s.wall
      BY DEF Good, BufferReaches
    <2>2. Buffered(s) \subseteq 1..m
      BY BufferedCame
    <2>3. \A k \in 1..m : U[k].at \in Nat
      <3>1. \A k \in 1..m : k \in 1..Len(U)
        OBVIOUS
      <3>2. \A k \in 1..m : U[k] \in Unit
        BY <3>1
      <3> QED
        BY <3>2 DEF Unit
    <2>4. \A k \in 1..m : U[k].at + PreRoll <= s.wall => U[k].at + PreRoll <= w
      BY <1>3, <2>3, RecorderAssumption
    <2> QED
      BY <2>1, <2>2, <2>4
  <1> QED
    BY <1>1, <1>2, <1>7, <1>8, <1>9, <1>10, <1>11 DEF Good

LEMMA Fails ==
  ASSUME NEW W \in Seq(Unit), NEW m \in Nat, m <= Len(W), NEW t, Ended(W, t, m), NEW at \in Nat
  PROVE  FilesOK(W, t, at, "failed")
PROOF
  <1>1. GoodFiles(W, t.files, m) /\ t \in RecorderRecord /\ ~ t.open
    BY DEF Ended
  <1>2. Agree(W, W, m) /\ Len(W) \in Nat
    BY DEF Agree
  <1>3. GoodFiles(W, t.files, Len(W))
    BY <1>1, <1>2, FilesAge
  <1> QED
    BY <1>1, <1>3 DEF FilesOK

LEMMA OpenFails ==
  ASSUME NEW W \in Seq(Unit), NEW m \in Nat, m <= Len(W), NEW s \in RecorderRecord, GoodFiles(W, s.files, m), ~ s.open,
         Len(units) \in Nat, NEW start \in Nat, OpenError(s, start), NEW at \in Nat
  PROVE  FilesOK(W, r', at, run')
PROOF
  <1> PICK fault : Return(FailedOpen(s, start, fault), "failed")
    BY DEF OpenError
  <1> PICK f : f = FailedOpen(s, start, fault)
    OBVIOUS
  <1>1. run' = "failed" /\ Finalized(f, r') /\ FailedTo(s, f, start, fault)
    BY DEF Return, Finalized, FailedTo
  <1>2. Ended(W, r', m)
    BY <1>1, FailedOpenEnds
  <1> QED
    BY <1>1, <1>2, Fails

(* A keyframe that the gate lets through opens a file.                      *)
LEMMA KeyOpensOK ==
  ASSUME NEW W \in Seq(Unit), NEW m \in Nat, m = Len(units), Len(W) = m + 1, mode # "audio",
         NEW s, Good(W, s, m), ~ s.open, s.video = <<>>,
         KeyAt(W, m + 1), W[m + 1].on, W[m + 1].on \in BOOLEAN, W[m + 1].at = s.wall, KeyOpens(s), run = "running"
  PROVE  FilesOK(W, r', s.wall, run')
PROOF
  <1> PICK start, o : start = PrerollStart(s) /\ o = OpenSegment(s, start)
    OBVIOUS
  <1>1. s \in RecorderRecord /\ GoodFiles(W, s.files, m) /\ GoodGops(W, s, m) /\ Len(units) \in Nat /\ s.wall \in Nat
    BY DEF Good, RecorderRecord
  <1>2. start \in Nat /\ start <= s.wall
    <2>1. CASE s.gops = <<>>
      BY <1>1, <2>1 DEF PrerollStart
    <2>2. CASE s.gops # <<>>
      <3>1. 1 \in 1..Len(s.gops)
        BY <1>1, <2>2 DEF GoodGops
      <3>2. GoodGop(W, s.gops[1], m, s.wall)
        BY <1>1, <3>1 DEF GoodGops
      <3> QED
        BY <2>2, <3>2 DEF PrerollStart, GoodGop, Gop
    <2> QED
      BY <2>1, <2>2
  <1>3. Opened(s, o, start)
    BY DEF Opened
  <1>4. OpenedTo(s, o, start)
    BY <1>1, <1>2, <1>3, OpenedFields
  <1>5. \/ Continue(Push(WritePreroll(o)))
        \/ OpenError(s, start)
        \/ \E k \in 0..Len(s.gops) - 1 : WriteError(WriteGOPs(o, k))
    BY DEF KeyOpens
  <1>6. CASE Continue(Push(WritePreroll(o)))
    <2> PICK t : t = WritePreroll(o)
      OBVIOUS
    <2>1. PrerollWritten(o, t)
      BY DEF PrerollWritten
    <2>2. StartsWith(s, o, t, start) /\ GoodFiles(W, t.files, m)
      BY <1>1, <1>4, <2>1, PrerollStarts
    <2>3. Good(W, t, m)
      BY <1>1, <1>2, <2>2, OpenKeeps
    <2>4. /\ t.open /\ t.video = <<>> /\ t.wall = s.wall /\ t.open \in BOOLEAN
          /\ LastFile(t).trigger = m + 1
      BY <2>2 DEF StartsWith, Grew, OpenedTo, RecorderRecord
    <2>5. FrameAdded(t, r', m) /\ run' = "running"
      BY <1>6 DEF Continue, Push, FrameAdded
    <2>6. W[m + 1].on = t.open /\ ~ (m + 1 > LastFile(t).trigger)
      BY <1>1, <2>4
    <2>7. FilesOK(W, r', s.wall, "running")
      BY <2>3, <2>4, <2>5, <2>6, KeyPushed
    <2> QED
      BY <2>5, <2>7
  <1>7. CASE OpenError(s, start)
    BY <1>1, <1>2, <1>7, OpenFails
  <1>8. CASE \E k \in 0..Len(s.gops) - 1 : WriteError(WriteGOPs(o, k))
    <2> PICK k \in 0..Len(s.gops) - 1 : WriteError(WriteGOPs(o, k))
      BY <1>8
    <2> PICK x : x = WriteGOPs(o, k)
      OBVIOUS
    <2>1. Wrote(o, x, k) /\ Finalized(x, r') /\ run' = "failed"
      BY DEF Wrote, WriteError, Return, Finalized
    <2>2. Ended(W, r', m)
      BY <1>1, <1>4, <2>1, HalfWrittenEnds
    <2> QED
      BY <1>1, <2>1, <2>2, Fails
  <1> QED
    BY <1>5, <1>6, <1>7, <1>8

(* A keyframe at or after the boundary goes to the next file.               *)
LEMMA KeyRotatesOK ==
  ASSUME NEW W \in Seq(Unit), NEW m \in Nat, m = Len(units), Len(W) = m + 1, mode # "audio",
         NEW s, Good(W, s, m), s.open, s.video = <<>>, s.audio = <<>>,
         KeyAt(W, m + 1), W[m + 1].on, W[m + 1].on \in BOOLEAN, W[m + 1].at = s.wall, KeyRotates(s), run = "running"
  PROVE  FilesOK(W, r', s.wall, run')
PROOF
  <1> PICK c : /\ c \in Finalizations(s)
               /\ Continue(Push(OpenSegment(c, s.wall))) \/ OpenError(c, s.wall)
    BY DEF KeyRotates
  <1>1. s \in RecorderRecord /\ GoodOpen(W, s) /\ Len(units) \in Nat /\ s.wall \in Nat /\ Finalized(s, c)
    BY DEF Good, RecorderRecord, Finalized
  <1>2. Good(W, c, m) /\ ~ c.open /\ c.video = <<>> /\ c.wall = s.wall /\ c.gops = s.gops
    BY <1>1, FinalizeKeeps
  <1>3. c \in RecorderRecord /\ GoodFiles(W, c.files, m) /\ c.gops = <<>>
    BY <1>1, <1>2 DEF Good, GoodOpen
  <1>4. CASE Continue(Push(OpenSegment(c, s.wall)))
    <2> PICK o : o = OpenSegment(c, s.wall)
      OBVIOUS
    <2>0. Opened(c, o, s.wall)
      BY DEF Opened
    <2>1. OpenedTo(c, o, s.wall)
      BY <1>1, <1>3, <2>0, OpenedFields
    <2>2. StartsWith(c, o, o, s.wall)
      BY <1>3, <2>1, PlainStart
    <2>3. GoodFiles(W, o.files, m)
      <3> PICK files, more : files = c.files /\ more = o.files
        OBVIOUS
      <3>1. GoodFiles(W, files, m) /\ files \in Seq(Files)
        BY <1>3 DEF GoodFiles
      <3>2. more \in Seq(Files) /\ Len(more) = Len(files) + 1 /\ \A n \in 1..Len(files) : more[n] = files[n]
        BY <2>1 DEF OpenedTo, RecorderRecord
      <3>3. more[Len(more)].video = <<>> /\ more[Len(more)].audio = <<>>
        BY <2>1 DEF OpenedTo, LastFile, NewFile
      <3> QED
        BY <3>1, <3>2, <3>3, OpenedFilesGood
    <2>4. Good(W, o, m)
      BY <1>1, <1>2, <2>2, <2>3, OpenKeeps
    <2>5. /\ o.open /\ o.video = <<>> /\ o.wall = s.wall /\ o.open \in BOOLEAN
          /\ LastFile(o).trigger = m + 1
      BY <1>2, <2>1 DEF OpenedTo, RecorderRecord
    <2>6. FrameAdded(o, r', m) /\ run' = "running"
      BY <1>4 DEF Continue, Push, FrameAdded
    <2>7. W[m + 1].on = o.open /\ ~ (m + 1 > LastFile(o).trigger)
      BY <1>1, <2>5
    <2>8. FilesOK(W, r', s.wall, "running")
      BY <2>4, <2>5, <2>6, <2>7, KeyPushed
    <2> QED
      BY <2>6, <2>8
  <1>5. CASE OpenError(c, s.wall)
    BY <1>1, <1>2, <1>3, <1>5, OpenFails
  <1> QED
    BY <1>4, <1>5

(* A keyframe without motion ends the file.                                 *)
LEMMA KeyClosesOK ==
  ASSUME NEW W \in Seq(Unit), NEW m \in Nat, m = Len(units), Len(W) = m + 1, mode # "audio", mode # "continuous",
         NEW s, Good(W, s, m), s.video = <<>>, s.open => s.audio = <<>>,
         KeyAt(W, m + 1), ~ W[m + 1].on, W[m + 1].on \in BOOLEAN, W[m + 1].at = s.wall, run = "running",
         \E closed \in Finalizations(s) : Continue(Push(closed))
  PROVE  FilesOK(W, r', s.wall, run')
PROOF
  <1> PICK c : c \in Finalizations(s) /\ Continue(Push(c))
    OBVIOUS
  <1>1. Finalized(s, c)
    BY DEF Finalized
  <1>2. Good(W, c, m) /\ ~ c.open /\ c.video = <<>> /\ c.wall = s.wall
    BY <1>1, FinalizeKeeps
  <1>3. FrameAdded(c, r', m) /\ run' = "running"
    BY DEF Continue, Push, FrameAdded
  <1>4. c.open \in BOOLEAN
    BY <1>2 DEF Good, RecorderRecord
  <1>5. W[m + 1].on = c.open
    BY <1>2, <1>4
  <1>6. FilesOK(W, r', s.wall, "running")
    BY <1>2, <1>3, <1>5, KeyPushed
  <1> QED
    BY <1>3, <1>6

-----------------------------------------------------------------------------
ArrivedAs(W, m, kind, on, at) ==
  /\ m = Len(units) /\ m \in Nat /\ W = units' /\ W \in Seq(Unit) /\ Len(W) = m + 1 /\ Agree(units, W, m)
  /\ W[m + 1].kind = kind /\ W[m + 1].on = on /\ W[m + 1].at = at
  /\ run = "running" /\ now' = at /\ at \in Nat /\ mode' = mode /\ align' = align

LEMMA Arrived ==
  ASSUME units \in Seq(Unit), NEW kind \in {"key", "inter", "audio"}, NEW on \in BOOLEAN, NEW at \in Nat,
         Arrives(kind, on, at)
  PROVE  \E W, m : ArrivedAs(W, m, kind, on, at)
PROOF
  <1> PICK e : e = [kind |-> kind, on |-> on, at |-> at]
    OBVIOUS
  <1>1. e \in Unit /\ e.kind = kind /\ e.on = on /\ e.at = at
    BY DEF Unit
  <1> PICK W, m : W = Append(units, e) /\ m = Len(units)
    OBVIOUS
  <1>2. m \in Nat /\ W \in Seq(Unit) /\ Len(W) = m + 1 /\ W[m + 1] = e /\ \A i \in 1..m : W[i] = units[i]
    BY <1>1
  <1>3. units' = W /\ run = "running" /\ now' = at /\ mode' = mode /\ align' = align
    BY DEF Arrives
  <1>4. ArrivedAs(W, m, kind, on, at)
    BY <1>1, <1>2, <1>3 DEF ArrivedAs, Agree
  <1> QED
    BY <1>4

LEMMA KeyStep ==
  ASSUME FilesInv, Key
  PROVE  FilesInv'
PROOF
  <1> PICK on \in (IF mode = "gated" THEN BOOLEAN ELSE {TRUE}), tick \in {0, 1} :
        /\ Arrives("key", on, now + tick)
        /\ LET s == [CloseGOP(r) EXCEPT !.wall = now + tick]
           IN  \/ r.open /\ r.video # <<>> /\ WriteError(r)
               \/ on /\ ~s.open /\ KeyOpens(s)
               \/ on /\ s.open /\ RotateDue(s, s.wall) /\ KeyRotates(s)
               \/ on /\ s.open /\ ~RotateDue(s, s.wall) /\ Continue(Push(s))
               \/ ~on /\ \E closed \in Finalizations(s) : Continue(Push(closed))
    BY Zenon DEF Key
  <1>0. on \in BOOLEAN /\ (mode # "gated" => on)
    OBVIOUS
  <1> PICK at : at = now + tick
    OBVIOUS
  <1>1. now \in Nat /\ units \in Seq(Unit) /\ mode \in {"continuous", "gated"} /\ mode # "audio"
    BY DEF FilesInv, FilesOK, Key
  <1>2. at \in Nat /\ now <= at
    BY <1>1
  <1>3. Arrives("key", on, at)
    OBVIOUS
  <1>4. \E W, m : ArrivedAs(W, m, "key", on, at)
    BY <1>0, <1>1, <1>2, <1>3, Arrived
  <1> PICK W, m : ArrivedAs(W, m, "key", on, at)
    BY <1>4
  <1>5. /\ m = Len(units) /\ m \in Nat /\ W = units' /\ W \in Seq(Unit) /\ Len(W) = m + 1 /\ Agree(units, W, m)
        /\ W[m + 1].kind = "key" /\ W[m + 1].on = on /\ W[m + 1].at = at
        /\ run = "running" /\ now' = at /\ mode' = mode /\ align' = align
    BY DEF ArrivedAs
  <1>6. Good(units, r, m) /\ AtRest(units, r, now)
    BY <1>5 DEF FilesInv, FilesOK
  <1>7. Good(W, r, m)
    BY <1>5, <1>6, AllAges
  <1>8. /\ r.open => r.video # <<>>
        /\ r.video # <<>> => r.open \/ mode = "gated"
        /\ r.wall = now
    BY <1>1, <1>6 DEF AtRest
  <1> PICK c : c = CloseGOP(r)
    OBVIOUS
  <1>9. Good(W, c, m) /\ c.video = <<>> /\ c.open = r.open /\ c.wall = now /\ (c.open => c.audio = <<>>)
    BY <1>1, <1>5, <1>7, <1>8, GOPCloses DEF GOPClosed
  <1> PICK s : s = [c EXCEPT !.wall = at]
    OBVIOUS
  <1>10. WallMoved(c, s, at)
    BY DEF WallMoved
  <1>11. Good(W, s, m) /\ s.video = <<>> /\ s.open = c.open /\ s.wall = at /\ s.audio = c.audio
    BY <1>2, <1>5, <1>9, <1>10, WallMoves
  <1>12. KeyAt(W, m + 1) /\ s.open \in BOOLEAN /\ s.wall \in Nat /\ s.end \in Nat
    BY <1>5, <1>11 DEF KeyAt, Good, RecorderRecord
  <1>13. \/ r.open /\ r.video # <<>> /\ WriteError(r)
         \/ on /\ ~s.open /\ KeyOpens(s)
         \/ on /\ s.open /\ RotateDue(s, s.wall) /\ KeyRotates(s)
         \/ on /\ s.open /\ ~RotateDue(s, s.wall) /\ Continue(Push(s))
         \/ ~on /\ \E closed \in Finalizations(s) : Continue(Push(closed))
    OBVIOUS
  <1>14. CASE r.open /\ r.video # <<>> /\ WriteError(r)
    <2>1. run' = "failed" /\ Finalized(r, r')
      BY <1>14 DEF WriteError, Return, Finalized
    <2>2. Ended(W, r', m)
      BY <1>5, <1>7, <1>14, <2>1, GoodEnds
    <2>3. FilesOK(W, r', at, "failed")
      BY <1>2, <1>5, <2>2, Fails
    <2> QED
      BY <1>5, <2>1, <2>3, StepDone
  <1>15. CASE on /\ ~s.open /\ KeyOpens(s)
    <2>1. FilesOK(W, r', s.wall, run')
      BY <1>1, <1>5, <1>11, <1>12, <1>15, KeyOpensOK
    <2> QED
      BY <1>5, <1>11, <2>1, StepDone
  <1>16. CASE on /\ s.open /\ RotateDue(s, s.wall) /\ KeyRotates(s)
    <2>1. FilesOK(W, r', s.wall, run')
      BY <1>1, <1>5, <1>9, <1>11, <1>12, <1>16, KeyRotatesOK
    <2> QED
      BY <1>5, <1>11, <2>1, StepDone
  <1>17. CASE on /\ s.open /\ ~RotateDue(s, s.wall) /\ Continue(Push(s))
    <2>1. FrameAdded(s, r', m) /\ run' = "running"
      BY <1>5, <1>17 DEF Continue, Push, FrameAdded
    <2>2. s.wall < s.end
      BY <1>12, <1>17 DEF RotateDue
    <2>3. W[m + 1].on = s.open
      BY <1>5, <1>12, <1>17
    <2>4. FilesOK(W, r', at, "running")
      BY <1>1, <1>5, <1>11, <1>12, <1>17, <2>1, <2>2, <2>3, KeyPushed
    <2> QED
      BY <1>5, <2>1, <2>4, StepDone
  <1>18. CASE ~on /\ \E closed \in Finalizations(s) : Continue(Push(closed))
    <2>0. s.open => s.audio = <<>>
      BY <1>9, <1>11
    <2>1. FilesOK(W, r', s.wall, run')
      BY <1>0, <1>1, <1>5, <1>11, <1>12, <1>18, <2>0, KeyClosesOK
    <2> QED
      BY <1>5, <1>11, <2>1, StepDone
  <1> QED
    BY <1>13, <1>14, <1>15, <1>16, <1>17, <1>18

LEMMA InterStep ==
  ASSUME FilesInv, Inter
  PROVE  FilesInv'
PROOF
  <1> PICK on : on = Last(units).on
    OBVIOUS
  <1> PICK q : q \in 1..Len(units) /\ KeyAt(units, q)
    BY DEF Inter, KeyAt, FilesInv, FilesOK
  <1>1. /\ now \in Nat /\ units \in Seq(Unit) /\ mode \in {"continuous", "gated"} /\ mode # "audio"
        /\ r \in RecorderRecord /\ Arrives("inter", on, now)
    BY DEF FilesInv, FilesOK, Inter
  <1>2. on \in BOOLEAN /\ on = units[Len(units)].on
    <2>1. Len(units) \in 1..Len(units)
      BY <1>1
    <2>2. units[Len(units)] \in Unit
      BY <1>1, <2>1
    <2> QED
      BY <2>2 DEF Last, Unit
  <1>4. \E W, m : ArrivedAs(W, m, "inter", on, now)
    BY <1>1, <1>2, Arrived
  <1> PICK W, m : ArrivedAs(W, m, "inter", on, now)
    BY <1>4
  <1>5. /\ m = Len(units) /\ m \in Nat /\ W = units' /\ W \in Seq(Unit) /\ Len(W) = m + 1 /\ Agree(units, W, m)
        /\ W[m + 1].kind = "inter" /\ W[m + 1].on = on /\ W[m + 1].at = now
        /\ run = "running" /\ now' = now /\ mode' = mode /\ align' = align
    BY DEF ArrivedAs
  <1>6. Good(units, r, m) /\ AtRest(units, r, now)
    BY <1>5 DEF FilesInv, FilesOK
  <1>7. Good(W, r, m) /\ InLine(r, m)
    BY <1>5, <1>6, AllAges DEF Good, GoodPending
  <1>8. /\ r.video # <<>> /\ on = r.open /\ (mode = "continuous" => r.open) /\ r.wall = now
    BY <1>1, <1>2, <1>6 DEF AtRest
  <1>9. FrameAdded(r, r', m) /\ run' = "running"
    BY <1>1, <1>5, <1>8 DEF Inter, Continue, Push, FrameAdded
  <1>10. Frame(W, m + 1) /\ ~ KeyAt(W, m + 1) /\ (W[m + 1].on => r.open)
    BY <1>5, <1>8 DEF Frame, KeyAt
  <1>11. Good(W, r', m + 1)
    <2>1. Len(W) \in Nat /\ m + 1 <= Len(W)
      BY <1>5
    <2> QED
      BY <1>1, <1>5, <1>7, <1>8, <1>9, <1>10, <2>1, FrameKeeps
  <1>12. r' \in RecorderRecord /\ r'.open = r.open /\ r'.wall = r.wall /\ r'.video # <<>>
    BY <1>1, <1>5, <1>7, <1>9, VideoPushed
  <1>13. q \in 1..m + 1 /\ KeyAt(W, q)
    BY <1>5 DEF KeyAt, Agree
  <1>14. AtRest(W, r', now)
    BY <1>5, <1>8, <1>12, <1>13 DEF AtRest
  <1>15. FilesOK(W, r', now, "running")
    BY <1>1, <1>5, <1>11, <1>12, <1>14 DEF FilesOK, Good
  <1> QED
    BY <1>5, <1>9, <1>15, StepDone

(* Without a video track the audio goes to the file each second.            *)
LEMMA NoVideoRests ==
  ASSUME NEW U, NEW m \in Nat, NEW s, Good(U, s, m), mode = "audio"
  PROVE  /\ s \in RecorderRecord /\ s.video = <<>> /\ s.gops = <<>> /\ GoodFiles(U, s.files, m)
         /\ \A t : AtRest(U, s, t)
PROOF
  <1>1. s \in RecorderRecord /\ NoVideo(U, s, m) /\ GoodFiles(U, s.files, m)
    BY DEF Good
  <1>2. VideoIn(s) = {} /\ s.gops = <<>>
    BY <1>1 DEF NoVideo
  <1> QED
    BY <1>1, <1>2, Videos DEF AtRest

AudioFlush(t) == Continue(Flush(t)) \/ (t.audio # <<>> /\ WriteError(t))

LEMMA AudioFlushes ==
  ASSUME NEW W \in Seq(Unit), NEW n \in Nat, n = Len(W), mode = "audio", NEW s, Good(W, s, n), s.open,
         AudioFlush(s), NEW at \in Nat, run = "running"
  PROVE  FilesOK(W, r', at, run')
PROOF
  <1>1. CASE Continue(Flush(s))
    <2>1. Flushed(s, r') /\ run' = "running"
      BY <1>1 DEF Continue, Flush, Flushed
    <2>2. Good(W, r', n)
      BY <2>1, FlushKeeps
    <2>3. r' \in RecorderRecord /\ GoodFiles(W, r'.files, n) /\ AtRest(W, r', at)
      BY <2>2, NoVideoRests
    <2> QED
      BY <2>1, <2>2, <2>3 DEF FilesOK
  <1>2. CASE WriteError(s)
    <2>1. run' = "failed" /\ Finalized(s, r')
      BY <1>2 DEF WriteError, Return, Finalized
    <2>2. Ended(W, r', n)
      BY <2>1, GoodEnds
    <2>3. n <= Len(W)
      OBVIOUS
    <2> QED
      BY <2>1, <2>2, <2>3, Fails
  <1> QED
    BY <1>1, <1>2 DEF AudioFlush

LEMMA AudioOpens ==
  ASSUME NEW W \in Seq(Unit), NEW n \in Nat, n = Len(W), n = Len(units) + 1, Len(units) \in Nat,
         mode = "audio", NEW s, Good(W, s, n), ~ s.open, NEW at \in Nat,
         AudioFlush(OpenSegment(s, at)) \/ OpenError(s, at), run = "running"
  PROVE  FilesOK(W, r', at, run')
PROOF
  <1>1. s \in RecorderRecord /\ s.video = <<>> /\ s.gops = <<>> /\ GoodFiles(W, s.files, n)
    BY NoVideoRests
  <1>2. CASE AudioFlush(OpenSegment(s, at))
    <2> PICK o : o = OpenSegment(s, at)
      OBVIOUS
    <2>1. Opened(s, o, at)
      BY DEF Opened
    <2>2. OpenedTo(s, o, at)
      BY <1>1, <2>1, OpenedFields
    <2>3. StartsWith(s, o, o, at)
      BY <1>1, <2>2, PlainStart
    <2>4. GoodFiles(W, o.files, n)
      <3> PICK files, more : files = s.files /\ more = o.files
        OBVIOUS
      <3>1. GoodFiles(W, files, n) /\ files \in Seq(Files)
        BY <1>1 DEF GoodFiles
      <3>2. more \in Seq(Files) /\ Len(more) = Len(files) + 1 /\ \A i \in 1..Len(files) : more[i] = files[i]
        BY <2>2 DEF OpenedTo, RecorderRecord
      <3>3. more[Len(more)].video = <<>> /\ more[Len(more)].audio = <<>>
        BY <2>2 DEF OpenedTo, LastFile, NewFile
      <3> QED
        BY <3>1, <3>2, <3>3, OpenedFilesGood
    <2>5. n <= Len(units) + 1 /\ Len(units) + 1 <= Len(W)
      OBVIOUS
    <2>6. Good(W, o, n)
      BY <1>1, <2>3, <2>4, <2>5, OpenKeeps
    <2>7. o.open /\ AudioFlush(o)
      BY <1>2, <2>2 DEF OpenedTo
    <2> QED
      BY <2>6, <2>7, AudioFlushes
  <1>3. CASE OpenError(s, at)
    <2>1. n <= Len(W)
      OBVIOUS
    <2> QED
      BY <1>1, <1>3, <2>1, OpenFails
  <1> QED
    BY <1>2, <1>3

AudioGoes(s, at, batch) ==
  \/ ~batch /\ Continue(s)
  \/ batch /\ ~s.open /\ (AudioFlush(OpenSegment(s, at)) \/ OpenError(s, at))
  \/ batch /\ s.open /\ (\E t \in Finalizations(s) : AudioFlush(OpenSegment(t, at)) \/ OpenError(t, at))
  \/ batch /\ s.open /\ AudioFlush(s)

LEMMA AudioBatched ==
  ASSUME NEW W \in Seq(Unit), NEW n \in Nat, n = Len(W), n = Len(units) + 1, Len(units) \in Nat,
         mode = "audio", NEW s, Good(W, s, n), NEW at \in Nat, NEW batch \in BOOLEAN,
         AudioGoes(s, at, batch), run = "running"
  PROVE  FilesOK(W, r', at, run')
PROOF
  <1>1. s \in RecorderRecord /\ s.video = <<>>
    BY NoVideoRests
  <1>2. CASE Continue(s)
    <2>1. r' = s /\ run' = "running"
      BY <1>2 DEF Continue
    <2>2. GoodFiles(W, s.files, n) /\ AtRest(W, s, at)
      BY NoVideoRests
    <2> QED
      BY <1>1, <2>1, <2>2 DEF FilesOK
  <1>3. CASE ~s.open /\ (AudioFlush(OpenSegment(s, at)) \/ OpenError(s, at))
    BY <1>3, AudioOpens
  <1>4. CASE s.open /\ (\E t \in Finalizations(s) : AudioFlush(OpenSegment(t, at)) \/ OpenError(t, at))
    <2> PICK t : t \in Finalizations(s) /\ (AudioFlush(OpenSegment(t, at)) \/ OpenError(t, at))
      BY <1>4
    <2>1. Finalized(s, t)
      BY DEF Finalized
    <2>2. Good(W, t, n) /\ ~ t.open
      BY <1>1, <2>1, FinalizeKeeps
    <2> QED
      BY <2>2, AudioOpens
  <1>5. CASE s.open /\ AudioFlush(s)
    BY <1>5, AudioFlushes
  <1> QED
    BY <1>2, <1>3, <1>4, <1>5 DEF AudioGoes

LEMMA AudioStep ==
  ASSUME FilesInv, Audio
  PROVE  FilesInv'
PROOF
  <1> PICK s : s = [r EXCEPT !.audio = Append(@, Len(units) + 1)]
    OBVIOUS
  <1> PICK batch : batch = (mode = "audio" /\ Len(s.audio) >= AudioBatch)
    OBVIOUS
  <1> PICK on : on = IF units = <<>> THEN mode # "gated" ELSE Last(units).on
    OBVIOUS
  <1> PICK at : at = IF batch THEN now + 1 ELSE now
    OBVIOUS
  <1>1. Arrives("audio", on, at)
    BY DEF Audio
  <1>2. AudioGoes(s, now', batch)
    BY DEF Audio, AudioGoes, AudioFlush
  <1>3. now \in Nat /\ units \in Seq(Unit) /\ r \in RecorderRecord
    BY DEF FilesInv, FilesOK
  <1>4. at \in Nat /\ batch \in BOOLEAN /\ on \in BOOLEAN /\ (units # <<>> => on = units[Len(units)].on)
    <2>1. units # <<>> => Len(units) \in 1..Len(units)
      BY <1>3
    <2>2. units # <<>> => units[Len(units)] \in Unit
      BY <1>3, <2>1
    <2>3. on \in BOOLEAN /\ (units # <<>> => on = units[Len(units)].on)
      BY <2>2 DEF Last, Unit
    <2>4. at \in Nat
      BY <1>3
    <2> QED
      BY <2>3, <2>4
  <1>5. \E W, m : ArrivedAs(W, m, "audio", on, at)
    BY <1>1, <1>3, <1>4, Arrived
  <1> PICK W, m : ArrivedAs(W, m, "audio", on, at)
    BY <1>5
  <1>6. /\ m = Len(units) /\ m \in Nat /\ W = units' /\ W \in Seq(Unit) /\ Len(W) = m + 1 /\ Agree(units, W, m)
        /\ W[m + 1].kind = "audio" /\ W[m + 1].on = on
        /\ run = "running" /\ now' = at /\ mode' = mode /\ align' = align
    BY DEF ArrivedAs
  <1>7. Good(units, r, m) /\ AtRest(units, r, now)
    BY <1>6 DEF FilesInv, FilesOK
  <1>8. Good(W, r, m) /\ InLine(r, m)
    BY <1>6, <1>7, AllAges DEF Good, GoodPending
  <1>9. SampleAdded(r, s, m)
    BY <1>6 DEF SampleAdded
  <1>10. ~ Frame(W, m + 1) /\ ~ KeyAt(W, m + 1) /\ Len(W) \in Nat /\ m + 1 <= Len(W) /\ m + 1 \in Nat
    BY <1>6 DEF Frame, KeyAt
  <1>11. \A k \in 1..m : KeyAt(W, k) <=> KeyAt(units, k)
    BY <1>6 DEF Agree, KeyAt
  <1>12. r.video = <<>> => \A k \in 1..m : ~ KeyAt(W, k)
    <2>1. CASE mode # "audio"
      BY <1>6, <1>7, <1>11, <2>1 DEF AtRest
    <2>2. CASE mode = "audio"
      BY <1>8, <2>2 DEF Good, NoVideo, Frame, KeyAt
    <2> QED
      BY <2>1, <2>2
  <1>13. Good(W, s, m + 1)
    BY <1>6, <1>8, <1>9, <1>10, <1>12, SampleKeeps
  <1>14. CASE mode = "audio"
    <2>1. AudioGoes(s, at, batch)
      BY <1>2, <1>6
    <2>2. FilesOK(W, r', at, run')
      BY <1>4, <1>6, <1>10, <1>13, <1>14, <2>1, AudioBatched
    <2> QED
      BY <1>6, <2>2, StepDone
  <1>15. CASE mode # "audio"
    <2>1. r' = s /\ run' = run /\ at = now
      BY <1>2, <1>15 DEF AudioGoes, Continue
    <2>2. s \in RecorderRecord /\ s.open = r.open /\ s.wall = r.wall /\ s.video = r.video
      BY <1>3, <1>6, <1>8, <1>9, AudioPushed
    <2>3. AtRest(W, s, now)
      <3>1. \A k \in 1..m + 1 : KeyAt(W, k) => k \in 1..m /\ KeyAt(units, k) /\ units # <<>>
        BY <1>6, <1>10, <1>11
      <3>2. \A k \in 1..m : KeyAt(units, k) => k \in 1..m + 1 /\ KeyAt(W, k)
        BY <1>11, <1>6
      <3> QED
        BY <1>4, <1>6, <1>7, <1>15, <2>2, <3>1, <3>2 DEF AtRest
    <2>4. FilesOK(W, s, now, "running")
      BY <1>3, <1>6, <1>13, <2>2, <2>3 DEF FilesOK, Good
    <2> QED
      BY <1>6, <2>1, <2>4, StepDone
  <1> QED
    BY <1>14, <1>15

LEMMA StopStep ==
  ASSUME FilesInv, Stop
  PROVE  FilesInv'
PROOF
  <1> PICK m : m = Len(units)
    OBVIOUS
  <1>1. run = "running" /\ run' = "over" /\ Finalized(r, r') /\ UNCHANGED <<mode, align, now, units>>
    BY DEF Stop, Return, Finalized
  <1>2. units \in Seq(Unit) /\ m \in Nat /\ now \in Nat /\ Good(units, r, m) /\ AtRest(units, r, now)
    BY <1>1 DEF FilesInv, FilesOK
  <1>3. r.open => r.video # <<>> \/ mode = "audio"
    BY <1>2 DEF AtRest
  <1>4. Ended(units, r', m) /\ NoneLost(units, r', m) /\ FilesReach(units, r')
    BY <1>1, <1>2, <1>3, GoodEnds
  <1>5. FilesOK(units, r', now, "over")
    BY <1>2, <1>4 DEF FilesOK, Ended
  <1> QED
    BY <1>1, <1>5, StepDone

LEMMA FilesInvInit == ASSUME RecorderInit PROVE FilesInv
PROOF
  <1> PICK U, s : U = units /\ s = r
    OBVIOUS
  <1>1. U = <<>> /\ U \in Seq(Unit) /\ Len(U) = 0 /\ Len(U) \in Nat /\ 1..Len(U) = {}
    BY DEF RecorderInit
  <1>2. /\ s \in RecorderRecord /\ s.video = <<>> /\ s.audio = <<>> /\ s.gops = <<>> /\ s.files = <<>>
        /\ ~ s.open /\ s.wall = 0
    <2> PICK e : e = <<>> /\ e \in Seq(Nat)
      BY Nothing
    <2> PICK g : g = <<>> /\ g \in Seq(Gop)
      BY NoGops
    <2>0. <<>> \in Seq(Files)
      OBVIOUS
    <2> PICK f : f = <<>> /\ f \in Seq(Files)
      BY <2>0
    <2>1. s = [video |-> e, audio |-> e, gops |-> g, wall |-> 0, files |-> f, open |-> FALSE, end |-> 0, torn |-> FALSE]
      BY DEF RecorderInit
    <2> QED
      BY <2>1 DEF RecorderRecord
  <1>3. Len(s.gops) = 0 /\ Len(s.files) = 0 /\ 1..0 = {} /\ DOMAIN s.files = {}
    BY <1>2
  <1>4. InLine(s, 0) /\ VideoIn(s) = {} /\ AudioIn(s) = {} /\ Held(s) = {}
    BY <1>2, EmptyPart
  <1>5. Recorded(s.files) = {} /\ InGops(s) = {}
    BY <1>3 DEF Recorded, InGops
  <1>6. GoodFiles(U, s.files, 0) /\ GoodGops(U, s, 0)
    BY <1>2, <1>3 DEF GoodFiles, GoodGops, RecorderRecord
  <1>7. GoodPending(U, s, 0) /\ GoodOpen(U, s)
    BY <1>2, <1>3, <1>4 DEF GoodPending, GoodOpen, Together
  <1>8. UpToDate(U, s, 0) /\ NoneLost(U, s, 0)
    BY <1>3 DEF UpToDate, NoneLost
  <1>9. FilesReach(U, s) /\ BufferReaches(U, s, 0) /\ NoVideo(U, s, 0)
    BY <1>2, <1>3, <1>4, <1>5 DEF FilesReach, BufferReaches, NoVideo
  <1>10. Good(U, s, 0)
    BY <1>2, <1>6, <1>7, <1>8, <1>9 DEF Good
  <1>11. AtRest(U, s, 0)
    BY <1>1, <1>2 DEF AtRest
  <1>12. mode \in {"continuous", "gated", "audio"} /\ align \in BOOLEAN /\ now = 0 /\ run = "running"
    BY DEF RecorderInit
  <1> QED
    BY <1>1, <1>2, <1>6, <1>10, <1>11, <1>12 DEF FilesInv, FilesOK

LEMMA FilesInvNext == ASSUME FilesInv, [RecorderNext]_recorderVars PROVE FilesInv'
PROOF
  <1>1. CASE UNCHANGED recorderVars
    <2>1. FilesOK(units', r', now', run') /\ mode' = mode /\ align' = align
      BY <1>1 DEF FilesInv, recorderVars
    <2> QED
      BY <2>1, StepDone
  <1> QED
    BY <1>1, KeyStep, InterStep, AudioStep, StopStep DEF RecorderNext

-----------------------------------------------------------------------------
(* What the invariant says of the files.                                    *)
Row(x, X) == x \in Seq(Nat) /\ Rising(x) /\ Range(x) = X
VideoParts(parts, l) == UNION {VideoIn(parts[n]) : n \in 1..l}
AudioParts(parts, l) == UNION {AudioIn(parts[n]) : n \in 1..l}

LEMMA PartsInARow ==
  ASSUME NEW m, NEW l \in Nat, NEW parts, DOMAIN parts = 1..l, \A n \in 1..l : InLine(parts[n], m),
         \A i, j \in 1..l : i < j => Precedes(Held(parts[i]), Held(parts[j]))
  PROVE  Row(VideoOf(parts), VideoParts(parts, l)) /\ Row(AudioOf(parts), AudioParts(parts, l))
PROOF
  <1>1. Row(VideoOf(parts), VideoParts(parts, l))
    <2> PICK p : p = [i \in 1..l |-> parts[i].video]
      OBVIOUS
    <2>1. \A i \in 1..l : p[i] = parts[i].video /\ p[i] \in Seq(Nat) /\ Rising(p[i])
      BY DEF InLine
    <2>2. p \in [1..l -> Seq(Nat)]
      BY <2>1
    <2>3. \A i \in 1..l : Range(p[i]) = VideoIn(parts[i])
      BY <2>1 DEF VideoIn
    <2>4. \A i, j \in 1..l : i < j => Precedes(Range(p[i]), Range(p[j]))
      BY <2>3 DEF Precedes, Held
    <2>5. FlatOf(FlattenSeq(p), p, l)
      BY <2>2, Flattened
    <2>6. /\ FlattenSeq(p) \in Seq(Nat) /\ Range(FlattenSeq(p)) = UNION {Range(p[i]) : i \in 1..l}
          /\ (/\ \A i \in 1..l : Rising(p[i])
              /\ \A i, j \in 1..l : i < j => Precedes(Range(p[i]), Range(p[j])))
             => Rising(FlattenSeq(p))
      BY <2>5, Zenon DEF FlatOf
    <2>7. Rising(FlattenSeq(p))
      BY <2>1, <2>4, <2>6
    <2>8. UNION {Range(p[i]) : i \in 1..l} = VideoParts(parts, l)
      BY <2>3 DEF VideoParts
    <2>9. VideoOf(parts) = FlattenSeq(p)
      BY Zenon DEF VideoOf
    <2> QED
      BY <2>6, <2>7, <2>8, <2>9 DEF Row
  <1>2. Row(AudioOf(parts), AudioParts(parts, l))
    <2> PICK p : p = [i \in 1..l |-> parts[i].audio]
      OBVIOUS
    <2>1. \A i \in 1..l : p[i] = parts[i].audio /\ p[i] \in Seq(Nat) /\ Rising(p[i])
      BY DEF InLine
    <2>2. p \in [1..l -> Seq(Nat)]
      BY <2>1
    <2>3. \A i \in 1..l : Range(p[i]) = AudioIn(parts[i])
      BY <2>1 DEF AudioIn
    <2>4. \A i, j \in 1..l : i < j => Precedes(Range(p[i]), Range(p[j]))
      BY <2>3 DEF Precedes, Held
    <2>5. FlatOf(FlattenSeq(p), p, l)
      BY <2>2, Flattened
    <2>6. /\ FlattenSeq(p) \in Seq(Nat) /\ Range(FlattenSeq(p)) = UNION {Range(p[i]) : i \in 1..l}
          /\ (/\ \A i \in 1..l : Rising(p[i])
              /\ \A i, j \in 1..l : i < j => Precedes(Range(p[i]), Range(p[j])))
             => Rising(FlattenSeq(p))
      BY <2>5, Zenon DEF FlatOf
    <2>7. Rising(FlattenSeq(p))
      BY <2>1, <2>4, <2>6
    <2>8. UNION {Range(p[i]) : i \in 1..l} = AudioParts(parts, l)
      BY <2>3 DEF AudioParts
    <2>9. AudioOf(parts) = FlattenSeq(p)
      BY Zenon DEF AudioOf
    <2> QED
      BY <2>6, <2>7, <2>8, <2>9 DEF Row
  <1> QED
    BY <1>1, <1>2

(* Three rows, one after the other.                                         *)
LEMMA ThreeInARow ==
  ASSUME NEW x, NEW X, Row(x, X), NEW y, NEW Y, Row(y, Y), NEW z, NEW Z, Row(z, Z),
         Precedes(X, Y), Precedes(X, Z), Precedes(Y, Z)
  PROVE  Increasing(x \o y \o z)
PROOF
  <1> PICK w : w = x \o y
    OBVIOUS
  <1>1. x \in Seq(Nat) /\ y \in Seq(Nat) /\ z \in Seq(Nat)
    BY DEF Row
  <1>2. w \in Seq(Nat) /\ Rising(w) /\ Range(w) = X \cup Y
    BY <1>1, Joined DEF Row
  <1>3. Precedes(Range(w), Range(z))
    BY <1>2 DEF Precedes, Row
  <1> PICK a : a = w \o z
    OBVIOUS
  <1>4. a \in Seq(Nat) /\ Rising(a)
    BY <1>1, <1>2, <1>3, Joined DEF Row
  <1>5. Increasing(a)
    <2>1. \A i \in 1..Len(a) - 1 : i \in DOMAIN a /\ i + 1 \in DOMAIN a /\ i < i + 1
      BY <1>4
    <2>2. \A i, j \in DOMAIN a : i < j => a[i] < a[j]
      BY <1>4 DEF Rising
    <2> QED
      BY <2>1, <2>2 DEF Increasing
  <1> QED
    BY <1>5

LEMMA RecordedRow ==
  ASSUME NEW U, NEW m, NEW files, GoodFiles(U, files, m)
  PROVE  /\ Row(VideoOf(files), VideoParts(files, Len(files))) /\ Row(AudioOf(files), AudioParts(files, Len(files)))
         /\ \A n \in 1..Len(files) : VideoIn(files[n]) \subseteq VideoParts(files, Len(files))
PROOF
  <1> PICK l : l = Len(files)
    OBVIOUS
  <1>1. l \in Nat /\ DOMAIN files = 1..l
    BY DEF GoodFiles
  <1>2. \A n \in 1..l : InLine(files[n], m)
    BY DEF GoodFiles, GoodFile
  <1>3. \A i, j \in 1..l : i < j => Precedes(Held(files[i]), Held(files[j]))
    BY DEF GoodFiles
  <1>4. Row(VideoOf(files), VideoParts(files, l)) /\ Row(AudioOf(files), AudioParts(files, l))
    BY <1>1, <1>2, <1>3, PartsInARow
  <1> QED
    BY <1>4 DEF VideoParts

LEMMA InOrderHolds ==
  ASSUME FilesInv
  PROVE  OnceInOrder
PROOF
  <1> PICK U, s, m, k, l : U = units /\ s = r /\ m = Len(units) /\ k = Len(r.gops) /\ l = Len(r.files)
    OBVIOUS
  <1>1. GoodFiles(U, s.files, m) /\ s \in RecorderRecord
    BY DEF FilesInv, FilesOK
  <1>2. Row(VideoOf(s.files), VideoParts(s.files, l)) /\ Row(AudioOf(s.files), AudioParts(s.files, l))
    BY <1>1, RecordedRow
  <1>3. CASE run = "running"
    <2>1. GoodGops(U, s, m) /\ GoodPending(U, s, m)
      BY <1>3 DEF FilesInv, FilesOK, Good
    <2>2. k \in Nat /\ DOMAIN s.gops = 1..k
      BY <1>1 DEF RecorderRecord
    <2>3. \A n \in 1..k : InLine(s.gops[n], m)
      BY <2>1 DEF GoodGops, GoodGop
    <2>4. \A i, j \in 1..k : i < j => Precedes(Held(s.gops[i]), Held(s.gops[j]))
      BY <2>1 DEF GoodGops
    <2>5. Row(VideoOf(s.gops), VideoParts(s.gops, k)) /\ Row(AudioOf(s.gops), AudioParts(s.gops, k))
      BY <2>2, <2>3, <2>4, PartsInARow
    <2>6. Row(s.video, VideoIn(s)) /\ Row(s.audio, AudioIn(s))
      BY <2>1 DEF GoodPending, InLine, Row, VideoIn, AudioIn
    <2>7. \A i \in 1..l, n \in 1..k : Precedes(Held(s.files[i]), Held(s.gops[n]))
      BY <2>1 DEF GoodGops
    <2>8. \A i \in 1..l : Precedes(Held(s.files[i]), Held(s))
      BY <2>1 DEF GoodPending
    <2>9. \A n \in 1..k : Precedes(Held(s.gops[n]), Held(s))
      BY <2>1 DEF GoodGops
    <2>10. /\ Precedes(VideoParts(s.files, l), VideoParts(s.gops, k))
           /\ Precedes(VideoParts(s.files, l), VideoIn(s)) /\ Precedes(VideoParts(s.gops, k), VideoIn(s))
      BY <2>7, <2>8, <2>9 DEF Precedes, Held, VideoParts
    <2>11. /\ Precedes(AudioParts(s.files, l), AudioParts(s.gops, k))
           /\ Precedes(AudioParts(s.files, l), AudioIn(s)) /\ Precedes(AudioParts(s.gops, k), AudioIn(s))
      BY <2>7, <2>8, <2>9 DEF Precedes, Held, AudioParts
    <2>12. Increasing(VideoOf(s.files) \o VideoOf(s.gops) \o s.video)
      BY <1>2, <2>5, <2>6, <2>10, ThreeInARow
    <2>13. Increasing(AudioOf(s.files) \o AudioOf(s.gops) \o s.audio)
      BY <1>2, <2>5, <2>6, <2>11, ThreeInARow
    <2> QED
      BY <1>3, <2>12, <2>13 DEF OnceInOrder
  <1>4. CASE run # "running"
    <2> PICK g, e : g = <<>> /\ e = <<>>
      OBVIOUS
    <2>1. DOMAIN g = 1..0 /\ 1..0 = {} /\ 0 \in Nat
      OBVIOUS
    <2>2. Row(VideoOf(g), VideoParts(g, 0)) /\ Row(AudioOf(g), AudioParts(g, 0))
      BY <2>1, PartsInARow
    <2>3. VideoParts(g, 0) = {} /\ AudioParts(g, 0) = {}
      BY <2>1 DEF VideoParts, AudioParts
    <2>4. Row(VideoOf(g), {}) /\ Row(AudioOf(g), {}) /\ Row(e, {})
      BY <2>2, <2>3, Nothing DEF Row
    <2>5. \A X : Precedes(X, {}) /\ Precedes({}, X)
      BY DEF Precedes
    <2>6. Increasing(VideoOf(s.files) \o VideoOf(g) \o e)
      BY <1>2, <2>4, <2>5, ThreeInARow
    <2>7. Increasing(AudioOf(s.files) \o AudioOf(g) \o e)
      BY <1>2, <2>4, <2>5, ThreeInARow
    <2> QED
      BY <1>4, <2>6, <2>7 DEF OnceInOrder
  <1> QED
    BY <1>3, <1>4

LEMMA Divided ==
  ASSUME NEW d \in Nat \ {0}, NEW a \in Nat, NEW b \in Nat, a <= b, b < (a \div d + 1) * d
  PROVE  b \div d = a \div d
PROOF
  <1> PICK p, q : p = a \div d /\ q = b \div d
    OBVIOUS
  <1>1. p \in Nat /\ q \in Nat /\ p * d <= a /\ a < (p + 1) * d /\ q * d <= b /\ b < (q + 1) * d
    OBVIOUS
  <1>2. ~ (q >= p + 1)
    <2>1. q >= p + 1 => q * d >= (p + 1) * d
      BY <1>1
    <2> QED
      BY <1>1, <2>1
  <1>3. ~ (p >= q + 1)
    <2>1. p >= q + 1 => p * d >= (q + 1) * d
      BY <1>1
    <2> QED
      BY <1>1, <2>1
  <1> QED
    BY <1>1, <1>2, <1>3

LEMMA FileProperties ==
  ASSUME FilesInv
  PROVE  Decodable /\ CutOnTime /\ TracksStartTogether
PROOF
  <1> PICK U, m : U = units /\ m = Len(units)
    OBVIOUS
  <1>1. GoodFiles(U, r.files, m) /\ U \in Seq(Unit) /\ m \in Nat /\ align \in BOOLEAN
    BY DEF FilesInv, FilesOK
  <1> SUFFICES ASSUME NEW n \in 1..Len(r.files), NEW f, f = r.files[n]
               PROVE  /\ f.video # <<>> =>
                           /\ IsKey(f.video[1])
                           /\ \A i \in f.video[1]..Last(f.video) : IsVideo(i) => i \in Range(f.video)
                      /\ \A i \in Range(f.video) : IsKey(i) /\ i > f.trigger =>
                           IF align THEN units[i].at \div SegmentDur = f.start \div SegmentDur
                                    ELSE units[i].at - f.start < SegmentDur
                      /\ f.audio # <<>> /\ f.video # <<>> =>
                           \/ f.video[1] < f.audio[1]
                           \/ \A i \in 1..f.video[1] - 1 : ~IsKey(i)
    <2>1. DOMAIN r.files = 1..Len(r.files)
      BY <1>1 DEF GoodFiles
    <2> QED
      BY <2>1, Zenon DEF Decodable, CutOnTime, TracksStartTogether
  <1>2. /\ f \in Files /\ InLine(f, m) /\ FramesInARow(U, VideoIn(f))
        /\ Together(U, VideoIn(f), AudioIn(f), m) /\ Cut(U, f, VideoIn(f))
    BY <1>1 DEF GoodFiles, GoodFile
  <1> PICK X, Y : X = VideoIn(f) /\ Y = AudioIn(f)
    OBVIOUS
  <1>3. f.video \in Seq(Nat) /\ f.audio \in Seq(Nat) /\ Rising(f.video) /\ Rising(f.audio) /\ X \subseteq 1..m /\ Y \subseteq 1..m
    BY <1>2 DEF InLine, Held
  <1>4. f.video # <<>> => /\ f.video[1] \in X /\ Last(f.video) \in X /\ X # {}
                          /\ \A a \in X : f.video[1] <= a /\ a <= Last(f.video)
    BY <1>3, Elements1 DEF VideoIn
  <1>5. f.audio # <<>> => f.audio[1] \in Y
    BY <1>3, Elements1 DEF AudioIn
  <1>6. ASSUME f.video # <<>>
        PROVE  /\ IsKey(f.video[1])
               /\ \A i \in f.video[1]..Last(f.video) : IsVideo(i) => i \in Range(f.video)
    <2>1. \A b \in X : ~ (b < f.video[1])
      BY <1>3, <1>4, <1>6
    <2>2. KeyAt(U, f.video[1])
      BY <1>2, <1>4, <1>6, <2>1 DEF FramesInARow
    <2>3. \A i \in f.video[1]..Last(f.video) : Frame(U, i) => i \in X
      BY <1>2, <1>4, <1>6 DEF FramesInARow
    <2> QED
      BY <2>2, <2>3 DEF IsKey, IsVideo, KeyAt, Frame, VideoIn
  <1>7. ASSUME NEW i \in Range(f.video), IsKey(i), i > f.trigger
        PROVE  IF align THEN units[i].at \div SegmentDur = f.start \div SegmentDur
                        ELSE units[i].at - f.start < SegmentDur
    <2>1. i \in X /\ KeyAt(U, i)
      BY <1>7 DEF VideoIn, KeyAt, IsKey
    <2> PICK a, b : a = f.start /\ b = U[i].at
      OBVIOUS
    <2>2. a <= b /\ b < SegmentEnd(a)
      BY <1>2, <1>7, <2>1 DEF Cut
    <2>3. a \in Nat /\ b \in Nat
      <3>1. i \in 1..Len(U)
        BY <1>3, <2>1
      <3>2. U[i] \in Unit /\ f \in Files
        BY <1>1, <1>2, <3>1
      <3> QED
        BY <3>2 DEF Unit, Files
    <2>4. SegmentDur \in Nat \ {0}
      BY RecorderAssumption
    <2>5. CASE align
      <3>1. b < (a \div SegmentDur + 1) * SegmentDur
        BY <2>2, <2>5 DEF SegmentEnd
      <3>2. b \div SegmentDur = a \div SegmentDur
        BY <2>2, <2>3, <2>4, <3>1, Divided
      <3> QED
        BY <2>5, <3>2
    <2>6. CASE ~ align
      <3>1. b < a + SegmentDur
        BY <2>2, <2>6 DEF SegmentEnd
      <3>2. b - a < SegmentDur
        BY <2>3, <2>4, <3>1
      <3> QED
        BY <2>6, <3>2
    <2> QED
      BY <2>5, <2>6
  <1>8. ASSUME f.audio # <<>>, f.video # <<>>
        PROVE  \/ f.video[1] < f.audio[1]
               \/ \A i \in 1..f.video[1] - 1 : ~IsKey(i)
    <2>1. CASE \A a \in Y : \E v \in X : v < a
      BY <1>3, <1>4, <1>5, <1>8, <2>1, SMTT(30)
    <2>2. CASE \A k \in 1..m : KeyAt(U, k) => \E v \in X : v <= k
      <3>1. ASSUME NEW i \in 1..f.video[1] - 1, IsKey(i)
            PROVE  FALSE
        <4>1. f.video[1] \in 1..m /\ i \in 1..m /\ KeyAt(U, i)
          BY <1>3, <1>4, <1>8, <3>1 DEF IsKey, KeyAt
        <4>2. PICK v \in X : v <= i
          BY <2>2, <4>1
        <4> QED
          BY <1>3, <1>4, <1>8, <4>1, <4>2
      <3> QED
        BY <3>1
    <2> QED
      BY <1>2, <1>4, <1>8, <2>1, <2>2 DEF Together
  <1> QED
    BY <1>6, <1>7, <1>8

LEMMA NothingIsLost ==
  ASSUME FilesInv
  PROVE  NothingLost
PROOF
  <1> PICK U, s, m : U = units /\ s = r /\ m = Len(units)
    OBVIOUS
  <1> SUFFICES ASSUME run # "failed", ~ s.torn, mode # "audio", NEW i \in DOMAIN units, IsVideo(i), U[i].on
               PROVE  i \in Range(VideoOf(s.files)) \cup (IF s.open THEN Range(s.video) ELSE {})
    BY DEF NothingLost
  <1>1. GoodFiles(U, s.files, m) /\ DOMAIN units = 1..m /\ Frame(U, i)
    BY DEF FilesInv, FilesOK, IsVideo, Frame
  <1>2. NoneLost(U, s, m)
    BY DEF FilesInv, FilesOK, Good
  <1>3. i \in Recorded(s.files) \/ (s.open /\ i \in VideoIn(s))
    BY <1>1, <1>2 DEF NoneLost
  <1>4. Range(VideoOf(s.files)) = Recorded(s.files)
    BY <1>1, RecordedRow DEF Row, VideoParts, Recorded
  <1> QED
    BY <1>3, <1>4 DEF VideoIn

LEMMA PreRollIsReached ==
  ASSUME FilesInv
  PROVE  PreRollReaches
PROOF
  <1> PICK U, s, m : U = units /\ s = r /\ m = Len(units)
    OBVIOUS
  <1>1. GoodFiles(U, s.files, m) /\ s.files \in Seq(Files) /\ DOMAIN s.files = 1..Len(s.files)
    BY DEF FilesInv, FilesOK, GoodFiles
  <1> SUFFICES ASSUME run # "failed", ~ s.torn, mode = "gated", NEW n \in 1..Len(s.files),
                      NEW i \in 1..s.files[n].trigger - 1, IsKey(i),
                      \A j \in Range(VideoOf(SubSeq(s.files, 1, n - 1))) : j < i
               PROVE  \/ i \in Range(s.files[n].video)
                      \/ \E k \in Range(s.files[n].video) :
                           k > i /\ IsKey(k) /\ U[k].at + PreRoll <= U[s.files[n].trigger].at
    BY <1>1 DEF PreRollReaches
  <1>2. FilesReach(U, s)
    BY DEF FilesInv, FilesOK, Good
  <1>3. FileReaches(U, s.files, n)
    BY <1>2 DEF FilesReach
  <1> PICK before, l : before = SubSeq(s.files, 1, n - 1) /\ l = n - 1
    OBVIOUS
  <1>4. l \in Nat /\ DOMAIN before = 1..l /\ \A q \in 1..l : q \in 1..Len(s.files) /\ before[q] = s.files[q]
    BY <1>1
  <1>5. \A q \in 1..l : InLine(before[q], m)
    BY <1>1, <1>4 DEF GoodFiles, GoodFile
  <1>6. \A p, q \in 1..l : p < q => Precedes(Held(before[p]), Held(before[q]))
    BY <1>1, <1>4 DEF GoodFiles
  <1>7. Row(VideoOf(before), VideoParts(before, l))
    BY <1>4, <1>5, <1>6, PartsInARow
  <1>8. \A q \in 1..n - 1 : \A j \in VideoIn(s.files[q]) : j < i
    BY <1>4, <1>7 DEF Row, VideoParts
  <1>9. KeyAt(U, i)
    BY DEF IsKey, KeyAt
  <1>10. \/ i \in VideoIn(s.files[n])
         \/ \E k \in VideoIn(s.files[n]) : k > i /\ KeyAt(U, k) /\ U[k].at + PreRoll <= U[s.files[n].trigger].at
    BY <1>3, <1>8, <1>9 DEF FileReaches
  <1> QED
    BY <1>10 DEF VideoIn, IsKey, KeyAt

LEMMA FilesInvImplies == FilesInv => RecorderTypeOK /\ FilesSound /\ PreRollReaches
PROOF
  <1> SUFFICES ASSUME FilesInv
               PROVE  RecorderTypeOK /\ FilesSound /\ PreRollReaches
    OBVIOUS
  <1>1. RecorderTypeOK
    BY DEF FilesInv, FilesOK, RecorderTypeOK, RecorderRecord, Unit, Gop
  <1> QED
    BY <1>1, InOrderHolds, FileProperties, NothingIsLost, PreRollIsReached DEF FilesSound

-----------------------------------------------------------------------------
(* FLV for one viewer.                                                      *)
FlvTracks == {"video", "audio"}
FlvTag == [track : FlvTracks, unit : Nat, ts : Nat]

(* A track counts from a unit that came before; what is tagged counts so.   *)
FlvInv ==
  /\ source \in Seq(Kinds)
  /\ flv = [base |-> flv.base, tags |-> flv.tags]
  /\ flv.base \in [FlvTracks -> Int] /\ flv.tags \in Seq(FlvTag)
  /\ \A t \in FlvTracks : flv.base[t] = NoTime \/ flv.base[t] \in 0..Millis(Len(source))
  /\ \A i \in DOMAIN flv.tags :
       /\ flv.base[flv.tags[i].track] # NoTime
       /\ flv.tags[i].ts = Millis(flv.tags[i].unit) - flv.base[flv.tags[i].track]

(* Ticks in milliseconds grow, and lose less than one.                      *)
LEMMA MillisFacts ==
  ASSUME NEW t \in Nat
  PROVE  /\ Millis(t) \in Nat /\ Millis(t) <= Millis(t + 1)
         /\ 3 * Millis(t) \in 2 * t - 2..2 * t
  BY DEF Millis

LEMMA FlvInitInv == MuxInit => FlvInv
<1> SUFFICES ASSUME MuxInit PROVE FlvInv
  OBVIOUS
<1>1. source = <<>> /\ flv = [base |-> [video |-> NoTime, audio |-> NoTime], tags |-> <<>>]
  BY DEF MuxInit
<1>2. flv.base = [video |-> NoTime, audio |-> NoTime] /\ flv.tags = <<>>
  BY <1>1
<1>3. flv.base \in [FlvTracks -> Int] /\ \A t \in FlvTracks : flv.base[t] = NoTime
  BY <1>2 DEF FlvTracks, NoTime
<1>4. <<>> \in Seq(Kinds) /\ <<>> \in Seq(FlvTag) /\ DOMAIN <<>> = {}
  OBVIOUS
<1> QED
  BY <1>1, <1>2, <1>3, <1>4 DEF FlvInv

(* The stream goes on.                                                      *)
LEMMA SourceGrows ==
  ASSUME FlvInv, NEW kind \in Kinds, source' = Append(source, kind)
  PROVE  /\ source' \in Seq(Kinds) /\ Len(source) \in Nat /\ Len(source') = Len(source) + 1
         /\ \A t \in FlvTracks : flv.base[t] = NoTime \/ flv.base[t] \in 0..Millis(Len(source'))
<1>1. source \in Seq(Kinds) /\ Len(source) \in Nat
  BY DEF FlvInv
<1>2. source' \in Seq(Kinds) /\ Len(source') = Len(source) + 1
  BY <1>1
<1>3. /\ Millis(Len(source)) \in Nat /\ Millis(Len(source')) \in Nat
      /\ Millis(Len(source)) <= Millis(Len(source'))
  BY <1>1, <1>2, MillisFacts
<1> QED
  BY <1>1, <1>2, <1>3 DEF FlvInv

LEMMA PushUnitKeeps == ASSUME FlvInv, NEW kind \in Kinds, PushUnit(kind) PROVE FlvInv'
<1> PICK u, t, base, ts :
      /\ u = Len(source) + 1 /\ t = Track(kind)
      /\ base = IF flv.base[t] = NoTime THEN Millis(u) ELSE flv.base[t]
      /\ ts = Max({0, Millis(u) - base})
  OBVIOUS
<1>1. /\ source' = Append(source, kind)
      /\ \/ flv' = flv
         \/ flv' = [base |-> [flv.base EXCEPT ![t] = base], tags |-> Append(flv.tags, [track |-> t, unit |-> u, ts |-> ts])]
  BY DEF PushUnit, Tagged
<1>2. /\ source' \in Seq(Kinds) /\ Len(source) \in Nat /\ Len(source') = u /\ u \in Nat
      /\ \A v \in FlvTracks : flv.base[v] = NoTime \/ flv.base[v] \in 0..Millis(u)
  BY <1>1, SourceGrows
<1>3. t \in FlvTracks
  BY DEF Track, FlvTracks
<1>4. Millis(u) \in Nat /\ base \in 0..Millis(u) /\ base # NoTime /\ base \in Int
  <2>1. Millis(u) \in Nat
    BY <1>2, MillisFacts
  <2> QED
    BY <1>2, <1>3, <2>1 DEF NoTime
<1>5. ts = Millis(u) - base /\ ts \in Nat
  <2> PICK d : d = Millis(u) - base
    OBVIOUS
  <2>1. d \in Nat
    BY <1>4
  <2>2. Max({0, d}) = d
    BY <2>1 DEF Max
  <2> QED
    BY <2>1, <2>2
<1>6. CASE flv' = flv
  BY <1>2, <1>6 DEF FlvInv
<1>7. CASE flv' # flv
  <2> PICK tag : tag = [track |-> t, unit |-> u, ts |-> ts]
    OBVIOUS
  <2>1. flv' = [base |-> [flv.base EXCEPT ![t] = base], tags |-> Append(flv.tags, tag)]
    BY <1>1, <1>7
  <2>2. flv'.base = [flv.base EXCEPT ![t] = base] /\ flv'.tags = Append(flv.tags, tag)
    BY <2>1
  <2>3. tag \in FlvTag /\ tag.track = t /\ tag.unit = u /\ tag.ts = ts
    BY <1>2, <1>3, <1>5 DEF FlvTag
  <2>4. flv.base \in [FlvTracks -> Int] /\ flv.tags \in Seq(FlvTag) /\ Len(flv.tags) \in Nat
    BY DEF FlvInv
  <2>5. flv'.base \in [FlvTracks -> Int] /\ \A v \in FlvTracks : flv'.base[v] = IF v = t THEN base ELSE flv.base[v]
    BY <1>3, <1>4, <2>2, <2>4
  <2>6. /\ flv'.tags \in Seq(FlvTag) /\ DOMAIN flv'.tags = DOMAIN flv.tags \cup {Len(flv.tags) + 1}
        /\ flv'.tags[Len(flv.tags) + 1] = tag
        /\ \A i \in DOMAIN flv.tags : flv'.tags[i] = flv.tags[i] /\ flv.tags[i] \in FlvTag
    BY <2>2, <2>3, <2>4
  <2>7. \A v \in FlvTracks : flv'.base[v] = NoTime \/ flv'.base[v] \in 0..Millis(Len(source'))
    BY <1>2, <1>4, <2>5
  <2>8. ASSUME NEW i \in DOMAIN flv'.tags
        PROVE  /\ flv'.base[flv'.tags[i].track] # NoTime
               /\ flv'.tags[i].ts = Millis(flv'.tags[i].unit) - flv'.base[flv'.tags[i].track]
    <3>1. CASE i \in DOMAIN flv.tags
      <4>1. flv.tags[i].track \in FlvTracks
        BY <2>6, <3>1 DEF FlvTag
      <4>2. /\ flv.base[flv.tags[i].track] # NoTime
            /\ flv.tags[i].ts = Millis(flv.tags[i].unit) - flv.base[flv.tags[i].track]
        BY <3>1 DEF FlvInv
      <4>3. flv'.base[flv.tags[i].track] = flv.base[flv.tags[i].track]
        BY <2>5, <4>1, <4>2
      <4> QED
        BY <2>6, <3>1, <4>2, <4>3
    <3>2. CASE i = Len(flv.tags) + 1
      <4>1. flv'.base[t] = base
        BY <1>3, <2>5
      <4> QED
        BY <1>4, <1>5, <2>3, <2>6, <3>2, <4>1
    <3> QED
      BY <2>6, <3>1, <3>2
  <2>9. flv' = [base |-> flv'.base, tags |-> flv'.tags]
    BY <2>1, <2>2
  <2> QED
    BY <1>2, <2>5, <2>6, <2>7, <2>8, <2>9 DEF FlvInv
<1> QED
  BY <1>6, <1>7

LEMMA MuxNextKeeps == ASSUME FlvInv, [MuxNext]_muxVars PROVE FlvInv'
<1>1. ASSUME NEW kind \in Kinds, PushUnit(kind) PROVE FlvInv'
  BY <1>1, PushUnitKeeps
<1>2. ASSUME NEW kind \in Kinds, DropUnit(kind) PROVE FlvInv'
  <2>1. source' = Append(source, kind) /\ UNCHANGED flv
    BY <1>2 DEF DropUnit
  <2> QED
    BY <2>1, SourceGrows DEF FlvInv
<1>3. CASE UNCHANGED muxVars
  BY <1>3 DEF muxVars, FlvInv
<1>4. {"audio"} \subseteq Kinds
  BY DEF Kinds
<1> QED
  BY <1>1, <1>2, <1>3, <1>4 DEF MuxNext

LEMMA LessThanOne ==
  ASSUME NEW a \in Nat, NEW b \in Nat, NEW x \in Nat, NEW y \in Nat,
         2 * a - 2 <= 3 * x, 3 * x <= 2 * a, 2 * b - 2 <= 3 * y, 3 * y <= 2 * b
  PROVE  (3 * y - 3 * x) - 2 * (b - a) \in -2..2
  OBVIOUS

LEMMA FlvInvImplies == FlvInv => TimestampsTrue
<1> SUFFICES ASSUME FlvInv, NEW i \in DOMAIN flv.tags, NEW j \in DOMAIN flv.tags, flv.tags[i].track = flv.tags[j].track
             PROVE  3 * (flv.tags[j].ts - flv.tags[i].ts) - 2 * (flv.tags[j].unit - flv.tags[i].unit) \in -2..2
  BY DEF TimestampsTrue
<1>1. flv.tags[i] \in FlvTag /\ flv.tags[j] \in FlvTag
  BY DEF FlvInv
<1>2. flv.tags[i].unit \in Nat /\ flv.tags[j].unit \in Nat /\ flv.tags[i].track \in FlvTracks
  BY <1>1 DEF FlvTag
<1> PICK a, b, c : a = flv.tags[i].unit /\ b = flv.tags[j].unit /\ c = flv.base[flv.tags[i].track]
  OBVIOUS
<1>3. c \in Int
  BY <1>2 DEF FlvInv
<1>4. flv.tags[i].ts = Millis(a) - c /\ flv.tags[j].ts = Millis(b) - c
  BY DEF FlvInv
<1>5. Millis(a) \in Nat /\ Millis(b) \in Nat /\ 3 * Millis(a) \in 2 * a - 2..2 * a /\ 3 * Millis(b) \in 2 * b - 2..2 * b
  BY <1>2, MillisFacts
<1>6. 3 * ((Millis(b) - c) - (Millis(a) - c)) - 2 * (b - a) \in -2..2
  <2> PICK x, y : x = Millis(a) /\ y = Millis(b)
    OBVIOUS
  <2>1. a \in Nat /\ b \in Nat
    BY <1>2
  <2>2. x \in Nat /\ y \in Nat /\ 2 * a - 2 <= 3 * x /\ 3 * x <= 2 * a /\ 2 * b - 2 <= 3 * y /\ 3 * y <= 2 * b
    BY <1>5, <2>1
  <2>3. 3 * ((y - c) - (x - c)) = 3 * y - 3 * x
    BY <1>3, <2>2
  <2>4. (3 * y - 3 * x) - 2 * (b - a) \in -2..2
    BY <2>1, <2>2, LessThanOne
  <2> QED
    BY <2>3, <2>4
<1> QED
  BY <1>4, <1>6

-----------------------------------------------------------------------------
(* Fragmented MP4 for one viewer.                                           *)
Piece     == [dts : Seq(Nat), base : Int, durations : Seq(Int)]
Fragment == [FlvTracks -> Piece]
FragmenterRecord == [pending : [FlvTracks -> Seq(Nat)], first : [FlvTracks -> Int], frags : Seq(Fragment)]

(* What a track's fragments hold, and what waits.                           *)
InFragment(F, n, t) == Range(F.frags[n][t].dts)
Waiting(F, t)       == Range(F.pending[t])
InFragments(F, t)   == UNION {InFragment(F, n, t) : n \in 1..Len(F.frags)}

Playable(U, G, u) == Track(U[u]) = "audio" \/ \E k \in G : k <= u /\ U[k] = "key"
Due(U, G, t)    == {u \in G : Track(U[u]) = t /\ Playable(U, G, u)}

(* A track is in a row, and nothing else is in it than what is due.         *)
TrackInARow(F, t) ==
  /\ Rising(F.pending[t])
  /\ \A n \in 1..Len(F.frags) : Rising(F.frags[n][t].dts) /\ Precedes(InFragment(F, n, t), Waiting(F, t))
  /\ \A m, n \in 1..Len(F.frags) : m < n => Precedes(InFragment(F, m, t), InFragment(F, n, t))

TrackComplete(U, G, F, t) == InFragments(F, t) \cup Waiting(F, t) = Due(U, G, t)

(* A fragment counts from the first unit of its track.                      *)
TrackCounts(F, t) ==
  \A n \in 1..Len(F.frags) :
    F.frags[n][t].dts # <<>> =>
      F.first[t] # NoTime /\ F.frags[n][t].base = F.frags[n][t].dts[1] - F.first[t]

(* With video each fragment begins with a keyframe, and lasts until the     *)
(* next one; a keyframe is waiting for the one after the last.              *)
NextStart(F, n) == IF n < Len(F.frags) THEN F.frags[n + 1]["video"].dts[1] ELSE F.pending["video"][1]

GroupsPlay(U, F) ==
  /\ F.frags # <<>> => F.pending["video"] # <<>>
  /\ F.pending["video"] # <<>> => U[F.pending["video"][1]] = "key"
  /\ \A n \in 1..Len(F.frags) :
       /\ F.frags[n]["video"].dts # <<>> /\ U[F.frags[n]["video"].dts[1]] = "key"
       /\ Total(F.frags[n]["video"].durations) = NextStart(F, n) - F.frags[n]["video"].dts[1]

GoodFrag(U, G, hv, F) ==
  /\ F \in FragmenterRecord
  /\ \A t \in FlvTracks : TrackInARow(F, t) /\ TrackComplete(U, G, F, t) /\ TrackCounts(F, t)
  /\ hv => GroupsPlay(U, F)

GoodSource(U, G, hv) ==
  /\ U \in Seq(Kinds) /\ G \subseteq 1..Len(U) /\ hv \in BOOLEAN
  /\ ~hv => \A u \in 1..Len(U) : U[u] = "audio"

FragInv == GoodSource(source, given, hasVid) /\ GoodFrag(source, given, hasVid, frag)

-----------------------------------------------------------------------------
(* How long a fragment lasts: the durations add up to its end.              *)
Totalled(f, d, l) ==
  /\ f \in [0..l -> Int] /\ f[0] = 0
  /\ \A n \in 1..l : f[n] = f[n - 1] + d[n]
  /\ Total(d) = f[l]

LEMMA TotalRuns ==
  ASSUME NEW l \in Nat, NEW d \in [1..l -> Int], Len(d) = l
  PROVE  \E f : Totalled(f, d, l)
PROOF
  <1>0. l \in 0..l /\ 0 \in 0..l
    OBVIOUS
  <1> PICK s : s = [n \in 1..l |-> [x \in Int |-> x + d[n]]]
    OBVIOUS
  <1>1. \A n \in 1..l : d[n] \in Int
    OBVIOUS
  <1>2. \A n \in 1..l : s[n] = [x \in Int |-> x + d[n]]
    OBVIOUS
  <1>3. \A n \in 1..l, x \in Int : x + d[n] \in Int
    BY <1>1
  <1>4. s \in [1..l -> [Int -> Int]]
    BY <1>2, <1>3
  <1>5. 0 \in Int
    OBVIOUS
  <1> PICK g : Iterates(g, Int, 0, s, l)
    BY <1>4, <1>5, Iterated
  <1> DEFINE Sums(f) == f = [n \in 0..Len(d) |-> IF n = 0 THEN 0 ELSE f[n - 1] + d[n]]
  <1>6. Sums(g)
    <2>1. g \in [0..l -> Int] /\ g[0] = 0 /\ \A n \in 1..l : g[n] = s[n][g[n - 1]]
      BY DEF Iterates
    <2>2. ASSUME NEW n \in 0..l
          PROVE  g[n] = IF n = 0 THEN 0 ELSE g[n - 1] + d[n]
      <3>1. CASE n = 0
        BY <2>1, <3>1
      <3>2. CASE n # 0
        <4>1. n \in 1..l /\ n - 1 \in 0..l
          BY <3>2
        <4>2. g[n - 1] \in Int
          BY <2>1, <4>1
        <4> QED
          BY <1>2, <2>1, <3>2, <4>1, <4>2
      <3> QED
        BY <3>1, <3>2
    <2> QED
      BY <2>1, <2>2
  <1> PICK v : v = CHOOSE f : Sums(f)
    OBVIOUS
  <1>7. Sums(v)
    <2> HIDE DEF Sums
    <2> QED
      BY <1>6
  <1>8. Total(d) = v[l]
    <2>1. Total(d) = v[Len(d)]
      BY Zenon DEF Total
    <2> QED
      BY <2>1
  <1>9. v[0] = 0 /\ \A n \in 1..l : v[n] = v[n - 1] + d[n]
    <2> PICK h : h = [n \in 0..l |-> IF n = 0 THEN 0 ELSE v[n - 1] + d[n]]
      OBVIOUS
    <2>1. \A n \in 1..l : n \in 0..l /\ n # 0
      OBVIOUS
    <2>2. h[0] = 0 /\ \A n \in 1..l : h[n] = v[n - 1] + d[n]
      BY <1>0, <2>1
    <2>3. v = h
      BY <1>7
    <2> QED
      BY <2>2, <2>3, Zenon
  <1> DEFINE Known == {n \in 0..l : v[n] \in Int}
  <1>10. ASSUME NEW n \in 0..l, n \in Known, n < l
         PROVE  n + 1 \in Known
    <2> PICK k : k = n + 1
      OBVIOUS
    <2>1. k \in 1..l /\ k \in 0..l /\ k - 1 = n
      BY <1>10
    <2>2. v[k] = v[n] + d[k] /\ v[n] \in Int
      BY <1>9, <1>10, <2>1
    <2>3. d[k] \in Int
      BY <1>1, <2>1
    <2>a. PICK a, b : a = v[n] /\ b = d[k]
      OBVIOUS
    <2> USE <2>a
    <2>4. a \in Int /\ b \in Int /\ v[k] = a + b
      BY <2>2, <2>3
    <2>5. v[k] \in Int
      <3> HIDE <2>a
      <3>1. a + b \in Int
        BY <2>4
      <3> QED
        BY <2>4, <3>1
    <2> QED
      BY <2>1, <2>5
  <1>11. 0 \in Known
    BY <1>0, <1>9
  <1>12. 0..l \subseteq Known
    <2> HIDE DEF Known
    <2> QED
      BY <1>10, <1>11, CountingUp, Zenon
  <1>13. v \in [0..l -> Int]
    <2>1. \A n \in 0..l : v[n] \in Int
      BY <1>12
    <2>2. DOMAIN v = 0..Len(d) /\ v = [n \in DOMAIN v |-> v[n]]
      BY <1>7, Zenon
    <2> QED
      BY <2>1, <2>2
  <1>14. Totalled(v, d, l)
    BY <1>8, <1>9, <1>13 DEF Totalled
  <1> QED
    BY <1>14

LEMMA LastsUntil ==
  ASSUME NEW x \in Seq(Nat), x # <<>>, NEW b \in Int
  PROVE  /\ Durations("video", x, b) \in Seq(Int)
         /\ Total(Durations("video", x, b)) = b - x[1]
PROOF
  <1> PICK l, d : l = Len(x) /\ d = Durations("video", x, b)
    OBVIOUS
  <1>1. l \in Nat /\ l > 0 /\ DOMAIN x = 1..l /\ \A n \in 1..l : x[n] \in Nat
    OBVIOUS
  <1>2. d = [n \in 1..l |-> IF n < l THEN x[n + 1] - x[n] ELSE b - x[n]]
    BY <1>1 DEF Durations
  <1>3. \A n \in 1..l : d[n] = IF n < l THEN x[n + 1] - x[n] ELSE b - x[n]
    BY <1>2
  <1>4. \A n \in 1..l : d[n] \in Int
    <2> SUFFICES ASSUME NEW n \in 1..l PROVE d[n] \in Int
      OBVIOUS
    <2>1. CASE n < l
      BY <1>1, <1>3, <2>1
    <2>2. CASE ~ (n < l)
      BY <1>1, <1>3, <2>2
    <2> QED
      BY <2>1, <2>2
  <1>5. d \in [1..l -> Int] /\ d \in Seq(Int) /\ Len(d) = l
    BY <1>1, <1>2, <1>4
  <1> PICK f : Totalled(f, d, l)
    BY <1>1, <1>5, TotalRuns
  <1>6. f \in [0..l -> Int] /\ f[0] = 0 /\ (\A n \in 1..l : f[n] = f[n - 1] + d[n]) /\ Total(d) = f[l]
    BY DEF Totalled
  <1> PICK a : a = x[1]
    OBVIOUS
  <1>7. a \in Nat
    BY <1>1
  <1> DEFINE Done == {n \in 0..l : n < l => f[n] = x[n + 1] - a}
  <1>8. 0 \in Done
    BY <1>1, <1>6, <1>7
  <1>9. ASSUME NEW n \in 0..l, n \in Done, n < l
        PROVE  n + 1 \in Done
    <2> PICK k : k = n + 1
      OBVIOUS
    <2>1. k \in 1..l /\ k \in 0..l /\ k - 1 = n
      BY <1>1, <1>9
    <2>2. ASSUME k < l
          PROVE  f[k] = x[k + 1] - a
      <3>1. f[k] = f[n] + d[k] /\ d[k] = x[k + 1] - x[k] /\ f[n] = x[k] - a
        BY <1>3, <1>6, <1>9, <2>1, <2>2
      <3>2. x[k] \in Nat /\ x[k + 1] \in Nat
        BY <1>1, <2>1, <2>2
      <3> QED
        BY <1>7, <3>1, <3>2
    <2> QED
      BY <2>1, <2>2
  <1>10. 0..l \subseteq Done
    <2> HIDE DEF Done
    <2> QED
      BY <1>1, <1>8, <1>9, CountingUp, Zenon
  <1>11. l - 1 \in 0..l /\ l - 1 < l /\ l \in 1..l /\ (l - 1) + 1 = l
    BY <1>1
  <1>12. f[l - 1] = x[l] - a
    BY <1>10, <1>11
  <1>13. f[l] = f[l - 1] + d[l] /\ d[l] = b - x[l] /\ x[l] \in Nat
    BY <1>1, <1>3, <1>6, <1>11
  <1>14. f[l] = b - a
    BY <1>7, <1>12, <1>13
  <1> QED
    BY <1>5, <1>6, <1>14

LEMMA AudioLasts ==
  ASSUME NEW x \in Seq(Nat), NEW b \in Int, NEW t
  PROVE  Durations(t, x, b) \in Seq(Int)
PROOF
  <1> PICK l, d : l = Len(x) /\ d = Durations(t, x, b)
    OBVIOUS
  <1>1. l \in Nat /\ DOMAIN x = 1..l /\ (\A n \in 1..l : x[n] \in Nat) /\ aacFrameSamples \in Int
    BY MuxingAssumption
  <1>2. d = [n \in 1..l |-> IF n < l THEN x[n + 1] - x[n]
                            ELSE IF t = "video" THEN b - x[n] ELSE aacFrameSamples]
    BY <1>1 DEF Durations
  <1>3. \A n \in 1..l : d[n] \in Int
    <2> SUFFICES ASSUME NEW n \in 1..l PROVE d[n] \in Int
      OBVIOUS
    <2>1. CASE n < l
      BY <1>1, <1>2, <2>1
    <2>2. CASE ~ (n < l) /\ t = "video"
      BY <1>1, <1>2, <2>2
    <2>3. CASE ~ (n < l) /\ t # "video"
      BY <1>1, <1>2, <2>3
    <2> QED
      BY <2>1, <2>2, <2>3
  <1>4. d \in Seq(Int)
    BY <1>1, <1>2, <1>3
  <1> QED
    BY <1>4

-----------------------------------------------------------------------------
(* What flush makes of a fragmenter: one fragment more, and nothing waits.  *)
FlushedAt(F, b, H) ==
  /\ H \in FragmenterRecord /\ Len(H.frags) = Len(F.frags) + 1
  /\ \A t \in FlvTracks :
       /\ H.pending[t] = <<>>
       /\ H.first[t] = IF F.first[t] = NoTime /\ F.pending[t] # <<>> THEN F.pending[t][1] ELSE F.first[t]
       /\ \A n \in 1..Len(F.frags) : H.frags[n][t] = F.frags[n][t]
       /\ H.frags[Len(H.frags)][t].dts = F.pending[t]
       /\ H.frags[Len(H.frags)][t].durations = Durations(t, F.pending[t], b)
       /\ F.pending[t] # <<>> => H.frags[Len(H.frags)][t].base = F.pending[t][1] - H.first[t]

LEMMA PerTrack ==
  ASSUME NEW S, NEW x \in S, NEW y \in S, NEW rec, rec = [video |-> x, audio |-> y]
  PROVE  rec \in [FlvTracks -> S] /\ rec["video"] = x /\ rec["audio"] = y
  BY DEF FlvTracks

LEMMA FlushIs ==
  ASSUME NEW F \in FragmenterRecord, NEW b \in Int
  PROVE  FlushedAt(F, b, flushFragment(F, b))
PROOF
  <1> PICK H : H = flushFragment(F, b)
    OBVIOUS
  <1>1. F.pending \in [FlvTracks -> Seq(Nat)] /\ F.first \in [FlvTracks -> Int] /\ F.frags \in Seq(Fragment)
    BY DEF FragmenterRecord
  <1> PICK first : first = [t \in DOMAIN F.first |->
                  IF F.first[t] = NoTime /\ F.pending[t] # <<>> THEN Head(F.pending[t]) ELSE F.first[t]]
    OBVIOUS
  <1> DEFINE piece(t) == [dts |-> F.pending[t], base |-> IF F.pending[t] = <<>> THEN NoTime ELSE Head(F.pending[t]) - first[t],
                  durations |-> Durations(t, F.pending[t], b)]
  <1> PICK e, none : e = <<>> /\ e \in Seq(Nat) /\ none = [video |-> e, audio |-> e]
    BY Nothing
  <1>2. H = [pending |-> none, first |-> first, frags |-> Append(F.frags, [video |-> piece("video"), audio |-> piece("audio")])]
    BY DEF flushFragment
  <1>3. none \in [FlvTracks -> Seq(Nat)] /\ \A t \in FlvTracks : none[t] = e
    <2>1. none \in [FlvTracks -> Seq(Nat)] /\ none["video"] = e /\ none["audio"] = e
      BY PerTrack, Zenon
    <2> QED
      BY <2>1 DEF FlvTracks
  <1>4. \A t \in FlvTracks : F.pending[t] # <<>> => Head(F.pending[t]) \in Nat /\ Head(F.pending[t]) = F.pending[t][1]
    BY <1>1
  <1>5. /\ first \in [FlvTracks -> Int]
        /\ \A t \in FlvTracks :
             first[t] = IF F.first[t] = NoTime /\ F.pending[t] # <<>> THEN F.pending[t][1] ELSE F.first[t]
    BY <1>1, <1>4
  <1>6. \A t \in FlvTracks : piece(t) \in Piece
    <2> SUFFICES ASSUME NEW t \in FlvTracks PROVE piece(t) \in Piece
      OBVIOUS
    <2>1. F.pending[t] \in Seq(Nat) /\ first[t] \in Int
      BY <1>1, <1>5
    <2>2. Durations(t, F.pending[t], b) \in Seq(Int)
      BY <2>1, AudioLasts
    <2>3. (IF F.pending[t] = <<>> THEN NoTime ELSE Head(F.pending[t]) - first[t]) \in Int
      BY <1>4, <2>1 DEF NoTime
    <2> QED
      BY <2>1, <2>2, <2>3 DEF Piece
  <1>7. \A t \in FlvTracks :
          /\ piece(t).dts = F.pending[t] /\ piece(t).durations = Durations(t, F.pending[t], b)
          /\ F.pending[t] # <<>> => piece(t).base = F.pending[t][1] - first[t]
    BY <1>4
  <1> HIDE DEF piece
  <1> PICK new : new = [video |-> piece("video"), audio |-> piece("audio")]
    OBVIOUS
  <1>8. new \in Fragment /\ \A t \in FlvTracks : new[t] = piece(t)
    BY <1>6 DEF Fragment, FlvTracks
  <1> PICK more, l : more = Append(F.frags, new) /\ l = Len(F.frags)
    OBVIOUS
  <1>9. l \in Nat /\ more \in Seq(Fragment) /\ Len(more) = l + 1 /\ more[l + 1] = new /\ \A n \in 1..l : more[n] = F.frags[n]
    BY <1>1, <1>8
  <1>10. H.pending = none /\ H.first = first /\ H.frags = more
    BY <1>2
  <1>11. H \in FragmenterRecord
    BY <1>2, <1>3, <1>5, <1>9 DEF FragmenterRecord
  <1>12. Len(H.frags) = Len(F.frags) + 1
    BY <1>9, <1>10
  <1>13. ASSUME NEW t \in FlvTracks
         PROVE  /\ H.pending[t] = <<>>
                /\ H.first[t] = IF F.first[t] = NoTime /\ F.pending[t] # <<>> THEN F.pending[t][1] ELSE F.first[t]
                /\ \A n \in 1..Len(F.frags) : H.frags[n][t] = F.frags[n][t]
                /\ H.frags[Len(H.frags)][t].dts = F.pending[t]
                /\ H.frags[Len(H.frags)][t].durations = Durations(t, F.pending[t], b)
                /\ F.pending[t] # <<>> => H.frags[Len(H.frags)][t].base = F.pending[t][1] - H.first[t]
    <2>1. H.frags[Len(H.frags)][t] = piece(t)
      BY <1>8, <1>9, <1>10, <1>12
    <2>2. H.pending[t] = <<>> /\ \A n \in 1..Len(F.frags) : H.frags[n][t] = F.frags[n][t]
      BY <1>3, <1>9, <1>10
    <2>3. H.first[t] = first[t]
      BY <1>10
    <2> QED
      BY <1>5, <1>7, <2>1, <2>2, <2>3
  <1>14. FlushedAt(F, b, H)
    BY <1>11, <1>12, <1>13 DEF FlushedAt
  <1> QED
    BY <1>14

(* The last fragment, and those before it.                                  *)
LEMMA FlushHolds ==
  ASSUME NEW F \in FragmenterRecord, NEW b, NEW H, FlushedAt(F, b, H), NEW t \in FlvTracks
  PROVE  /\ TrackInARow(F, t) => TrackInARow(H, t)
         /\ InFragments(H, t) \cup Waiting(H, t) = InFragments(F, t) \cup Waiting(F, t)
         /\ Waiting(H, t) = {}
         /\ TrackCounts(F, t) => TrackCounts(H, t)
PROOF
  <1> PICK l : l = Len(F.frags)
    OBVIOUS
  <1>1. /\ l \in Nat /\ Len(H.frags) = l + 1 /\ H.pending[t] = <<>>
        /\ H.first[t] = IF F.first[t] = NoTime /\ F.pending[t] # <<>> THEN F.pending[t][1] ELSE F.first[t]
        /\ \A n \in 1..l : H.frags[n][t] = F.frags[n][t]
        /\ H.frags[l + 1][t].dts = F.pending[t]
        /\ F.pending[t] # <<>> => H.frags[l + 1][t].base = F.pending[t][1] - H.first[t]
    BY DEF FlushedAt, FragmenterRecord
  <1>2. Waiting(H, t) = {} /\ Rising(H.pending[t])
    BY <1>1, Nothing DEF Waiting
  <1>3. /\ \A n \in 1..l : InFragment(H, n, t) = InFragment(F, n, t)
        /\ InFragment(H, l + 1, t) = Waiting(F, t)
    BY <1>1 DEF InFragment, Waiting
  <1>4. \A n \in 1..l + 1 : n \in 1..l \/ n = l + 1
    BY <1>1
  <1>5. 1..l \subseteq 1..l + 1 /\ l + 1 \in 1..l + 1
    BY <1>1
  <1>6. InFragments(H, t) = InFragments(F, t) \cup Waiting(F, t)
    BY <1>1, <1>3, <1>4, <1>5 DEF InFragments
  <1>7. ASSUME TrackInARow(F, t)
        PROVE  TrackInARow(H, t)
    <2>1. /\ Rising(F.pending[t])
          /\ \A n \in 1..l : Rising(F.frags[n][t].dts) /\ Precedes(InFragment(F, n, t), Waiting(F, t))
          /\ \A m, n \in 1..l : m < n => Precedes(InFragment(F, m, t), InFragment(F, n, t))
      BY <1>7 DEF TrackInARow
    <2>2. \A n \in 1..l + 1 : Rising(H.frags[n][t].dts)
      BY <1>1, <1>4, <2>1
    <2>3. \A n \in 1..l + 1 : Precedes(InFragment(H, n, t), Waiting(H, t))
      BY <1>2 DEF Precedes
    <2>4. ASSUME NEW m \in 1..l + 1, NEW n \in 1..l + 1, m < n
          PROVE  Precedes(InFragment(H, m, t), InFragment(H, n, t))
      <3>1. m \in 1..l
        BY <1>1, <2>4
      <3>2. CASE n = l + 1
        BY <1>3, <2>1, <3>1, <3>2
      <3>3. CASE n \in 1..l
        BY <1>3, <2>1, <2>4, <3>1, <3>3
      <3> QED
        BY <1>4, <3>2, <3>3
    <2> QED
      BY <1>1, <1>2, <2>2, <2>3, <2>4 DEF TrackInARow
  <1>8. ASSUME TrackCounts(F, t)
        PROVE  TrackCounts(H, t)
    <2>1. F.pending[t] \in Seq(Nat) /\ (F.pending[t] # <<>> => F.pending[t][1] \in Nat)
      BY DEF FragmenterRecord
    <2>2. F.pending[t] # <<>> => H.first[t] # NoTime
      BY <1>1, <2>1 DEF NoTime
    <2>3. ASSUME NEW n \in 1..l + 1, H.frags[n][t].dts # <<>>
          PROVE  H.first[t] # NoTime /\ H.frags[n][t].base = H.frags[n][t].dts[1] - H.first[t]
      <3>1. CASE n \in 1..l
        <4>1. F.first[t] # NoTime /\ F.frags[n][t].base = F.frags[n][t].dts[1] - F.first[t]
          BY <1>1, <1>8, <2>3, <3>1 DEF TrackCounts
        <4> QED
          BY <1>1, <3>1, <4>1
      <3>2. CASE n = l + 1
        BY <1>1, <2>2, <2>3, <3>2
      <3> QED
        BY <1>4, <3>1, <3>2
    <2> QED
      BY <1>1, <2>3 DEF TrackCounts
  <1> QED
    BY <1>2, <1>6, <1>7, <1>8

(* A unit waits behind those of its track.                                  *)
WaitsToo(F, t, u, K) ==
  /\ K \in FragmenterRecord /\ K.first = F.first /\ K.frags = F.frags
  /\ K.pending[t] = Append(F.pending[t], u)
  /\ \A v \in FlvTracks : v # t => K.pending[v] = F.pending[v]

LEMMA VideoWaits ==
  ASSUME NEW F \in FragmenterRecord, NEW u \in Nat, NEW K, K = [F EXCEPT !.pending.video = Append(@, u)]
  PROVE  WaitsToo(F, "video", u, K)
PROOF
  <1> PICK x, new : x = Append(F.pending["video"], u) /\ new = [F.pending EXCEPT !["video"] = x]
    OBVIOUS
  <1>1. F.pending \in [FlvTracks -> Seq(Nat)] /\ "video" \in FlvTracks
    BY DEF FragmenterRecord, FlvTracks
  <1>2. x \in Seq(Nat)
    BY <1>1
  <1>3. new \in [FlvTracks -> Seq(Nat)] /\ new["video"] = x /\ \A v \in FlvTracks : v # "video" => new[v] = F.pending[v]
    BY <1>1, <1>2
  <1>4. K = [F EXCEPT !.pending = new]
    BY <1>1 DEF FragmenterRecord
  <1>5. K.pending = new /\ K.first = F.first /\ K.frags = F.frags /\ K \in FragmenterRecord
    BY <1>3, <1>4 DEF FragmenterRecord
  <1> QED
    BY <1>3, <1>5 DEF WaitsToo

LEMMA AudioWaits ==
  ASSUME NEW F \in FragmenterRecord, NEW u \in Nat, NEW K, K = [F EXCEPT !.pending.audio = Append(@, u)]
  PROVE  WaitsToo(F, "audio", u, K)
PROOF
  <1> PICK x, new : x = Append(F.pending["audio"], u) /\ new = [F.pending EXCEPT !["audio"] = x]
    OBVIOUS
  <1>1. F.pending \in [FlvTracks -> Seq(Nat)] /\ "audio" \in FlvTracks
    BY DEF FragmenterRecord, FlvTracks
  <1>2. x \in Seq(Nat)
    BY <1>1
  <1>3. new \in [FlvTracks -> Seq(Nat)] /\ new["audio"] = x /\ \A v \in FlvTracks : v # "audio" => new[v] = F.pending[v]
    BY <1>1, <1>2
  <1>4. K = [F EXCEPT !.pending = new]
    BY <1>1 DEF FragmenterRecord
  <1>5. K.pending = new /\ K.first = F.first /\ K.frags = F.frags /\ K \in FragmenterRecord
    BY <1>3, <1>4 DEF FragmenterRecord
  <1> QED
    BY <1>3, <1>5 DEF WaitsToo

LEMMA WaitHolds ==
  ASSUME NEW F \in FragmenterRecord, NEW t \in FlvTracks, NEW u \in Nat, NEW K, WaitsToo(F, t, u, K),
         Precedes(InFragments(F, t) \cup Waiting(F, t), {u})
  PROVE  /\ TrackInARow(F, t) => TrackInARow(K, t)
         /\ InFragments(K, t) \cup Waiting(K, t) = InFragments(F, t) \cup Waiting(F, t) \cup {u}
         /\ TrackCounts(F, t) => TrackCounts(K, t)
         /\ \A v \in FlvTracks : v # t =>
              /\ TrackInARow(F, v) => TrackInARow(K, v)
              /\ InFragments(K, v) \cup Waiting(K, v) = InFragments(F, v) \cup Waiting(F, v)
              /\ TrackCounts(F, v) => TrackCounts(K, v)
PROOF
  <1> PICK x, y, frs : x = F.pending[t] /\ y = K.pending[t] /\ frs = F.frags
    OBVIOUS
  <1>1. x \in Seq(Nat) /\ y = Append(x, u) /\ K.frags = frs /\ K.first = F.first
    BY DEF FragmenterRecord, WaitsToo
  <1>2. Range(y) = Range(x) \cup {u} /\ (Rising(x) /\ Precedes(Range(x), {u}) => Rising(y))
    BY <1>1, Appended
  <1>3. Waiting(K, t) = Waiting(F, t) \cup {u} /\ Waiting(F, t) = Range(x)
    BY <1>2 DEF Waiting
  <1>4. \A n, v : InFragment(K, n, v) = InFragment(F, n, v)
    BY <1>1 DEF InFragment
  <1>5. \A v : InFragments(K, v) = InFragments(F, v)
    BY <1>1, <1>4 DEF InFragments
  <1>6. \A n \in 1..Len(frs) : InFragment(F, n, t) \subseteq InFragments(F, t)
    BY DEF InFragments
  <1>7. ASSUME TrackInARow(F, t)
        PROVE  TrackInARow(K, t)
    <2>1. /\ Rising(x)
          /\ \A n \in 1..Len(frs) : Rising(frs[n][t].dts) /\ Precedes(InFragment(F, n, t), Waiting(F, t))
          /\ \A m, n \in 1..Len(frs) : m < n => Precedes(InFragment(F, m, t), InFragment(F, n, t))
      BY <1>7 DEF TrackInARow
    <2>2. Rising(y)
      BY <1>2, <1>3, <2>1 DEF Precedes
    <2>3. \A n \in 1..Len(frs) : Precedes(InFragment(K, n, t), Waiting(K, t))
      BY <1>3, <1>4, <1>6, <2>1 DEF Precedes
    <2> QED
      BY <1>1, <1>4, <2>1, <2>2, <2>3 DEF TrackInARow
  <1>8. \A v : TrackCounts(F, v) => TrackCounts(K, v)
    BY <1>1 DEF TrackCounts
  <1>9. ASSUME NEW v \in FlvTracks, v # t
        PROVE  /\ TrackInARow(F, v) => TrackInARow(K, v)
               /\ InFragments(K, v) \cup Waiting(K, v) = InFragments(F, v) \cup Waiting(F, v)
    <2>1. K.pending[v] = F.pending[v]
      BY <1>9 DEF WaitsToo
    <2>2. Waiting(K, v) = Waiting(F, v)
      BY <2>1 DEF Waiting
    <2>3. TrackInARow(F, v) => TrackInARow(K, v)
      BY <1>1, <1>4, <2>1, <2>2 DEF TrackInARow
    <2> QED
      BY <1>5, <2>2, <2>3
  <1> QED
    BY <1>3, <1>5, <1>7, <1>8, <1>9

-----------------------------------------------------------------------------
(* The stream goes on: what was due still is.                               *)
LongerBy(U, V, kind) == V \in Seq(Kinds) /\ Len(V) = Len(U) + 1 /\ V[Len(U) + 1] = kind /\ \A i \in 1..Len(U) : V[i] = U[i]

DueGrows(U, V, G, u, kind, t) ==
  /\ Due(V, G, t) = Due(U, G, t)
  /\ Due(V, G \cup {u}, t) = IF Track(kind) = t /\ Playable(V, G \cup {u}, u) THEN Due(U, G, t) \cup {u} ELSE Due(U, G, t)

LEMMA DueLater ==
  ASSUME NEW U, NEW G, NEW hv, GoodSource(U, G, hv), NEW kind \in Kinds, NEW V, LongerBy(U, V, kind)
  PROVE  \A t : DueGrows(U, V, G, Len(U) + 1, kind, t)
PROOF
  <1> SUFFICES ASSUME NEW t PROVE DueGrows(U, V, G, Len(U) + 1, kind, t)
    OBVIOUS
  <1> PICK u, W : u = Len(U) + 1 /\ W = G \cup {u}
    OBVIOUS
  <1>1. /\ G \subseteq 1..Len(U) /\ Len(U) \in Nat /\ V[u] = kind /\ \A i \in 1..Len(U) : V[i] = U[i]
    BY DEF GoodSource, LongerBy
  <1>2. \A g \in G : g \in Nat /\ g < u /\ V[g] = U[g] /\ ~ (u <= g)
    BY <1>1
  <1>3. \A g \in G : Playable(V, G, g) <=> Playable(U, G, g)
    BY <1>2 DEF Playable
  <1>4. \A g \in G : Playable(V, W, g) <=> Playable(U, G, g)
    BY <1>2 DEF Playable
  <1>5. Due(V, G, t) = Due(U, G, t)
    BY <1>2, <1>3 DEF Due
  <1>6. u \notin G /\ u \notin Due(U, G, t)
    BY <1>2 DEF Due
  <1>7. \A g : g \in Due(V, W, t) <=> g \in Due(U, G, t) \/ (g = u /\ Track(kind) = t /\ Playable(V, W, u))
    BY <1>1, <1>2, <1>4, <1>6 DEF Due
  <1>8. Due(V, W, t) = IF Track(kind) = t /\ Playable(V, W, u) THEN Due(U, G, t) \cup {u} ELSE Due(U, G, t)
    <2>1. CASE Track(kind) = t /\ Playable(V, W, u)
      BY <1>7, <2>1
    <2>2. CASE ~ (Track(kind) = t /\ Playable(V, W, u))
      BY <1>7, <2>2
    <2> QED
      BY <2>1, <2>2
  <1> QED
    BY <1>5, <1>8 DEF DueGrows

LEMMA SourceLater ==
  ASSUME NEW U, NEW G, NEW hv, GoodSource(U, G, hv), NEW kind \in Kinds, NEW V, LongerBy(U, V, kind), hv \/ kind = "audio"
  PROVE  GoodSource(V, G, hv) /\ GoodSource(V, G \cup {Len(U) + 1}, hv)
PROOF
  <1>1. /\ Len(U) \in Nat /\ Len(V) = Len(U) + 1 /\ V \in Seq(Kinds) /\ V[Len(U) + 1] = kind
        /\ \A i \in 1..Len(U) : V[i] = U[i]
    BY DEF GoodSource, LongerBy
  <1>2. G \subseteq 1..Len(V) /\ G \cup {Len(U) + 1} \subseteq 1..Len(V)
    <2>1. G \subseteq 1..Len(U)
      BY DEF GoodSource
    <2>2. 1..Len(U) \subseteq 1..Len(V) /\ Len(U) + 1 \in 1..Len(V)
      BY <1>1
    <2> QED
      BY <2>1, <2>2
  <1>3. ~hv => \A i \in 1..Len(V) : V[i] = "audio"
    <2>1. \A i \in 1..Len(V) : i \in 1..Len(U) \/ i = Len(U) + 1
      BY <1>1
    <2> QED
      BY <1>1, <2>1 DEF GoodSource
  <1> QED
    BY <1>1, <1>2, <1>3 DEF GoodSource

(* Where a fragment of video and the units waiting begin.                   *)
LEMMA Beginnings ==
  ASSUME NEW U, NEW G, NEW hv, GoodSource(U, G, hv), NEW F, GoodFrag(U, G, hv, F)
  PROVE  /\ \A t \in FlvTracks : InFragments(F, t) \cup Waiting(F, t) \subseteq 1..Len(U)
         /\ \A t \in FlvTracks : F.pending[t] # <<>> => F.pending[t][1] \in Waiting(F, t)
         /\ \A t \in FlvTracks, n \in 1..Len(F.frags) :
              F.frags[n][t].dts # <<>> => F.frags[n][t].dts[1] \in InFragment(F, n, t)
         /\ \A t \in FlvTracks, n \in 1..Len(F.frags) : InFragment(F, n, t) \subseteq InFragments(F, t)
PROOF
  <1>1. F \in FragmenterRecord /\ \A t \in FlvTracks : TrackComplete(U, G, F, t)
    BY DEF GoodFrag
  <1>2. \A t : Due(U, G, t) \subseteq 1..Len(U)
    BY DEF GoodSource, Due
  <1>3. \A t \in FlvTracks : F.pending[t] \in Seq(Nat)
    BY <1>1 DEF FragmenterRecord
  <1>4. \A t \in FlvTracks : F.pending[t] # <<>> => F.pending[t][1] \in Waiting(F, t)
    BY <1>3, Elements1 DEF Waiting
  <1>5. \A t \in FlvTracks, n \in 1..Len(F.frags) : F.frags[n][t].dts \in Seq(Nat)
    <2>1. F.frags \in Seq(Fragment)
      BY <1>1 DEF FragmenterRecord
    <2>2. \A n \in 1..Len(F.frags) : F.frags[n] \in [FlvTracks -> Piece]
      BY <2>1 DEF Fragment
    <2> QED
      BY <2>2 DEF Piece
  <1>6. \A t \in FlvTracks, n \in 1..Len(F.frags) :
              F.frags[n][t].dts # <<>> => F.frags[n][t].dts[1] \in InFragment(F, n, t)
    BY <1>5, Elements1 DEF InFragment
  <1>7. \A t, n : n \in 1..Len(F.frags) => InFragment(F, n, t) \subseteq InFragments(F, t)
    BY DEF InFragments
  <1> QED
    BY <1>1, <1>2, <1>4, <1>6, <1>7 DEF TrackComplete

LEMMA GroupsLater ==
  ASSUME NEW U, NEW G, NEW hv, GoodSource(U, G, hv), NEW F, GoodFrag(U, G, hv, F), hv,
         NEW kind, NEW V, LongerBy(U, V, kind)
  PROVE  GroupsPlay(V, F)
PROOF
  <1>1. GroupsPlay(U, F) /\ "video" \in FlvTracks
    BY DEF GoodFrag, FlvTracks
  <1>2. \A i \in 1..Len(U) : V[i] = U[i]
    BY DEF LongerBy
  <1>3. F.pending["video"] # <<>> => V[F.pending["video"][1]] = U[F.pending["video"][1]]
    <2> SUFFICES ASSUME F.pending["video"] # <<>> PROVE F.pending["video"][1] \in 1..Len(U)
      BY <1>2
    <2>1. F.pending["video"][1] \in Waiting(F, "video")
      BY <1>1, Beginnings
    <2>2. Waiting(F, "video") \subseteq 1..Len(U)
      BY <1>1, Beginnings
    <2> QED
      BY <2>1, <2>2
  <1>4. \A n \in 1..Len(F.frags) : F.frags[n]["video"].dts[1] \in 1..Len(U)
    <2> SUFFICES ASSUME NEW n \in 1..Len(F.frags) PROVE F.frags[n]["video"].dts[1] \in 1..Len(U)
      OBVIOUS
    <2>1. F.frags[n]["video"].dts # <<>>
      BY <1>1 DEF GroupsPlay
    <2> QED
      BY <1>1, <2>1, Beginnings, ZenonT(60)
  <1> QED
    BY <1>1, <1>2, <1>3, <1>4 DEF GroupsPlay

LEMMA NotDue ==
  ASSUME NEW U, NEW G, NEW hv, GoodSource(U, G, hv), NEW F, GoodFrag(U, G, hv, F),
         NEW kind \in Kinds, NEW V, LongerBy(U, V, kind), hv \/ kind = "audio"
  PROVE  /\ GoodFrag(V, G, hv, F)
         /\ ~ Playable(V, G \cup {Len(U) + 1}, Len(U) + 1) => GoodFrag(V, G \cup {Len(U) + 1}, hv, F)
PROOF
  <1>1. hv => GroupsPlay(V, F)
    BY GroupsLater
  <1>01. \A t : DueGrows(U, V, G, Len(U) + 1, kind, t)
    BY DueLater
  <1> PICK u, W : u = Len(U) + 1 /\ W = G \cup {u}
    OBVIOUS
  <1>0. \A t : /\ Due(V, G, t) = Due(U, G, t)
                /\ Due(V, W, t) = IF Track(kind) = t /\ Playable(V, W, u) THEN Due(U, G, t) \cup {u} ELSE Due(U, G, t)
    BY <1>01, Zenon DEF DueGrows
  <1>2. \A t \in FlvTracks : TrackComplete(V, G, F, t)
    BY <1>0 DEF GoodFrag, TrackComplete
  <1>3. ~ Playable(V, W, u) => \A t \in FlvTracks : TrackComplete(V, W, F, t)
    BY <1>0 DEF GoodFrag, TrackComplete
  <1> QED
    BY <1>1, <1>2, <1>3 DEF GoodFrag

(* A unit that is due waits, of either track.                               *)
LEMMA DueWaits ==
  ASSUME NEW U, NEW G, NEW hv, GoodSource(U, G, hv), NEW F \in FragmenterRecord,
         NEW kind \in Kinds, NEW V, LongerBy(U, V, kind),
         Playable(V, G \cup {Len(U) + 1}, Len(U) + 1),
         \A t \in FlvTracks : TrackInARow(F, t) /\ TrackComplete(U, G, F, t) /\ TrackCounts(F, t),
         NEW K, WaitsToo(F, Track(kind), Len(U) + 1, K)
  PROVE  \A t \in FlvTracks : TrackInARow(K, t) /\ TrackComplete(V, G \cup {Len(U) + 1}, K, t) /\ TrackCounts(K, t)
PROOF
  <1>u. PICK u, W, t : u = Len(U) + 1 /\ W = G \cup {u} /\ t = Track(kind)
    OBVIOUS
  <1> USE <1>u
  <1>1. t \in FlvTracks /\ u \in Nat /\ G \subseteq 1..Len(U) /\ \A g \in 1..Len(U) : g < u
    BY DEF Track, FlvTracks, GoodSource
  <1>2. Precedes(InFragments(F, t) \cup Waiting(F, t), {u})
    <2>1. InFragments(F, t) \cup Waiting(F, t) = Due(U, G, t)
      BY <1>1 DEF TrackComplete
    <2> QED
      BY <1>1, <2>1 DEF Due, Precedes
  <1>3. WaitsToo(F, t, u, K)
    OBVIOUS
  <1>4. /\ TrackInARow(K, t) /\ InFragments(K, t) \cup Waiting(K, t) = InFragments(F, t) \cup Waiting(F, t) \cup {u}
        /\ TrackCounts(K, t)
        /\ \A v \in FlvTracks : v # t =>
              /\ TrackInARow(K, v)
              /\ InFragments(K, v) \cup Waiting(K, v) = InFragments(F, v) \cup Waiting(F, v)
              /\ TrackCounts(K, v)
    <2>1. TrackInARow(F, t) /\ TrackCounts(F, t) /\ \A v \in FlvTracks : TrackInARow(F, v) /\ TrackCounts(F, v)
      BY <1>1
    <2> HIDE <1>u
    <2> QED
      BY <1>1, <1>2, <1>3, <2>1, WaitHolds, ZenonT(60)
  <1>05. \A v : DueGrows(U, V, G, Len(U) + 1, kind, v)
    BY DueLater
  <1>5. Due(V, W, t) = Due(U, G, t) \cup {u} /\ \A v \in FlvTracks : v # t => Due(V, W, v) = Due(U, G, v)
    BY <1>05 DEF DueGrows
  <1>6. TrackComplete(V, W, K, t)
    BY <1>1, <1>4, <1>5 DEF TrackComplete
  <1>7. \A v \in FlvTracks : v # t => TrackComplete(V, W, K, v)
    BY <1>4, <1>5 DEF TrackComplete
  <1> QED
    BY <1>4, <1>6, <1>7

LEMMA FlushKeepsTracks ==
  ASSUME NEW U, NEW G, NEW F \in FragmenterRecord, NEW b, NEW H, FlushedAt(F, b, H),
         \A t \in FlvTracks : TrackInARow(F, t) /\ TrackComplete(U, G, F, t) /\ TrackCounts(F, t)
  PROVE  \A t \in FlvTracks : TrackInARow(H, t) /\ TrackComplete(U, G, H, t) /\ TrackCounts(H, t)
  BY FlushHolds DEF TrackComplete

(* A keyframe ends the fragment before it and waits for the next.           *)
LEMMA KeyframeEnds ==
  ASSUME NEW U, NEW G, GoodSource(U, G, TRUE), NEW F, GoodFrag(U, G, TRUE, F),
         NEW V, LongerBy(U, V, "key"), F.pending["video"] # <<>>,
         NEW H, FlushedAt(F, Len(U) + 1, H), NEW K, WaitsToo(H, "video", Len(U) + 1, K)
  PROVE  GroupsPlay(V, K)
PROOF
  <1>u. PICK u, l, x, y : u = Len(U) + 1 /\ l = Len(F.frags) /\ x = F.pending["video"] /\ y = K.pending["video"]
    OBVIOUS
  <1> USE <1>u
  <1>1. GroupsPlay(V, F) /\ F \in FragmenterRecord /\ "video" \in FlvTracks /\ u \in Nat /\ V[u] = "key"
    <2>1. GroupsPlay(V, F)
      BY GroupsLater
    <2> QED
      BY <2>1 DEF GoodFrag, GoodSource, LongerBy, FlvTracks
  <1>2. x \in Seq(Nat) /\ l \in Nat /\ x # <<>>
    BY <1>1 DEF FragmenterRecord
  <1>3. /\ Len(H.frags) = l + 1 /\ H.pending["video"] = <<>>
        /\ \A n \in 1..l : H.frags[n]["video"] = F.frags[n]["video"]
        /\ H.frags[l + 1]["video"].dts = x
        /\ H.frags[l + 1]["video"].durations = Durations("video", x, u)
    BY <1>1 DEF FlushedAt
  <1>4. K.frags = H.frags /\ y = Append(<<>>, u)
    BY <1>3 DEF WaitsToo
  <1>5. y # <<>> /\ y[1] = u
    BY <1>1, <1>4
  <1>6. Total(Durations("video", x, u)) = u - x[1]
    <2> HIDE <1>u
    <2>1. u \in Int
      BY <1>1
    <2> QED
      BY <1>2, <2>1, LastsUntil
  <1>7. ASSUME NEW n \in 1..l + 1
        PROVE  /\ K.frags[n]["video"].dts # <<>> /\ V[K.frags[n]["video"].dts[1]] = "key"
               /\ Total(K.frags[n]["video"].durations) = NextStart(K, n) - K.frags[n]["video"].dts[1]
    <2>1. CASE n = l + 1
      <3>1. NextStart(K, n) = u
        BY <1>2, <1>3, <1>4, <1>5, <2>1 DEF NextStart
      <3>2. V[x[1]] = "key"
        BY <1>1, <1>2 DEF GroupsPlay
      <3> QED
        BY <1>2, <1>3, <1>4, <1>6, <2>1, <3>1, <3>2
    <2>2. CASE n \in 1..l
      <3>1. /\ F.frags[n]["video"].dts # <<>> /\ V[F.frags[n]["video"].dts[1]] = "key"
            /\ Total(F.frags[n]["video"].durations) = NextStart(F, n) - F.frags[n]["video"].dts[1]
        BY <1>1, <2>2 DEF GroupsPlay
      <3>2. NextStart(K, n) = NextStart(F, n)
        <4>1. CASE n < l
          <5>1. n + 1 \in 1..l /\ n < l + 1
            BY <1>2, <2>2, <4>1
          <5> QED
            BY <1>3, <1>4, <4>1, <5>1 DEF NextStart
        <4>2. CASE n = l
          <5>1. n < l + 1 /\ ~ (n < l) /\ n + 1 = l + 1
            BY <1>2, <4>2
          <5> QED
            BY <1>3, <1>4, <5>1 DEF NextStart
        <4> QED
          BY <1>2, <2>2, <4>1, <4>2
      <3> QED
        BY <1>3, <1>4, <2>2, <3>1, <3>2
    <2> QED
      BY <1>2, <2>1, <2>2
  <1> QED
    BY <1>1, <1>3, <1>4, <1>5, <1>7 DEF GroupsPlay

(* A frame that ends nothing: the first keyframe, or an inter frame.        *)
LEMMA FrameGoesOn ==
  ASSUME NEW U, NEW G, GoodSource(U, G, TRUE), NEW F, GoodFrag(U, G, TRUE, F),
         NEW kind \in Kinds, Track(kind) = "video", NEW V, LongerBy(U, V, kind),
         kind # "key" \/ F.pending["video"] = <<>>,
         Playable(V, G \cup {Len(U) + 1}, Len(U) + 1),
         NEW K, WaitsToo(F, "video", Len(U) + 1, K)
  PROVE  GroupsPlay(V, K)
PROOF
  <1> PICK u, W, l, x, y : u = Len(U) + 1 /\ W = G \cup {u} /\ l = Len(F.frags) /\ x = F.pending["video"] /\ y = K.pending["video"]
    OBVIOUS
  <1>1. GroupsPlay(V, F) /\ F \in FragmenterRecord /\ "video" \in FlvTracks /\ u \in Nat /\ V[u] = kind
    <2>1. GroupsPlay(V, F)
      BY GroupsLater
    <2> QED
      BY <2>1 DEF GoodFrag, GoodSource, LongerBy, FlvTracks
  <1>2. x \in Seq(Nat) /\ l \in Nat
    BY <1>1 DEF FragmenterRecord
  <1>3. K.frags = F.frags /\ y = Append(x, u)
    BY DEF WaitsToo
  <1>4. y # <<>> /\ y[1] = IF x = <<>> THEN u ELSE x[1]
    BY <1>1, <1>2, <1>3, Appended
  <1>5. CASE x # <<>>
    <2>1. \A n : NextStart(K, n) = NextStart(F, n)
      BY <1>3, <1>4, <1>5 DEF NextStart
    <2> QED
      BY <1>1, <1>3, <1>4, <1>5, <2>1 DEF GroupsPlay
  <1>6. CASE x = <<>>
    <2>1. F.frags = <<>>
      BY <1>1, <1>6 DEF GroupsPlay
    <2>2. Due(U, G, "video") = {}
      <3>1. Waiting(F, "video") = {}
        BY <1>2, <1>6, Elements1 DEF Waiting
      <3>2. 1..Len(F.frags) = {}
        BY <2>1
      <3>3. InFragments(F, "video") = {}
        BY <3>2 DEF InFragments
      <3> QED
        BY <1>1, <3>1, <3>3 DEF GoodFrag, TrackComplete
    <2>3. kind = "key"
      <3> SUFFICES ASSUME kind # "key" PROVE FALSE
        OBVIOUS
      <3>1. Track(V[u]) # "audio"
        BY <1>1
      <3>2. PICK k \in W : V[k] = "key"
        BY <3>1 DEF Playable
      <3>3. k \in G /\ k \in Nat /\ U[k] = "key"
        BY <1>1, <3>2 DEF GoodSource, LongerBy
      <3>4. k \in Due(U, G, "video")
        BY <3>3 DEF Due, Playable, Track
      <3> QED
        BY <2>2, <3>4
    <2>4. 1..Len(K.frags) = {} /\ K.frags = <<>>
      BY <1>3, <2>1
    <2> QED
      BY <1>1, <1>4, <1>6, <2>3, <2>4 DEF GroupsPlay
  <1> QED
    BY <1>5, <1>6

-----------------------------------------------------------------------------
(* The steps.                                                               *)
LEMMA FragInvInit == MuxInit => FragInv
PROOF
  <1> SUFFICES ASSUME MuxInit PROVE FragInv
    OBVIOUS
  <1> PICK e, minus : e = <<>> /\ minus = -1
    OBVIOUS
  <1>1. e \in Seq(Nat) /\ e \in Seq(Kinds) /\ e \in Seq(Fragment) /\ Len(e) = 0 /\ Range(e) = {} /\ Rising(e)
    <2>1. e \in Seq(Nat) /\ Range(e) = {} /\ Rising(e)
      BY Nothing
    <2>2. e \in Seq(Kinds) /\ e \in Seq(Fragment) /\ Len(e) = 0
      OBVIOUS
    <2> QED
      BY <2>1, <2>2
  <1> PICK none, unset : none = [video |-> e, audio |-> e] /\ unset = [video |-> minus, audio |-> minus]
    OBVIOUS
  <1>2. source = e /\ given = {} /\ hasVid \in BOOLEAN /\ frag = [pending |-> none, first |-> unset, frags |-> e]
    BY DEF MuxInit, NoTime
  <1>3. none \in [FlvTracks -> Seq(Nat)] /\ \A t \in FlvTracks : none[t] = e
    <2>1. none \in [FlvTracks -> Seq(Nat)] /\ none["video"] = e /\ none["audio"] = e
      BY <1>1, PerTrack, Zenon
    <2> QED
      BY <2>1 DEF FlvTracks
  <1>4. unset \in [FlvTracks -> Int]
    <2>1. minus \in Int
      OBVIOUS
    <2> QED
      BY <2>1, PerTrack, Zenon
  <1>5. frag \in FragmenterRecord /\ frag.pending = none /\ frag.frags = e
    BY <1>1, <1>2, <1>3, <1>4 DEF FragmenterRecord
  <1>6. GoodSource(source, given, hasVid)
    <2>1. 1..Len(source) = {}
      BY <1>1, <1>2
    <2> QED
      BY <1>1, <1>2, <2>1 DEF GoodSource
  <1>7. 1..Len(frag.frags) = {}
    BY <1>1, <1>5
  <1>8. \A t \in FlvTracks : TrackInARow(frag, t) /\ TrackCounts(frag, t)
    BY <1>1, <1>3, <1>5, <1>7 DEF TrackInARow, TrackCounts
  <1>9. \A t \in FlvTracks : TrackComplete(source, given, frag, t)
    <2> SUFFICES ASSUME NEW t \in FlvTracks PROVE TrackComplete(source, given, frag, t)
      OBVIOUS
    <2>1. Waiting(frag, t) = {}
      BY <1>1, <1>3, <1>5 DEF Waiting
    <2>2. InFragments(frag, t) = {}
      BY <1>7 DEF InFragments
    <2>3. Due(source, given, t) = {}
      BY <1>2 DEF Due
    <2> QED
      BY <2>1, <2>2, <2>3 DEF TrackComplete
  <1>10. GroupsPlay(source, frag)
    <2>1. frag.pending["video"] = <<>> /\ frag.frags = <<>>
      BY <1>3, <1>5 DEF FlvTracks
    <2> QED
      BY <1>7, <2>1 DEF GroupsPlay
  <1> QED
    BY <1>5, <1>6, <1>8, <1>9, <1>10 DEF FragInv, GoodFrag

LEMMA FragmentedKeeps ==
  ASSUME FragInv, NEW kind \in Kinds, hasVid \/ kind = "audio", PushUnit(kind)
  PROVE  FragInv'
PROOF
  <1>U. PICK U, G, hv, F, V, u : U = source /\ G = given /\ hv = hasVid /\ F = frag /\ V = source' /\ u = Len(source) + 1
    OBVIOUS
  <1> USE <1>U
  <1>W. PICK W : W = G \cup {u}
    OBVIOUS
  <1> USE <1>W
  <1>1. GoodSource(U, G, hv) /\ GoodFrag(U, G, hv, F)
    BY DEF FragInv
  <1>2. source' = Append(U, kind) /\ given' = W /\ hasVid' = hv /\ frag' = Fragmented(F, u, kind) /\ u = Len(U) + 1
        /\ hasVid = hv
    BY DEF PushUnit
  <1>3. U \in Seq(Kinds) /\ Len(U) \in Nat /\ u \in Nat /\ u \in Int /\ hv \in BOOLEAN
    BY <1>1, <1>2 DEF GoodSource
  <1>4. LongerBy(U, V, kind) /\ V[u] = kind
    BY <1>2, <1>3 DEF LongerBy
  <1>5. GoodSource(V, G, hv) /\ GoodSource(V, W, hv)
    BY <1>1, <1>4, SourceLater
  <1>6. /\ F \in FragmenterRecord
        /\ \A t \in FlvTracks : TrackInARow(F, t) /\ TrackComplete(U, G, F, t) /\ TrackCounts(F, t)
    BY <1>1 DEF GoodFrag
  <1>7. Established(u) <=> \E k \in W : k <= u /\ V[k] = "key"
    BY <1>2 DEF Established
  <1>8. Playable(V, W, u) <=> kind = "audio" \/ Established(u)
    BY <1>4, <1>7 DEF Playable, Track, Kinds
  <1> SUFFICES GoodFrag(V, W, hv, Fragmented(F, u, kind))
    BY <1>2, <1>5 DEF FragInv
  <1> HIDE <1>U
  <1>9. CASE kind = "audio"
    <2>K. PICK K : K = [F EXCEPT !.pending.audio = Append(@, u)]
      OBVIOUS
    <2> USE <2>K
    <2>1. WaitsToo(F, "audio", u, K)
      BY <1>3, <1>6, AudioWaits
    <2>2. \A t \in FlvTracks : TrackInARow(K, t) /\ TrackComplete(V, W, K, t) /\ TrackCounts(K, t)
      <3>1. Track(kind) = "audio" /\ Playable(V, W, u)
        BY <1>8, <1>9 DEF Track
      <3> HIDE <2>K
      <3>2. WaitsToo(F, Track(kind), Len(U) + 1, K) /\ Playable(V, G \cup {Len(U) + 1}, Len(U) + 1)
        BY <1>2, <2>1, <3>1
      <3>3. \A t \in FlvTracks : TrackInARow(K, t) /\ TrackComplete(V, G \cup {Len(U) + 1}, K, t) /\ TrackCounts(K, t)
        BY <1>1, <1>4, <1>6, <3>2, DueWaits
      <3> QED
        BY <1>2, <3>3
    <2>3. K \in FragmenterRecord
      BY <2>1 DEF WaitsToo
    <2>4. Fragmented(F, u, kind) = IF ~hv /\ Len(K.pending.audio) >= AudioPerFragment THEN flushFragment(K, u + aacFrameSamples) ELSE K
      BY <1>2, <1>9 DEF Fragmented, pushAudio
    <2>5. CASE hv
      <3>1. GroupsPlay(V, F)
        BY <1>1, <1>4, <2>5, GroupsLater
      <3>2. K.frags = F.frags /\ K.pending["video"] = F.pending["video"]
        BY <2>1 DEF WaitsToo, FlvTracks
      <3>3. GroupsPlay(V, K)
        <4>1. \A n : NextStart(K, n) = NextStart(F, n)
          BY <3>2 DEF NextStart
        <4> QED
          BY <3>1, <3>2, <4>1 DEF GroupsPlay
      <3> QED
        BY <2>2, <2>3, <2>4, <2>5, <3>3 DEF GoodFrag
    <2>6. CASE ~hv /\ ~ (Len(K.pending.audio) >= AudioPerFragment)
      BY <2>2, <2>3, <2>4, <2>6 DEF GoodFrag
    <2>7. CASE ~hv /\ Len(K.pending.audio) >= AudioPerFragment
      <3>H. PICK H, b : b = u + aacFrameSamples /\ H = flushFragment(K, b)
        OBVIOUS
      <3> USE <3>H
      <3>1. b \in Int
        BY <1>3, MuxingAssumption
      <3>2. FlushedAt(K, b, H)
        BY <2>3, <3>1, FlushIs
      <3>3. \A t \in FlvTracks : TrackInARow(H, t) /\ TrackComplete(V, W, H, t) /\ TrackCounts(H, t)
        <4> HIDE <3>H, <2>K, <1>W
        <4> QED
          BY <2>2, <2>3, <3>2, FlushKeepsTracks
      <3> QED
        BY <2>4, <2>7, <3>2, <3>3 DEF GoodFrag, FlushedAt
    <2> QED
      BY <1>3, <2>5, <2>6, <2>7
  <1>10. CASE kind # "audio" /\ ~ Established(u)
    <2>1. Fragmented(F, u, kind) = F
      BY <1>10 DEF Fragmented
    <2>2. ~ Playable(V, G \cup {Len(U) + 1}, Len(U) + 1)
      BY <1>2, <1>8, <1>10
    <2>3. hv \/ kind = "audio"
      <3>1. hasVid \/ kind = "audio"
        OBVIOUS
      <3> QED
        BY <1>2, <3>1
    <2>4. GoodFrag(V, G \cup {Len(U) + 1}, hv, F)
      BY <1>1, <1>4, <2>2, <2>3, NotDue
    <2> QED
      BY <1>2, <2>1, <2>4
  <1>11. CASE kind # "audio" /\ Established(u)
    <2>0. hv = TRUE
      <3>1. hasVid \/ kind = "audio"
        OBVIOUS
      <3> QED
        BY <1>2, <1>3, <1>11, <3>1
    <2>1. Track(kind) = "video" /\ hv = TRUE /\ Playable(V, W, u) /\ Playable(V, G \cup {Len(U) + 1}, Len(U) + 1)
      BY <1>2, <1>8, <1>11, <2>0 DEF Track
    <2>2. GoodSource(U, G, TRUE) /\ GoodFrag(U, G, TRUE, F)
      BY <1>1, <2>1
    <2>ends. PICK ends, H : ends = (kind = "key" /\ F.pending.video # <<>>) /\ H = IF ends THEN flushFragment(F, u) ELSE F
      OBVIOUS
    <2> USE <2>ends
    <2>K. PICK K : K = [H EXCEPT !.pending.video = Append(@, u)]
      OBVIOUS
    <2> USE <2>K
    <2>3. Fragmented(F, u, kind) = K
      BY <1>11 DEF Fragmented, pushVideo
    <2>4. /\ H \in FragmenterRecord
          /\ \A t \in FlvTracks : TrackInARow(H, t) /\ TrackComplete(U, G, H, t) /\ TrackCounts(H, t)
          /\ ends => FlushedAt(F, u, H)
      <3>1. CASE ends
        <4>1. FlushedAt(F, u, H)
          BY <1>3, <1>6, <3>1, FlushIs
        <4>2. H \in FragmenterRecord
          BY <4>1 DEF FlushedAt
        <4> HIDE <2>ends
        <4>3. \A t \in FlvTracks : TrackInARow(H, t) /\ TrackComplete(U, G, H, t) /\ TrackCounts(H, t)
          BY <1>6, <4>1, FlushKeepsTracks
        <4> QED
          BY <4>1, <4>2, <4>3
      <3>2. CASE ~ends
        BY <1>6, <3>2
      <3> QED
        BY <3>1, <3>2
    <2>5. WaitsToo(H, "video", u, K)
      BY <1>3, <2>4, VideoWaits
    <2>6. K \in FragmenterRecord
      BY <2>5 DEF WaitsToo
    <2>7. \A t \in FlvTracks : TrackInARow(K, t) /\ TrackComplete(V, W, K, t) /\ TrackCounts(K, t)
      <3> HIDE <2>K, <2>ends
      <3>2. WaitsToo(H, Track(kind), Len(U) + 1, K)
        BY <1>2, <2>1, <2>5
      <3>3. \A t \in FlvTracks : TrackInARow(K, t) /\ TrackComplete(V, G \cup {Len(U) + 1}, K, t) /\ TrackCounts(K, t)
        BY <1>1, <1>4, <2>1, <2>4, <3>2, DueWaits
      <3> QED
        BY <1>2, <3>3
    <2>8. CASE ends
      <3>1. kind = "key" /\ F.pending["video"] # <<>>
        BY <2>8
      <3>2. GroupsPlay(V, K)
        <4> HIDE <2>K, <2>ends
        <4>1. LongerBy(U, V, "key") /\ FlushedAt(F, Len(U) + 1, H) /\ WaitsToo(H, "video", Len(U) + 1, K)
          BY <1>2, <1>4, <2>4, <2>5, <2>8, <3>1
        <4> QED
          BY <2>2, <3>1, <4>1, KeyframeEnds
      <3> QED
        BY <2>3, <2>6, <2>7, <3>2 DEF GoodFrag
    <2>9. CASE ~ends
      <3>1. kind # "key" \/ F.pending["video"] = <<>>
        BY <2>9
      <3>2. GroupsPlay(V, K)
        <4>0. WaitsToo(F, "video", Len(U) + 1, K)
          BY <1>2, <2>5, <2>9
        <4> HIDE <2>K, <2>ends
        <4> QED
          BY <1>4, <2>1, <2>2, <3>1, <4>0, FrameGoesOn
      <3> QED
        BY <2>3, <2>6, <2>7, <3>2 DEF GoodFrag
    <2> QED
      BY <2>8, <2>9
  <1> QED
    BY <1>9, <1>10, <1>11

LEMMA FragInvNext == ASSUME FragInv, [MuxNext]_muxVars PROVE FragInv'
PROOF
  <1>1. ASSUME NEW kind \in Kinds, hasVid \/ kind = "audio", PushUnit(kind)
        PROVE  FragInv'
    BY <1>1, FragmentedKeeps
  <1>2. ASSUME NEW kind \in Kinds, hasVid \/ kind = "audio", DropUnit(kind)
        PROVE  FragInv'
    <2>U. PICK U, V : U = source /\ V = source'
      OBVIOUS
    <2> USE <2>U
    <2>1. V = Append(U, kind) /\ UNCHANGED <<hasVid, given, frag>> /\ GoodSource(U, given, hasVid) /\ GoodFrag(U, given, hasVid, frag)
      BY <1>2 DEF DropUnit, FragInv
    <2>2. U \in Seq(Kinds)
      BY <2>1 DEF GoodSource
    <2>3. LongerBy(U, V, kind)
      BY <2>1, <2>2 DEF LongerBy
    <2>4. GoodSource(V, given, hasVid) /\ GoodFrag(V, given, hasVid, frag)
      <3> HIDE <2>U
      <3>1. GoodSource(V, given, hasVid)
        BY <1>2, <2>1, <2>3, SourceLater
      <3>2. GoodFrag(V, given, hasVid, frag)
        BY <1>2, <2>1, <2>3, NotDue
      <3> QED
        BY <3>1, <3>2
    <2> QED
      BY <2>1, <2>4 DEF FragInv
  <1>3. CASE UNCHANGED muxVars
    BY <1>3 DEF muxVars, FragInv
  <1>4. {"audio"} \subseteq Kinds
    BY DEF Kinds
  <1> QED
    BY <1>1, <1>2, <1>3, <1>4 DEF MuxNext

-----------------------------------------------------------------------------
(* What the invariant says of the fragments.                                *)
LEMMA TrackRow ==
  ASSUME NEW F \in FragmenterRecord, NEW t \in FlvTracks, TrackInARow(F, t), NEW p, NEW all,
         p = [n \in 1..Len(F.frags) |-> F.frags[n][t].dts], all = FlattenSeq(p) \o F.pending[t]
  PROVE  /\ all \in Seq(Nat) /\ Rising(all)
         /\ Range(all) = InFragments(F, t) \cup Waiting(F, t)
PROOF
  <1>l. PICK l, x, y : l = Len(F.frags) /\ x = FlattenSeq(p) /\ y = F.pending[t]
    OBVIOUS
  <1> USE <1>l
  <1>1. l \in Nat /\ y \in Seq(Nat) /\ F.frags \in Seq(Fragment)
    BY DEF FragmenterRecord
  <1>2. \A n \in 1..l : F.frags[n] \in [FlvTracks -> Piece]
    BY <1>1 DEF Fragment
  <1>3. \A n \in 1..l : p[n] = F.frags[n][t].dts /\ p[n] \in Seq(Nat) /\ Range(p[n]) = InFragment(F, n, t)
    BY <1>2 DEF Piece, InFragment
  <1>4. p \in [1..l -> Seq(Nat)]
    BY <1>3
  <1>5. FlatOf(x, p, l)
    BY <1>1, <1>4, Flattened
  <1>6. /\ x \in Seq(Nat) /\ Range(x) = UNION {Range(p[i]) : i \in 1..l}
        /\ (/\ \A i \in 1..l : Rising(p[i])
            /\ \A i, j \in 1..l : i < j => Precedes(Range(p[i]), Range(p[j])))
           => Rising(x)
    BY <1>5, Zenon DEF FlatOf
  <1>7. Range(x) = InFragments(F, t)
    <2>1. InFragments(F, t) = UNION {InFragment(F, n, t) : n \in 1..l}
      BY DEF InFragments
    <2> HIDE <1>l
    <2>2. UNION {Range(p[i]) : i \in 1..l} = UNION {InFragment(F, n, t) : n \in 1..l}
      BY <1>3
    <2> QED
      BY <1>6, <2>1, <2>2
  <1>8. Rising(x)
    BY <1>3, <1>6 DEF TrackInARow
  <1>9. Precedes(Range(x), Range(y)) /\ Rising(y) /\ Range(y) = Waiting(F, t)
    BY <1>7 DEF TrackInARow, Precedes, InFragments, Waiting
  <1> HIDE <1>l
  <1>10. x \o y \in Seq(Nat) /\ Range(x \o y) = Range(x) \cup Range(y) /\ Rising(x \o y)
    BY <1>1, <1>6, <1>8, <1>9, Joined
  <1> USE <1>l
  <1> QED
    BY <1>7, <1>9, <1>10

(* What is in a fragment is in the source, and due.                         *)
LEMMA FragmentFacts ==
  ASSUME FragInv, NEW t \in FlvTracks, NEW n \in 1..Len(frag.frags), frag.frags[n][t].dts # <<>>
  PROVE  /\ frag.frags[n][t].dts[1] \in InFragment(frag, n, t) /\ frag.frags[n][t].dts[1] \in Nat
         /\ frag.first[t] \in Int /\ frag.frags[n][t].base = frag.frags[n][t].dts[1] - frag.first[t]
         /\ frag.frags[n][t].dts[1] \in Due(source, given, t)
PROOF
  <1>1. /\ frag \in FragmenterRecord /\ GoodSource(source, given, hasVid) /\ GoodFrag(source, given, hasVid, frag)
        /\ TrackComplete(source, given, frag, t) /\ TrackCounts(frag, t)
    BY DEF FragInv, GoodFrag
  <1>2. frag.first[t] \in Int
    BY <1>1 DEF FragmenterRecord
  <1>3. frag.frags[n][t].dts[1] \in InFragment(frag, n, t) /\ InFragment(frag, n, t) \subseteq InFragments(frag, t)
    BY <1>1, Beginnings
  <1>4. frag.frags[n][t].dts[1] \in Due(source, given, t)
    BY <1>1, <1>3 DEF TrackComplete
  <1>5. frag.frags[n][t].dts[1] \in Nat
    <2>u. PICK u : u = frag.frags[n][t].dts[1]
      OBVIOUS
    <2> USE <2>u
    <2>1. u \in given
      BY <1>4 DEF Due
    <2>2. given \subseteq 1..Len(source) /\ Len(source) \in Nat
      BY <1>1 DEF GoodSource
    <2>3. u \in Nat
      <3> HIDE <2>u
      <3> QED
        BY <2>1, <2>2
    <2> QED
      BY <2>3
  <1>6. frag.frags[n][t].base = frag.frags[n][t].dts[1] - frag.first[t]
    BY <1>1 DEF TrackCounts
  <1> QED
    BY <1>2, <1>3, <1>4, <1>5, <1>6

LEMMA TrackPlays ==
  ASSUME FragInv, NEW t \in FlvTracks, NEW all,
         all = FlattenSeq([n \in DOMAIN frag.frags |-> frag.frags[n][t].dts]) \o frag.pending[t]
  PROVE  /\ ToSet(all) = Due(source, given, t)
         /\ \A i \in 2..Len(all) : all[i - 1] < all[i]
PROOF
  <1>1. frag \in FragmenterRecord /\ TrackInARow(frag, t) /\ TrackComplete(source, given, frag, t)
    BY DEF FragInv, GoodFrag
  <1>2. DOMAIN frag.frags = 1..Len(frag.frags)
    BY <1>1 DEF FragmenterRecord
  <1>F. PICK F, p : F = frag /\ p = [n \in 1..Len(frag.frags) |-> frag.frags[n][t].dts]
    OBVIOUS
  <1> USE <1>F
  <1>3. p = [n \in 1..Len(F.frags) |-> F.frags[n][t].dts] /\ all = FlattenSeq(p) \o F.pending[t]
    BY <1>2
  <1>4. all \in Seq(Nat) /\ Rising(all) /\ Range(all) = InFragments(F, t) \cup Waiting(F, t)
    <2>1. F \in FragmenterRecord /\ TrackInARow(F, t)
      BY <1>1
    <2> HIDE <1>F
    <2> QED
      BY <1>3, <2>1, TrackRow
  <1>5. ToSet(all) = Range(all)
    BY <1>4 DEF ToSet, Range
  <1>6. Range(all) = Due(source, given, t)
    BY <1>1, <1>4 DEF TrackComplete
  <1>7. \A i \in 2..Len(all) : i - 1 \in 1..Len(all) /\ i \in 1..Len(all) /\ i - 1 < i
    BY <1>4
  <1>8. DOMAIN all = 1..Len(all)
    BY <1>4
  <1>9. \A i \in 2..Len(all) : all[i - 1] < all[i]
    <2> SUFFICES ASSUME NEW i \in 2..Len(all) PROVE all[i - 1] < all[i]
      OBVIOUS
    <2>j. PICK j : j = i - 1
      OBVIOUS
    <2> USE <2>j
    <2>1. j \in DOMAIN all /\ i \in DOMAIN all /\ j < i
      BY <1>7, <1>8
    <2>2. all[j] < all[i]
      <3> HIDE <2>j
      <3> QED
        BY <1>4, <2>1, ZenonT(60) DEF Rising
    <2> QED
      BY <2>2, ZenonT(60)
  <1> QED
    BY <1>5, <1>6, <1>9, ZenonT(60)

LEMMA FragInvPlays == FragInv => FragmentsPlay
PROOF
  <1> SUFFICES ASSUME FragInv PROVE FragmentsPlay
    OBVIOUS
  <1> DEFINE piece(n, t) == frag.frags[n][t]
             played(t)  == {n \in DOMAIN frag.frags : piece(n, t).dts # <<>>}
             all(t)     == FlattenSeq([n \in DOMAIN frag.frags |-> piece(n, t).dts]) \o frag.pending[t]
             usable(u)  == Track(source[u]) = "audio" \/ \E k \in given : k <= u /\ source[k] = "key"
             due(t)     == {u \in given : Track(source[u]) = t /\ usable(u)}
  <1>1. frag \in FragmenterRecord /\ GoodSource(source, given, hasVid)
    BY DEF FragInv, GoodFrag
  <1>2. DOMAIN frag.frags = 1..Len(frag.frags) /\ Len(frag.frags) \in Nat
    BY <1>1 DEF FragmenterRecord
  <1>3. \A t : due(t) = Due(source, given, t)
    BY DEF Due, Playable
  <1>4. ASSUME NEW t \in {"video", "audio"}
        PROVE  ToSet(all(t)) = due(t) /\ \A i \in 2..Len(all(t)) : all(t)[i - 1] < all(t)[i]
    <2>a. PICK a : a = all(t)
      OBVIOUS
    <2> USE <2>a
    <2>1. a = FlattenSeq([n \in DOMAIN frag.frags |-> frag.frags[n][t].dts]) \o frag.pending[t] /\ t \in FlvTracks
      BY DEF FlvTracks
    <2>2. ToSet(a) = Due(source, given, t) /\ \A i \in 2..Len(a) : a[i - 1] < a[i]
      <3> HIDE <2>a
      <3> QED
        BY <2>1, TrackPlays
    <2> QED
      BY <1>3, <2>2
  <1>5. ASSUME NEW t \in {"video", "audio"}, NEW m \in played(t), NEW n \in played(t), m < n
        PROVE  piece(m, t).base < piece(n, t).base
    <2>1. t \in FlvTracks /\ m \in 1..Len(frag.frags) /\ n \in 1..Len(frag.frags) /\ frag.frags[m][t].dts # <<>> /\ frag.frags[n][t].dts # <<>>
      BY <1>2 DEF FlvTracks
    <2> PICK x, y, f : x = frag.frags[m][t].dts[1] /\ y = frag.frags[n][t].dts[1] /\ f = frag.first[t]
      OBVIOUS
    <2>2. /\ x \in InFragment(frag, m, t) /\ y \in InFragment(frag, n, t) /\ x \in Nat /\ y \in Nat /\ f \in Int
          /\ piece(m, t).base = x - f /\ piece(n, t).base = y - f
      BY <2>1, FragmentFacts
    <2>3. x < y
      <3>1. Precedes(InFragment(frag, m, t), InFragment(frag, n, t))
        BY <1>5, <2>1 DEF FragInv, GoodFrag, TrackInARow
      <3> QED
        BY <2>2, <3>1 DEF Precedes
    <2> QED
      BY <2>2, <2>3
  <1>6. ASSUME NEW n \in played("video")
        PROVE  hasVid
    <2>1. "video" \in FlvTracks /\ n \in 1..Len(frag.frags) /\ frag.frags[n]["video"].dts # <<>>
      BY <1>2 DEF FlvTracks
    <2>2. frag.frags[n]["video"].dts[1] \in Due(source, given, "video")
      BY <2>1, FragmentFacts
    <2> PICK u : u = frag.frags[n]["video"].dts[1]
      OBVIOUS
    <2>3. u \in 1..Len(source) /\ Track(source[u]) = "video"
      BY <1>1, <2>2 DEF Due, GoodSource
    <2> QED
      BY <1>1, <2>3 DEF GoodSource, Track
  <1>7. hasVid => GroupsPlay(source, frag)
    BY DEF FragInv, GoodFrag
  <1>8. ASSUME NEW n \in played("video")
        PROVE  source[Head(piece(n, "video").dts)] = "key"
    <2>1. n \in 1..Len(frag.frags) /\ GroupsPlay(source, frag)
      BY <1>2, <1>6, <1>7
    <2>2. Head(piece(n, "video").dts) = frag.frags[n]["video"].dts[1]
      OBVIOUS
    <2> QED
      BY <2>1, <2>2 DEF GroupsPlay
  <1>9. ASSUME NEW m \in played("video"), NEW n \in played("video"), m < n, (m + 1..n - 1) \cap played("video") = {}
        PROVE  piece(n, "video").base = piece(m, "video").base + Total(piece(m, "video").durations)
    <2>1. /\ "video" \in FlvTracks /\ m \in 1..Len(frag.frags) /\ n \in 1..Len(frag.frags)
          /\ frag.frags[m]["video"].dts # <<>> /\ frag.frags[n]["video"].dts # <<>>
      BY <1>2 DEF FlvTracks
    <2>2. GroupsPlay(source, frag)
      BY <1>6, <1>7
    <2>3. 1..Len(frag.frags) \subseteq played("video")
      BY <1>2, <2>2 DEF GroupsPlay
    <2>4. n = m + 1
      <3> HIDE DEF played
      <3> SUFFICES ASSUME n # m + 1 PROVE FALSE
        OBVIOUS
      <3>1. m + 1 \in m + 1..n - 1 /\ m + 1 \in 1..Len(frag.frags)
        BY <1>2, <1>9, <2>1
      <3> QED
        BY <1>9, <2>3, <3>1
    <2>x. PICK x, y, f, d : x = frag.frags[m]["video"].dts[1] /\ y = frag.frags[n]["video"].dts[1] /\ f = frag.first["video"]
                          /\ d = Total(frag.frags[m]["video"].durations)
      OBVIOUS
    <2> USE <2>x
    <2>5. /\ x \in Nat /\ y \in Nat /\ f \in Int
          /\ piece(m, "video").base = x - f /\ piece(n, "video").base = y - f
      BY <2>1, FragmentFacts
    <2>6. NextStart(frag, m) = y
      BY <1>2, <2>1, <2>4 DEF NextStart
    <2>7. d = y - x
      BY <2>1, <2>2, <2>6 DEF GroupsPlay
    <2>8. y - f = (x - f) + d
      <3> HIDE <2>x
      <3>1. y - f = (x - f) + (y - x)
        BY <2>5
      <3> QED
        BY <2>7, <3>1
    <2> QED
      BY <2>5, <2>8
  <1> HIDE DEF played, all, due
  <1>10. /\ \A t \in {"video", "audio"} :
              /\ ToSet(all(t)) = due(t) /\ \A i \in 2..Len(all(t)) : all(t)[i - 1] < all(t)[i]
              /\ \A m, n \in played(t) : m < n => piece(m, t).base < piece(n, t).base
         /\ \A n \in played("video") : source[Head(piece(n, "video").dts)] = "key"
         /\ \A m, n \in played("video") : m < n /\ (m + 1..n - 1) \cap played("video") = {} =>
              piece(n, "video").base = piece(m, "video").base + Total(piece(m, "video").durations)
    BY <1>4, <1>5, <1>8, <1>9, Zenon
  <1> QED
    BY <1>10, Zenon DEF FragmentsPlay, played, all, due

LEMMA FragInvTypes == FragInv => MuxTypeOK
PROOF
  <1> SUFFICES ASSUME FragInv PROVE MuxTypeOK
    OBVIOUS
  <1>1. frag \in FragmenterRecord /\ source \in Seq(Kinds) /\ given \subseteq 1..Len(source)
    BY DEF FragInv, GoodFrag, GoodSource
  <1>2. ASSUME NEW t \in {"video", "audio"}
        PROVE  ToSet(frag.pending[t]) \subseteq given
    <2>1. t \in FlvTracks /\ TrackComplete(source, given, frag, t)
      BY DEF FragInv, GoodFrag, FlvTracks
    <2>2. frag.pending[t] \in Seq(Nat)
      BY <1>1, <2>1 DEF FragmenterRecord
    <2>3. ToSet(frag.pending[t]) = Waiting(frag, t)
      BY <2>2 DEF ToSet, Waiting, Range
    <2> QED
      BY <2>1, <2>3 DEF TrackComplete, Due
  <1> QED
    BY <1>1, <1>2 DEF MuxTypeOK

-----------------------------------------------------------------------------
(* The counter of an archived recording.                                    *)
Counters == [1..IVLen -> 0..Base - 1]

LEMMA CarrySum ==
  ASSUME NEW b \in Nat, NEW q \in Nat, NEW rem \in Nat, NEW c \in Nat, NEW e \in Nat, NEW d \in Nat,
         NEW x, x = q * b + rem, d + rem = c * b + e
  PROVE  q + c \in Nat /\ (q + c) * b + e = d + x
PROOF
  <1>1. (q + c) * b = q * b + c * b
    BY Distributes
  <1> PICK m, n : m = q * b /\ n = c * b
    OBVIOUS
  <1>2. m \in Nat /\ n \in Nat
    OBVIOUS
  <1> QED
    BY <1>1, <1>2

(* The number that the first digits of a counter make.                      *)
ValueOf(v, iv) ==
  /\ v \in [0..IVLen -> Nat] /\ v[0] = 0
  /\ \A n \in 1..IVLen : v[n] = v[n - 1] * Base + iv[n]
  /\ Value(iv) = v[IVLen]

LEMMA Widths == BlockSize \in Nat \ {0} /\ Base \in Nat \ {0} /\ Base > 1 /\ IVLen \in Nat \ {0} /\ PlainSize \in Nat
  BY ArchiveAssumption

LEMMA ValueRuns ==
  ASSUME NEW iv \in Counters
  PROVE  \E v : ValueOf(v, iv)
PROOF
  <1>0. Base \in Nat /\ IVLen \in Nat /\ IVLen \in 0..IVLen
    BY Widths
  <1> PICK s : s = [n \in 1..IVLen |-> [x \in Nat |-> x * Base + iv[n]]]
    OBVIOUS
  <1>1. \A n \in 1..IVLen : iv[n] \in Nat
    BY <1>0 DEF Counters
  <1>2. \A n \in 1..IVLen : s[n] = [x \in Nat |-> x * Base + iv[n]]
    OBVIOUS
  <1>3. \A n \in 1..IVLen, x \in Nat : x * Base + iv[n] \in Nat
    <2>1. \A x \in Nat, d \in Nat, b \in Nat : x * b + d \in Nat
      OBVIOUS
    <2> QED
      BY <1>0, <1>1, <2>1
  <1>4. s \in [1..IVLen -> [Nat -> Nat]]
    BY <1>2, <1>3
  <1>5. 0 \in Nat
    OBVIOUS
  <1> PICK g : Iterates(g, Nat, 0, s, IVLen)
    BY <1>0, <1>4, <1>5, Iterated
  <1> DEFINE Sums(f) == f = [n \in 0..IVLen |-> IF n = 0 THEN 0 ELSE f[n - 1] * Base + iv[n]]
  <1>6. Sums(g)
    <2>1. g \in [0..IVLen -> Nat] /\ g[0] = 0 /\ \A n \in 1..IVLen : g[n] = s[n][g[n - 1]]
      BY DEF Iterates
    <2>2. ASSUME NEW n \in 0..IVLen
          PROVE  g[n] = IF n = 0 THEN 0 ELSE g[n - 1] * Base + iv[n]
      <3>1. CASE n = 0
        BY <2>1, <3>1
      <3>2. CASE n # 0
        <4>1. n \in 1..IVLen /\ n - 1 \in 0..IVLen
          BY <1>0, <3>2
        <4>2. g[n - 1] \in Nat
          BY <2>1, <4>1
        <4> QED
          BY <1>2, <2>1, <3>2, <4>1, <4>2
      <3> QED
        BY <3>1, <3>2
    <2> QED
      BY <2>1, <2>2
  <1> PICK v : v = CHOOSE f : Sums(f)
    OBVIOUS
  <1>7. Sums(v)
    <2> HIDE DEF Sums
    <2> QED
      BY <1>6
  <1>8. Value(iv) = v[IVLen]
    BY Zenon DEF Value
  <1>9. v[0] = 0 /\ \A n \in 1..IVLen : v[n] = v[n - 1] * Base + iv[n]
    <2> PICK h : h = [n \in 0..IVLen |-> IF n = 0 THEN 0 ELSE v[n - 1] * Base + iv[n]]
      OBVIOUS
    <2>1. \A n \in 1..IVLen : n \in 0..IVLen /\ n # 0
      BY <1>0
    <2>20. 0 \in 0..IVLen
      BY <1>0
    <2>2. h[0] = 0 /\ \A n \in 1..IVLen : h[n] = v[n - 1] * Base + iv[n]
      BY <2>1, <2>20
    <2>3. v = h
      BY <1>7
    <2> QED
      BY <2>2, <2>3, Zenon
  <1> DEFINE Known == {n \in 0..IVLen : v[n] \in Nat}
  <1>10. ASSUME NEW n \in 0..IVLen, n \in Known, n < IVLen
         PROVE  n + 1 \in Known
    <2> PICK k : k = n + 1
      OBVIOUS
    <2>1. k \in 1..IVLen /\ k \in 0..IVLen /\ k - 1 = n
      BY <1>0, <1>10
    <2>2. v[k] = v[n] * Base + iv[k] /\ v[n] \in Nat
      BY <1>9, <1>10, <2>1
    <2> QED
      BY <1>3, <2>1, <2>2
  <1>11. 0 \in Known
    BY <1>0, <1>9
  <1>12. 0..IVLen \subseteq Known
    <2> HIDE DEF Known
    <2> QED
      BY <1>0, <1>10, <1>11, CountingUp, Zenon
  <1>13. v \in [0..IVLen -> Nat]
    <2>1. \A n \in 0..IVLen : v[n] \in Nat
      BY <1>12
    <2>2. DOMAIN v = 0..IVLen /\ v = [n \in DOMAIN v |-> v[n]]
      BY <1>7, Zenon
    <2> QED
      BY <2>1, <2>2
  <1>14. ValueOf(v, iv)
    BY <1>8, <1>9, <1>13 DEF ValueOf
  <1> QED
    BY <1>14

(* The addition, digit by digit.                                            *)
Added(w, iv, add) ==
  /\ w \in [0..IVLen -> Nat] /\ w[0] = add
  /\ \A n \in 1..IVLen :
       w[n] = (w[n - 1] \div Base) + ((iv[IVLen + 1 - n] + (w[n - 1] % Base)) \div Base)
  /\ addBE(iv, add) = [i \in 1..IVLen |-> (iv[i] + (w[IVLen - i] % Base)) % Base]

LEMMA Carried ==
  ASSUME NEW x \in Nat, NEW d \in Nat
  PROVE  /\ x \div Base \in Nat /\ x % Base \in Nat /\ x = (x \div Base) * Base + (x % Base)
         /\ (d + (x % Base)) % Base \in 0..Base - 1
         /\ (x \div Base) + ((d + (x % Base)) \div Base) \in Nat
         /\ ((x \div Base) + ((d + (x % Base)) \div Base)) * Base + ((d + (x % Base)) % Base) = d + x
PROOF
  <1>q. PICK q, rem, c, e : q = x \div Base /\ rem = x % Base /\ c = (d + rem) \div Base /\ e = (d + rem) % Base
    OBVIOUS
  <1> USE <1>q
  <1>1. q \in Nat /\ rem \in 0..Base - 1 /\ x = q * Base + rem
    BY Widths, DivMod
  <1>2. rem \in Nat /\ d + rem \in Nat
    BY <1>1, Widths
  <1>3. c \in Nat /\ e \in 0..Base - 1 /\ d + rem = c * Base + e
    BY <1>2, Widths, DivMod
  <1>4. q + c \in Nat /\ (q + c) * Base + e = d + x
    <2>1. Base \in Nat /\ e \in Nat
      BY <1>3, Widths
    <2> HIDE <1>q
    <2> QED
      BY <1>1, <1>2, <1>3, <2>1, CarrySum
  <1> QED
    BY <1>1, <1>2, <1>3, <1>4

LEMMA AdditionRuns ==
  ASSUME NEW iv \in Counters, NEW add \in Nat
  PROVE  \E w : Added(w, iv, add)
PROOF
  <1>0. Base \in Nat /\ IVLen \in Nat /\ IVLen \in 0..IVLen
    BY Widths
  <1> DEFINE Rest(n, x) == (x \div Base) + ((iv[IVLen + 1 - n] + (x % Base)) \div Base)
  <1> PICK s : s = [n \in 1..IVLen |-> [x \in Nat |-> Rest(n, x)]]
    OBVIOUS
  <1>1. \A n \in 1..IVLen : iv[IVLen + 1 - n] \in Nat
    BY <1>0 DEF Counters
  <1>2. \A n \in 1..IVLen : s[n] = [x \in Nat |-> Rest(n, x)]
    OBVIOUS
  <1>3. \A n \in 1..IVLen, x \in Nat : Rest(n, x) \in Nat
    BY <1>1, Carried
  <1> HIDE DEF Rest
  <1>4. s \in [1..IVLen -> [Nat -> Nat]]
    BY <1>2, <1>3
  <1> PICK g : Iterates(g, Nat, add, s, IVLen)
    BY <1>0, <1>4, Iterated
  <1> DEFINE Sums(f) == f = [n \in 0..IVLen |->
                               IF n = 0 THEN add
                               ELSE (f[n - 1] \div Base) + ((iv[IVLen + 1 - n] + (f[n - 1] % Base)) \div Base)]
  <1>5. \A f : Sums(f) <=> f = [n \in 0..IVLen |-> IF n = 0 THEN add ELSE Rest(n, f[n - 1])]
    BY Zenon DEF Rest
  <1>6. Sums(g)
    <2>1. g \in [0..IVLen -> Nat] /\ g[0] = add /\ \A n \in 1..IVLen : g[n] = s[n][g[n - 1]]
      BY DEF Iterates
    <2>2. ASSUME NEW n \in 0..IVLen
          PROVE  g[n] = IF n = 0 THEN add ELSE Rest(n, g[n - 1])
      <3>1. CASE n = 0
        BY <2>1, <3>1
      <3>2. CASE n # 0
        <4>1. n \in 1..IVLen /\ n - 1 \in 0..IVLen
          BY <1>0, <3>2
        <4>2. g[n - 1] \in Nat
          BY <2>1, <4>1
        <4>3. s[n][g[n - 1]] = Rest(n, g[n - 1])
          BY <1>2, <4>1, <4>2
        <4> QED
          BY <2>1, <3>2, <4>1, <4>3
      <3> QED
        BY <3>1, <3>2
    <2>3. g = [n \in 0..IVLen |-> IF n = 0 THEN add ELSE Rest(n, g[n - 1])]
      BY <2>1, <2>2
    <2> HIDE DEF Sums
    <2> QED
      BY <1>5, <2>3
  <1> PICK w : w = CHOOSE f : Sums(f)
    OBVIOUS
  <1>7. Sums(w)
    <2> HIDE DEF Sums
    <2> QED
      BY <1>6
  <1> DEFINE Out(f) == [i \in 1..IVLen |-> (iv[i] + (f[IVLen - i] % Base)) % Base]
  <1>8. addBE(iv, add) = Out(w)
    <2>1. addBE(iv, add) = Out(CHOOSE f : Sums(f))
      BY Zenon DEF addBE
    <2> HIDE DEF Out
    <2> QED
      BY <2>1
  <1>9. w[0] = add /\ \A n \in 1..IVLen : w[n] = Rest(n, w[n - 1])
    <2> PICK h : h = [n \in 0..IVLen |-> IF n = 0 THEN add ELSE Rest(n, w[n - 1])]
      OBVIOUS
    <2>1. \A n \in 1..IVLen : n \in 0..IVLen /\ n # 0
      BY <1>0
    <2>2. h[0] = add /\ \A n \in 1..IVLen : h[n] = Rest(n, w[n - 1])
      BY <1>0, <2>1
    <2> HIDE DEF Sums
    <2>3. w = h
      BY <1>5, <1>7
    <2> QED
      BY <2>2, <2>3, Zenon
  <1> DEFINE Known == {n \in 0..IVLen : w[n] \in Nat}
  <1>10. ASSUME NEW n \in 0..IVLen, n \in Known, n < IVLen
         PROVE  n + 1 \in Known
    <2> PICK k : k = n + 1
      OBVIOUS
    <2>1. k \in 1..IVLen /\ k \in 0..IVLen /\ k - 1 = n
      BY <1>0, <1>10
    <2>2. w[k] = Rest(k, w[n]) /\ w[n] \in Nat
      BY <1>9, <1>10, <2>1
    <2> QED
      BY <1>3, <2>1, <2>2
  <1>11. 0 \in Known
    BY <1>0, <1>9
  <1>12. 0..IVLen \subseteq Known
    <2> HIDE DEF Known
    <2> QED
      BY <1>0, <1>10, <1>11, CountingUp, Zenon
  <1>13. w \in [0..IVLen -> Nat]
    <2>1. \A n \in 0..IVLen : w[n] \in Nat
      BY <1>12
    <2> HIDE DEF Sums
    <2>2. w = [n \in 0..IVLen |-> IF n = 0 THEN add ELSE Rest(n, w[n - 1])]
      BY <1>5, <1>7
    <2>3. DOMAIN w = 0..IVLen /\ w = [n \in DOMAIN w |-> w[n]]
      BY <2>2, Zenon
    <2> QED
      BY <2>1, <2>3
  <1>14. Added(w, iv, add)
    BY <1>8, <1>9, <1>13 DEF Added, Rest
  <1> QED
    BY <1>14

(* A turn of the first n digits.                                            *)
LEMMA OneTurn ==
  ASSUME NEW b \in Nat, b = Base
  PROVE  \E T : /\ T \in [0..IVLen -> Nat \ {0}] /\ T[0] = 1 /\ T[IVLen] = Turn
                /\ \A n \in 1..IVLen : T[n] = T[n - 1] * b
PROOF
  <1>0. Base \in Nat /\ Base > 1 /\ IVLen \in Nat /\ IVLen \in 0..IVLen
    BY Widths
  <1> PICK iv : iv = [i \in 1..IVLen |-> Base - 1]
    OBVIOUS
  <1>1. iv \in Counters /\ \A n \in 1..IVLen : iv[n] = Base - 1
    BY <1>0 DEF Counters
  <1> PICK v : ValueOf(v, iv)
    BY <1>1, ValueRuns
  <1>2. v \in [0..IVLen -> Nat] /\ v[0] = 0 /\ \A n \in 1..IVLen : v[n] = v[n - 1] * Base + iv[n]
    BY DEF ValueOf
  <1> PICK T : T = [n \in 0..IVLen |-> v[n] + 1]
    OBVIOUS
  <1>3. T \in [0..IVLen -> Nat \ {0}] /\ T[0] = 1
    BY <1>0, <1>2
  <1>4. T[IVLen] = Turn
    BY <1>0, Zenon DEF ValueOf, Turn
  <1>5. ASSUME NEW n \in 1..IVLen
        PROVE  T[n] = T[n - 1] * b
    <2>1. n \in 0..IVLen /\ n - 1 \in 0..IVLen
      BY <1>0
    <2> PICK x : x = v[n - 1]
      OBVIOUS
    <2>2. x \in Nat /\ v[n] = x * b + (b - 1)
      BY <1>1, <1>2, <2>1
    <2>3. T[n] = x * b + b
      <3>1. T[n] = v[n] + 1
        BY <2>1
      <3>y. PICK y : y = x * b
        OBVIOUS
      <3>2. y \in Nat
        BY <2>2, <3>y
      <3>4. v[n] = y + (b - 1)
        BY <2>2, <3>y, Zenon
      <3>3. T[n] = y + b
        BY <3>1, <3>2, <3>4
      <3> QED
        BY <3>y, <3>3, Zenon
    <2>4. T[n - 1] = x + 1
      BY <2>1
    <2>5. (x + 1) * b = x * b + b
      BY <2>2
    <2> QED
      BY <2>3, <2>4, <2>5
  <1> QED
    BY <1>3, <1>4, <1>5

LEMMA RemainderIs ==
  ASSUME NEW t \in Nat \ {0}, NEW k \in Nat, NEW rem \in Nat, rem < t
  PROVE  (k * t + rem) % t = rem /\ (k * t + rem) \div t = k
PROOF
  <1> PICK x : x = k * t + rem
    OBVIOUS
  <1>1. k * t \in Nat
    OBVIOUS
  <1>2. x \in Nat
    BY <1>1
  <1>q. PICK q, s : q = x \div t /\ s = x % t
    OBVIOUS
  <1> USE <1>q
  <1>3. q \in Nat /\ s \in 0..t - 1 /\ x = q * t + s
    BY <1>2, DivMod
  <1> HIDE <1>q
  <1>4. ~ (q >= k + 1)
    <2>1. q >= k + 1 => q * t >= (k + 1) * t
      BY <1>3
    <2>2. (k + 1) * t = k * t + t
      OBVIOUS
    <2> QED
      BY <1>1, <1>3, <2>1, <2>2
  <1>5. ~ (k >= q + 1)
    <2>1. k >= q + 1 => k * t >= (q + 1) * t
      BY <1>3
    <2>2. (q + 1) * t = q * t + t
      BY <1>3
    <2>3. q * t \in Nat
      BY <1>3
    <2> QED
      BY <1>1, <1>3, <2>1, <2>2, <2>3
  <1>6. q = k
    BY <1>3, <1>4, <1>5
  <1>7. s = rem
    BY <1>1, <1>3, <1>6
  <1> USE <1>q
  <1> QED
    BY <1>6, <1>7

LEMMA ModSum ==
  ASSUME NEW t \in Nat \ {0}, NEW a \in Nat, NEW y \in Nat
  PROVE  ((a % t) + y) % t = (a + y) % t
PROOF
  <1>k. PICK k, rem : k = a \div t /\ rem = a % t
    OBVIOUS
  <1> USE <1>k
  <1>1. k \in Nat /\ rem \in 0..t - 1 /\ a = k * t + rem
    BY DivMod
  <1>j. PICK j, s : j = (rem + y) \div t /\ s = (rem + y) % t
    OBVIOUS
  <1> USE <1>j
  <1>2. rem + y \in Nat
    BY <1>1
  <1>3. j \in Nat /\ s \in 0..t - 1 /\ rem + y = j * t + s
    BY <1>2, DivMod
  <1>4. k + j \in Nat /\ a + y = (k + j) * t + s
    <2>1. s \in Nat /\ rem \in Nat
      BY <1>1, <1>3
    <2> HIDE <1>k, <1>j
    <2>2. k + j \in Nat /\ (k + j) * t + s = y + a
      <3>1. y + rem = j * t + s
        BY <1>3, <2>1
      <3> QED
        BY <1>1, <1>3, <2>1, <3>1, CarrySum
    <2> QED
      BY <2>2
  <1>5. (a + y) % t = s
    <2> HIDE <1>k, <1>j
    <2>1. s \in Nat /\ s < t
      BY <1>3
    <2>2. ((k + j) * t + s) % t = s
      BY <1>4, <2>1, RemainderIs
    <2> QED
      BY <1>4, <2>2
  <1> QED
    BY <1>5

(* A reader that jumped to p is at j: it is as far in its block as it would *)
(* be had it read on from the start.                                        *)
LEMMA BlocksSkipped ==
  ASSUME NEW b \in Nat \ {0}, NEW p \in Nat, NEW j \in Nat, p <= j
  PROVE  /\ p \div b \in Nat /\ (p % b) + (j - p) \in Nat
         /\ ((p % b) + (j - p)) \div b \in Nat
         /\ j \div b = p \div b + (((p % b) + (j - p)) \div b)
         /\ j % b = ((p % b) + (j - p)) % b
PROOF
  <1>q. PICK q, rem : q = p \div b /\ rem = p % b
    OBVIOUS
  <1> USE <1>q
  <1>1. q \in Nat /\ rem \in 0..b - 1 /\ p = q * b + rem
    BY DivMod
  <1>y. PICK y : y = rem + (j - p)
    OBVIOUS
  <1> USE <1>y
  <1>2. y \in Nat
    BY <1>1
  <1>k. PICK k, s : k = y \div b /\ s = y % b
    OBVIOUS
  <1> USE <1>k
  <1>3. k \in Nat /\ s \in 0..b - 1 /\ y = k * b + s
    BY <1>2, DivMod
  <1>4. q + k \in Nat /\ j = (q + k) * b + s
    <2>1. s \in Nat /\ rem \in Nat /\ j - p \in Nat /\ (j - p) + rem = k * b + s
      BY <1>1, <1>3
    <2>2. q + k \in Nat /\ (q + k) * b + s = (j - p) + p
      <3> HIDE <1>q, <1>k, <1>y
      <3> QED
        BY <1>1, <1>3, <2>1, CarrySum
    <2> QED
      BY <2>2
  <1>5. j \div b = q + k /\ j % b = s
    <2> HIDE <1>q, <1>k, <1>y
    <2>1. s \in Nat /\ s < b
      BY <1>3
    <2>2. ((q + k) * b + s) % b = s /\ ((q + k) * b + s) \div b = q + k
      BY <1>4, <2>1, RemainderIs
    <2> QED
      BY <1>4, <2>2
  <1> QED
    BY <1>1, <1>2, <1>3, <1>5

(* Counted on to a digit: what the digits up to there make, and what they   *)
(* made and have still to come to.                                          *)
OnTheWay(x, t, z, y, u)  == x + t * z = y + u
OneDigit(u, b, e, d, w) == u * b + e = d + w

(* One digit more.                                                          *)
LEMMA DigitCarries ==
  ASSUME NEW b \in Nat, NEW t \in Nat, NEW z \in Nat, NEW x \in Nat, NEW y \in Nat, NEW u \in Nat,
         NEW d \in Nat, NEW e \in Nat, NEW w \in Nat,
         OnTheWay(x, t, z, y, u), OneDigit(u, b, e, d, w)
  PROVE  OnTheWay(x * b + e, t * b, z, y * b + d, w)
PROOF
  <1>0. x + t * z = y + u /\ u * b + e = d + w
    BY DEF OnTheWay, OneDigit
  <1>1. (x + t * z) * b = (y + u) * b
    BY <1>0
  <1>2. t * z \in Nat
    OBVIOUS
  <1>3. (x + t * z) * b = x * b + (t * z) * b /\ (y + u) * b = y * b + u * b
    BY <1>2, Distributes
  <1>4. (t * z) * b = (t * b) * z
    OBVIOUS
  <1>5. x * b \in Nat /\ y * b \in Nat /\ u * b \in Nat /\ (t * b) * z \in Nat
    OBVIOUS
  <1> QED
    BY <1>0, <1>1, <1>3, <1>4, <1>5 DEF OnTheWay

LEMMA DigitFits ==
  ASSUME NEW b \in Nat, NEW t \in Nat, NEW x \in Nat, x < t, NEW e \in 0..b - 1
  PROVE  x * b + e < t * b
PROOF
  <1>1. (x + 1) * b <= t * b
    OBVIOUS
  <1>2. (x + 1) * b = x * b + b
    OBVIOUS
  <1>3. x * b \in Nat
    OBVIOUS
  <1>4. t * b \in Nat
    OBVIOUS
  <1> QED
    BY <1>1, <1>2, <1>3, <1>4

(* The counter counts on, and wraps after the highest one.                  *)
LEMMA CountsOn ==
  ASSUME NEW iv \in Counters, NEW add \in Nat
  PROVE  /\ addBE(iv, add) \in Counters
         /\ Turn \in Nat \ {0} /\ Value(iv) \in Nat
         /\ Value(addBE(iv, add)) = (Value(iv) + add) % Turn
PROOF
  <1>0. Base \in Nat /\ IVLen \in Nat /\ IVLen \in 0..IVLen /\ 0 \in 0..IVLen
    BY Widths
  <1> PICK w : Added(w, iv, add)
    BY AdditionRuns
  <1>1. /\ w \in [0..IVLen -> Nat] /\ w[0] = add
        /\ \A n \in 1..IVLen : w[n] = (w[n - 1] \div Base) + ((iv[IVLen + 1 - n] + (w[n - 1] % Base)) \div Base)
    BY DEF Added
  <1> PICK out : out = addBE(iv, add)
    OBVIOUS
  <1>2. out = [i \in 1..IVLen |-> (iv[i] + (w[IVLen - i] % Base)) % Base]
    BY DEF Added
  <1>3. \A i \in 1..IVLen : out[i] = (iv[i] + (w[IVLen - i] % Base)) % Base
    BY <1>2
  <1>4. \A i \in 1..IVLen : iv[i] \in Nat
    BY <1>0 DEF Counters
  (* The digit i with what has come so far.                                 *)
  <1>5. ASSUME NEW i \in 1..IVLen
        PROVE  /\ out[i] \in 0..Base - 1 /\ w[IVLen - i] \in Nat /\ w[IVLen - i + 1] \in Nat
               /\ w[IVLen - i + 1] * Base + out[i] = iv[i] + w[IVLen - i]
    <2> PICK n : n = IVLen - i + 1
      OBVIOUS
    <2>1. n \in 1..IVLen /\ n - 1 = IVLen - i /\ IVLen + 1 - n = i /\ n - 1 \in 0..IVLen
      BY <1>0
    <2>x. PICK x, d : x = w[IVLen - i] /\ d = iv[i]
      OBVIOUS
    <2> USE <2>x
    <2>2. x \in Nat /\ d \in Nat
      BY <1>1, <1>4, <2>1
    <2>3. w[n] = (x \div Base) + ((d + (x % Base)) \div Base)
      BY <1>1, <2>1
    <2>4. out[i] = (d + (x % Base)) % Base
      BY <1>3
    <2>5. /\ out[i] \in 0..Base - 1 /\ w[n] \in Nat
          /\ w[n] * Base + out[i] = d + x
      <3> HIDE <2>x
      <3>1. /\ (d + (x % Base)) % Base \in 0..Base - 1
            /\ (x \div Base) + ((d + (x % Base)) \div Base) \in Nat
            /\ ((x \div Base) + ((d + (x % Base)) \div Base)) * Base + ((d + (x % Base)) % Base) = d + x
        BY <2>2, Carried
      <3> QED
        BY <2>3, <2>4, <3>1
    <2> QED
      BY <2>2, <2>5
  <1>6. out \in Counters
    BY <1>2, <1>5 DEF Counters
  <1> PICK v : ValueOf(v, iv)
    BY ValueRuns
  <1> PICK o : ValueOf(o, out)
    BY <1>6, ValueRuns
  <1> PICK T : /\ T \in [0..IVLen -> Nat \ {0}] /\ T[0] = 1 /\ T[IVLen] = Turn
               /\ \A n \in 1..IVLen : T[n] = T[n - 1] * Base
    BY <1>0, OneTurn
  <1>z. PICK z : z = w[IVLen]
    OBVIOUS
  <1> USE <1>z
  <1>7. z \in Nat
    BY <1>0, <1>1
  <1>8. /\ v \in [0..IVLen -> Nat] /\ v[0] = 0 /\ \A n \in 1..IVLen : v[n] = v[n - 1] * Base + iv[n]
        /\ o \in [0..IVLen -> Nat] /\ o[0] = 0 /\ \A n \in 1..IVLen : o[n] = o[n - 1] * Base + out[n]
        /\ Value(iv) = v[IVLen] /\ Value(out) = o[IVLen]
    BY DEF ValueOf
  <1> DEFINE Done == {n \in 0..IVLen : o[n] + T[n] * z = v[n] + w[IVLen - n] /\ o[n] < T[n]}
  <1>9. 0 \in Done
    <2>1. 1 * z = z
      BY <1>7
    <2> QED
      BY <1>0, <1>7, <1>8, <2>1
  <1>10. ASSUME NEW n \in 0..IVLen, n \in Done, n < IVLen
         PROVE  n + 1 \in Done
    <2> PICK k : k = n + 1
      OBVIOUS
    <2>1. k \in 1..IVLen /\ k \in 0..IVLen /\ k - 1 = n /\ IVLen - k + 1 = IVLen - n
      BY <1>0, <1>10
    <2>x. PICK x, y, t, u, d, e, c :
          x = o[n] /\ y = v[n] /\ t = T[n] /\ u = w[IVLen - n] /\ d = iv[k] /\ e = out[k] /\ c = w[IVLen - k]
      OBVIOUS
    <2> USE <2>x
    <2>2. x + t * z = y + u /\ x < t
      BY <1>10
    <2>3. u * Base + e = d + c /\ e \in 0..Base - 1 /\ e \in Nat /\ c \in Nat /\ u \in Nat
      <3>1. /\ out[k] \in 0..Base - 1 /\ w[IVLen - k] \in Nat /\ w[IVLen - k + 1] \in Nat
            /\ w[IVLen - k + 1] * Base + out[k] = iv[k] + w[IVLen - k]
        BY <1>5, <2>1
      <3>2. e \in Nat
        BY <1>0, <3>1
      <3> QED
        BY <2>1, <3>1, <3>2
    <2>4. x \in Nat /\ y \in Nat /\ t \in Nat /\ d \in Nat
      BY <1>4, <1>8, <2>1
    <2>5. o[k] = x * Base + e /\ v[k] = y * Base + d /\ T[k] = t * Base
      BY <1>8, <2>1
    <2>6. (x * Base + e) + (t * Base) * z = (y * Base + d) + c
      <3> HIDE <2>x
      <3> QED
        <4>1. OnTheWay(x, t, z, y, u) /\ OneDigit(u, Base, e, d, c)
          BY <2>2, <2>3 DEF OnTheWay, OneDigit
        <4>2. OnTheWay(x * Base + e, t * Base, z, y * Base + d, c)
          BY <1>0, <1>7, <2>3, <2>4, <4>1, DigitCarries
        <4> QED
          BY <4>2, Zenon DEF OnTheWay
    <2>7. x * Base + e < t * Base
      <3> HIDE <2>x
      <3> QED
        BY <1>0, <2>2, <2>3, <2>4, DigitFits
    <2>8. o[k] + T[k] * z = v[k] + w[IVLen - k] /\ o[k] < T[k]
      BY <2>5, <2>6, <2>7
    <2> QED
      BY <2>1, <2>8
  <1>11. 0..IVLen \subseteq Done
    <2> HIDE DEF Done
    <2> QED
      BY <1>0, <1>9, <1>10, CountingUp, Zenon
  <1>12. IVLen \in Done /\ IVLen - IVLen = 0
    BY <1>0, <1>11
  <1>13. o[IVLen] + T[IVLen] * z = v[IVLen] + add /\ o[IVLen] < T[IVLen]
    BY <1>1, <1>12
  <1>t. PICK t, rem, a : t = T[IVLen] /\ rem = o[IVLen] /\ a = v[IVLen]
    OBVIOUS
  <1> USE <1>t
  <1>14. t \in Nat \ {0} /\ rem \in Nat /\ a \in Nat
    BY <1>0, <1>8
  <1>15. (a + add) % t = rem
    <2>1. rem + t * z = a + add /\ rem < t
      BY <1>13
    <2>2. t * z = z * t /\ z * t \in Nat
      BY <1>7, <1>14
    <2>3. z * t + rem = a + add
      BY <1>14, <2>1, <2>2
    <2>4. (z * t + rem) % t = rem
      <3> HIDE <1>t, <1>z
      <3> QED
        BY <1>7, <1>14, <2>1, RemainderIs
    <2> QED
      BY <2>3, <2>4
  <1> QED
    BY <1>6, <1>8, <1>14, <1>15

(* So a reader that jumped to p, and is at j, uses the mask of j.           *)
LEMMA MaskAgrees ==
  ASSUME NEW iv \in Counters, NEW p \in Nat, NEW j \in Nat, p <= j
  PROVE  Mask(addBE(iv, p \div BlockSize), (p % BlockSize) + (j - p)) = Mask(iv, j)
PROOF
  <1> PICK q, y, from : q = p \div BlockSize /\ y = (p % BlockSize) + (j - p) /\ from = addBE(iv, q)
    OBVIOUS
  <1>1. q \in Nat /\ y \in Nat /\ y \div BlockSize \in Nat /\ j \div BlockSize = q + (y \div BlockSize) /\ j % BlockSize = y % BlockSize
    BY Widths, BlocksSkipped
  <1>2. Turn \in Nat \ {0} /\ Value(iv) \in Nat /\ Value(from) = (Value(iv) + q) % Turn
    BY <1>1, CountsOn
  <1>v. PICK v, k : v = Value(iv) /\ k = y \div BlockSize
    OBVIOUS
  <1> USE <1>v
  <1>3. v + q \in Nat /\ k \in Nat /\ (v + q) + k = v + (q + k)
    BY <1>1, <1>2
  <1>4. (((v + q) % Turn) + k) % Turn = ((v + q) + k) % Turn
    <2> HIDE <1>v
    <2> QED
      BY <1>2, <1>3, ModSum
  <1>5. (Value(from) + (y \div BlockSize)) % Turn = (Value(iv) + (j \div BlockSize)) % Turn
    BY <1>1, <1>2, <1>3, <1>4
  <1> QED
    BY <1>1, <1>5 DEF Mask

-----------------------------------------------------------------------------
(* The archive.                                                             *)
S3Settings == [enabled : BOOLEAN, pass : Phrases \cup {NoPhrase}, salt : Nat]
Request == [at : {"idle", "save"}, was : S3Settings, now : S3Settings]

(* The player's position, wherever it is.                                   *)
IsReader(d) ==
  d = [pos |-> d.pos, aligned |-> d.aligned, src |-> d.src, from |-> d.from, used |-> d.used, iv |-> d.iv]

ArchiveTyping ==
  /\ s3 \in S3Settings /\ saver \in [Savers -> Request] /\ salts \in Nat
  /\ IsReader(reader)
  /\ reader # Shut => reader.pos \in 0..PlainSize

(* Salts in use were minted.                                                *)
SaltsMinted ==
  /\ s3.salt <= salts /\ (s3.enabled => s3.salt # NoSalt)
  /\ \A w \in Savers : saver[w].now.salt <= salts

(* Unless saves overlapped, one request is under way, and it keeps the salt *)
(* that is stored.                                                          *)
OneSaves ==
  ~spoiled => /\ \A q, w \in Savers : saver[q].at = "save" /\ saver[w].at = "save" => q = w
              /\ \A w \in Savers : saver[w].at = "save" => saver[w].now.salt = s3.salt

(* A reader that is aligned jumped to some place before its own, and read   *)
(* on from there.                                                           *)
Aligned(d, p) ==
  /\ p \in Nat /\ p <= d.pos /\ d.src = d.pos
  /\ d.from = addBE(d.iv, p \div BlockSize) /\ d.used = (p % BlockSize) + (d.pos - p)

ReaderPlaced ==
  /\ reader = Shut => got = <<>>
  /\ reader # Shut => reader.iv \in Counters
  /\ reader # Shut /\ reader.aligned => \E p : Aligned(reader, p)
  /\ BytesRead

ArchiveInv == ArchiveTyping /\ SaltsMinted /\ OneSaves /\ SaltStays /\ ReaderPlaced

LEMMA PlacedStays == ASSUME ReaderPlaced, UNCHANGED <<reader, got>> PROVE ReaderPlaced'
  BY DEF ReaderPlaced, BytesRead

LEMMA IdleIsRequest == Idle \in Request /\ Idle.now.salt = NoSalt /\ Idle.at = "idle" /\ Idle.was \in S3Settings /\ Idle.was.salt = NoSalt
  BY DEF Idle, Request, S3Settings, NoSalt

LEMMA ArchiveInitInv == ArchiveInit => ArchiveInv
<1> SUFFICES ASSUME ArchiveInit PROVE ArchiveInv
  OBVIOUS
<1>1. s3 \in S3Settings /\ s3.salt = NoSalt /\ ~s3.enabled
  BY DEF ArchiveInit, S3Settings, NoSalt
<1>2. \A w \in Savers : saver[w] = Idle
  BY DEF ArchiveInit
<1>3. saver \in [Savers -> Request] /\ salts = 0
  BY IdleIsRequest DEF ArchiveInit
<1>4. IsReader(reader) /\ reader = Shut
  BY DEF ArchiveInit, Shut, IsReader
<1>5. object.salt = NoSalt
  BY DEF ArchiveInit, NoObject
<1>6. ReaderPlaced
  <2>1. got = <<>> /\ DOMAIN got = {}
    BY DEF ArchiveInit
  <2> QED
    BY <1>4, <2>1 DEF ReaderPlaced, BytesRead
<1> QED
  BY <1>1, <1>2, <1>3, <1>4, <1>5, <1>6, IdleIsRequest DEF ArchiveInv, ArchiveTyping, SaltsMinted, OneSaves, SaltStays, NoSalt

LEMMA ReadS3Keeps == ASSUME ArchiveInv, NEW w \in Savers, ReadS3(w) PROVE ArchiveInv'
<1>1. PICK was \in {s3, Idle.was}, enabled \in BOOLEAN, pass \in Phrases \cup {NoPhrase} :
        /\ saver' = [saver EXCEPT ![w] = [at |-> "save", was |-> was,
             now |-> [enabled |-> enabled, pass |-> IF pass = NoPhrase THEN was.pass ELSE pass, salt |-> was.salt]]]
        /\ spoiled' = (spoiled \/ was # s3 \/ \E q \in Savers : saver[q].at # "idle")
  BY DEF ReadS3
<1> PICK q : q = [at |-> "save", was |-> was,
             now |-> [enabled |-> enabled, pass |-> IF pass = NoPhrase THEN was.pass ELSE pass, salt |-> was.salt]]
  OBVIOUS
<1>2. UNCHANGED <<s3, salts, object, reader, got>> /\ salts \in Nat /\ s3 \in S3Settings /\ saver \in [Savers -> Request]
  BY DEF ReadS3, ArchiveInv, ArchiveTyping
<1>3. was \in S3Settings /\ was.salt <= salts
  BY <1>2, IdleIsRequest DEF ArchiveInv, SaltsMinted, NoSalt
<1>4. q \in Request /\ q.at = "save" /\ q.now.salt = was.salt
  <2>1. was.pass \in Phrases \cup {NoPhrase} /\ was.salt \in Nat
    BY <1>3 DEF S3Settings
  <2> PICK mine : mine = [enabled |-> enabled, pass |-> IF pass = NoPhrase THEN was.pass ELSE pass, salt |-> was.salt]
    OBVIOUS
  <2>2. mine \in S3Settings /\ mine.salt = was.salt
    BY <2>1 DEF S3Settings
  <2>3. q = [at |-> "save", was |-> was, now |-> mine]
    OBVIOUS
  <2> QED
    BY <1>3, <2>2, <2>3 DEF Request
<1>5. saver' \in [Savers -> Request] /\ \A p \in Savers : saver'[p] = IF p = w THEN q ELSE saver[p]
  BY <1>1, <1>2, <1>4
<1>6. ArchiveTyping'
  BY <1>2, <1>5 DEF ArchiveInv, ArchiveTyping
<1>7. SaltsMinted'
  BY <1>2, <1>3, <1>4, <1>5 DEF ArchiveInv, SaltsMinted
<1>8. OneSaves'
  BY <1>1, <1>2, <1>4, <1>5 DEF OneSaves
<1>9. ReaderPlaced'
  BY <1>2, PlacedStays DEF ReadS3, ArchiveInv
<1> QED
  BY <1>1, <1>2, <1>6, <1>7, <1>8, <1>9 DEF ArchiveInv, SaltStays

LEMMA SaveFailsKeeps == ASSUME ArchiveInv, NEW w \in Savers, SaveFails(w) PROVE ArchiveInv'
<1>1. saver' = [saver EXCEPT ![w] = Idle] /\ UNCHANGED <<s3, salts, object, reader, spoiled>>
  BY DEF SaveFails
<1>2. saver \in [Savers -> Request] /\ salts \in Nat
  BY DEF ArchiveInv, ArchiveTyping
<1>3. saver' \in [Savers -> Request] /\ \A p \in Savers : saver'[p] = IF p = w THEN Idle ELSE saver[p]
  BY <1>1, <1>2, IdleIsRequest
<1>4. SaltsMinted'
  BY <1>1, <1>2, <1>3, IdleIsRequest DEF ArchiveInv, SaltsMinted, NoSalt
<1>5. OneSaves'
  BY <1>1, <1>3, IdleIsRequest DEF ArchiveInv, OneSaves
<1>6. ReaderPlaced'
  BY PlacedStays DEF SaveFails, ArchiveInv
<1> QED
  BY <1>1, <1>3, <1>4, <1>5, <1>6 DEF ArchiveInv, ArchiveTyping, SaltStays

LEMMA SaveS3Keeps == ASSUME ArchiveInv, NEW w \in Savers, SaveS3(w) PROVE ArchiveInv'
<1> PICK mine, mints : mine = saver[w].now /\ mints = (mine.enabled /\ mine.salt = NoSalt)
  OBVIOUS
<1>1. /\ saver[w].at = "save"
      /\ s3' = IF mints THEN [mine EXCEPT !.salt = salts + 1] ELSE mine
      /\ salts' = IF mints THEN salts + 1 ELSE salts
      /\ saver' = [saver EXCEPT ![w] = Idle] /\ UNCHANGED <<object, reader, spoiled>>
  BY DEF SaveS3
<1>2. saver \in [Savers -> Request] /\ salts \in Nat /\ saver[w] \in Request
  BY DEF ArchiveInv, ArchiveTyping
<1>3. mine \in S3Settings /\ mine.salt <= salts /\ mine.salt \in Nat
  <2>1. mine \in S3Settings
    BY <1>2 DEF Request
  <2> QED
    BY <2>1 DEF ArchiveInv, SaltsMinted, S3Settings
<1>4. saver' \in [Savers -> Request] /\ \A p \in Savers : saver'[p] = IF p = w THEN Idle ELSE saver[p]
  BY <1>1, <1>2, IdleIsRequest
<1>5. /\ s3' \in S3Settings /\ salts' \in Nat /\ salts <= salts'
      /\ s3'.salt = IF mints THEN salts + 1 ELSE mine.salt
      /\ s3'.enabled = mine.enabled
  <2> PICK new : new = [mine EXCEPT !.salt = salts + 1]
    OBVIOUS
  <2>1. new \in S3Settings /\ new.salt = salts + 1 /\ new.enabled = mine.enabled
    BY <1>2, <1>3 DEF S3Settings
  <2> QED
    BY <1>1, <1>2, <1>3, <2>1
<1>6. ArchiveTyping'
  BY <1>1, <1>4, <1>5 DEF ArchiveInv, ArchiveTyping
<1>7. SaltsMinted'
  <2>1. s3'.salt <= salts' /\ (s3'.enabled => s3'.salt # NoSalt)
    <3>1. CASE mints
      BY <1>1, <1>2, <1>5, <3>1 DEF NoSalt
    <3>2. CASE ~mints
      <4>1. mine.enabled => mine.salt # NoSalt
        BY <3>2
      <4>2. s3'.salt = mine.salt /\ salts' = salts
        BY <1>1, <1>5, <3>2
      <4>3. s3'.salt <= salts'
        BY <1>3, <4>2
      <4> QED
        BY <1>5, <4>1, <4>2, <4>3
    <3> QED
      BY <3>1, <3>2
  <2>2. \A p \in Savers : saver[p].now.salt \in Nat /\ saver[p].now.salt <= salts
    BY <1>2 DEF ArchiveInv, SaltsMinted, Request, S3Settings
  <2>3. \A p \in Savers : saver'[p].now.salt <= salts'
    BY <1>2, <1>4, <1>5, <2>2, IdleIsRequest DEF NoSalt
  <2> QED
    BY <2>1, <2>3 DEF SaltsMinted
<1>8. ~spoiled => \A p \in Savers : saver'[p].at = "idle"
  <2>1. \A p \in Savers : saver[p].at \in {"idle", "save"}
    BY <1>2 DEF Request
  <2> QED
    BY <1>1, <1>4, <2>1, IdleIsRequest DEF ArchiveInv, OneSaves
<1>9. OneSaves'
  BY <1>1, <1>8 DEF OneSaves
<1>10. SaltStays'
  <2>1. ~spoiled => mine.salt = s3.salt
    BY <1>1 DEF ArchiveInv, OneSaves
  <2> QED
    BY <1>1, <1>5, <2>1 DEF ArchiveInv, SaltStays
<1>11. ReaderPlaced'
  BY PlacedStays DEF SaveS3, ArchiveInv
<1> QED
  BY <1>6, <1>7, <1>9, <1>10, <1>11 DEF ArchiveInv

LEMMA UploadKeeps == ASSUME ArchiveInv, Upload PROVE ArchiveInv'
<1>1. object' = CipherKey /\ UNCHANGED <<s3, saver, salts, reader, spoiled>>
  BY DEF Upload
<1>2. object'.salt \in {NoSalt, s3.salt}
  BY <1>1 DEF CipherKey, Plain
<1>3. ReaderPlaced'
  BY PlacedStays DEF Upload, ArchiveInv
<1> QED
  BY <1>1, <1>2, <1>3 DEF ArchiveInv, ArchiveTyping, SaltsMinted, OneSaves, SaltStays

(* The player moves, by its reads and its jumps.                            *)
LEMMA PlayerKeeps ==
  ASSUME ArchiveInv, UNCHANGED <<s3, saver, salts, object, spoiled>>, IsReader(reader'), reader'.pos \in 0..PlainSize,
         ReaderPlaced'
  PROVE  ArchiveInv'
  BY DEF ArchiveInv, ArchiveTyping, SaltsMinted, OneSaves, SaltStays

LEMMA ArchiveNextKeeps == ASSUME ArchiveInv, [ArchiveNext]_archiveVars PROVE ArchiveInv'
<1>0. PlainSize \in Nat
  BY ArchiveAssumption
<1>1. ASSUME NEW w \in Savers, ReadS3(w) \/ SaveS3(w) \/ SaveFails(w) PROVE ArchiveInv'
  BY <1>1, ReadS3Keeps, SaveS3Keeps, SaveFailsKeeps
<1>2. CASE Upload
  BY <1>2, UploadKeeps
<1>3. CASE Open
  <2>1. PICK iv \in Counters : reader' = [Shut EXCEPT !.pos = 0, !.iv = iv]
    BY <1>3 DEF Open, Counters
  <2>2. IsReader(reader') /\ reader'.pos = 0 /\ reader'.iv = iv /\ ~reader'.aligned
    BY <2>1 DEF Shut, IsReader
  <2>3. reader' # Shut
    BY <2>2 DEF Shut
  <2>4. got' = <<>> /\ DOMAIN got' = {}
    BY <1>3 DEF Open, ArchiveInv, ReaderPlaced
  <2>5. ReaderPlaced'
    BY <2>2, <2>3, <2>4 DEF ReaderPlaced, BytesRead
  <2> QED
    BY <1>0, <1>3, <2>2, <2>5, PlayerKeeps DEF Open
<1>4. ASSUME NEW n \in 1..PlainSize, ReadObject(n) PROVE ArchiveInv'
  <2> PICK d : d = IF reader.aligned THEN reader ELSE alignStream(reader)
    OBVIOUS
  <2>1. IsReader(reader) /\ reader.pos \in 0..PlainSize /\ reader.pos + n <= PlainSize
    BY <1>4 DEF ReadObject, ArchiveInv, ArchiveTyping
  <2>2. IsReader(d) /\ d.pos = reader.pos /\ d.iv = reader.iv
    BY <2>1 DEF alignStream, IsReader
  <2>3. reader' = [d EXCEPT !.pos = d.pos + n, !.src = d.src + n, !.used = d.used + n]
    BY <1>4 DEF ReadObject
  <2>4. /\ IsReader(reader') /\ reader'.pos = d.pos + n /\ reader'.iv = d.iv /\ reader'.from = d.from
        /\ reader'.src = d.src + n /\ reader'.used = d.used + n
    BY <2>2, <2>3 DEF IsReader
  <2>5. reader'.pos \in 0..PlainSize /\ reader'.pos \in Nat
    BY <1>0, <2>1, <2>2, <2>4
  <2>6. reader # Shut /\ d.iv \in Counters /\ d.pos \in Nat
    BY <1>0, <1>4, <2>1, <2>2 DEF ReadObject, ArchiveInv, ReaderPlaced
  <2>7. \E p : Aligned(d, p)
    <3>1. CASE reader.aligned
      BY <2>6, <3>1 DEF ArchiveInv, ReaderPlaced
    <3>2. CASE ~reader.aligned
      <4>1. d = alignStream(reader)
        BY <3>2
      <4>2. /\ d.src = d.pos /\ d.from = addBE(d.iv, d.pos \div BlockSize) /\ d.used = d.pos % BlockSize
        BY <2>1, <4>1 DEF alignStream, IsReader
      <4>3. d.pos % BlockSize \in Nat
        BY <2>6, Widths
      <4>4. (d.pos % BlockSize) + (d.pos - d.pos) = d.pos % BlockSize
        BY <2>6, <4>3
      <4>5. Aligned(d, d.pos)
        BY <2>6, <4>2, <4>4 DEF Aligned
      <4> QED
        BY <4>5
    <3> QED
      BY <3>1, <3>2
  <2> PICK p : Aligned(d, p)
    BY <2>7
  <2>8. /\ p \in Nat /\ p <= d.pos /\ d.src = d.pos
        /\ d.from = addBE(d.iv, p \div BlockSize) /\ d.used = (p % BlockSize) + (d.pos - p)
    BY DEF Aligned
  <2>9. p % BlockSize \in Nat /\ n \in Nat
    BY <1>0, <2>8, Widths
  <2>10. Aligned(reader', p)
    BY <2>4, <2>6, <2>8, <2>9 DEF Aligned
  <2>11. reader' # Shut
    BY <2>5 DEF Shut
  <2>12. got' = [k \in 1..n |-> [at |-> d.pos + k - 1, src |-> d.src + k - 1, mask |-> Mask(d.from, d.used + k - 1)]]
    BY <1>4 DEF ReadObject
  <2>13. ASSUME NEW k \in DOMAIN got'
         PROVE  got'[k].src = got'[k].at /\ got'[k].mask = Mask(reader'.iv, got'[k].at)
    <3>1. k \in 1..n /\ k \in Nat /\ k > 0
      BY <2>9, <2>12
    <3> PICK j : j = d.pos + k - 1
      OBVIOUS
    <3>2. j \in Nat /\ p <= j
      BY <2>6, <2>8, <3>1
    <3>3. d.used + k - 1 = (p % BlockSize) + (j - p)
      BY <2>6, <2>8, <2>9, <3>1
    <3>4. Mask(d.from, d.used + k - 1) = Mask(d.iv, j)
      BY <2>6, <2>8, <3>2, <3>3, MaskAgrees
    <3>5. got'[k].at = j /\ got'[k].src = d.src + k - 1 /\ got'[k].mask = Mask(d.from, d.used + k - 1)
      BY <2>12, <3>1
    <3> QED
      BY <2>4, <2>8, <3>4, <3>5
  <2>14. ReaderPlaced'
    BY <2>4, <2>6, <2>10, <2>11, <2>13 DEF ReaderPlaced, BytesRead
  <2> QED
    BY <1>4, <2>4, <2>5, <2>14, PlayerKeeps DEF ReadObject
<1>5. ASSUME NEW to \in 0..PlainSize, SeekObject(to) PROVE ArchiveInv'
  <2>1. reader' = [reader EXCEPT !.pos = to, !.aligned = FALSE] /\ IsReader(reader)
    BY <1>5 DEF SeekObject, ArchiveInv, ArchiveTyping
  <2>2. IsReader(reader') /\ reader'.pos = to /\ reader'.iv = reader.iv /\ ~reader'.aligned
    BY <2>1 DEF IsReader
  <2>3. reader' # Shut
    BY <2>2, <1>0 DEF Shut
  <2>4. ReaderPlaced'
    BY <1>5, <2>2, <2>3 DEF SeekObject, ArchiveInv, ReaderPlaced, BytesRead
  <2> QED
    BY <1>5, <2>2, <2>4, PlayerKeeps DEF SeekObject
<1>6. CASE UNCHANGED archiveVars
  <2>1. ReaderPlaced'
    BY <1>6, PlacedStays DEF archiveVars, ArchiveInv
  <2> QED
    BY <1>6, <2>1 DEF archiveVars, ArchiveInv, ArchiveTyping, SaltsMinted, OneSaves, SaltStays, IsReader
<1> QED
  BY <1>1, <1>2, <1>3, <1>4, <1>5, <1>6 DEF ArchiveNext

LEMMA ArchiveInvImplies == ArchiveInv => ArchiveTypeOK /\ ArchiveReadable
<1>1. ArchiveInv => s3.salt \in Nat /\ salts \in Nat
  BY DEF ArchiveInv, ArchiveTyping, S3Settings
<1> QED
  BY <1>1 DEF ArchiveInv, ArchiveTyping, SaltsMinted, ArchiveTypeOK, ReaderPlaced, ArchiveReadable

-----------------------------------------------------------------------------
(* GB28181 media.  E are the elements of the session, G those that came.    *)
Fr(E, i)     == E[i].frame
IsLast(E, i) == i = Len(E) \/ Fr(E, i + 1) # Fr(E, i)
StampOf(f)   == (TsWidth - 2 * TsStep + f * TsStep) % TsWidth

(* The video packets of a frame that came.                                  *)
VideoPart(E, X)   == {i \in X : E[i].el \notin {"PSM", "audio"}}
OfFrame(E, G, f)  == {i \in G : Fr(E, i) = f}

(* A frame of the session has five packets at most.                         *)
GoodSession(E) ==
  /\ Len(E) \in Nat /\ DOMAIN E = 1..Len(E)
  /\ \A i \in 1..Len(E) : Fr(E, i) \in 1..3
  /\ \A i, j \in 1..Len(E) : i <= j => Fr(E, i) <= Fr(E, j)
  /\ \A i, j \in 1..Len(E) : Fr(E, i) = Fr(E, j) => i - j <= 4

(* Packets of one frame, each once; packets of one frame in order.          *)
OneFrame(E, G, x) ==
  /\ x \in Seq(Nat) /\ Range(x) \subseteq G
  /\ \A i, j \in 1..Len(x) : Fr(E, x[i]) = Fr(E, x[j]) /\ (x[i] = x[j] => i = j)

FrameRow(E, G, x) == OneFrame(E, G, x) /\ Rising(x) /\ x # <<>>

(* The packets the assembler has are of the frame of its timestamp.         *)
GoodAsm(E, G, a) ==
  /\ a \in [have : BOOLEAN, ts : Int, pkts : Seq(Nat)]
  /\ OneFrame(E, G, a.pkts)
  /\ a.have <=> a.pkts # <<>>
  /\ a.have => a.ts = StampOf(Fr(E, a.pkts[1]))

UnitFrame(E, u) == Fr(E, u.pkts[1])

(* The clock of the producer shows the time of the frame it had last.       *)
ClockRight(E, P, us) ==
  /\ ~ P.havePrev => us = <<>>
  /\ P.havePrev => \E f \in 1..3 :
       /\ P.prevTS = StampOf(f)
       /\ \A m \in 1..Len(us) : P.pts - us[m].pts = (f - UnitFrame(E, us[m])) * TsStep

GoodUnits(E, G, us) ==
  /\ us \in Seq([pts : Int, pkts : Seq(Nat)])
  /\ \A m \in 1..Len(us) : FrameRow(E, G, us[m].pkts)

ProducerRecord == [codec : {NoCodec, codecSent}, sets : SUBSET {"VPS", "SPS", "PPS"}, ready : BOOLEAN,
                   havePrev : BOOLEAN, prevTS : Int, pts : Int]

GoodProd(E, G, P, us) ==
  /\ P \in ProducerRecord
  /\ ClockRight(E, P, us)
  /\ GoodUnits(E, G, us)
  /\ us # <<>> => P.ready

(* As long as nothing came late: what was published of a frame is all that  *)
(* came of it, and of what is not in the assembler only frames before the   *)
(* first unit are not published.                                            *)
Published(E, us, f) == \E m \in 1..Len(us) : UnitFrame(E, us[m]) = f

AllOfFrames(E, G, a, us) ==
  /\ \A m \in 1..Len(us) :
       /\ Range(us[m].pkts) = VideoPart(E, OfFrame(E, G, UnitFrame(E, us[m])))
       /\ Range(us[m].pkts) \cap Range(a.pkts) = {}
  /\ \A f \in 1..3 : VideoPart(E, OfFrame(E, G, f)) # {} /\ OfFrame(E, G, f) \cap Range(a.pkts) = {} =>
       Published(E, us, f) \/ \A m \in 1..Len(us) : f < UnitFrame(E, us[m])

(* The assembler has all that came of the newest frame, or that is over.    *)
Newest(E, G, f) == \A j \in G : Fr(E, j) <= f

OnlyEarlier(E, G, x) ==
  /\ x # <<>> =>
       /\ Range(x) = OfFrame(E, G, Fr(E, x[1])) /\ Newest(E, G, Fr(E, x[1]))
       /\ \A j \in Range(x) : ~ IsLast(E, j)
  /\ \A i \in G \ Range(x) : \E j \in G : (Fr(E, j) = Fr(E, i) /\ IsLast(E, j)) \/ Fr(E, j) > Fr(E, i)

PacketsInv ==
  /\ GoodSession(elements) /\ next \in 1..Len(elements) + 1
  /\ arrived \cup flight \subseteq 1..next - 1 /\ arrived \cap flight = {}
  /\ crossed \in BOOLEAN

FramesInv ==
  /\ PacketsInv
  /\ GoodAsm(elements, arrived, asm)
  /\ GoodProd(elements, arrived, prod, written)
  /\ ~ crossed => AllOfFrames(elements, arrived, asm, written) /\ OnlyEarlier(elements, arrived, asm.pkts)

-----------------------------------------------------------------------------
(* Counters that wrap: the difference of two is that of what they count, as *)
(* long as that is less than half a turn.                                   *)
LEMMA SignedIs ==
  ASSUME NEW w \in Nat \ {0}, NEW a \in Nat, NEW b \in Nat, a - b < w \div 2, b - a < w \div 2
  PROVE  Signed((a % w) - (b % w), w) = a - b
PROOF
  <1>q. PICK qa, qb, ra, rb : qa = a \div w /\ qb = b \div w /\ ra = a % w /\ rb = b % w
    OBVIOUS
  <1>1. /\ qa \in Nat /\ ra \in 0..w - 1 /\ a = qa * w + ra
        /\ qb \in Nat /\ rb \in 0..w - 1 /\ b = qb * w + rb
    BY <1>q, DivMod
  <1>k. PICK k, y : k = qa - qb /\ y = k * w
    OBVIOUS
  <1>2. k \in Int /\ y \in Int /\ a - b = y + (ra - rb)
    <2>1. (qa - qb) * w = qa * w - qb * w
      BY <1>1
    <2>2. qa * w \in Int /\ qb * w \in Int
      BY <1>1
    <2> QED
      BY <1>1, <1>k, <2>1, <2>2
  <1>3. /\ (k >= 2 => y >= 2 * w) /\ (k <= -2 => y <= -2 * w)
        /\ (k = 1 => y = w) /\ (k = 0 => y = 0) /\ (k = -1 => y = -w)
    BY <1>2, <1>k, Multiples
  <1>h. PICK h : h = w \div 2
    OBVIOUS
  <1>4. h \in Nat /\ 2 * h <= w /\ w <= 2 * h + 1 /\ a - b < h /\ b - a < h
    BY <1>h
  <1>x. PICK x : x = ra - rb
    OBVIOUS
  <1>5. x \in Int /\ -w < x /\ x < w /\ a - b = y + x
    BY <1>1, <1>2, <1>x
  <1>6. x % w = IF x >= 0 THEN x ELSE x + w
    BY <1>5, NegativeMod
  <1>7. k = 0 \/ k = 1 \/ k = -1
    BY <1>2, <1>3, <1>4, <1>5
  <1>8. a - b = IF x % w < h THEN x % w ELSE (x % w) - w
    BY <1>3, <1>4, <1>5, <1>6, <1>7
  <1> QED
    BY <1>8, <1>q, <1>h, <1>x DEF Signed

LEMMA MediaWidths ==
  /\ SeqWidth \in Nat \ {0} /\ 4 < SeqWidth \div 2
  /\ TsWidth \in Nat \ {0} /\ TsStep \in Nat \ {0} /\ 2 * TsStep < TsWidth \div 2
  /\ MaxPackets \in Nat /\ 5 <= MaxPackets
  BY GBMediaAssumption

LEMMA PacketOrder ==
  ASSUME NEW i \in Nat \ {0}, NEW j \in Nat \ {0}, i - j <= 4, j - i <= 4
  PROVE  Signed(Number(i) - Number(j), SeqWidth) < 0 <=> i < j
PROOF
  <1>a. PICK a, b : a = SeqWidth - 3 + i /\ b = SeqWidth - 3 + j
    OBVIOUS
  <1>1. a \in Nat /\ b \in Nat /\ a - b = i - j /\ a - b < SeqWidth \div 2 /\ b - a < SeqWidth \div 2
    BY <1>a, MediaWidths
  <1>2. Signed((a % SeqWidth) - (b % SeqWidth), SeqWidth) = a - b
    BY <1>1, MediaWidths, SignedIs, ZenonT(60)
  <1> QED
    BY <1>1, <1>2, <1>a DEF Number

LEMMA FramesApart ==
  ASSUME NEW f \in 1..3, NEW g \in 1..3
  PROVE  /\ Signed(StampOf(f) - StampOf(g), TsWidth) = (f - g) * TsStep
         /\ StampOf(f) = StampOf(g) => f = g
         /\ StampOf(f) \in Int
PROOF
  <1>a. PICK a, b : a = TsWidth - 2 * TsStep + f * TsStep /\ b = TsWidth - 2 * TsStep + g * TsStep
    OBVIOUS
  <1>1. a \in Nat /\ b \in Nat /\ a - b = (f - g) * TsStep /\ a - b < TsWidth \div 2 /\ b - a < TsWidth \div 2
    <2>1. f = 1 \/ f = 2 \/ f = 3
      OBVIOUS
    <2>2. g = 1 \/ g = 2 \/ g = 3
      OBVIOUS
    <2> QED
      BY <1>a, <2>1, <2>2, MediaWidths
  <1>2. Signed((a % TsWidth) - (b % TsWidth), TsWidth) = a - b
    BY <1>1, MediaWidths, SignedIs, ZenonT(60)
  <1>3. StampOf(f) = a % TsWidth /\ StampOf(g) = b % TsWidth
    BY <1>a DEF StampOf
  <1>4. a % TsWidth \in Int
    BY <1>1, MediaWidths
  <1>5. a % TsWidth = b % TsWidth => a - b = 0
    <2> SUFFICES ASSUME a % TsWidth = b % TsWidth PROVE a - b = 0
      OBVIOUS
    <2>1. (a % TsWidth) - (b % TsWidth) = 0
      BY <1>4
    <2>2. Signed(0, TsWidth) = 0
      BY MediaWidths, NegativeMod DEF Signed
    <2> QED
      BY <1>2, <2>1, <2>2, Zenon
  <1>6. (f - g) * TsStep = 0 => f = g
    <2>1. f = 1 \/ f = 2 \/ f = 3
      OBVIOUS
    <2>2. g = 1 \/ g = 2 \/ g = 3
      OBVIOUS
    <2> QED
      BY <2>1, <2>2, MediaWidths
  <1> QED
    BY <1>1, <1>2, <1>3, <1>4, <1>5, <1>6, Zenon

-----------------------------------------------------------------------------
(* Sorting puts the packets of a frame in the order they were sent.         *)
LEMMA SortedRow ==
  ASSUME NEW E, GoodSession(E), NEW G, G \subseteq 1..Len(E), NEW s, OneFrame(E, G, s)
  PROVE  /\ OneFrame(E, G, Sorted(s)) /\ Rising(Sorted(s))
         /\ Range(Sorted(s)) = Range(s)
         /\ Sorted(s) = <<>> <=> s = <<>>
PROOF
  <1>n. PICK n, m : n = Len(s) /\ m = Len(E)
    OBVIOUS
  <1>0. s \in Seq(Nat) /\ Range(s) \subseteq G /\ Len(E) \in Nat /\ \A i, j \in 1..Len(s) : s[i] = s[j] => i = j
    BY DEF OneFrame, GoodSession
  <1>1. /\ s \in Seq(Nat) /\ n \in Nat /\ m \in Nat /\ DOMAIN s = 1..n /\ Range(s) \subseteq 1..m
        /\ \A i \in 1..n : s[i] \in Range(s) /\ s[i] \in 1..m
        /\ \A a \in Range(s) : \E i \in 1..n : s[i] = a
        /\ \A i, j \in 1..n : s[i] = s[j] => i = j
    BY <1>0, <1>n, Members
  <1>2. \A i, j \in 1..n : (Signed(Number(s[i]) - Number(s[j]), SeqWidth) < 0) <=> s[i] < s[j]
    <2> SUFFICES ASSUME NEW i \in 1..n, NEW j \in 1..n
                 PROVE  (Signed(Number(s[i]) - Number(s[j]), SeqWidth) < 0) <=> s[i] < s[j]
      OBVIOUS
    <2>a. PICK a, b : a = s[i] /\ b = s[j]
      OBVIOUS
    <2>1. a \in 1..m /\ b \in 1..m /\ Fr(E, a) = Fr(E, b)
      BY <1>1, <1>n, <2>a DEF OneFrame
    <2>2. a \in Nat \ {0} /\ b \in Nat \ {0} /\ a - b <= 4 /\ b - a <= 4
      BY <1>1, <1>n, <2>1 DEF GoodSession
    <2>3. (Signed(Number(a) - Number(b), SeqWidth) < 0) <=> a < b
      BY <2>2, PacketOrder, Zenon
    <2> QED
      BY <2>3, <2>a
  <1> DEFINE Sorts(p) == \A i, j \in 1..n : i < j => Signed(Number(s[p[i]]) - Number(s[p[j]]), SeqWidth) < 0
  <1>3. \E p \in [1..n -> 1..n] : Sorts(p)
    <2>1. PICK x \in Seq(Nat) : Rising(x) /\ Range(x) = Range(s)
      BY <1>1, InARow
    <2>2. Len(x) = n
      BY <1>1, <1>n, <2>1, SameLength
    <2>3. DOMAIN x = 1..n /\ \A i \in 1..n : x[i] \in Range(x)
      BY <2>2, Members
    <2>4. \A i \in 1..n : \E j \in 1..n : s[j] = x[i]
      BY <1>1, <2>1, <2>3
    <2>p. PICK p : p = [i \in 1..n |-> CHOOSE j \in 1..n : s[j] = x[i]]
      OBVIOUS
    <2>5. \A i \in 1..n : p[i] \in 1..n /\ s[p[i]] = x[i]
      BY <2>4, <2>p
    <2>6. p \in [1..n -> 1..n]
      BY <2>5, <2>p
    <2>7. \A i, j \in 1..n : i < j => s[p[i]] < s[p[j]]
      BY <2>1, <2>3, <2>5 DEF Rising
    <2>8. Sorts(p)
      BY <1>2, <2>5, <2>7
    <2> QED
      BY <2>6, <2>8
  <1>p. PICK p : p = CHOOSE q \in [1..n -> 1..n] : Sorts(q)
    OBVIOUS
  <1>4. p \in [1..n -> 1..n] /\ Sorts(p)
    <2> HIDE DEF Sorts
    <2> QED
      BY <1>3, <1>p
  <1>y. PICK y : y = [j \in 1..n |-> s[p[j]]]
    OBVIOUS
  <1>5. Sorted(s) = y
    <2> DEFINE Places(D) == CHOOSE q \in [D -> D] :
                  \A i, k \in D : i < k => Signed(Number(s[q[i]]) - Number(s[q[k]]), SeqWidth) < 0
               Out(D, c)    == [j \in D |-> s[c[j]]]
    <2>1. Sorted(s) = Out(DOMAIN s, Places(DOMAIN s))
      BY Zenon DEF Sorted
    <2>2. Places(1..n) = p
      BY <1>p, Zenon
    <2>3. Out(1..n, p) = y
      BY <1>y, Zenon
    <2> HIDE DEF Out, Places
    <2> QED
      BY <1>1, <2>1, <2>2, <2>3
  <1>6. \A i, j \in 1..n : i < j => s[p[i]] < s[p[j]]
    BY <1>2, <1>4
  <1>7. \A i \in 1..n : p[i] \in 1..n /\ y[i] = s[p[i]] /\ y[i] \in Nat
    BY <1>1, <1>4, <1>y
  <1>8. y \in Seq(Nat) /\ Len(y) = n /\ DOMAIN y = 1..n
    BY <1>1, <1>7, <1>y
  <1>9. Rising(y)
    BY <1>6, <1>7, <1>8 DEF Rising
  <1>10. \A k \in 1..n : \E i \in 1..n : p[i] = k
    <2>1. \A i, j \in 1..n : i < j => p[i] # p[j]
      <3> SUFFICES ASSUME NEW i \in 1..n, NEW j \in 1..n, i < j, p[i] = p[j] PROVE FALSE
        OBVIOUS
      <3>1. s[p[i]] < s[p[j]] /\ s[p[i]] \in Nat
        BY <1>1, <1>6, <1>7
      <3> QED
        BY <3>1
    <2> QED
      BY <1>1, <1>4, <2>1, OntoItself
  <1>11. Range(y) = Range(s)
    <2>1. /\ \A i \in 1..n : y[i] \in Range(y)
          /\ \A a \in Range(y) : \E i \in 1..n : y[i] = a
      BY <1>8, Members
    <2>2. \A k \in 1..n : \E i \in 1..n : y[i] = s[k]
      BY <1>7, <1>10
    <2>3. \A a \in Range(y) : a \in Range(s)
      <3> SUFFICES ASSUME NEW a \in Range(y) PROVE a \in Range(s)
        OBVIOUS
      <3>1. PICK i \in 1..n : y[i] = a
        BY <2>1
      <3>2. p[i] \in 1..n /\ a = s[p[i]]
        BY <1>7, <3>1
      <3> QED
        BY <1>1, <3>2
    <2>4. \A a \in Range(s) : a \in Range(y)
      <3> SUFFICES ASSUME NEW a \in Range(s) PROVE a \in Range(y)
        OBVIOUS
      <3>1. PICK k \in 1..n : s[k] = a
        BY <1>1
      <3>2. PICK i \in 1..n : y[i] = s[k]
        BY <2>2
      <3> QED
        BY <2>1, <3>1, <3>2
    <2> QED
      BY <2>3, <2>4
  <1>12. OneFrame(E, G, y)
    <2>1. \A i, j \in 1..n : y[i] = y[j] => i = j
      <3> SUFFICES ASSUME NEW i \in 1..n, NEW j \in 1..n, y[i] = y[j] PROVE i = j
        OBVIOUS
      <3>1. y[i] \in Nat /\ (i < j => y[i] < y[j]) /\ (j < i => y[j] < y[i])
        BY <1>7, <1>8, <1>9 DEF Rising
      <3> QED
        BY <3>1
    <2>2. \A i, j \in 1..n : Fr(E, y[i]) = Fr(E, y[j])
      <3>1. \A i, j \in 1..n : Fr(E, s[i]) = Fr(E, s[j])
        BY <1>n DEF OneFrame
      <3> QED
        BY <1>7, <3>1
    <2> QED
      BY <1>0, <1>8, <1>11, <2>1, <2>2 DEF OneFrame
  <1>13. y = <<>> <=> s = <<>>
    BY <1>1, <1>n, <1>8
  <1> QED
    BY <1>5, <1>9, <1>11, <1>12, <1>13

-----------------------------------------------------------------------------
(* A frame is handled.                                                      *)
LEMMA SameFrame ==
  ASSUME NEW E, NEW G, NEW x, OneFrame(E, G, x)
  PROVE  \A a, b \in Range(x) : Fr(E, a) = Fr(E, b)
PROOF
  <1> SUFFICES ASSUME NEW a \in Range(x), NEW b \in Range(x) PROVE Fr(E, a) = Fr(E, b)
    OBVIOUS
  <1>1. x \in Seq(Nat)
    BY DEF OneFrame
  <1>2. PICK i \in 1..Len(x) : x[i] = a
    BY <1>1, Members
  <1>3. PICK j \in 1..Len(x) : x[j] = b
    BY <1>1, Members
  <1> QED
    BY <1>2, <1>3 DEF OneFrame

(* Some of a frame's packets in order are a row of that frame.              *)
LEMMA PartOfFrame ==
  ASSUME NEW E, NEW G, NEW x, OneFrame(E, G, x), NEW v \in Seq(Nat), Rising(v), Range(v) \subseteq Range(x)
  PROVE  OneFrame(E, G, v)
PROOF
  <1>1. \A i \in 1..Len(v) : v[i] \in Range(v) /\ v[i] \in Nat
    BY Members
  <1>2. \A i, j \in 1..Len(v) : Fr(E, v[i]) = Fr(E, v[j])
    BY <1>1, SameFrame
  <1>3. \A i, j \in 1..Len(v) : v[i] = v[j] => i = j
    <2> SUFFICES ASSUME NEW i \in 1..Len(v), NEW j \in 1..Len(v), v[i] = v[j] PROVE i = j
      OBVIOUS
    <2>1. DOMAIN v = 1..Len(v)
      OBVIOUS
    <2>2. v[i] \in Nat /\ (i < j => v[i] < v[j]) /\ (j < i => v[j] < v[i])
      BY <1>1, <2>1 DEF Rising
    <2>3. i \in Nat /\ j \in Nat /\ (i < j \/ j < i \/ i = j)
      OBVIOUS
    <2> QED
      BY <2>2, <2>3
  <1>4. Range(x) \subseteq G
    BY DEF OneFrame
  <1> QED
    BY <1>2, <1>3, <1>4 DEF OneFrame

LEMMA FrameVideo ==
  ASSUME NEW G, NEW s, OneFrame(elements, G, s), Rising(s)
  PROVE  /\ demuxPS(s) \in Seq(Nat) /\ Rising(demuxPS(s)) /\ OneFrame(elements, G, demuxPS(s))
         /\ Range(demuxPS(s)) = VideoPart(elements, Range(s))
PROOF
  <1>n. PICK n, v : n = Len(s) /\ v = demuxPS(s)
    OBVIOUS
  <1>1. /\ s \in Seq(Nat) /\ n \in Nat /\ DOMAIN s = 1..n
        /\ \A i \in 1..n : s[i] \in Range(s) /\ s[i] \in Nat
        /\ \A a \in Range(s) : \E i \in 1..n : s[i] = a
    BY <1>n, Members DEF OneFrame
  <1>p. PICK p : p = [j \in 1..n |-> IF InVideo(s[j]) THEN <<s[j]>> ELSE <<>>]
    OBVIOUS
  <1>2. v = FlattenSeq(p)
    <2> DEFINE Parts(D) == [j \in D |-> IF InVideo(s[j]) THEN <<s[j]>> ELSE <<>>]
    <2>1. v = FlattenSeq(Parts(DOMAIN s))
      BY <1>n, Zenon DEF demuxPS
    <2>2. p = Parts(1..n)
      BY <1>p, Zenon
    <2> HIDE DEF Parts
    <2> QED
      BY <1>1, <2>1, <2>2
  <1>3. \A j \in 1..n : /\ p[j] \in Seq(Nat) /\ Rising(p[j])
                        /\ Range(p[j]) = IF InVideo(s[j]) THEN {s[j]} ELSE {}
    <2> SUFFICES ASSUME NEW j \in 1..n
                 PROVE  /\ p[j] \in Seq(Nat) /\ Rising(p[j])
                        /\ Range(p[j]) = IF InVideo(s[j]) THEN {s[j]} ELSE {}
      OBVIOUS
    <2>1. CASE InVideo(s[j])
      <3>1. p[j] = <<s[j]>>
        BY <1>p, <2>1
      <3>2. s[j] \in Nat
        BY <1>1
      <3>3. <<s[j]>> \in Seq(Nat) /\ Rising(<<s[j]>>) /\ Range(<<s[j]>>) = {s[j]}
        BY <3>2, Single, Zenon
      <3> QED
        BY <2>1, <3>1, <3>3, Zenon
    <2>2. CASE ~ InVideo(s[j])
      <3>1. p[j] = <<>>
        BY <1>p, <2>2
      <3> QED
        BY <2>2, <3>1, Nothing, Zenon
    <2> QED
      BY <2>1, <2>2
  <1>4. p \in [1..n -> Seq(Nat)]
    <2>1. DOMAIN p = 1..n /\ p = [j \in 1..n |-> p[j]]
      BY <1>p
    <2> QED
      BY <1>3, <2>1
  <1>5. FlatOf(v, p, n)
    BY <1>1, <1>2, <1>4, Flattened
  <1>6. /\ v \in Seq(Nat) /\ Range(v) = UNION {Range(p[i]) : i \in 1..n}
        /\ (/\ \A i \in 1..n : Rising(p[i])
            /\ \A i, j \in 1..n : i < j => Precedes(Range(p[i]), Range(p[j])))
           => Rising(v)
    BY <1>5, Zenon DEF FlatOf
  <1>7. Rising(v)
    <2>1. ASSUME NEW i \in 1..n, NEW j \in 1..n, i < j
          PROVE  Precedes(Range(p[i]), Range(p[j]))
      <3>1. s[i] < s[j]
        BY <1>1, <2>1 DEF Rising
      <3>2. \A a \in Range(p[i]) : a = s[i]
        BY <1>3
      <3>3. \A b \in Range(p[j]) : b = s[j]
        BY <1>3
      <3> QED
        BY <3>1, <3>2, <3>3 DEF Precedes
    <2> QED
      BY <1>3, <1>6, <2>1
  <1>8. Range(v) = VideoPart(elements, Range(s))
    <2>1. ASSUME NEW a \in Range(v)
          PROVE  a \in VideoPart(elements, Range(s))
      <3>1. PICK i \in 1..n : a \in Range(p[i])
        BY <1>6
      <3>2. a = s[i] /\ InVideo(s[i])
        BY <1>3, <3>1
      <3> QED
        BY <1>1, <3>2 DEF VideoPart, InVideo, El
    <2>2. ASSUME NEW a \in VideoPart(elements, Range(s))
          PROVE  a \in Range(v)
      <3>1. a \in Range(s) /\ InVideo(a)
        BY DEF VideoPart, InVideo, El
      <3>2. PICK i \in 1..n : s[i] = a
        BY <1>1, <3>1
      <3>3. a \in Range(p[i])
        BY <1>3, <3>1, <3>2
      <3> QED
        BY <1>6, <3>3
    <2> QED
      BY <2>1, <2>2
  <1>9. OneFrame(elements, G, v)
    <2>1. Range(v) \subseteq Range(s)
      BY <1>8 DEF VideoPart
    <2> QED
      BY <1>6, <1>7, <2>1, PartOfFrame
  <1> QED
    BY <1>n, <1>6, <1>7, <1>8, <1>9

LEMMA SniffedCodec == \A x : sniffCodec(x) \in {NoCodec, codecSent}
  BY DEF sniffCodec, MapCodec

Coded(P, c, b) == b = [P EXCEPT !.codec = c]

LEMMA ParamsCollected ==
  ASSUME NEW P \in ProducerRecord, NEW c \in {NoCodec, codecSent}, NEW v,
         NEW B, Coded(P, c, B), NEW Q, Q = collectParamSets(B, v)
  PROVE  /\ Q \in ProducerRecord
         /\ Q.ready = P.ready /\ Q.havePrev = P.havePrev /\ Q.prevTS = P.prevTS /\ Q.pts = P.pts
PROOF
  <1>b. B = [P EXCEPT !.codec = c]
    BY DEF Coded
  <1>1. B \in ProducerRecord /\ B.ready = P.ready /\ B.havePrev = P.havePrev /\ B.prevTS = P.prevTS /\ B.pts = P.pts
    BY <1>b DEF ProducerRecord
  <1>s. PICK more : more = B.sets \cup ({El(v[j]) : j \in DOMAIN v} \cap {"VPS", "SPS", "PPS"})
    OBVIOUS
  <1>2. more \in SUBSET {"VPS", "SPS", "PPS"}
    <2>1. B.sets \subseteq {"VPS", "SPS", "PPS"}
      BY <1>1 DEF ProducerRecord
    <2> QED
      BY <1>s, <2>1
  <1>3. collectParamSets(B, v) = IF B.codec = codecSent THEN [B EXCEPT !.sets = more] ELSE B
    BY <1>s, Zenon DEF collectParamSets
  <1>4. /\ collectParamSets(B, v) \in ProducerRecord
        /\ collectParamSets(B, v).ready = B.ready /\ collectParamSets(B, v).havePrev = B.havePrev
        /\ collectParamSets(B, v).prevTS = B.prevTS /\ collectParamSets(B, v).pts = B.pts
    BY <1>1, <1>2, <1>3 DEF ProducerRecord
  <1> QED
    BY <1>1, <1>4

LEMMA ClockSet ==
  ASSUME NEW P \in ProducerRecord, NEW ts \in Int
  PROVE  /\ Clock(P, ts) \in ProducerRecord
         /\ Clock(P, ts).pts = IF P.havePrev THEN P.pts + Signed(ts - P.prevTS, TsWidth) ELSE P.pts
         /\ Clock(P, ts).prevTS = ts /\ Clock(P, ts).havePrev = TRUE /\ Clock(P, ts).ready = P.ready
PROOF
  <1>t. PICK t : t = IF P.havePrev THEN P.pts + Signed(ts - P.prevTS, TsWidth) ELSE P.pts
    OBVIOUS
  <1>1. P.pts \in Int /\ P.prevTS \in Int
    BY DEF ProducerRecord
  <1>2. Signed(ts - P.prevTS, TsWidth) \in Int
    <2>d. PICK d : d = (ts - P.prevTS) % TsWidth
      OBVIOUS
    <2>1. d \in Int
      BY <1>1, <2>d, MediaWidths
    <2> QED
      BY <2>1, <2>d, MediaWidths DEF Signed
  <1>3. t \in Int
    BY <1>1, <1>2, <1>t
  <1>4. Clock(P, ts) = [P EXCEPT !.pts = t, !.prevTS = ts, !.havePrev = TRUE]
    BY <1>t DEF Clock
  <1> QED
    BY <1>3, <1>4, <1>t DEF ProducerRecord

LEMMA RowStarts ==
  ASSUME NEW G, G \subseteq 1..Len(elements), GoodSession(elements), NEW x, FrameRow(elements, G, x)
  PROVE  /\ x \in Seq(Nat) /\ 1 \in 1..Len(x) /\ x[1] \in Range(x) /\ x[1] \in G
         /\ Fr(elements, x[1]) \in 1..3
PROOF
  <1>1. x \in Seq(Nat) /\ x # <<>> /\ Range(x) \subseteq G
    BY DEF FrameRow, OneFrame
  <1>2. 1 \in 1..Len(x)
    BY <1>1
  <1>3. x[1] \in Range(x)
    BY <1>1, <1>2, Members
  <1> QED
    BY <1>1, <1>2, <1>3 DEF GoodSession

(* What becomes of the units when a frame is handled whose video packets    *)
(* are V: nothing without video; one more, unless the stream waits still.   *)
UnitRecord == [pts : Int, pkts : Seq(Nat)]

UnitMore(us, t, f, V) ==
  \E u \in UnitRecord : t = Append(us, u) /\ Range(u.pkts) = V /\ UnitFrame(elements, u) = f

Outcome(us, t, f, V) ==
  /\ V = {} => t = us
  /\ V # {} => (us = <<>> /\ t = <<>>) \/ UnitMore(us, t, f, V)

HandledTo(G, P, us, f, V, done) ==
  /\ GoodProd(elements, G, done.prod, done.units)
  /\ Outcome(us, done.units, f, V)

LEMMA UnitsLonger ==
  ASSUME NEW us \in Seq(UnitRecord), NEW u \in UnitRecord, NEW t, t = Append(us, u)
  PROVE  /\ t \in Seq(UnitRecord) /\ t # <<>> /\ Len(t) = Len(us) + 1
         /\ \A m \in 1..Len(us) : t[m] = us[m]
         /\ t[Len(us) + 1] = u
         /\ \A m \in 1..Len(t) : m \in 1..Len(us) \/ m = Len(us) + 1
  OBVIOUS

(* The clock moves from frame g to frame f.                                 *)
LEMMA ClockMovesOn ==
  ASSUME NEW P \in ProducerRecord, NEW us \in Seq(UnitRecord), NEW f \in 1..3, GoodSession(elements),
         \A m \in 1..Len(us) : UnitFrame(elements, us[m]) \in 1..3,
         ClockRight(elements, P, us),
         NEW t \in Int, t = IF P.havePrev THEN P.pts + Signed(StampOf(f) - P.prevTS, TsWidth) ELSE P.pts
  PROVE  \A m \in 1..Len(us) : t - us[m].pts = (f - UnitFrame(elements, us[m])) * TsStep
PROOF
  <1> SUFFICES ASSUME NEW m \in 1..Len(us)
               PROVE  t - us[m].pts = (f - UnitFrame(elements, us[m])) * TsStep
    OBVIOUS
  <1>1. us # <<>> /\ P.havePrev
    BY DEF ClockRight
  <1>g. PICK g \in 1..3 : /\ P.prevTS = StampOf(g)
                          /\ \A k \in 1..Len(us) : P.pts - us[k].pts = (g - UnitFrame(elements, us[k])) * TsStep
    BY <1>1 DEF ClockRight
  <1>2. t = P.pts + (f - g) * TsStep
    BY <1>1, <1>g, FramesApart
  <1>h. PICK h : h = UnitFrame(elements, us[m])
    OBVIOUS
  <1>3. h \in 1..3
    BY <1>h
  <1>4. P.pts - us[m].pts = (g - h) * TsStep
    BY <1>g, <1>h
  <1>5. (f - g) * TsStep + (g - h) * TsStep = (f - h) * TsStep
    <2>i. PICK i, j : i = f - g /\ j = g - h
      OBVIOUS
    <2>1. i \in Int /\ j \in Int /\ i + j = f - h
      BY <1>3, <2>i
    <2>2. (i + j) * TsStep = i * TsStep + j * TsStep
      BY <2>1, MediaWidths, Distributes
    <2> QED
      BY <2>1, <2>2, <2>i
  <1>6. us[m].pts \in Int /\ P.pts \in Int
    <2>1. us[m] \in UnitRecord
      OBVIOUS
    <2> QED
      BY <2>1 DEF UnitRecord, ProducerRecord
  <1>7. (f - g) * TsStep \in Int /\ (g - h) * TsStep \in Int
    BY <1>3, MediaWidths
  <1>a. PICK a, b, p, q : a = (f - g) * TsStep /\ b = (g - h) * TsStep /\ p = P.pts /\ q = us[m].pts
    OBVIOUS
  <1>8. t - q = a + b
    <2>1. t = p + a /\ p - q = b /\ a \in Int /\ b \in Int /\ p \in Int /\ q \in Int
      BY <1>2, <1>4, <1>6, <1>7, <1>a
    <2> QED
      BY <2>1
  <1> QED
    BY <1>5, <1>8, <1>a, <1>h

LEMMA FrameHandled ==
  ASSUME NEW G, G \subseteq 1..Len(elements), GoodSession(elements),
         NEW P, NEW us, GoodProd(elements, G, P, us),
         NEW x, FrameRow(elements, G, x), NEW f, f = Fr(elements, x[1])
  PROVE  HandledTo(G, P, us, f, VideoPart(elements, Range(x)), handleFrame(P, us, StampOf(f), x))
PROOF
  <1>V. PICK V, v, done : V = VideoPart(elements, Range(x)) /\ v = demuxPS(x) /\ done = handleFrame(P, us, StampOf(f), x)
    OBVIOUS
  <1>1. x \in Seq(Nat) /\ x[1] \in Range(x) /\ f \in 1..3 /\ OneFrame(elements, G, x) /\ Rising(x)
    BY RowStarts DEF FrameRow
  <1>2. v \in Seq(Nat) /\ Rising(v) /\ OneFrame(elements, G, v) /\ Range(v) = V
    BY <1>1, <1>V, FrameVideo, Zenon
  <1>3. v = <<>> <=> V = {}
    BY <1>2, Members
  <1>4. P \in ProducerRecord /\ us \in Seq(UnitRecord) /\ ClockRight(elements, P, us)
        /\ (\A m \in 1..Len(us) : FrameRow(elements, G, us[m].pkts)) /\ (us # <<>> => P.ready)
    BY DEF GoodProd, GoodUnits, UnitRecord
  <1>c. PICK c : c = IF P.codec = NoCodec THEN sniffCodec(x) ELSE P.codec
    OBVIOUS
  <1>5. c \in {NoCodec, codecSent}
    <2>1. P.codec \in {NoCodec, codecSent}
      BY <1>4 DEF ProducerRecord
    <2> QED
      BY <1>c, <2>1, SniffedCodec
  <1>b. PICK b : b = [P EXCEPT !.codec = c]
    OBVIOUS
  <1>B. PICK B : B = collectParamSets(b, v)
    OBVIOUS
  <1>6. B \in ProducerRecord /\ B.ready = P.ready /\ B.havePrev = P.havePrev /\ B.prevTS = P.prevTS /\ B.pts = P.pts
    <2>1. Coded(P, c, b)
      BY <1>b, Zenon DEF Coded
    <2> HIDE <1>b
    <2> QED
      BY <1>4, <1>5, <1>B, <2>1, ParamsCollected
  <1>Q. PICK Q, ts : ts = StampOf(f) /\ Q = Clock(B, ts)
    OBVIOUS
  <1>7. ts \in Int
    BY <1>1, <1>Q, FramesApart
  <1>8. /\ Q \in ProducerRecord /\ Q.prevTS = ts /\ Q.havePrev = TRUE /\ Q.ready = P.ready
        /\ Q.pts = IF P.havePrev THEN P.pts + Signed(ts - P.prevTS, TsWidth) ELSE P.pts
    <2>1. /\ Q \in ProducerRecord /\ Q.prevTS = ts /\ Q.havePrev = TRUE /\ Q.ready = B.ready
          /\ Q.pts = IF B.havePrev THEN B.pts + Signed(ts - B.prevTS, TsWidth) ELSE B.pts
      BY <1>6, <1>7, <1>Q, ClockSet, ZenonT(60)
    <2> QED
      BY <1>6, <2>1
  <1>r. PICK ready, R : ready = (P.ready \/ tryReady(Q)) /\ R = [Q EXCEPT !.ready = ready]
    OBVIOUS
  <1>9. ready \in BOOLEAN
    BY <1>4, <1>r DEF tryReady, ProducerRecord
  <1>10. R \in ProducerRecord /\ R.prevTS = ts /\ R.havePrev = TRUE /\ R.ready = ready /\ R.pts = Q.pts
    BY <1>8, <1>9, <1>r DEF ProducerRecord
  <1>11. \A m \in 1..Len(us) : UnitFrame(elements, us[m]) \in 1..3
    BY <1>4, RowStarts DEF UnitFrame
  <1>12. R.pts \in Int /\ \A m \in 1..Len(us) : R.pts - us[m].pts = (f - UnitFrame(elements, us[m])) * TsStep
    <2>1. R.pts \in Int
      BY <1>10 DEF ProducerRecord
    <2>2. R.pts = IF P.havePrev THEN P.pts + Signed(StampOf(f) - P.prevTS, TsWidth) ELSE P.pts
      BY <1>8, <1>10, <1>Q
    <2> QED
      BY <1>1, <1>4, <1>11, <2>1, <2>2, ClockMovesOn
  <1>u. PICK u : u = [pts |-> Q.pts, pkts |-> v]
    OBVIOUS
  <1>13. done = IF v = <<>> THEN [prod |-> P, units |-> us]
                ELSE [prod |-> R, units |-> IF ready THEN Append(us, u) ELSE us]
    BY <1>V, <1>c, <1>b, <1>B, <1>Q, <1>r, <1>u, Zenon DEF handleFrame
  <1>14. CASE V = {}
    <2>1. done.prod = P /\ done.units = us
      BY <1>3, <1>13, <1>14
    <2>2. HandledTo(G, P, us, f, V, done)
      BY <1>14, <2>1 DEF HandledTo, Outcome
    <2> QED
      BY <1>V, <2>2
  <1>15. CASE V # {} /\ ~ ready
    <2>1. done.prod = R /\ done.units = us
      BY <1>3, <1>13, <1>15
    <2>2. us = <<>>
      BY <1>4, <1>15, <1>r
    <2>3. ClockRight(elements, R, us)
      BY <1>1, <1>10, <1>12, <1>Q DEF ClockRight
    <2>4. GoodProd(elements, G, R, us)
      BY <1>4, <1>10, <2>2, <2>3 DEF GoodProd, GoodUnits, UnitRecord
    <2>5. HandledTo(G, P, us, f, V, done)
      BY <1>15, <2>1, <2>2, <2>4 DEF HandledTo, Outcome
    <2> QED
      BY <1>V, <2>5
  <1>16. CASE V # {} /\ ready
    <2>t. PICK t : t = Append(us, u)
      OBVIOUS
    <2>1. done.prod = R /\ done.units = t
      BY <1>3, <1>13, <1>16, <2>t
    <2>2. u.pts = R.pts /\ u.pkts = v /\ u \in UnitRecord
      BY <1>2, <1>10, <1>12, <1>u DEF UnitRecord
    <2>3. FrameRow(elements, G, v)
      BY <1>2, <1>3, <1>16 DEF FrameRow
    <2>4. UnitFrame(elements, u) = f
      <3>1. v[1] \in Range(v)
        BY <2>3, RowStarts
      <3>2. v[1] \in Range(x)
        BY <1>2, <1>V, <3>1 DEF VideoPart
      <3>3. Fr(elements, v[1]) = Fr(elements, x[1])
        BY <1>1, <3>2, SameFrame
      <3> QED
        BY <2>2, <3>3 DEF UnitFrame
    <2>5. /\ t \in Seq(UnitRecord) /\ t # <<>> /\ Len(t) = Len(us) + 1
          /\ \A m \in 1..Len(us) : t[m] = us[m]
          /\ t[Len(us) + 1] = u
          /\ \A m \in 1..Len(t) : m \in 1..Len(us) \/ m = Len(us) + 1
      BY <1>4, <2>2, <2>t, UnitsLonger
    <2>6. \A m \in 1..Len(t) : FrameRow(elements, G, t[m].pkts)
      BY <1>4, <2>2, <2>3, <2>5
    <2>7. \A m \in 1..Len(t) : R.pts - t[m].pts = (f - UnitFrame(elements, t[m])) * TsStep
      <3> SUFFICES ASSUME NEW m \in 1..Len(t)
                   PROVE  R.pts - t[m].pts = (f - UnitFrame(elements, t[m])) * TsStep
        OBVIOUS
      <3>1. CASE m \in 1..Len(us)
        <4>1. t[m] = us[m]
          BY <2>5, <3>1
        <4> QED
          BY <1>12, <3>1, <4>1
      <3>2. CASE m = Len(us) + 1
        <4>1. t[m] = u
          BY <2>5, <3>2
        <4>2. R.pts - u.pts = 0 /\ (f - f) * TsStep = 0
          BY <1>1, <1>12, <2>2, MediaWidths
        <4> QED
          BY <2>4, <4>1, <4>2
      <3> QED
        BY <2>5, <3>1, <3>2
    <2>8. ClockRight(elements, R, t)
      BY <1>1, <1>10, <2>7, <1>Q DEF ClockRight
    <2>9. GoodProd(elements, G, R, t)
      BY <1>10, <1>16, <2>5, <2>6, <2>8 DEF GoodProd, GoodUnits, UnitRecord
    <2>10. UnitMore(us, t, f, V)
      BY <1>2, <2>2, <2>4, <2>t DEF UnitMore
    <2>11. HandledTo(G, P, us, f, V, done)
      BY <1>16, <2>1, <2>9, <2>10 DEF HandledTo, Outcome
    <2> QED
      BY <1>V, <2>11
  <1> QED
    BY <1>9, <1>14, <1>15, <1>16

-----------------------------------------------------------------------------
(* A frame is over.                                                         *)
IsAssembler(A) == A = [asm |-> A.asm, prod |-> A.prod, units |-> A.units]

Assembled(G, A) ==
  /\ IsAssembler(A)
  /\ GoodAsm(elements, G, A.asm)
  /\ GoodProd(elements, G, A.prod, A.units)

WholeFrame(G, x, f) == Range(x) = OfFrame(elements, G, f) /\ Newest(elements, G, f)

LEMMA AllPublished ==
  ASSUME NEW G, G \subseteq 1..Len(elements), GoodSession(elements), NEW a, NEW b, NEW us, NEW t, NEW f \in 1..3,
         us \in Seq(UnitRecord),
         AllOfFrames(elements, G, a, us), WholeFrame(G, a.pkts, f), Range(b.pkts) = {},
         Outcome(us, t, f, VideoPart(elements, OfFrame(elements, G, f)))
  PROVE  AllOfFrames(elements, G, b, t)
PROOF
  <1>V. PICK V : V = VideoPart(elements, OfFrame(elements, G, f))
    OBVIOUS
  <1>1. \A m \in 1..Len(us) :
          Range(us[m].pkts) = VideoPart(elements, OfFrame(elements, G, UnitFrame(elements, us[m])))
    BY DEF AllOfFrames
  <1>2. ASSUME NEW g \in 1..3, VideoPart(elements, OfFrame(elements, G, g)) # {}, g # f
        PROVE  g < f /\ (Published(elements, us, g) \/ \A m \in 1..Len(us) : g < UnitFrame(elements, us[m]))
    <2>1. PICK i \in G : Fr(elements, i) = g
      BY <1>2 DEF VideoPart, OfFrame
    <2>2. g < f
      BY <1>2, <2>1 DEF WholeFrame, Newest
    <2>3. OfFrame(elements, G, g) \cap Range(a.pkts) = {}
      BY <1>2 DEF WholeFrame, OfFrame
    <2> QED
      BY <1>2, <2>2, <2>3 DEF AllOfFrames
  <1>3. CASE t = us /\ (V = {} \/ us = <<>>)
    <2>1. \A m \in 1..Len(t) :
            Range(t[m].pkts) = VideoPart(elements, OfFrame(elements, G, UnitFrame(elements, t[m])))
      BY <1>1, <1>3
    <2>2. CASE us = <<>>
      <3>1. \A m : m \notin 1..Len(t)
        BY <1>3, <2>2
      <3> QED
        BY <3>1 DEF AllOfFrames
    <2>3. CASE V = {}
      <3>1. \A g \in 1..3 : VideoPart(elements, OfFrame(elements, G, g)) # {} =>
               Published(elements, us, g) \/ \A m \in 1..Len(us) : g < UnitFrame(elements, us[m])
        BY <1>2, <1>V, <2>3
      <3> QED
        BY <1>3, <2>1, <3>1 DEF AllOfFrames
    <2> QED
      BY <1>3, <2>2, <2>3
  <1>4. CASE UnitMore(us, t, f, V)
    <2>u. PICK u \in UnitRecord : t = Append(us, u) /\ Range(u.pkts) = V /\ UnitFrame(elements, u) = f
      BY <1>4 DEF UnitMore
    <2>1. /\ t \in Seq(UnitRecord) /\ t # <<>> /\ Len(t) = Len(us) + 1
          /\ \A m \in 1..Len(us) : t[m] = us[m]
          /\ t[Len(us) + 1] = u
          /\ \A m \in 1..Len(t) : m \in 1..Len(us) \/ m = Len(us) + 1
      BY <2>u, UnitsLonger
    <2>2. \A m \in 1..Len(t) :
            Range(t[m].pkts) = VideoPart(elements, OfFrame(elements, G, UnitFrame(elements, t[m])))
      BY <1>1, <1>V, <2>1, <2>u
    <2>3. Len(us) + 1 \in 1..Len(t) /\ \A m \in 1..Len(us) : m \in 1..Len(t)
      BY <2>1
    <2>4. Published(elements, t, f)
      BY <2>1, <2>3, <2>u DEF Published
    <2>5. ASSUME NEW g \in 1..3, VideoPart(elements, OfFrame(elements, G, g)) # {}, g # f
          PROVE  Published(elements, t, g) \/ \A m \in 1..Len(t) : g < UnitFrame(elements, t[m])
      <3>1. CASE Published(elements, us, g)
        BY <2>1, <2>3, <3>1 DEF Published
      <3>2. CASE \A m \in 1..Len(us) : g < UnitFrame(elements, us[m])
        <4>1. g < f
          BY <1>2, <2>5
        <4> QED
          BY <2>1, <2>u, <3>2, <4>1
      <3> QED
        BY <1>2, <2>5, <3>1, <3>2
    <2> QED
      BY <2>2, <2>4, <2>5 DEF AllOfFrames
  <1>5. (t = us /\ (V = {} \/ us = <<>>)) \/ UnitMore(us, t, f, V)
    BY <1>V DEF Outcome
  <1> QED
    BY <1>3, <1>4, <1>5

Emptied(a, b) == b = [a EXCEPT !.have = FALSE, !.pkts = <<>>]

LEMMA EmptyAsm ==
  ASSUME NEW G, NEW a, GoodAsm(elements, G, a), NEW b, Emptied(a, b)
  PROVE  GoodAsm(elements, G, b) /\ b.have = FALSE /\ b.pkts = <<>> /\ Range(b.pkts) = {}
PROOF
  <1>1. b \in [have : BOOLEAN, ts : Int, pkts : Seq(Nat)] /\ b.have = FALSE /\ b.pkts = <<>>
    <2>1. a \in [have : BOOLEAN, ts : Int, pkts : Seq(Nat)]
      BY DEF GoodAsm
    <2>e. PICK e : e = <<>>
      OBVIOUS
    <2>2. b = [a EXCEPT !.have = FALSE, !.pkts = e]
      BY <2>e DEF Emptied
    <2>3. e \in Seq(Nat)
      BY <2>e
    <2> HIDE <2>e
    <2>4. b \in [have : BOOLEAN, ts : Int, pkts : Seq(Nat)] /\ b.have = FALSE /\ b.pkts = e
      BY <2>1, <2>2, <2>3
    <2> QED
      BY <2>4, <2>e
  <1>2. Range(<<>>) = {} /\ <<>> \in Seq(Nat)
    BY Nothing
  <1>3. OneFrame(elements, G, <<>>)
    BY <1>2 DEF OneFrame
  <1> QED
    BY <1>1, <1>2, <1>3 DEF GoodAsm

LEMMA FrameFlushed ==
  ASSUME NEW G, G \subseteq 1..Len(elements), GoodSession(elements), NEW A, Assembled(G, A), A.asm.have,
         NEW f, f = Fr(elements, A.asm.pkts[1]), NEW F, F = flush(A)
  PROVE  /\ Assembled(G, F) /\ F.asm.pkts = <<>> /\ Range(F.asm.pkts) = {} /\ F.asm.have = FALSE /\ f \in 1..3
         /\ AllOfFrames(elements, G, A.asm, A.units) /\ WholeFrame(G, A.asm.pkts, f) =>
              AllOfFrames(elements, G, F.asm, F.units)
PROOF
  <1>s. PICK s, x, done, b : /\ s = A.asm.pkts /\ x = Sorted(s)
                             /\ done = handleFrame(A.prod, A.units, A.asm.ts, x)
                             /\ b = [A.asm EXCEPT !.have = FALSE, !.pkts = <<>>]
    OBVIOUS
  <1>1. F = [asm |-> b, prod |-> done.prod, units |-> done.units]
    BY <1>s, Zenon DEF flush
  <1>2. IsAssembler(F) /\ F.asm = b /\ F.prod = done.prod /\ F.units = done.units
    <2> HIDE <1>s
    <2> QED
      BY <1>1 DEF IsAssembler
  <1>3. GoodAsm(elements, G, A.asm) /\ GoodProd(elements, G, A.prod, A.units)
    BY DEF Assembled
  <1>4. Emptied(A.asm, b)
    BY <1>s, Zenon DEF Emptied
  <1>5. GoodAsm(elements, G, b) /\ b.have = FALSE /\ b.pkts = <<>> /\ Range(b.pkts) = {}
    BY <1>3, <1>4, EmptyAsm, Zenon
  <1> HIDE <1>1
  <1>6. s # <<>> /\ OneFrame(elements, G, s) /\ A.asm.ts = StampOf(f)
    BY <1>3, <1>s DEF GoodAsm
  <1>7. FrameRow(elements, G, x) /\ Range(x) = Range(s)
    BY <1>6, <1>s, SortedRow DEF FrameRow
  <1>8. f = Fr(elements, x[1]) /\ f \in 1..3
    <2>1. FrameRow(elements, G, x) => x[1] \in Range(x) /\ Fr(elements, x[1]) \in 1..3
      BY RowStarts
    <2>2. s[1] \in Range(s)
      <3>1. s \in Seq(Nat) /\ s # <<>>
        BY <1>6 DEF OneFrame
      <3>2. 1 \in 1..Len(s)
        BY <3>1
      <3> QED
        BY <3>1, <3>2, Members
    <2>3. Fr(elements, s[1]) = Fr(elements, x[1])
      BY <1>6, <1>7, <2>1, <2>2, SameFrame
    <2> QED
      BY <1>7, <1>s, <2>1, <2>3
  <1>V. PICK V : V = VideoPart(elements, Range(x))
    OBVIOUS
  <1>9. HandledTo(G, A.prod, A.units, f, V, done)
    <2>1. done = handleFrame(A.prod, A.units, StampOf(f), x)
      BY <1>6, <1>s
    <2>2. HandledTo(G, A.prod, A.units, f, VideoPart(elements, Range(x)), handleFrame(A.prod, A.units, StampOf(f), x))
      BY <1>3, <1>7, <1>8, FrameHandled, Zenon
    <2> QED
      BY <1>V, <2>1, <2>2, Zenon
  <1>10. Assembled(G, F)
    BY <1>2, <1>5, <1>9 DEF Assembled, HandledTo
  <1>11. ASSUME AllOfFrames(elements, G, A.asm, A.units), WholeFrame(G, A.asm.pkts, f)
         PROVE  AllOfFrames(elements, G, F.asm, F.units)
    <2>1. V = VideoPart(elements, OfFrame(elements, G, f))
      BY <1>7, <1>11, <1>s, <1>V DEF WholeFrame
    <2>2. A.units \in Seq(UnitRecord)
      BY <1>3 DEF GoodProd, GoodUnits, UnitRecord
    <2>3. Outcome(A.units, done.units, f, VideoPart(elements, OfFrame(elements, G, f)))
      BY <1>9, <2>1, Zenon DEF HandledTo
    <2>a. PICK a, us, t : a = A.asm /\ us = A.units /\ t = done.units
      OBVIOUS
    <2>4. AllOfFrames(elements, G, a, us) /\ WholeFrame(G, a.pkts, f) /\ us \in Seq(UnitRecord)
          /\ Outcome(us, t, f, VideoPart(elements, OfFrame(elements, G, f)))
      BY <1>11, <2>2, <2>3, <2>a, Zenon
    <2>5. AllOfFrames(elements, G, b, t)
      <3> HIDE <2>a
      <3> QED
        BY <1>5, <1>8, <2>4, AllPublished
    <2> QED
      BY <1>2, <2>5, <2>a, Zenon
  <1> QED
    BY <1>2, <1>5, <1>8, <1>10, <1>11

-----------------------------------------------------------------------------
(* A packet comes in.                                                       *)
LEMMA PacketIs ==
  ASSUME NEW i
  PROVE  Stamp(i) = StampOf(Fr(elements, i)) /\ (Marker(i) <=> IsLast(elements, i))
  BY DEF Stamp, StampOf, Marker, IsLast, Fr, FrameOf, Time

LEMMA MoreCame ==
  ASSUME NEW G, NEW H, G \subseteq H
  PROVE  /\ \A x : OneFrame(elements, G, x) => OneFrame(elements, H, x)
         /\ \A P, us : GoodProd(elements, G, P, us) => GoodProd(elements, H, P, us)
PROOF
  <1>1. \A x : OneFrame(elements, G, x) => OneFrame(elements, H, x)
    BY DEF OneFrame
  <1>2. \A x : FrameRow(elements, G, x) => FrameRow(elements, H, x)
    BY <1>1 DEF FrameRow
  <1>3. ASSUME NEW P, NEW us, GoodProd(elements, G, P, us)
        PROVE  GoodProd(elements, H, P, us)
    <2>1. GoodUnits(elements, H, us)
      BY <1>2, <1>3, Zenon DEF GoodProd, GoodUnits
    <2> QED
      BY <1>3, <2>1, Zenon DEF GoodProd
  <1> QED
    BY <1>1, <1>3

(* Not more than five packets are of one frame.                             *)
LEMMA FrameLength ==
  ASSUME NEW G, G \subseteq 1..Len(elements), GoodSession(elements), NEW x, OneFrame(elements, G, x)
  PROVE  Len(x) <= 5
PROOF
  <1>y. PICK y : y = Sorted(x)
    OBVIOUS
  <1>1. x \in Seq(Nat) /\ (\A i, j \in 1..Len(x) : x[i] = x[j] => i = j) /\ Range(x) \subseteq G
    BY DEF OneFrame
  <1>2. OneFrame(elements, G, y) /\ Rising(y) /\ Range(y) = Range(x)
    BY <1>y, SortedRow, Zenon
  <1>3. y \in Seq(Nat) /\ Range(y) \subseteq 1..Len(elements)
    BY <1>2 DEF OneFrame
  <1>4. Len(y) = Len(x)
    BY <1>1, <1>2, <1>3, SameLength
  <1> SUFFICES ASSUME Len(x) > 5 PROVE FALSE
    BY <1>1
  <1>5. /\ \A n \in 1..6 : n \in 1..Len(y) /\ n \in DOMAIN y /\ y[n] \in Nat /\ y[n] \in 1..Len(elements)
        /\ Fr(elements, y[6]) = Fr(elements, y[1])
    <2>1. \A n \in 1..6 : n \in 1..Len(y) /\ n \in DOMAIN y
      BY <1>1, <1>3, <1>4
    <2>2. \A n \in 1..6 : y[n] \in Range(y) /\ y[n] \in Nat
      BY <1>3, <2>1, Members
    <2>3. Fr(elements, y[6]) = Fr(elements, y[1])
      BY <1>2, <2>1 DEF OneFrame
    <2> QED
      BY <1>3, <2>1, <2>2, <2>3
  <1>6. y[1] < y[2] /\ y[2] < y[3] /\ y[3] < y[4] /\ y[4] < y[5] /\ y[5] < y[6]
    BY <1>2, <1>5, SMTT(30) DEF Rising
  <1>7. y[6] - y[1] <= 4
    BY <1>5, SMTT(30) DEF GoodSession
  <1>a. PICK a, b, c, d, e, f : a = y[1] /\ b = y[2] /\ c = y[3] /\ d = y[4] /\ e = y[5] /\ f = y[6]
    OBVIOUS
  <1>8. a \in Nat /\ b \in Nat /\ c \in Nat /\ d \in Nat /\ e \in Nat /\ f \in Nat
    BY <1>5, <1>a
  <1>9. a < b /\ b < c /\ c < d /\ d < e /\ e < f /\ f - a <= 4
    BY <1>6, <1>7, <1>a
  <1> QED
    BY <1>8, <1>9

(* One more packet of the frame.                                            *)
Joins(i, G, H) == i \notin G /\ H = G \cup {i} /\ H \subseteq 1..Len(elements)

PutLast(x, i, z) == z = Append(x, i)

LEMMA PacketAdded ==
  ASSUME NEW G, NEW H, GoodSession(elements), NEW i \in 1..Len(elements), Joins(i, G, H), NEW x, OneFrame(elements, G, x),
         \A j \in Range(x) : Fr(elements, j) = Fr(elements, i), NEW z, PutLast(x, i, z)
  PROVE  /\ OneFrame(elements, H, z) /\ z # <<>> /\ Range(z) = Range(x) \cup {i}
         /\ Fr(elements, z[1]) = Fr(elements, i) /\ Len(x) < MaxPackets
PROOF
  <1>0. i \notin G /\ H = G \cup {i} /\ H \subseteq 1..Len(elements)
    BY DEF Joins
  <1>z. z = Append(x, i)
    BY DEF PutLast
  <1>1. x \in Seq(Nat) /\ (\A k, j \in 1..Len(x) : x[k] = x[j] => k = j) /\ Range(x) \subseteq G
    BY DEF OneFrame
  <1>n. PICK n : n = Len(x)
    OBVIOUS
  <1>2. n \in Nat /\ \A k \in 1..n : x[k] \in Range(x)
    BY <1>1, <1>n, Members
  <1>3. i \in Nat /\ i \notin Range(x)
    <2>1. Len(elements) \in Nat
      BY DEF GoodSession
    <2> QED
      BY <1>0, <1>1, <2>1
  <1>4. /\ z \in Seq(Nat) /\ z # <<>> /\ Range(z) = Range(x) \cup {i} /\ Len(z) = n + 1
    BY <1>1, <1>3, <1>n, <1>z, Appended
  <1>5. z[n + 1] = i /\ \A k \in 1..n : z[k] = x[k]
    BY <1>1, <1>n, <1>z
  <1>6. \A k \in 1..n + 1 : k \in 1..n \/ k = n + 1
    BY <1>2
  <1>7. \A k \in 1..n + 1 : Fr(elements, z[k]) = Fr(elements, i)
    BY <1>2, <1>5, <1>6
  <1>8. \A k, j \in 1..n + 1 : z[k] = z[j] => k = j
    <2> SUFFICES ASSUME NEW k \in 1..n + 1, NEW j \in 1..n + 1, z[k] = z[j] PROVE k = j
      OBVIOUS
    <2>1. CASE k \in 1..n /\ j \in 1..n
      BY <1>1, <1>5, <1>n, <2>1
    <2>2. CASE k = n + 1 /\ j \in 1..n
      <3>1. i = x[j]
        BY <1>5, <2>2
      <3> QED
        BY <1>2, <1>3, <2>2, <3>1
    <2>3. CASE j = n + 1 /\ k \in 1..n
      <3>1. i = x[k]
        BY <1>5, <2>3
      <3> QED
        BY <1>2, <1>3, <2>3, <3>1
    <2> QED
      BY <1>6, <2>1, <2>2, <2>3
  <1>9. OneFrame(elements, H, z)
    BY <1>0, <1>1, <1>4, <1>7, <1>8 DEF OneFrame
  <1>10. n + 1 <= 5
    BY <1>0, <1>4, <1>9, FrameLength
  <1>11. 1 \in 1..n + 1
    BY <1>2
  <1>12. n < MaxPackets
    BY <1>2, <1>10, MediaWidths
  <1> QED
    BY <1>4, <1>7, <1>9, <1>11, <1>12, <1>n

(* Nothing of the packet's frame or of a later one is over.                 *)
Timely(G, i) ==
  \A j \in G : /\ Fr(elements, j) <= Fr(elements, i)
               /\ Fr(elements, j) = Fr(elements, i) => ~ IsLast(elements, j)

Complete(G, A) ==
  AllOfFrames(elements, G, A.asm, A.units) /\ OnlyEarlier(elements, G, A.asm.pkts)

(* The frame before is flushed first, if it is there still.                 *)
Cleared(A, i, B) == B = IF A.asm.have /\ A.asm.ts # Stamp(i) THEN flush(A) ELSE A

LEMMA FrameBefore ==
  ASSUME NEW G, G \subseteq 1..Len(elements), GoodSession(elements), NEW A, Assembled(G, A),
         NEW i \in 1..Len(elements), NEW B, Cleared(A, i, B)
  PROVE  /\ Assembled(G, B)
         /\ \A j \in Range(B.asm.pkts) : Fr(elements, j) = Fr(elements, i)
         /\ Timely(G, i) /\ Complete(G, A) =>
              /\ AllOfFrames(elements, G, B.asm, B.units)
              /\ Range(B.asm.pkts) = OfFrame(elements, G, Fr(elements, i))
PROOF
  <1>x. PICK x, f, g : x = A.asm.pkts /\ f = Fr(elements, x[1]) /\ g = Fr(elements, i)
    OBVIOUS
  <1>1. GoodAsm(elements, G, A.asm) /\ OneFrame(elements, G, x) /\ x \in Seq(Nat) /\ Range(x) \subseteq G
    BY <1>x DEF Assembled, GoodAsm, OneFrame
  <1>2. /\ A.asm.have <=> x # <<>>
        /\ A.asm.have => A.asm.ts = StampOf(f)
    BY <1>1, <1>x DEF GoodAsm
  <1>3. g \in 1..3
    BY <1>x DEF GoodSession
  <1>4. x # <<>> => f \in 1..3 /\ \A j \in Range(x) : Fr(elements, j) = f
    <2> SUFFICES ASSUME x # <<>> PROVE f \in 1..3 /\ \A j \in Range(x) : Fr(elements, j) = f
      OBVIOUS
    <2>1. 1 \in 1..Len(x)
      BY <1>1
    <2>2. x[1] \in Range(x) /\ x[1] \in 1..Len(elements)
      BY <1>1, <2>1, Members
    <2>3. \A j \in Range(x) : Fr(elements, j) = Fr(elements, x[1])
      BY <1>1, <2>2, SameFrame
    <2> QED
      BY <1>x, <2>2, <2>3 DEF GoodSession
  <1>5. x # <<>> => (A.asm.ts # Stamp(i) <=> f # g)
    BY <1>2, <1>3, <1>4, <1>x, FramesApart, PacketIs
  <1>6. x = <<>> => Range(x) = {}
    BY Nothing
  <1>7. ASSUME Timely(G, i), Complete(G, A)
        PROVE  \A j \in G : Fr(elements, j) = g => j \in Range(x)
    <2>1. \A j \in G \ Range(x) : \E k \in G : (Fr(elements, k) = Fr(elements, j) /\ IsLast(elements, k))
                                                \/ Fr(elements, k) > Fr(elements, j)
      BY <1>7, <1>x, Zenon DEF Complete, OnlyEarlier
    <2> SUFFICES ASSUME NEW j \in G, Fr(elements, j) = g, j \notin Range(x) PROVE FALSE
      OBVIOUS
    <2>2. PICK k \in G : (Fr(elements, k) = g /\ IsLast(elements, k)) \/ Fr(elements, k) > g
      BY <2>1
    <2>3. Fr(elements, k) \in 1..3 /\ Fr(elements, k) <= g /\ (Fr(elements, k) = g => ~ IsLast(elements, k))
      BY <1>7, <1>x DEF Timely, GoodSession
    <2> QED
      BY <1>3, <2>2, <2>3
  <1>8. CASE A.asm.have /\ f # g
    <2>1. B = flush(A)
      BY <1>2, <1>5, <1>8, Zenon DEF Cleared
    <2>2. /\ Assembled(G, B) /\ Range(B.asm.pkts) = {}
          /\ AllOfFrames(elements, G, A.asm, A.units) /\ WholeFrame(G, x, f) => AllOfFrames(elements, G, B.asm, B.units)
      BY <1>8, <1>x, <2>1, FrameFlushed
    <2>3. ASSUME Timely(G, i), Complete(G, A)
          PROVE  /\ AllOfFrames(elements, G, B.asm, B.units)
                 /\ Range(B.asm.pkts) = OfFrame(elements, G, g)
      <3>1. WholeFrame(G, x, f)
        BY <1>2, <1>8, <1>x, <2>3, Zenon DEF Complete, OnlyEarlier, WholeFrame
      <3>2. AllOfFrames(elements, G, A.asm, A.units)
        BY <2>3 DEF Complete
      <3>3. OfFrame(elements, G, g) = {}
        BY <1>2, <1>4, <1>7, <1>8, <2>3 DEF OfFrame
      <3> QED
        BY <2>2, <3>1, <3>2, <3>3
    <2> QED
      BY <1>x, <2>2, <2>3
  <1>9. CASE ~ (A.asm.have /\ f # g)
    <2>1. B = A
      BY <1>2, <1>5, <1>9, Zenon DEF Cleared
    <2>2. \A j \in Range(x) : Fr(elements, j) = g
      BY <1>2, <1>4, <1>6, <1>9
    <2>3. ASSUME Timely(G, i), Complete(G, A)
          PROVE  /\ AllOfFrames(elements, G, B.asm, B.units)
                 /\ Range(B.asm.pkts) = OfFrame(elements, G, g)
      <3>1. Range(x) = OfFrame(elements, G, g)
        BY <1>1, <1>7, <2>2, <2>3 DEF OfFrame
      <3> QED
        BY <1>x, <2>1, <2>3, <3>1 DEF Complete
    <2> QED
      BY <1>x, <2>1, <2>2, <2>3
  <1> QED
    BY <1>8, <1>9

(* Then the packet is with those of its frame.                              *)
Taken(B, i, C) ==
  C = [B EXCEPT !.asm = [have |-> TRUE, ts |-> Stamp(i),
                         pkts |-> IF Len(@.pkts) < MaxPackets THEN Append(@.pkts, i) ELSE @.pkts]]

LEMMA TakenIs ==
  ASSUME NEW B, IsAssembler(B), NEW i, NEW C, Taken(B, i, C), Len(B.asm.pkts) < MaxPackets
  PROVE  /\ IsAssembler(C) /\ C.prod = B.prod /\ C.units = B.units
         /\ C.asm = [have |-> TRUE, ts |-> Stamp(i), pkts |-> Append(B.asm.pkts, i)]
PROOF
  <1>a. PICK a, p, u : a = B.asm /\ p = B.prod /\ u = B.units
    OBVIOUS
  <1>1. B = [asm |-> a, prod |-> p, units |-> u]
    BY <1>a DEF IsAssembler
  <1>n. PICK new : new = [have |-> TRUE, ts |-> Stamp(i), pkts |-> Append(a.pkts, i)]
    OBVIOUS
  <1>2. C = [B EXCEPT !.asm = new]
    BY <1>a, <1>n, Zenon DEF Taken
  <1>3. C = [asm |-> new, prod |-> p, units |-> u]
    <2> HIDE <1>a, <1>n
    <2> QED
      BY <1>1, <1>2
  <1> QED
    BY <1>3, <1>a, <1>n DEF IsAssembler

LEMMA PacketTaken ==
  ASSUME NEW G, NEW H, GoodSession(elements), NEW i \in 1..Len(elements), Joins(i, G, H),
         NEW B, Assembled(G, B),
         \A j \in Range(B.asm.pkts) : Fr(elements, j) = Fr(elements, i), NEW C, Taken(B, i, C)
  PROVE  /\ Assembled(H, C) /\ C.asm.have /\ Fr(elements, C.asm.pkts[1]) = Fr(elements, i)
         /\ Range(C.asm.pkts) = Range(B.asm.pkts) \cup {i}
         /\ Range(B.asm.pkts) = OfFrame(elements, G, Fr(elements, i)) /\ AllOfFrames(elements, G, B.asm, B.units) =>
              AllOfFrames(elements, H, C.asm, C.units)
PROOF
  <1>0. i \notin G /\ H = G \cup {i} /\ H \subseteq 1..Len(elements) /\ G \subseteq 1..Len(elements)
    BY DEF Joins
  <1>x. PICK x, z, g : x = B.asm.pkts /\ z = Append(x, i) /\ g = Fr(elements, i)
    OBVIOUS
  <1>1. GoodAsm(elements, G, B.asm) /\ OneFrame(elements, G, x) /\ GoodProd(elements, G, B.prod, B.units)
        /\ IsAssembler(B)
    BY <1>x DEF Assembled, GoodAsm
  <1>2. OneFrame(elements, H, z) /\ z # <<>> /\ Range(z) = Range(x) \cup {i}
        /\ Fr(elements, z[1]) = g /\ Len(x) < MaxPackets
    <2>1. \A j \in Range(x) : Fr(elements, j) = Fr(elements, i)
      BY <1>x, Zenon
    <2>2. /\ OneFrame(elements, H, z) /\ z # <<>> /\ Range(z) = Range(x) \cup {i}
          /\ Fr(elements, z[1]) = Fr(elements, i) /\ Len(x) < MaxPackets
      <3>1. PutLast(x, i, z) /\ OneFrame(elements, G, x)
        BY <1>1, <1>x, Zenon DEF PutLast
      <3> HIDE <1>x
      <3> QED
        BY <2>1, <3>1, PacketAdded
    <2> QED
      BY <1>x, <2>2
  <1>3. /\ IsAssembler(C) /\ C.prod = B.prod /\ C.units = B.units
        /\ C.asm = [have |-> TRUE, ts |-> Stamp(i), pkts |-> z]
    BY <1>1, <1>2, <1>x, TakenIs, Zenon
  <1>4. g \in 1..3 /\ Stamp(i) = StampOf(g) /\ Stamp(i) \in Int
    <2>1. g \in 1..3
      BY <1>x DEF GoodSession
    <2> QED
      BY <1>x, <2>1, PacketIs, FramesApart
  <1>5. C.asm.have = TRUE /\ C.asm.ts = StampOf(g) /\ C.asm.pkts = z /\ z \in Seq(Nat)
    BY <1>2, <1>3, <1>4 DEF OneFrame
  <1>6. C.asm \in [have : BOOLEAN, ts : Int, pkts : Seq(Nat)]
    <2>s. PICK s : s = Stamp(i)
      OBVIOUS
    <2> QED
      BY <1>3, <1>4, <1>5, <2>s
  <1>7. GoodAsm(elements, H, C.asm)
    BY <1>2, <1>5, <1>6 DEF GoodAsm
  <1>8. Assembled(H, C)
    <2>1. GoodProd(elements, H, B.prod, B.units)
      BY <1>0, <1>1, MoreCame
    <2> QED
      BY <1>3, <1>7, <2>1, Zenon DEF Assembled
  <1>9. ASSUME Range(x) = OfFrame(elements, G, g), AllOfFrames(elements, G, B.asm, B.units)
        PROVE  AllOfFrames(elements, H, C.asm, C.units)
    <2>us. PICK us : us = B.units
      OBVIOUS
    <2>0. us \in Seq(UnitRecord) /\ \A m \in 1..Len(us) : FrameRow(elements, G, us[m].pkts)
      BY <1>1, <2>us DEF GoodProd, GoodUnits, UnitRecord
    <2>1. ASSUME NEW f, f # g
          PROVE  OfFrame(elements, H, f) = OfFrame(elements, G, f)
      BY <1>0, <1>x, <2>1 DEF OfFrame
    <2>2. ASSUME NEW m \in 1..Len(us)
          PROVE  /\ UnitFrame(elements, us[m]) # g
                 /\ Range(us[m].pkts) = VideoPart(elements, OfFrame(elements, G, UnitFrame(elements, us[m])))
                 /\ Range(us[m].pkts) \cap Range(z) = {}
      <3>y. PICK y : y = us[m].pkts
        OBVIOUS
      <3>1. FrameRow(elements, G, y)
        BY <2>0, <3>y
      <3>2. Range(y) = VideoPart(elements, OfFrame(elements, G, UnitFrame(elements, us[m])))
            /\ Range(y) \cap Range(x) = {}
        BY <1>9, <1>x, <2>us, <3>y DEF AllOfFrames
      <3>3. y[1] \in Range(y) /\ y[1] \in G
        <4>1. G \subseteq 1..Len(elements)
          BY <1>0
        <4> QED
          BY <3>1, <4>1, RowStarts
      <3>4. UnitFrame(elements, us[m]) = Fr(elements, y[1])
        BY <3>y DEF UnitFrame
      <3>5. Fr(elements, y[1]) # g
        BY <1>9, <3>2, <3>3 DEF OfFrame
      <3>6. i \notin Range(y)
        BY <1>0, <3>2, <3>4, <3>5, <1>x DEF VideoPart, OfFrame
      <3> QED
        BY <1>2, <3>2, <3>4, <3>5, <3>6, <3>y
    <2>3. \A m \in 1..Len(us) :
            /\ Range(us[m].pkts) = VideoPart(elements, OfFrame(elements, H, UnitFrame(elements, us[m])))
            /\ Range(us[m].pkts) \cap Range(z) = {}
      BY <2>1, <2>2
    <2>4. ASSUME NEW f \in 1..3, VideoPart(elements, OfFrame(elements, H, f)) # {},
                 OfFrame(elements, H, f) \cap Range(z) = {}
          PROVE  Published(elements, us, f) \/ \A m \in 1..Len(us) : f < UnitFrame(elements, us[m])
      <3>1. f # g
        BY <1>0, <1>2, <1>x, <2>4 DEF OfFrame
      <3>2. OfFrame(elements, G, f) \cap Range(x) = {} /\ VideoPart(elements, OfFrame(elements, G, f)) # {}
        BY <1>2, <2>1, <2>4, <3>1
      <3> QED
        BY <1>9, <1>x, <2>us, <3>2 DEF AllOfFrames
    <2> QED
      BY <1>3, <1>5, <2>3, <2>4, <2>us DEF AllOfFrames
  <1> QED
    BY <1>2, <1>5, <1>8, <1>9, <1>x

(* A packet that comes in.                                                  *)
LEMMA PushKeepsUnits ==
  ASSUME NEW G, NEW H, GoodSession(elements), NEW i \in 1..Len(elements), Joins(i, G, H),
         NEW A, Assembled(G, A), NEW R, R = push(A, i)
  PROVE  /\ Assembled(H, R)
         /\ Timely(G, i) /\ Complete(G, A) => Complete(H, R)
PROOF
  <1>0. i \in H /\ H = G \cup {i} /\ H \subseteq 1..Len(elements) /\ G \subseteq 1..Len(elements)
    BY DEF Joins
  <1>B. PICK B, C : /\ B = IF A.asm.have /\ A.asm.ts # Stamp(i) THEN flush(A) ELSE A
                    /\ C = [B EXCEPT !.asm = [have |-> TRUE, ts |-> Stamp(i),
                                pkts |-> IF Len(@.pkts) < MaxPackets THEN Append(@.pkts, i) ELSE @.pkts]]
    OBVIOUS
  <1>1. R = IF Marker(i) THEN flush(C) ELSE C
    BY <1>B, Zenon DEF push
  <1>2. Cleared(A, i, B) /\ Taken(B, i, C)
    BY <1>B, Zenon DEF Cleared, Taken
  <1> HIDE <1>B
  <1>g. PICK g, us : g = Fr(elements, i) /\ us = B.units
    OBVIOUS
  <1>3. /\ Assembled(G, B)
        /\ \A j \in Range(B.asm.pkts) : Fr(elements, j) = g
        /\ Timely(G, i) /\ Complete(G, A) =>
             /\ AllOfFrames(elements, G, B.asm, us)
             /\ Range(B.asm.pkts) = OfFrame(elements, G, g)
    <2>1. G \subseteq 1..Len(elements)
      BY <1>0
    <2>2. /\ Assembled(G, B)
          /\ \A j \in Range(B.asm.pkts) : Fr(elements, j) = Fr(elements, i)
          /\ Timely(G, i) /\ Complete(G, A) =>
               /\ AllOfFrames(elements, G, B.asm, B.units)
               /\ Range(B.asm.pkts) = OfFrame(elements, G, Fr(elements, i))
      BY <1>2, <2>1, FrameBefore, Zenon
    <2> QED
      BY <1>g, <2>2, Zenon
  <1>4. /\ Assembled(H, C) /\ C.asm.have /\ Fr(elements, C.asm.pkts[1]) = g
        /\ Range(C.asm.pkts) = Range(B.asm.pkts) \cup {i}
        /\ Range(B.asm.pkts) = OfFrame(elements, G, g) /\ AllOfFrames(elements, G, B.asm, us) =>
             AllOfFrames(elements, H, C.asm, C.units)
    <2>1. \A j \in Range(B.asm.pkts) : Fr(elements, j) = Fr(elements, i)
      BY <1>3, <1>g
    <2>2. /\ Assembled(H, C) /\ C.asm.have /\ Fr(elements, C.asm.pkts[1]) = Fr(elements, i)
          /\ Range(C.asm.pkts) = Range(B.asm.pkts) \cup {i}
          /\ Range(B.asm.pkts) = OfFrame(elements, G, Fr(elements, i)) /\ AllOfFrames(elements, G, B.asm, B.units) =>
               AllOfFrames(elements, H, C.asm, C.units)
      BY <1>2, <1>3, <2>1, PacketTaken, Zenon
    <2> QED
      BY <1>g, <2>2
  <1>5. g \in 1..3 /\ \A j \in H : Fr(elements, j) \in 1..3
    BY <1>0, <1>g DEF GoodSession
  <1>6. ASSUME Timely(G, i), Complete(G, A)
        PROVE  AllOfFrames(elements, H, C.asm, C.units) /\ WholeFrame(H, C.asm.pkts, g)
    <2>1. Range(C.asm.pkts) = OfFrame(elements, H, g)
      BY <1>0, <1>3, <1>4, <1>6, <1>g DEF OfFrame
    <2>2. Newest(elements, H, g)
      BY <1>0, <1>5, <1>6, <1>g DEF Newest, Timely
    <2> QED
      BY <1>3, <1>4, <1>6, <2>1, <2>2 DEF WholeFrame
  <1>7. CASE Marker(i)
    <2>1. R = flush(C)
      BY <1>1, <1>7
    <2>2. /\ Assembled(H, R) /\ R.asm.pkts = <<>> /\ Range(R.asm.pkts) = {}
          /\ AllOfFrames(elements, H, C.asm, C.units) /\ WholeFrame(H, C.asm.pkts, g) =>
               AllOfFrames(elements, H, R.asm, R.units)
      BY <1>0, <1>4, <2>1, FrameFlushed
    <2>3. ASSUME Timely(G, i), Complete(G, A)
          PROVE  Complete(H, R)
      <3>1. IsLast(elements, i) /\ i \in H
        BY <1>0, <1>7, PacketIs
      <3>2. \A j \in H : (Fr(elements, j) = g /\ IsLast(elements, i)) \/ g > Fr(elements, j)
        BY <1>5, <1>6, <2>3, <3>1 DEF WholeFrame, Newest
      <3>3. OnlyEarlier(elements, H, R.asm.pkts)
        BY <1>g, <2>2, <3>1, <3>2 DEF OnlyEarlier
      <3> QED
        BY <1>6, <2>2, <2>3, <3>3 DEF Complete
    <2> QED
      BY <2>2, <2>3
  <1>8. CASE ~ Marker(i)
    <2>1. R = C
      BY <1>1, <1>8
    <2>2. ASSUME Timely(G, i), Complete(G, A)
          PROVE  Complete(H, R)
      <3>x. PICK x : x = C.asm.pkts
        OBVIOUS
      <3>1. ~ IsLast(elements, i) /\ i \in H
        BY <1>0, <1>8, PacketIs
      <3>2. Range(x) = OfFrame(elements, H, g) /\ Newest(elements, H, g) /\ Fr(elements, x[1]) = g
        BY <1>4, <1>6, <2>2, <3>x DEF WholeFrame
      <3>3. \A j \in Range(x) : ~ IsLast(elements, j)
        BY <1>0, <1>g, <2>2, <3>1, <3>2 DEF Timely, OfFrame
      <3>4. \A j \in H \ Range(x) : g > Fr(elements, j)
        BY <1>5, <3>2 DEF OfFrame, Newest
      <3>5. OnlyEarlier(elements, H, x)
        BY <1>g, <3>1, <3>2, <3>3, <3>4 DEF OnlyEarlier
      <3> QED
        BY <1>6, <2>1, <2>2, <3>5, <3>x DEF Complete
    <2> QED
      BY <1>4, <2>1, <2>2
  <1> QED
    BY <1>7, <1>8

-----------------------------------------------------------------------------
(* The invariant holds of every session.                                    *)
ElementNames == {"PSM", "VPS", "SPS", "PPS", "IDR", "audio", "P"}

Cell == [frame : Nat, el : ElementNames]

IsPart(v, f) == v \in Seq(Cell) /\ Len(v) \in 1..5 /\ \A i \in 1..Len(v) : v[i].frame = f

LEMMA PartOfSession ==
  ASSUME NEW types \in Seq(ElementNames), Len(types) \in 1..5, NEW f \in Nat,
         NEW v, v = [i \in DOMAIN types |-> [frame |-> f, el |-> types[i]]]
  PROVE  IsPart(v, f)
PROOF
  <1>n. PICK n : n = Len(types)
    OBVIOUS
  <1>1. n \in 1..5 /\ DOMAIN types = 1..n /\ \A i \in 1..n : types[i] \in ElementNames
    BY <1>n
  <1>2. DOMAIN v = 1..n /\ \A i \in 1..n : v[i] = [frame |-> f, el |-> types[i]]
    BY <1>1
  <1>3. \A i \in 1..n : v[i] \in Cell /\ v[i].frame = f
    BY <1>1, <1>2 DEF Cell
  <1>4. v = [i \in 1..n |-> v[i]]
    BY <1>1
  <1>5. v \in [1..n -> Cell]
    BY <1>3, <1>4
  <1>6. v \in Seq(Cell) /\ Len(v) = n
    BY <1>1, <1>5
  <1> QED
    BY <1>1, <1>3, <1>6 DEF IsPart

LEMMA ThreeFrames ==
  ASSUME NEW a, NEW b, NEW c, IsPart(a, 1), IsPart(b, 2), IsPart(c, 3), NEW e, e = (a \o b) \o c
  PROVE  GoodSession(e)
PROOF
  <1>l. PICK l, m, n, d : l = Len(a) /\ m = Len(b) /\ n = Len(c) /\ d = a \o b
    OBVIOUS
  <1>0. a \in Seq(Cell) /\ b \in Seq(Cell) /\ c \in Seq(Cell) /\ l \in 1..5 /\ m \in 1..5 /\ n \in 1..5
    BY <1>l DEF IsPart
  <1>1. d \in Seq(Cell) /\ Len(d) = l + m /\ (\A i \in 1..l : d[i] = a[i]) /\ \A i \in 1..m : d[l + i] = b[i]
    BY <1>0, <1>l
  <1>2. /\ e \in Seq(Cell) /\ Len(e) = l + m + n /\ (\A i \in 1..l + m : e[i] = d[i])
        /\ \A i \in 1..n : e[l + m + i] = c[i]
    BY <1>0, <1>1, <1>l
  <1>3. \A i \in 1..l : e[i].frame = 1
    BY <1>0, <1>1, <1>2, <1>l DEF IsPart
  <1>4. \A i \in l + 1..l + m : e[i].frame = 2
    <2> SUFFICES ASSUME NEW i \in l + 1..l + m PROVE e[i].frame = 2
      OBVIOUS
    <2>1. i - l \in 1..m /\ l + (i - l) = i /\ i \in 1..l + m
      BY <1>0
    <2>2. e[i] = b[i - l]
      BY <1>1, <1>2, <2>1
    <2> QED
      BY <1>l, <2>1, <2>2 DEF IsPart
  <1>5. \A i \in l + m + 1..l + m + n : e[i].frame = 3
    <2> SUFFICES ASSUME NEW i \in l + m + 1..l + m + n PROVE e[i].frame = 3
      OBVIOUS
    <2>1. i - (l + m) \in 1..n /\ l + m + (i - (l + m)) = i
      BY <1>0
    <2>2. e[i] = c[i - (l + m)]
      BY <1>2, <2>1
    <2> QED
      BY <1>l, <2>1, <2>2 DEF IsPart
  <1>p. PICK p : p = l + m + n
    OBVIOUS
  <1>6. /\ p \in Nat /\ Len(e) = p
        /\ \A i \in 1..p : /\ i \in Int
                           /\ i <= l => Fr(e, i) = 1
                           /\ l < i /\ i <= l + m => Fr(e, i) = 2
                           /\ l + m < i => Fr(e, i) = 3
    <2>1. p \in Nat /\ Len(e) = p
      BY <1>0, <1>2, <1>p
    <2>2. ASSUME NEW i \in 1..p
          PROVE  /\ i \in Int
                 /\ i <= l => i \in 1..l
                 /\ l < i /\ i <= l + m => i \in l + 1..l + m
                 /\ l + m < i => i \in l + m + 1..l + m + n
      BY <1>0, <1>p
    <2> QED
      BY <1>3, <1>4, <1>5, <2>1, <2>2 DEF Fr
  <1>7. DOMAIN e = 1..Len(e)
    BY <1>2
  <1>8. \A i \in 1..p : Fr(e, i) \in 1..3
    BY <1>0, <1>6
  <1>9. \A i, j \in 1..p : i <= j => Fr(e, i) <= Fr(e, j)
    BY <1>0, <1>6
  <1>10. \A i, j \in 1..p : Fr(e, i) = Fr(e, j) => i - j <= 4
    <2> SUFFICES ASSUME NEW i \in 1..p, NEW j \in 1..p, Fr(e, i) = Fr(e, j) PROVE i - j <= 4
      OBVIOUS
    <2>1. \/ i <= l /\ j <= l
          \/ l < i /\ i <= l + m /\ l < j /\ j <= l + m
          \/ l + m < i /\ l + m < j
      BY <1>0, <1>6
    <2> QED
      BY <1>0, <1>p, <2>1
  <1> QED
    BY <1>6, <1>7, <1>8, <1>9, <1>10 DEF GoodSession

LEMMA SessionIsGood ==
  ASSUME NEW codec, NEW map \in BOOLEAN
  PROVE  GoodSession(Elements(codec, map))
PROOF
  <1>s. PICK sets, first, third :
          /\ sets = IF codec = "H265" THEN <<"VPS", "SPS", "PPS">> ELSE <<"SPS", "PPS">>
          /\ first = (IF map THEN <<"PSM">> ELSE <<>>) \o sets \o <<"IDR">>
          /\ third = sets \o <<"IDR">>
    OBVIOUS
  <1>p. PICK a, b, c :
          /\ a = [i \in DOMAIN first |-> [frame |-> 1, el |-> first[i]]]
          /\ b = [i \in DOMAIN <<"audio", "P">> |-> [frame |-> 2, el |-> <<"audio", "P">>[i]]]
          /\ c = [i \in DOMAIN third |-> [frame |-> 3, el |-> third[i]]]
    OBVIOUS
  <1>1. Elements(codec, map) = (a \o b) \o c
    BY <1>s, <1>p, Zenon DEF Elements
  <1>2. sets \in Seq(ElementNames) /\ Len(sets) \in 2..3
    <2>1. "VPS" \in ElementNames /\ "SPS" \in ElementNames /\ "PPS" \in ElementNames
      BY DEF ElementNames
    <2>2. /\ <<"VPS", "SPS", "PPS">> \in Seq(ElementNames) /\ Len(<<"VPS", "SPS", "PPS">>) = 3
          /\ <<"SPS", "PPS">> \in Seq(ElementNames) /\ Len(<<"SPS", "PPS">>) = 2
      BY <2>1, Lists, Zenon
    <2>3. sets \in Seq(ElementNames) /\ (Len(sets) = 2 \/ Len(sets) = 3)
      BY <1>s, <2>2, Zenon
    <2> QED
      BY <2>3
  <1>i. PICK idr : idr = <<"IDR">>
    OBVIOUS
  <1>9. idr \in Seq(ElementNames) /\ Len(idr) = 1
    <2>1. "IDR" \in ElementNames
      BY DEF ElementNames
    <2> QED
      BY <1>i, <2>1, Lists, Zenon
  <1>3. third \in Seq(ElementNames) /\ Len(third) \in 1..5
    <2>1. third = sets \o idr
      BY <1>s, <1>i, Zenon
    <2>2. third \in Seq(ElementNames) /\ Len(third) = Len(sets) + Len(idr)
      BY <1>2, <1>9, <2>1, ListsJoined, Zenon
    <2>l. PICK l, m, n : l = Len(sets) /\ m = Len(idr) /\ n = Len(third)
      OBVIOUS
    <2>3. l \in 2..3 /\ m = 1 /\ n = l + m
      BY <1>2, <1>9, <2>2, <2>l, Zenon
    <2>4. n \in 1..5
      BY <2>3
    <2> QED
      BY <2>2, <2>4, <2>l, Zenon
  <1>m. PICK m : m = IF map THEN <<"PSM">> ELSE <<>>
    OBVIOUS
  <1>4. m \in Seq(ElementNames) /\ Len(m) \in 0..1
    <2>1. "PSM" \in ElementNames
      BY DEF ElementNames
    <2>2. m \in Seq(ElementNames) /\ (Len(m) = 0 \/ Len(m) = 1)
      BY <1>m, <2>1, Lists, Zenon
    <2> QED
      BY <2>2
  <1>5. first \in Seq(ElementNames) /\ Len(first) \in 1..5
    <2>k. PICK k : k = m \o sets
      OBVIOUS
    <2>1. first = k \o idr
      BY <1>s, <1>i, <1>m, <2>k, Zenon
    <2>2. k \in Seq(ElementNames) /\ Len(k) = Len(m) + Len(sets)
      BY <1>2, <1>4, <2>k, ListsJoined, Zenon
    <2>3. first \in Seq(ElementNames) /\ Len(first) = Len(k) + Len(idr)
      BY <1>9, <2>1, <2>2, ListsJoined, Zenon
    <2>l. PICK l, j, h, n : l = Len(sets) /\ j = Len(m) /\ h = Len(k) /\ n = Len(first)
      OBVIOUS
    <2>4. l \in 2..3 /\ j \in 0..1 /\ h = j + l /\ n = h + 1
      BY <1>2, <1>4, <1>9, <2>2, <2>3, <2>l, Zenon
    <2>5. n \in 1..5
      BY <2>4
    <2> QED
      BY <2>3, <2>5, <2>l, Zenon
  <1>6. <<"audio", "P">> \in Seq(ElementNames) /\ Len(<<"audio", "P">>) \in 1..5
    <2>1. "audio" \in ElementNames /\ "P" \in ElementNames
      BY DEF ElementNames
    <2>2. <<"audio", "P">> \in Seq(ElementNames) /\ Len(<<"audio", "P">>) = 2
      BY <2>1, Lists, Zenon
    <2> QED
      BY <2>2
  <1>7. IsPart(a, 1) /\ IsPart(b, 2) /\ IsPart(c, 3)
    BY <1>3, <1>5, <1>6, <1>p, PartOfSession
  <1> QED
    BY <1>1, <1>7, ThreeFrames

LEMMA FramesInvInit == ASSUME MediaInit PROVE FramesInv
PROOF
  <1>1. PICK map \in BOOLEAN : elements = Elements(codecSent, map)
    BY DEF MediaInit
  <1>2. GoodSession(elements)
    BY <1>1, SessionIsGood
  <1>3. PacketsInv
    <2>1. next = 1 /\ flight = {} /\ arrived = {} /\ crossed = FALSE
      BY DEF MediaInit
    <2>2. Len(elements) \in Nat
      BY <1>2 DEF GoodSession
    <2>3. next \in 1..Len(elements) + 1
      BY <2>1, <2>2
    <2>4. arrived \cup flight \subseteq 1..next - 1 /\ arrived \cap flight = {}
      BY <2>1
    <2> QED
      BY <1>2, <2>1, <2>3, <2>4 DEF PacketsInv
  <1>4. GoodAsm(elements, arrived, asm) /\ asm.pkts = <<>> /\ arrived = {}
    <2>e. PICK e : e = <<>>
      OBVIOUS
    <2>1. e \in Seq(Nat) /\ OneFrame(elements, arrived, e)
      BY <2>e, Nothing DEF OneFrame
    <2>2. asm = [have |-> FALSE, ts |-> 0, pkts |-> e] /\ arrived = {}
      BY <2>e DEF MediaInit
    <2> HIDE <2>e
    <2>3. asm.pkts = e /\ asm.have = FALSE /\ asm \in [have : BOOLEAN, ts : Int, pkts : Seq(Nat)]
      BY <2>1, <2>2
    <2> QED
      BY <2>1, <2>2, <2>3, <2>e DEF GoodAsm
  <1>5. written = <<>> /\ Len(written) = 0 /\ written \in Seq(UnitRecord) /\ \A m : m \notin 1..Len(written)
    BY DEF MediaInit
  <1>6. GoodProd(elements, arrived, prod, written)
    <2>1. prod = [codec |-> NoCodec, sets |-> {}, ready |-> FALSE, havePrev |-> FALSE, prevTS |-> 0, pts |-> 0]
      BY DEF MediaInit
    <2>2. prod \in ProducerRecord /\ prod.havePrev = FALSE
      BY <2>1 DEF ProducerRecord
    <2>3. ClockRight(elements, prod, written)
      BY <1>5, <2>2 DEF ClockRight
    <2>4. GoodUnits(elements, arrived, written)
      BY <1>5 DEF GoodUnits, UnitRecord
    <2> QED
      BY <1>5, <2>2, <2>3, <2>4 DEF GoodProd
  <1>7. AllOfFrames(elements, arrived, asm, written)
    BY <1>5 DEF AllOfFrames
  <1>8. OnlyEarlier(elements, arrived, asm.pkts)
    BY <1>4 DEF OnlyEarlier
  <1> QED
    BY <1>3, <1>4, <1>6, <1>7, <1>8 DEF FramesInv

LEMMA PacketsSent == ASSUME FramesInv, SendPacket \/ (\E i \in flight : LosePacket(i)) \/ UNCHANGED mediaVars PROVE FramesInv'
PROOF
  <1>1. /\ UNCHANGED <<elements, codecSent, asm, prod, written, arrived, crossed>>
        /\ \/ flight' \subseteq flight /\ next' = next
           \/ next <= Len(elements) /\ flight' = flight \cup {next} /\ next' = next + 1
    BY DEF SendPacket, LosePacket, mediaVars
  <1>2. PacketsInv'
    <2>0. Len(elements) \in Nat /\ next \in 1..Len(elements) + 1
      BY DEF FramesInv, PacketsInv, GoodSession
    <2>1. CASE flight' \subseteq flight /\ next' = next
      BY <1>1, <2>1 DEF FramesInv, PacketsInv
    <2>2. CASE next <= Len(elements) /\ flight' = flight \cup {next} /\ next' = next + 1
      <3>1. next' \in 1..Len(elements) + 1 /\ next \notin 1..next - 1 /\ 1..next - 1 \subseteq 1..next' - 1 /\ next \in 1..next' - 1
        BY <2>0, <2>2
      <3>2. (arrived \cup flight') \subseteq 1..next' - 1
        BY <2>2, <3>1 DEF FramesInv, PacketsInv
      <3>3. arrived \cap flight' = {}
        BY <2>2, <3>1 DEF FramesInv, PacketsInv
      <3> QED
        BY <1>1, <3>1, <3>2, <3>3 DEF FramesInv, PacketsInv
    <2> QED
      BY <1>1, <2>1, <2>2
  <1> HIDE DEF PacketsInv
  <1>3. /\ GoodAsm(elements, arrived, asm)' /\ GoodProd(elements, arrived, prod, written)'
        /\ (~ crossed => AllOfFrames(elements, arrived, asm, written) /\ OnlyEarlier(elements, arrived, asm.pkts))'
    <2>1. /\ GoodAsm(elements, arrived, asm) /\ GoodProd(elements, arrived, prod, written)
          /\ (~ crossed => AllOfFrames(elements, arrived, asm, written) /\ OnlyEarlier(elements, arrived, asm.pkts))
      BY DEF FramesInv
    <2> QED
      BY <1>1, <2>1 DEF GoodAsm, GoodProd, ProducerRecord
  <1> QED
    BY <1>2, <1>3 DEF FramesInv

(* A late packet is a crossed one.                                          *)
LEMMA LateIsCrossed ==
  ASSUME FramesInv, NEW i \in flight, Receive(i)
  PROVE  crossed' \in BOOLEAN /\ (~ crossed' => ~ crossed /\ Timely(arrived, i))
PROOF
  <1>1. crossed \in BOOLEAN /\ GoodSession(elements) /\ arrived \subseteq 1..Len(elements) /\ i \in 1..Len(elements)
        /\ i \notin arrived
    <2>1. Len(elements) \in Nat /\ next \in 1..Len(elements) + 1
      BY DEF FramesInv, PacketsInv, GoodSession
    <2>2. 1..next - 1 \subseteq 1..Len(elements)
      BY <2>1
    <2> QED
      BY <2>2 DEF FramesInv, PacketsInv
  <1>2. crossed' = (crossed \/ \E j \in arrived : j > i /\ (Marker(j) \/ FrameOf(j) > FrameOf(i)))
    BY DEF Receive
  <1>3. ASSUME ~ crossed', NEW j \in arrived
        PROVE  /\ Fr(elements, j) <= Fr(elements, i)
               /\ Fr(elements, j) = Fr(elements, i) => ~ IsLast(elements, j)
    <2>1. ~ (j > i /\ (IsLast(elements, j) \/ Fr(elements, j) > Fr(elements, i)))
      <3>1. Marker(j) <=> IsLast(elements, j)
        BY PacketIs
      <3>2. FrameOf(j) = Fr(elements, j) /\ FrameOf(i) = Fr(elements, i)
        BY DEF FrameOf, Fr
      <3> QED
        BY <1>2, <1>3, <3>1, <3>2
    <2>2. /\ j \in 1..Len(elements) /\ i \in 1..Len(elements) /\ Len(elements) \in Nat
          /\ \A k \in 1..Len(elements) : Fr(elements, k) \in 1..3
          /\ \A k, l \in 1..Len(elements) : k <= l => Fr(elements, k) <= Fr(elements, l)
      BY <1>1 DEF GoodSession
    <2>g. PICK f, g, n : f = Fr(elements, j) /\ g = Fr(elements, i) /\ n = Len(elements)
      OBVIOUS
    <2>3. f \in 1..3 /\ g \in 1..3 /\ n \in Nat /\ j \in 1..n /\ i \in 1..n /\ i # j
      BY <1>1, <2>2, <2>g
    <2>4. f <= g
      <3>1. j <= i => f <= g
        BY <2>2, <2>g
      <3>2. ~ (j > i /\ f > g)
        BY <2>1, <2>g
      <3> QED
        BY <2>3, <3>1, <3>2
    <2>5. ASSUME f = g, IsLast(elements, j) PROVE FALSE
      <3>1. j < i
        BY <2>1, <2>3, <2>5
      <3>2. j + 1 \in 1..n /\ j + 1 <= i /\ j <= j + 1 /\ j # n
        BY <2>3, <3>1
      <3>h. PICK h : h = Fr(elements, j + 1)
        OBVIOUS
      <3>3. h \in 1..3 /\ h <= g /\ f <= h
        BY <2>2, <2>3, <2>g, <3>2, <3>h
      <3>4. h # f
        BY <2>5, <2>g, <3>2, <3>h DEF IsLast
      <3> QED
        BY <2>3, <2>5, <3>3, <3>4
    <2> QED
      BY <2>4, <2>5, <2>g
  <1> QED
    BY <1>1, <1>2, <1>3 DEF Timely

LEMMA PacketsReceived == ASSUME FramesInv, NEW i \in flight, Receive(i) PROVE FramesInv'
PROOF
  <1>1. /\ UNCHANGED <<elements, codecSent, next>>
        /\ flight' = flight \ {i} /\ arrived' = arrived \cup {i}
    BY DEF Receive
  <1>2. /\ PacketsInv /\ GoodAsm(elements, arrived, asm) /\ GoodProd(elements, arrived, prod, written)
        /\ (~ crossed => AllOfFrames(elements, arrived, asm, written) /\ OnlyEarlier(elements, arrived, asm.pkts))
    BY DEF FramesInv
  <1>3. GoodSession(elements) /\ i \in 1..Len(elements) /\ arrived' \subseteq 1..Len(elements) /\ i \notin arrived
    <2>1. Len(elements) \in Nat /\ next \in 1..Len(elements) + 1
      BY <1>2 DEF PacketsInv, GoodSession
    <2>2. 1..next - 1 \subseteq 1..Len(elements)
      BY <2>1
    <2> QED
      BY <1>1, <1>2, <2>2 DEF PacketsInv
  <1>4. PacketsInv'
    BY <1>1, <1>2, LateIsCrossed DEF PacketsInv
  <1>A. PICK A, R : A = [asm |-> asm, prod |-> prod, units |-> written] /\ R = push(A, i)
    OBVIOUS
  <1>5. asm' = R.asm /\ prod' = R.prod /\ written' = R.units
    BY <1>A DEF Receive
  <1>6. Assembled(arrived, A) /\ A.asm = asm /\ A.prod = prod /\ A.units = written
    BY <1>2, <1>A DEF Assembled, IsAssembler
  <1>7. Joins(i, arrived, arrived')
    BY <1>1, <1>3 DEF Joins
  <1>8. /\ Assembled(arrived', R)
        /\ Timely(arrived, i) /\ Complete(arrived, A) => Complete(arrived', R)
    BY <1>3, <1>6, <1>7, <1>A, PushKeepsUnits
  <1>9. GoodAsm(elements, arrived, asm)' /\ GoodProd(elements, arrived, prod, written)'
    <2>1. GoodAsm(elements, arrived', asm') /\ GoodProd(elements, arrived', prod', written')
      BY <1>5, <1>8 DEF Assembled
    <2> QED
      BY <1>1, <2>1 DEF GoodAsm, GoodProd, ProducerRecord
  <1>10. ASSUME ~ crossed' PROVE (AllOfFrames(elements, arrived, asm, written) /\ OnlyEarlier(elements, arrived, asm.pkts))'
    <2>1. Timely(arrived, i) /\ ~ crossed
      BY <1>10, LateIsCrossed
    <2>2. Complete(arrived, A)
      BY <1>2, <1>6, <2>1 DEF Complete
    <2>3. Complete(arrived', R)
      BY <1>8, <2>1, <2>2
    <2>4. AllOfFrames(elements, arrived', asm', written') /\ OnlyEarlier(elements, arrived', asm'.pkts)
      BY <1>5, <2>3 DEF Complete
    <2> QED
      BY <1>1, <2>4
  <1> QED
    BY <1>4, <1>9, <1>10 DEF FramesInv

LEMMA FramesInvNext == ASSUME FramesInv, [MediaNext]_mediaVars PROVE FramesInv'
  BY PacketsSent, PacketsReceived DEF MediaNext

LEMMA FramesInvTypes == FramesInv => MediaTypeOK
PROOF
  <1> SUFFICES ASSUME FramesInv PROVE MediaTypeOK
    OBVIOUS
  <1>1. /\ PacketsInv /\ GoodAsm(elements, arrived, asm) /\ prod \in ProducerRecord
    BY DEF FramesInv, GoodProd
  <1>2. arrived \subseteq DOMAIN elements /\ arrived \cap flight = {}
    <2>1. Len(elements) \in Nat /\ next \in 1..Len(elements) + 1 /\ DOMAIN elements = 1..Len(elements)
      BY <1>1 DEF PacketsInv, GoodSession
    <2>2. 1..next - 1 \subseteq 1..Len(elements)
      BY <2>1
    <2> QED
      BY <1>1, <2>1, <2>2 DEF PacketsInv
  <1>3. prod.codec \in {NoCodec, codecSent} /\ (asm.have <=> asm.pkts # <<>>)
    BY <1>1 DEF ProducerRecord, GoodAsm
  <1> QED
    BY <1>2, <1>3 DEF MediaTypeOK

(* The parts of the property, for a unit.                                   *)
InItsOrder(u) ==
  \A j \in 2..Len(u.pkts) : FrameOf(u.pkts[j]) = FrameOf(Head(u.pkts)) /\ u.pkts[j - 1] < u.pkts[j]

LEMMA RowInOrder ==
  ASSUME NEW G, G \subseteq 1..Len(elements), GoodSession(elements), NEW u, FrameRow(elements, G, u.pkts)
  PROVE  InItsOrder(u) /\ FrameOf(Head(u.pkts)) = UnitFrame(elements, u) /\ UnitFrame(elements, u) \in 1..3
PROOF
  <1>x. PICK x : x = u.pkts
    OBVIOUS
  <1>1. x \in Seq(Nat) /\ x # <<>> /\ OneFrame(elements, G, x) /\ Rising(x)
    BY <1>x DEF FrameRow, OneFrame
  <1>2. Head(x) = x[1] /\ DOMAIN x = 1..Len(x) /\ Len(x) \in Nat /\ 1 \in 1..Len(x)
    BY <1>1
  <1>3. \A j \in 1..Len(x) : FrameOf(x[j]) = Fr(elements, x[j])
    BY DEF FrameOf, Fr
  <1>4. ASSUME NEW j \in 2..Len(x)
        PROVE  FrameOf(x[j]) = FrameOf(Head(x)) /\ x[j - 1] < x[j]
    <2>1. j \in 1..Len(x) /\ j - 1 \in 1..Len(x) /\ j - 1 < j
      BY <1>2
    <2>2. x[j - 1] < x[j]
      BY <1>1, <1>2, <2>1 DEF Rising
    <2>3. Fr(elements, x[j]) = Fr(elements, x[1])
      BY <1>1, <1>2, <2>1 DEF OneFrame
    <2> QED
      BY <1>2, <1>3, <2>1, <2>2, <2>3
  <1>5. Fr(elements, x[1]) \in 1..3
    BY <1>x, RowStarts
  <1> QED
    BY <1>2, <1>3, <1>4, <1>5, <1>x DEF InItsOrder, UnitFrame

ClockAt(p, a, f, g) == p - a = (f - g) * TsStep

Apart(a, b, g, h)   == a - b = Time(g) - Time(h)

LEMMA TimesApart ==
  ASSUME NEW p \in Int, NEW a \in Int, NEW b \in Int, NEW f \in 1..3, NEW g \in 1..3, NEW h \in 1..3,
         ClockAt(p, a, f, g), ClockAt(p, b, f, h)
  PROVE  Apart(a, b, g, h)
PROOF
  <1>k. PICK i, j, k : i = f - g /\ j = f - h /\ k = g - h
    OBVIOUS
  <1>1. i \in Int /\ j \in Int /\ k \in Int /\ i + k = j /\ k + h = g /\ h \in Int
    BY <1>k
  <1>s. PICK s : s = TsStep
    OBVIOUS
  <1>2. s \in Int
    BY <1>s, MediaWidths
  <1>3. (i + k) * s = i * s + k * s /\ (k + h) * s = k * s + h * s
    BY <1>1, <1>2, Distributes
  <1>p. PICK x, y, z, v, w : x = i * s /\ y = j * s /\ z = k * s /\ v = g * s /\ w = h * s
    OBVIOUS
  <1>4. x \in Int /\ y \in Int /\ z \in Int /\ v \in Int /\ w \in Int
    BY <1>1, <1>2, <1>p
  <1>5. y = x + z /\ v = z + w
    BY <1>1, <1>3, <1>p, Zenon
  <1>6. p - a = x /\ p - b = y
    BY <1>k, <1>s, <1>p DEF ClockAt
  <1>7. a - b = v - w
    <2> HIDE <1>p, <1>k
    <2> QED
      BY <1>4, <1>5, <1>6
  <1>8. Time(g) = v /\ Time(h) = w
    BY <1>p, <1>s, Zenon DEF Time
  <1> QED
    BY <1>7, <1>8 DEF Apart

LEMMA FramesInvImplies == FramesInv => UnitsFaithful
PROOF
  <1> SUFFICES ASSUME FramesInv PROVE UnitsFaithful
    OBVIOUS
  <1>1. /\ GoodAsm(elements, arrived, asm) /\ ClockRight(elements, prod, written)
        /\ prod \in ProducerRecord /\ written \in Seq(UnitRecord)
        /\ \A m \in 1..Len(written) : FrameRow(elements, arrived, written[m].pkts)
    BY DEF FramesInv, GoodProd, GoodUnits, UnitRecord
  <1>2. arrived \subseteq 1..Len(elements) /\ GoodSession(elements)
    <2>1. Len(elements) \in Nat /\ next \in 1..Len(elements) + 1
      BY DEF FramesInv, PacketsInv, GoodSession
    <2>2. 1..next - 1 \subseteq 1..Len(elements)
      BY <2>1
    <2> QED
      BY <2>2 DEF FramesInv, PacketsInv
  <1> DEFINE video(f) == {i \in arrived : InVideo(i) /\ FrameOf(i) = f}
             frame(u) == FrameOf(Head(u.pkts))
  <1>3. \A f : video(f) = VideoPart(elements, OfFrame(elements, arrived, f))
    BY DEF VideoPart, OfFrame, InVideo, El, FrameOf, Fr
  <1>4. DOMAIN written = 1..Len(written)
    BY <1>1
  <1>5. \A m \in 1..Len(written) : /\ InItsOrder(written[m]) /\ frame(written[m]) = UnitFrame(elements, written[m])
                                   /\ UnitFrame(elements, written[m]) \in 1..3
    BY <1>1, <1>2, RowInOrder
  <1>6. \A s : ToSet(s) = Range(s)
    BY DEF ToSet, Range
  <1>7. ASSUME NEW n \in 1..Len(written), NEW m \in 1..Len(written)
        PROVE  written[n].pts - written[m].pts = Time(frame(written[n])) - Time(frame(written[m]))
    <2>u. PICK p, a, b, g, h : p = prod.pts /\ a = written[n].pts /\ b = written[m].pts
                            /\ g = UnitFrame(elements, written[n]) /\ h = UnitFrame(elements, written[m])
      OBVIOUS
    <2>1. written # <<>> /\ prod.havePrev
      BY <1>1, <1>7 DEF ClockRight
    <2>2. PICK f \in 1..3 : \A k \in 1..Len(written) : prod.pts - written[k].pts = (f - UnitFrame(elements, written[k])) * TsStep
      BY <1>1, <2>1 DEF ClockRight
    <2>3. written[n] \in UnitRecord /\ written[m] \in UnitRecord
      BY <1>1
    <2>4. p \in Int /\ a \in Int /\ b \in Int /\ g \in 1..3 /\ h \in 1..3
      BY <1>1, <1>5, <2>3, <2>u DEF ProducerRecord, UnitRecord
    <2>5. ClockAt(p, a, f, g) /\ ClockAt(p, b, f, h)
      BY <2>2, <2>u DEF ClockAt
    <2>6. a - b = Time(g) - Time(h)
      <3>1. Apart(a, b, g, h)
        BY <2>2, <2>4, <2>5, TimesApart, Zenon
      <3> QED
        BY <3>1 DEF Apart
    <2> QED
      BY <1>5, <2>6, <2>u
  <1>8. ASSUME ~ crossed, NEW n \in 1..Len(written)
        PROVE  /\ ToSet(written[n].pkts) = video(frame(written[n]))
               /\ \A f \in frame(written[n])..3 : video(f) \cap ToSet(asm.pkts) = {} /\ video(f) # {} =>
                    \E m \in 1..Len(written) : frame(written[m]) = f
    <2>1. AllOfFrames(elements, arrived, asm, written) /\ OnlyEarlier(elements, arrived, asm.pkts)
      BY <1>8 DEF FramesInv
    <2>2. ToSet(written[n].pkts) = video(frame(written[n]))
      BY <1>3, <1>5, <1>6, <2>1 DEF AllOfFrames
    <2>3. ASSUME NEW f \in frame(written[n])..3, video(f) \cap ToSet(asm.pkts) = {}, video(f) # {}
          PROVE  \E m \in 1..Len(written) : frame(written[m]) = f
      <3>x. PICK x, g, o, v : x = asm.pkts /\ g = UnitFrame(elements, written[n]) /\ o = OfFrame(elements, arrived, f) /\ v = video(f)
        OBVIOUS
      <3>1. g \in 1..3 /\ f \in 1..3 /\ g <= f
        BY <1>5, <3>x
      <3>2. v = VideoPart(elements, o) /\ v # {} /\ v \subseteq o /\ v \cap Range(x) = {}
        <4>1. v = VideoPart(elements, o)
          BY <1>3, <3>x
        <4> QED
          BY <1>6, <2>3, <3>x, <4>1 DEF VideoPart
      <3>3. o \cap Range(x) = {}
        <4> SUFFICES ASSUME NEW j \in o, j \in Range(x) PROVE FALSE
          OBVIOUS
        <4>1. x # <<>>
          BY Nothing
        <4>2. Range(x) = OfFrame(elements, arrived, Fr(elements, x[1]))
          BY <2>1, <3>x, <4>1 DEF OnlyEarlier
        <4>3. Range(x) = o
          BY <3>x, <4>2 DEF OfFrame
        <4> QED
          BY <3>2, <4>3
      <3>4. Published(elements, written, f) \/ \A m \in 1..Len(written) : f < UnitFrame(elements, written[m])
        BY <2>1, <3>1, <3>2, <3>3, <3>x DEF AllOfFrames
      <3>5. ~ (f < g)
        BY <3>1
      <3>6. PICK m \in 1..Len(written) : UnitFrame(elements, written[m]) = f
        BY <3>4, <3>5, <3>x DEF Published
      <3> QED
        BY <1>5, <3>6
    <2> QED
      BY <2>2, <2>3
  <1>9. \A n \in DOMAIN written :
          /\ InItsOrder(written[n])
          /\ \A m \in DOMAIN written : written[n].pts - written[m].pts = Time(frame(written[n])) - Time(frame(written[m]))
          /\ ~ crossed =>
               /\ ToSet(written[n].pkts) = video(frame(written[n]))
               /\ \A f \in frame(written[n])..3 : video(f) \cap ToSet(asm.pkts) = {} /\ video(f) # {} =>
                    \E m \in DOMAIN written : frame(written[m]) = f
    <2> HIDE DEF video, frame
    <2> QED
      BY <1>4, <1>5, <1>7, <1>8
  <1> QED
    BY <1>9, Zenon DEF UnitsFaithful, InItsOrder

-----------------------------------------------------------------------------
(* All parts.                                                               *)
MediaInv == IngestInv /\ PullInv /\ FramesInv /\ RowsInv /\ FilesInv /\ FlvInv /\ FragInv /\ ArchiveInv

LEMMA MediaInitInv == FootageInit => MediaInv
BY IngestInitInv, PullInitInv, FramesInvInit, RowsInvInit, FilesInvInit, FlvInitInv, FragInvInit, ArchiveInitInv DEF FootageInit, MediaInv

(* One part moves and the others rest.                                      *)
LEMMA MediaNextKeeps == MediaInv /\ [FootageNext]_footageVars => MediaInv'
<1> SUFFICES ASSUME MediaInv, [FootageNext]_footageVars PROVE MediaInv'
  OBVIOUS
<1>1. /\ [IngestNext]_ingestVars /\ [PullNext]_pullVars /\ [MediaNext]_mediaVars /\ [RecorderNext]_recorderVars
      /\ [MuxNext]_muxVars /\ [ArchiveNext]_archiveVars
  BY DEF FootageNext, footageVars
<1> QED
  BY <1>1, IngestNextKeeps, PullNextKeeps, FramesInvNext, RowsInvNext, FilesInvNext, MuxNextKeeps, FragInvNext, ArchiveNextKeeps DEF MediaInv

LEMMA MediaInvariant == FootageSpec => []MediaInv
BY MediaInitInv, MediaNextKeeps, PTL DEF FootageSpec

(* The manager hears of one publish and of its end, audio is written only   *)
(* to a track it was told of, keyframes carry parameter sets that are in    *)
(* force, and units are as far apart as their times (rtmp/server.go), for   *)
(* any width of a timestamp and any number of messages.                     *)
THEOREM IngestIsSound == FootageSpec => []IngestSound
<1>1. MediaInv => IngestSound
  BY IngestInvImplies DEF MediaInv
<1> QED BY <1>1, MediaInvariant, PTL

(* Every unit that comes whole after the first packet of a keyframe is      *)
(* written, once and in order, and nothing else is (rtsp/source.go), for    *)
(* any number of packets a unit has and any of them lost.                   *)
THEOREM PullIsSound == FootageSpec => []PulledInOrder
<1>1. MediaInv => PulledInOrder
  BY PullInvImplies DEF MediaInv
<1> QED BY <1>1, MediaInvariant, PTL

(* What comes in becomes the units that were sent (rtmp/server.go,          *)
(* rtsp/source.go, gb28181/rtp.go, ps.go, media.go): of a GB/T 28181        *)
(* session too a unit holds packets of one frame in their order and all     *)
(* that came in time, and is as far from the others as the frames, whatever *)
(* is lost or overtaken and wherever the counters wrap.                     *)
THEOREM UnitsAreSound == FootageSpec => []UnitsSound
<1>1. MediaInv => UnitsSound
  BY IngestInvImplies, PullInvImplies, FramesInvImplies DEF MediaInv, UnitsSound
<1> QED BY <1>1, MediaInvariant, PTL

(* Type correctness of the six parts.                                       *)
THEOREM FootageTypeCorrect == FootageSpec => []FootageTypeOK
<1>1. MediaInv => FootageTypeOK
  BY IngestInvImplies, PullInvImplies, FramesInvTypes, FilesInvImplies, FragInvTypes, ArchiveInvImplies
  DEF MediaInv, FootageTypeOK
<1> QED BY <1>1, MediaInvariant, PTL

(* A row is never left open: at most the last file's, and only while Run    *)
(* has that file open; however Run ends, whatever fails in the middle of a  *)
(* handler, it is completed (recording/recorder.go).                        *)
THEOREM RowsAreCompleted == FootageSpec => []RowsCompleted
<1>1. MediaInv => RowsCompleted
  BY RowsInvImplies DEF MediaInv
<1> QED BY <1>1, MediaInvariant, PTL

(* What the recorder writes is what it was given: in order and once,        *)
(* decodable from the start, all of it that was due, cut where a segment    *)
(* ends, with its tracks starting together (recording/recorder.go), for a   *)
(* stream of any length and whatever fails.                                 *)
THEOREM FilesAreSound == FootageSpec => []FilesSound
<1>1. MediaInv => FilesSound
  BY FilesInvImplies DEF MediaInv
<1> QED BY <1>1, MediaInvariant, PTL

(* The keyframes of a whole pre-roll window before motion are in its file   *)
(* (recording/recorder.go), for any window and any segment length.          *)
THEOREM PreRollIsWhole == FootageSpec => []PreRollReaches
<1>1. MediaInv => PreRollReaches
  BY FilesInvImplies DEF MediaInv
<1> QED BY <1>1, MediaInvariant, PTL

(* Whatever a viewer's reader loses and wherever it begins, the fragments   *)
(* it gets play without a gap: every unit given is in one or pending, once  *)
(* and in order, and with video each begins with a keyframe, where the one  *)
(* before ends (mse/streamer.go); FLV timestamps are true to less than a    *)
(* millisecond (restream/flv.go).                                           *)
THEOREM MuxIsSound == FootageSpec => []MuxSound
<1>1. MediaInv => MuxSound
  BY FlvInvImplies, FragInvPlays DEF MediaInv, MuxSound
<1> QED BY <1>1, MediaInvariant, PTL

(* What is archived reads as it was written, wherever the player jumps, for *)
(* any width of block and counter and wherever it wraps                     *)
(* (storage/crypto.go); and unless saves overlap or one fails to read what  *)
(* is stored, the salt under which it was encrypted stays                   *)
(* (api/settings.go).                                                       *)
THEOREM ArchiveIsReadable == FootageSpec => []ArchiveReadable
<1>1. MediaInv => ArchiveReadable
  BY ArchiveInvImplies DEF MediaInv
<1> QED BY <1>1, MediaInvariant, PTL

=============================================================================
