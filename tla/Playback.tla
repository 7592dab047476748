------------------------------- MODULE Playback -------------------------------
(***************************************************************************)
(* Playing recordings in a browser (rechls/rechls.go, called from          *)
(* api/recording_hls.go): one ffmpeg per session, keyed by recording and   *)
(* offset, writes a playlist and segments below a directory named after    *)
(* the key; sessions are shared, evicted at capacity and collected when    *)
(* idle.  The map is under a lock; directories, processes and the stopping *)
(* of evicted sessions are not.                                            *)
(***************************************************************************)
EXTENDS Integers, FiniteSets

CONSTANTS
  Sids,         \* session ids
  Players,      \* concurrent requests
  MaxSessions,  \* maxSessions
  MaxMade,      \* bound: sessions ever created
  CanFail       \* BOOLEAN: mkdir and the start of ffmpeg may fail

ASSUME PlaybackAssumption ==
  MaxSessions \in Nat \ {0} /\ MaxMade \in Nat /\ CanFail \in BOOLEAN

Sessions == 1..MaxMade
Absent   == 0

VARIABLES
  sessions,  \* the map: per sid, a session or Absent
  before,    \* lastAccess: <<s, t>> when session s of the map was accessed before t
  madeS,     \* sessions created so far
  session,   \* per session: [sid, cancel, ready]
  procs,     \* sessions whose ffmpeg runs
  dirs,      \* per sid, its directory: "none", "empty" or "playlist"
  stopping,  \* calls of stop() under way: per session "no", "cancel", "remove"
  player,    \* per request: [at, s]
  sharedDir, \* history: sessions whose directory an earlier session of the sid still used
  early      \* history: sessions stopped before they had a cancel function

playVars == <<sessions, before, madeS, session, procs, dirs, stopping, player, sharedDir, early>>

PlayInit ==
  /\ sessions = [i \in Sids |-> Absent] /\ before = {} /\ madeS = 0
  /\ session = [s \in Sessions |-> [sid |-> "", cancel |-> FALSE, ready |-> "no"]]
  /\ procs = {}
  /\ dirs = [i \in Sids |-> "none"]
  /\ stopping = [s \in Sessions |-> "no"]
  /\ player = [p \in Players |-> [at |-> "idle", s |-> Absent]]
  /\ sharedDir = {} /\ early = {}

Sid(s)         == session[s].sid
Current(s)     == sessions[Sid(s)] = s
InMap          == {sessions[i] : i \in Sids} \ {Absent}
Without(S)     == {e \in before : e[1] \notin S /\ e[2] \notin S}

(* lastAccess of s becomes now.                                             *)
Touched(s) == Without({s}) \cup ((InMap \ {s}) \X {s})

(* The sessions S leave the map, and stop() is called for each of them.     *)
Retired(S) ==
  /\ sessions' = [i \in Sids |-> IF sessions[i] \in S THEN Absent ELSE sessions[i]]
  /\ before' = Without(S)
  /\ stopping' = [s \in Sessions |-> IF s \in S THEN "cancel" ELSE stopping[s]]

-----------------------------------------------------------------------------
(* Ensure.                                                                  *)

EnsureHit(p, i) ==
  /\ player[p].at = "idle" /\ sessions[i] # Absent
  /\ before' = Touched(sessions[i])
  /\ player' = [player EXCEPT ![p] = [at |-> "wait", s |-> sessions[i]]]
  /\ UNCHANGED <<sessions, madeS, session, procs, dirs, stopping, sharedDir, early>>

(* evictLocked: at capacity the least recently used session goes.           *)
Oldest == {s \in InMap : \A t \in InMap \ {s} : <<s, t>> \in before}

Evictions == IF Cardinality(InMap) >= MaxSessions THEN {{s} : s \in Oldest} ELSE {{}}

(* Then the new session goes into the map.                                  *)
EnsureMiss(p, i) ==
  /\ player[p].at = "idle" /\ sessions[i] = Absent /\ madeS < MaxMade
  /\ LET new == madeS + 1 IN
     \E out \in Evictions :
        /\ sessions' = [j \in Sids |-> IF j = i THEN new ELSE IF sessions[j] \in out THEN Absent ELSE sessions[j]]
        /\ before' = Without(out) \cup ((InMap \ out) \X {new})
        /\ stopping' = [s \in Sessions |-> IF s \in out THEN "cancel" ELSE stopping[s]]
        /\ madeS' = new
        /\ session' = [session EXCEPT ![new].sid = i]
        /\ player' = [player EXCEPT ![p] = [at |-> "mkdir", s |-> new]]
        /\ sharedDir' = IF \E s \in 1..madeS : Sid(s) = i /\ (s \in procs \/ stopping'[s] # "no" \/ ~session[s].cancel)
                     THEN sharedDir \cup {new} ELSE sharedDir
  /\ UNCHANGED <<procs, dirs, early>>

Mkdir(p) ==
  /\ player[p].at = "mkdir"
  /\ LET i == Sid(player[p].s) IN dirs' = [dirs EXCEPT ![i] = IF @ = "none" THEN "empty" ELSE @]
  /\ player' = [player EXCEPT ![p].at = "start"]
  /\ UNCHANGED <<sessions, before, madeS, session, procs, stopping, sharedDir, early>>

StartTranscode(p) ==
  /\ player[p].at = "start"
  /\ session' = [session EXCEPT ![player[p].s].cancel = TRUE]
  /\ procs' = procs \cup {player[p].s}
  /\ player' = [player EXCEPT ![p].at = "wait"]
  /\ UNCHANGED <<sessions, before, madeS, dirs, stopping, sharedDir, early>>

(* An error releases whoever waits, and drops what the map has for the sid. *)
EnsureFails(p) ==
  /\ CanFail /\ player[p].at \in {"mkdir", "start"}
  /\ session' = [session EXCEPT ![player[p].s].ready = "err", ![player[p].s].cancel = player[p].at = "start"]
  /\ Retired({sessions[Sid(player[p].s)]} \ {Absent})
  /\ player' = [player EXCEPT ![p] = [at |-> "idle", s |-> Absent]]
  /\ UNCHANGED <<madeS, procs, dirs, sharedDir, early>>

Answered(p) ==
  /\ player[p].at = "wait" /\ session[player[p].s].ready # "no"
  /\ player' = [player EXCEPT ![p] = [at |-> "idle", s |-> Absent]]
  /\ UNCHANGED <<sessions, before, madeS, session, procs, dirs, stopping, sharedDir, early>>

(* awaitReady: the playlist appears, or the time is over.                   *)
Polled(s) == session[s].cancel /\ session[s].ready = "no"

PlaylistReady(s) ==
  /\ Polled(s) /\ dirs[Sid(s)] = "playlist"
  /\ session' = [session EXCEPT ![s].ready = "ok"]
  /\ UNCHANGED <<sessions, before, madeS, procs, dirs, stopping, player, sharedDir, early>>

PlaylistLate(s) ==
  /\ Polled(s)
  /\ session' = [session EXCEPT ![s].ready = "err"]
  /\ UNCHANGED <<sessions, before, madeS, procs, dirs, stopping, player, sharedDir, early>>

-----------------------------------------------------------------------------
(* handleHLSFile touches the session.                                       *)
ServeFile(i) ==
  /\ sessions[i] # Absent
  /\ before' = Touched(sessions[i])
  /\ UNCHANGED <<sessions, madeS, session, procs, dirs, stopping, player, sharedDir, early>>

(* Run: the idle time is longer than awaitReady waits.                      *)
CollectIdle ==
  /\ \E S \in SUBSET {s \in InMap : session[s].ready # "no"} : S # {} /\ Retired(S)
  /\ UNCHANGED <<madeS, session, procs, dirs, player, sharedDir, early>>

StopCancel(s) ==
  /\ stopping[s] = "cancel"
  /\ stopping' = [stopping EXCEPT ![s] = "remove"]
  /\ procs' = procs \ (IF session[s].cancel THEN {s} ELSE {})
  /\ early' = IF session[s].cancel THEN early ELSE early \cup {s}
  /\ UNCHANGED <<sessions, before, madeS, session, dirs, player, sharedDir>>

StopRemove(s) ==
  /\ stopping[s] = "remove"
  /\ stopping' = [stopping EXCEPT ![s] = "no"]
  /\ dirs' = [dirs EXCEPT ![Sid(s)] = "none"]
  /\ UNCHANGED <<sessions, before, madeS, session, procs, player, sharedDir, early>>

(* ffmpeg: it writes the playlist, and exits at the end of the recording or *)
(* for want of its directory.                                               *)
WritePlaylist(s) ==
  /\ s \in procs /\ dirs[Sid(s)] # "none"
  /\ dirs' = [dirs EXCEPT ![Sid(s)] = "playlist"]
  /\ UNCHANGED <<sessions, before, madeS, session, procs, stopping, player, sharedDir, early>>

TranscodeEnds(s) ==
  /\ s \in procs
  /\ procs' = procs \ {s}
  /\ UNCHANGED <<sessions, before, madeS, session, dirs, stopping, player, sharedDir, early>>

EnsureStep(p) == Mkdir(p) \/ StartTranscode(p) \/ EnsureFails(p) \/ Answered(p)

PlaybackNext ==
  \/ \E p \in Players : EnsureStep(p) \/ \E i \in Sids : EnsureHit(p, i) \/ EnsureMiss(p, i)
  \/ \E i \in Sids : ServeFile(i)
  \/ CollectIdle
  \/ \E s \in Sessions :
       PlaylistReady(s) \/ PlaylistLate(s) \/ StopCancel(s) \/ StopRemove(s) \/ WritePlaylist(s) \/ TranscodeEnds(s)

PlaybackFairness ==
  /\ \A p \in Players : WF_playVars(EnsureStep(p))
  /\ \A s \in Sessions : WF_playVars(PlaylistReady(s) \/ PlaylistLate(s))

PlaybackSpec == PlayInit /\ [][PlaybackNext]_playVars /\ PlaybackFairness

-----------------------------------------------------------------------------
PlaybackTypeOK ==
  /\ \A i \in Sids : sessions[i] # Absent => sessions[i] \in 1..madeS /\ Sid(sessions[i]) = i
  /\ Cardinality(InMap) <= MaxSessions
  /\ before \subseteq InMap \X InMap
  /\ \A s, t \in InMap : <<s, t>> \in before <=> s # t /\ <<t, s>> \notin before
  /\ \A s, t, u \in InMap : <<s, t>> \in before /\ <<t, u>> \in before => <<s, u>> \in before

(* What the map offers can be played, and what runs can be stopped: a ready *)
(* session has its playlist on disk, unless an earlier one of the same key  *)
(* still used the directory when it began; and every ffmpeg belongs to a    *)
(* session in the map or being stopped, unless that was stopped before its  *)
(* cancel function was there (rechls.go 99-136, 214-237).                   *)
PlaybackSound ==
  \A s \in 1..madeS :
    /\ Current(s) /\ session[s].ready = "ok" => dirs[Sid(s)] = "playlist" \/ s \in sharedDir
    /\ s \in procs => Current(s) \/ stopping[s] = "cancel" \/ s \in early

(* Every request for a session is answered, also the one that waits for a   *)
(* session somebody else creates and that fails or is evicted meanwhile.    *)
EnsureReturns == \A p \in Players : player[p].at # "idle" ~> player[p].at = "idle"
=============================================================================
