------------------------------ MODULE Republish -------------------------------
(***************************************************************************)
(* The RTSP server (rtspserver/server.go): the first client of a camera    *)
(* makes a publication of its live stream, which every later client shares *)
(* and which ends with the stream.  The map of publications is read and    *)
(* written under a lock, the publication is made outside of it; new        *)
(* settings replace the server (manager/services.go) while publications    *)
(* run.  One camera; its streams and the servers are numbered.             *)
(***************************************************************************)
EXTENDS Integers, FiniteSets

CONSTANTS
  Clients,      \* RTSP connections describing the camera at one time
  MaxLives,   \* bound: streams the camera has in turn
  MaxServers,   \* bound: servers
  MaxPubs       \* bound: publications made

ASSUME RepublishAssumption == {MaxLives, MaxServers, MaxPubs} \subseteq Nat \ {0}

Pubs  == 1..MaxPubs
NoPub == 0

VARIABLES
  live,      \* the camera's stream, or 0
  streams,   \* streams so far
  server,    \* the current server
  pubs,      \* per server, the publication in its map, or NoPub
  pub,       \* per publication: [at, src, srv]
  madeP,     \* publications made
  client     \* per client: [at, pub]: what it is at and was answered

republishVars == <<live, streams, server, pubs, pub, madeP, client>>

RepublishInit ==
  /\ live = 0 /\ streams = 0 /\ server = 1
  /\ pubs = [g \in 1..MaxServers |-> NoPub]
  /\ pub = [p \in Pubs |-> [at |-> "none", src |-> 0, srv |-> 0]]
  /\ madeP = 0
  /\ client = [c \in Clients |-> [at |-> "idle", pub |-> NoPub]]

Ended(p) == pub[p].src # live

StreamStarts ==
  /\ live = 0 /\ streams < MaxLives
  /\ live' = streams + 1 /\ streams' = streams + 1
  /\ UNCHANGED <<server, pubs, pub, madeP, client>>

StreamEnds ==
  /\ live # 0
  /\ live' = 0
  /\ UNCHANGED <<streams, server, pubs, pub, madeP, client>>

-----------------------------------------------------------------------------
OnDescribe(c) ==
  /\ client[c].at = "idle"
  /\ client' = [client EXCEPT ![c] = IF pubs[server] # NoPub THEN [at |-> "idle", pub |-> pubs[server]]
                                                          ELSE [at |-> "make", pub |-> NoPub]]
  /\ UNCHANGED <<live, streams, server, pubs, pub, madeP>>

(* StreamFor, newPublication.                                               *)
MakePub(c) ==
  /\ client[c].at = "make" /\ live # 0 /\ madeP < MaxPubs
  /\ madeP' = madeP + 1
  /\ pub' = [pub EXCEPT ![madeP + 1] = [at |-> "made", src |-> live, srv |-> server]]
  /\ client' = [client EXCEPT ![c] = [at |-> "insert", pub |-> madeP + 1]]
  /\ UNCHANGED <<live, streams, server, pubs>>

NotFound(c) ==
  /\ client[c].at = "make"
  /\ client' = [client EXCEPT ![c].at = "idle"]
  /\ UNCHANGED <<live, streams, server, pubs, pub, madeP>>

InsertPubUnchecked(c) == \* mutant: the map is not looked at again
  /\ client[c].at = "insert"
  /\ pubs' = [pubs EXCEPT ![server] = client[c].pub]
  /\ pub' = [pub EXCEPT ![client[c].pub].at = "start"]
  /\ client' = [client EXCEPT ![c].at = "idle"]
  /\ UNCHANGED <<live, streams, server, madeP>>

(* Who lost the race closes its own; else the pump starts.                  *)
InsertPub(c) ==
  /\ client[c].at = "insert"
  /\ LET mine == client[c].pub IN
       IF pubs[server] = NoPub
       THEN /\ pubs' = [pubs EXCEPT ![server] = mine]
            /\ pub' = [pub EXCEPT ![mine].at = "start"]
            /\ client' = [client EXCEPT ![c].at = "idle"]
       ELSE /\ pub' = [pub EXCEPT ![mine].at = "closed"]
            /\ client' = [client EXCEPT ![c] = [at |-> "idle", pub |-> pubs[server]]]
            /\ UNCHANGED pubs
  /\ UNCHANGED <<live, streams, server, madeP>>

(* The pump adds its reader.  Nobody closes a reader that is added after    *)
(* its stream was closed (core/stream.go 68-81), nor cancels the pump.      *)
PumpAttach(p) ==
  /\ pub[p].at = "start"
  /\ pub' = [pub EXCEPT ![p].at = IF Ended(p) THEN "late" ELSE "running"]
  /\ UNCHANGED <<live, streams, server, pubs, madeP, client>>

(* The pump of an ended stream returns, then leaves the map, then closes.   *)
PumpEnds(p) ==
  /\ pub[p].at = "running" /\ Ended(p)
  /\ pub' = [pub EXCEPT ![p].at = "ended"]
  /\ UNCHANGED <<live, streams, server, pubs, madeP, client>>

RemovePub(p) ==
  /\ pub[p].at = "ended"
  /\ pubs' = [pubs EXCEPT ![pub[p].srv] = IF @ = p THEN NoPub ELSE @]
  /\ pub' = [pub EXCEPT ![p].at = "closed"]
  /\ UNCHANGED <<live, streams, server, madeP, client>>

(* applyRTSPServer: the old server stops when its connections have ended;   *)
(* its publications were started in the background and run on.              *)
ReplaceServer ==
  /\ server < MaxServers
  /\ \A c \in Clients : client[c].at = "idle"
  /\ server' = server + 1
  /\ client' = [c \in Clients |-> [at |-> "idle", pub |-> NoPub]]
  /\ UNCHANGED <<live, streams, pubs, pub, madeP>>

DescribeStep(c) == MakePub(c) \/ NotFound(c) \/ InsertPub(c)
PumpStep(p)     == PumpAttach(p) \/ PumpEnds(p) \/ RemovePub(p)

RepublishNext ==
  \/ StreamStarts \/ StreamEnds \/ ReplaceServer
  \/ \E c \in Clients : OnDescribe(c) \/ DescribeStep(c)
  \/ \E p \in Pubs : PumpStep(p)

RepublishFairness ==
  /\ \A c \in Clients : WF_republishVars(DescribeStep(c))
  /\ \A p \in Pubs : WF_republishVars(PumpStep(p))

RepublishSpec == RepublishInit /\ [][RepublishNext]_republishVars /\ RepublishFairness

-----------------------------------------------------------------------------
RepublishTypeOK ==
  /\ \A p \in 1..madeP : pub[p].src \in 1..streams /\ pub[p].srv \in 1..server
  /\ \A g \in 1..MaxServers : pubs[g] \in 0..madeP

(* One pump per camera and server, the one in the map; no publication is    *)
(* forgotten: it runs in its server's map, or somebody is about to close or *)
(* insert it; and no client was given one that never ran (server.go         *)
(* 89-138).                                                                 *)
RepublishSound ==
  /\ \A p \in 1..madeP :
       /\ pub[p].at \in {"start", "running", "late", "ended"} => pubs[pub[p].srv] = p
       /\ pub[p].at = "made" => \E c \in Clients : client[c] = [at |-> "insert", pub |-> p]
  /\ \A c \in Clients : client[c].at = "idle" /\ client[c].pub # NoPub => pub[client[c].pub].at # "made"

(* The publication of a stream that is over is closed, also the one of a    *)
(* server that was replaced, and its reader with it, unless the stream was  *)
(* over before the pump had added its reader: then the publication stays in *)
(* the map, and every later client is given it.  (Streams do not come back: *)
(* this is `leads to' for every publication at once.)                       *)
PubsEnd ==
  <>[](\A p \in Pubs : pub[p].at \notin {"none", "late"} /\ Ended(p) => pub[p].at = "closed")
=============================================================================
