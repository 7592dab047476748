------------------------------ MODULE GBDialogue ------------------------------
(***************************************************************************)
(* Live streams of a GB/T 28181 device (gb28181/server.go, play.go): the   *)
(* device registers, a camera's Play invites it and receives its media     *)
(* until it is cancelled, the device hangs up or the media stops.  All of  *)
(* it is UDP: a datagram in `sent' may arrive late, repeatedly or never.   *)
(* The device reboots with a new address, and the SIP server is replaced   *)
(* when its settings change (manager/services.go applyGB28181).            *)
(***************************************************************************)
EXTENDS Integers, Sequences, FiniteSets

CONSTANTS
  GBCameras,    \* cameras on channels of the device
  NPorts,       \* size of the media port range
  InboxCap,     \* capacity of a transaction's inbox
  Patience,     \* read timeouts in a row that make an inactivity timeout
  MaxCalls,     \* bound: INVITE transactions
  MaxMishaps    \* bound: reboots, unregistrations and new settings, in all

ASSUME GBAssumption ==
  /\ NPorts \in Nat \ {0} /\ InboxCap \in Nat \ {0} /\ Patience \in Nat \ {0}
  /\ MaxCalls \in Nat /\ MaxMishaps \in Nat

Calls == 1..MaxCalls
Ports == 0..(NPorts - 1)

VARIABLES
  known,    \* the server's devices map: a Device struct's number, 0 without an entry
  addr,     \* the addresses in the Device structs
  calls,    \* Call-IDs handed out
  server,   \* the SIP servers so far
  cursor,   \* mediaPort
  play,     \* per camera, its Play
  sent,     \* every datagram of the dialogues so far
  host,     \* the device's address
  dialog,   \* per call, the device's side of it
  portOf,   \* per call, the port its SDP names
  turn,     \* history: per call, its server and the ports passed over for it
  mishaps,  \* how many of MaxMishaps
  foreign,  \* history: calls that took another call's media for theirs
  deaf      \* history: calls whose Play ended without having read the answer,
            \* or had no socket left for its BYE

gbVars == <<known, addr, calls, server, cursor, play, sent, host, dialog, portOf, turn, mishaps, foreign, deaf>>

NoPlay == [at |-> "idle", call |-> 0, d |-> 0, port |-> -1, inbox |-> <<>>, session |-> "none", quiet |-> 0]

GBInit ==
  /\ known = 0 /\ addr = <<>>
  /\ calls = 0 /\ server = 0 /\ cursor = 0
  /\ play = [c \in GBCameras |-> NoPlay]
  /\ sent = {}
  /\ host = 0
  /\ dialog = [k \in Calls |-> "none"]
  /\ portOf = [k \in Calls |-> -1]
  /\ turn = [k \in Calls |-> [by |-> 0, passed |-> {}]]
  /\ mishaps = 0 /\ foreign = {} /\ deaf = {}

Mishap == mishaps < MaxMishaps /\ mishaps' = mishaps + 1

Datagram(m, k, a) == [m |-> m, call |-> k, to |-> a]
Platform          == -1   \* the server's address

Written(P, m)     == sent \cup {Datagram(m, P.call, addr[P.d])}

InUse == {play[c].port : c \in GBCameras}

-----------------------------------------------------------------------------
(* Registration.                                                            *)

(* An authenticated REGISTER, or a Keepalive, from an address the device    *)
(* has or had.                                                              *)
handleRegister(a) ==
  /\ a \in 0..host
  /\ \/ /\ known # 0
        /\ addr' = [addr EXCEPT ![known] = a]
        /\ UNCHANGED known
     \/ /\ known = 0
        /\ addr' = Append(addr, a)
        /\ known' = Len(addr')
  /\ UNCHANGED <<calls, server, cursor, play, sent, host, dialog, portOf, turn, mishaps, foreign, deaf>>

Unregister ==
  /\ known # 0 /\ Mishap
  /\ known' = 0
  /\ UNCHANGED <<addr, calls, server, cursor, play, sent, host, dialog, portOf, turn, foreign, deaf>>

(* New settings: the old server's socket is closed first; the cameras are   *)
(* restarted after that, and no BYE of theirs gets out.  The new server     *)
(* begins with the first port.                                              *)
applyGB28181 ==
  /\ Mishap
  /\ known' = 0
  /\ server' = server + 1
  /\ cursor' = 0
  /\ play' = [c \in GBCameras |-> NoPlay]
  /\ deaf' = deaf \cup ({play[c].call : c \in GBCameras} \ {0})
  /\ UNCHANGED <<addr, calls, sent, host, dialog, portOf, turn, foreign>>

-----------------------------------------------------------------------------
(* Play.                                                                    *)

AheadOfFirst(p) == p \* mutant: ports are tried from the first one

(* openMediaPort tries one port after the other, from the cursor round to   *)
(* it, and takes the first that is free.                                    *)
Ahead(p) == IF p < cursor THEN p - cursor + NPorts ELSE p - cursor

After(p) == IF p = NPorts - 1 THEN 0 ELSE p + 1

Before(port) == {p \in Ports : Ahead(p) < Ahead(port)}

PlayStart(c) ==
  /\ play[c].at = "idle" /\ known # 0
  /\ calls < MaxCalls
  /\ \E port \in Ports \ InUse :
       /\ Before(port) \subseteq InUse
       /\ play' = [play EXCEPT ![c] = [NoPlay EXCEPT !.at = "inviting", !.call = calls + 1, !.d = known,
                                                       !.port = port]]
       /\ cursor' = After(port)
       /\ portOf' = [portOf EXCEPT ![calls + 1] = port]
       /\ turn' = [turn EXCEPT ![calls + 1] = [by |-> server, passed |-> Before(port)]]
       /\ sent' = Written(play'[c], "INVITE")
  /\ calls' = calls + 1
  /\ UNCHANGED <<known, addr, server, host, dialog, mishaps, foreign, deaf>>

(* A retransmission, also after a provisional answer.                       *)
Transmit(c) ==
  /\ play[c].at = "inviting"
  /\ sent' = Written(play[c], "INVITE")
  /\ sent' # sent
  /\ UNCHANGED <<known, addr, calls, server, cursor, play, host, dialog, portOf, turn, mishaps, foreign, deaf>>

(* Cancelled or timed out, and the answer is not waited for any more.       *)
GiveUp(c) ==
  /\ play[c].at = "inviting"
  /\ play' = [play EXCEPT ![c] = NoPlay]
  /\ deaf' = deaf \cup {play[c].call}
  /\ UNCHANGED <<known, addr, calls, server, cursor, sent, host, dialog, portOf, turn, mishaps, foreign>>

ReadInbox(c) ==
  /\ play[c].at = "inviting" /\ play[c].inbox # <<>>
  /\ LET P    == play[c]
         msg  == Head(P.inbox)
         Read == [P EXCEPT !.inbox = Tail(@)]
         Goes(rec) == play' = [play EXCEPT ![c] = rec]
     IN \/ msg = "TRYING" /\ Goes(Read) /\ UNCHANGED sent
        \/ msg = "REJECT" /\ Goes(NoPlay) /\ UNCHANGED sent
        \/ msg = "OK" /\ Goes([Read EXCEPT !.at = "acked"]) /\ sent' = Written(P, "ACK")
  /\ UNCHANGED <<known, addr, calls, server, cursor, host, dialog, portOf, turn, mishaps, foreign, deaf>>

(* sessions[callID] = byeCh: a BYE that came earlier found nothing.         *)
OpenSession(c) ==
  /\ play[c].at = "acked"
  /\ play' = [play EXCEPT ![c].at = "receiving", ![c].session = "open"]
  /\ UNCHANGED <<known, addr, calls, server, cursor, sent, host, dialog, portOf, turn, mishaps, foreign, deaf>>

(* One turn of receiveMedia: a packet for this port, whoever sent it, or a  *)
(* read that times out.                                                     *)
Streaming(c) == {k \in Calls : dialog[k] = "streaming" /\ portOf[k] = play[c].port}

Ended(c) == play[c].session = "closed" \/ play[c].quiet >= Patience

ReadPacket(c) ==
  /\ play[c].at = "receiving" /\ ~Ended(c)
  /\ \E k \in Streaming(c) : foreign' = IF k = play[c].call THEN foreign ELSE foreign \cup {play[c].call}
  /\ play' = [play EXCEPT ![c].quiet = 0]
  /\ UNCHANGED <<known, addr, calls, server, cursor, sent, host, dialog, portOf, turn, mishaps, deaf>>

ReadTimeoutForgetting(c) == \* mutant: the inactivity is not counted
  /\ play[c].at = "receiving" /\ ~Ended(c)
  /\ UNCHANGED gbVars

ReadTimeout(c) ==
  /\ play[c].at = "receiving" /\ ~Ended(c)
  /\ play' = [play EXCEPT ![c].quiet = @ + 1]
  /\ UNCHANGED <<known, addr, calls, server, cursor, sent, host, dialog, portOf, turn, mishaps, foreign, deaf>>

(* The call has ended.  Deferred: forget the session, send BYE, forget the  *)
(* transaction and close the port.  The same when the camera is stopped.    *)
Leave(c) ==
  /\ play[c].at = "receiving"
  /\ sent' = Written(play[c], "BYE")
  /\ play' = [play EXCEPT ![c] = NoPlay]
  /\ UNCHANGED <<known, addr, calls, server, cursor, host, dialog, portOf, turn, mishaps, foreign, deaf>>

LeaveEnded(c) == Ended(c) /\ Leave(c)

PlayStep(c) ==
  \/ Transmit(c) \/ GiveUp(c) \/ ReadInbox(c) \/ OpenSession(c) \/ ReadPacket(c) \/ ReadTimeout(c)
  \/ LeaveEnded(c)

-----------------------------------------------------------------------------
(* What arrives at the server.                                              *)

routeResponseUnbounded(c, m) == \* mutant: the inbox takes everything
  /\ play[c].at # "idle"
  /\ IF m = "TRYING" THEN \E a \in 0..host : Datagram("INVITE", play[c].call, a) \in sent
     ELSE Datagram(m, play[c].call, Platform) \in sent
  /\ Len(play[c].inbox) <= InboxCap
  /\ play' = [play EXCEPT ![c].inbox = Append(@, m)]
  /\ UNCHANGED <<known, addr, calls, server, cursor, sent, host, dialog, portOf, turn, mishaps, foreign, deaf>>

routeResponse(c, m) ==
  /\ play[c].at # "idle"
  /\ IF m = "TRYING" THEN \E a \in 0..host : Datagram("INVITE", play[c].call, a) \in sent
     ELSE Datagram(m, play[c].call, Platform) \in sent
  /\ Len(play[c].inbox) < InboxCap
  /\ play' = [play EXCEPT ![c].inbox = Append(@, m)]
  /\ UNCHANGED <<known, addr, calls, server, cursor, sent, host, dialog, portOf, turn, mishaps, foreign, deaf>>

handleBye(c) ==
  /\ Datagram("BYE", play[c].call, Platform) \in sent
  /\ play[c].session = "open"
  /\ play' = [play EXCEPT ![c].session = "closed"]
  /\ UNCHANGED <<known, addr, calls, server, cursor, sent, host, dialog, portOf, turn, mishaps, foreign, deaf>>

-----------------------------------------------------------------------------
(* The device.                                                              *)

Arrived(m, k) == Datagram(m, k, host) \in sent

DeviceSays(k, m, state) ==
  /\ sent' = sent \cup {Datagram(m, k, Platform)}
  /\ dialog' = [dialog EXCEPT ![k] = state]
  /\ UNCHANGED <<known, addr, calls, server, cursor, play, host, portOf, turn, mishaps, foreign, deaf>>

Answer(k) ==
  /\ Arrived("INVITE", k) /\ dialog[k] = "none"
  /\ DeviceSays(k, "OK", "answered") \/ DeviceSays(k, "REJECT", "closed")

Acked(k) ==
  /\ Arrived("ACK", k) /\ dialog[k] = "answered"
  /\ dialog' = [dialog EXCEPT ![k] = "streaming"]
  /\ UNCHANGED <<known, addr, calls, server, cursor, play, sent, host, portOf, turn, mishaps, foreign, deaf>>

Dismissed(k) ==
  /\ Arrived("BYE", k) /\ dialog[k] \in {"answered", "streaming"}
  /\ dialog' = [dialog EXCEPT ![k] = "closed"]
  /\ UNCHANGED <<known, addr, calls, server, cursor, play, sent, host, portOf, turn, mishaps, foreign, deaf>>

HangUp(k) == dialog[k] \in {"answered", "streaming"} /\ DeviceSays(k, "BYE", "closed")

Reboot ==
  /\ Mishap
  /\ host' = host + 1
  /\ dialog' = [k \in Calls |-> IF dialog[k] = "none" THEN "none" ELSE "closed"]
  /\ UNCHANGED <<known, addr, calls, server, cursor, play, sent, portOf, turn, foreign, deaf>>

GBNext ==
  \/ \E a \in 0..MaxMishaps : handleRegister(a)
  \/ Unregister
  \/ applyGB28181
  \/ \E c \in GBCameras :
       \/ PlayStart(c) \/ PlayStep(c) \/ Leave(c) \/ handleBye(c)
       \/ \E m \in {"TRYING", "OK", "REJECT"} : routeResponse(c, m)
  \/ \E k \in Calls : Answer(k) \/ Acked(k) \/ Dismissed(k) \/ HangUp(k)
  \/ Reboot

GBSpec == GBInit /\ [][GBNext]_gbVars /\ \A c \in GBCameras : WF_gbVars(PlayStep(c)) /\ WF_gbVars(GiveUp(c))

-----------------------------------------------------------------------------
GBTypeOK ==
  /\ known \in 0..Len(addr) /\ calls \in 0..MaxCalls /\ cursor \in Ports
  /\ \A c \in GBCameras :
       /\ play[c].at \in {"idle", "inviting", "acked", "receiving"}
       /\ play[c].at = "idle" <=> play[c] = NoPlay
       /\ Len(play[c].inbox) <= InboxCap
  /\ \A k \in Calls : dialog[k] \in {"none", "answered", "streaming", "closed"}

(* A device is not left streaming: for every call it still holds whose Play *)
(* has returned, a BYE was sent, unless Play gave up before it had read the *)
(* answer or its server was replaced under it (play.go 60-76, services.go   *)
(* applyGB28181; neither case sends a CANCEL or a BYE).                     *)
HungUpOrDeaf ==
  \A k \in Calls :
    dialog[k] = "streaming" /\ (\A c \in GBCameras : play[c].call # k) =>
      k \in deaf \/ \E a \in 0..host : Datagram("BYE", k, a) \in sent

(* Play looks neither at the SSRC nor at the sender of a packet.  What      *)
(* keeps the media of an abandoned dialogue out of the next calls is that   *)
(* ports are handed out in turn (play.go 116-130): foreign media needs a    *)
(* whole round of them, in which every port was handed out or passed over   *)
(* because it was in use; or a new server, which begins with the first one. *)
WholeRound(j, k) == \A p \in Ports : \E i \in (j + 1)..k : p = portOf[i] \/ p \in turn[i].passed

ForeignOnlyAfterRound ==
  \A k \in foreign : \E j \in 1..(k - 1) :
    portOf[j] = portOf[k] /\ (turn[j].by = turn[k].by => WholeRound(j, k))

(* Play does not sit on a dead call: once the device has ended it, in       *)
(* whatever way and even if its BYE is lost or came too early, Play ends,   *)
(* unless it lives on another call's media.                                 *)
DeadCallEnds ==
  \A k \in Calls :
    LET UnderWay == \E c \in GBCameras : play[c].call = k
    IN (UnderWay /\ dialog[k] = "closed") ~> (~UnderWay \/ k \in foreign)
=============================================================================
