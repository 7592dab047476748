----------------------------- MODULE ServicesProofs ----------------------------
(***************************************************************************)
(* The services around the cameras, for any number of cameras, accounts,   *)
(* alerts and requests: a GB/T 28181 device is told that its call is over  *)
(* and foreign media needs a round of the ports; alerts are apart, every   *)
(* channel of one is tried, no MQTT client is lost but where that is       *)
(* noted, and browsers subscribe with the key in use.  One invariant per   *)
(* part, of its states alone; the parts of MCServices share no variable.   *)
(***************************************************************************)
EXTENDS MCServices, TLAPS

(* GB/T 28181 calls.                                                        *)
Dialogs == {"none", "answered", "streaming", "closed"}
PlayRecord ==
  [at : {"idle", "inviting", "acked", "receiving"}, call : 0..MaxCalls, d : Nat, port : Ports \cup {-1},
   inbox : Seq({"TRYING", "OK", "REJECT"}), session : {"none", "open", "closed"}, quiet : Nat]
TurnRecord == [by : Nat, passed : SUBSET Ports]

GBTyping ==
  /\ addr \in Seq(Nat) /\ known \in 0..Len(addr)
  /\ calls \in 0..MaxCalls /\ server \in Nat /\ cursor \in Ports
  /\ play \in [GBCameras -> PlayRecord]
  /\ host \in Nat
  /\ dialog \in [Calls -> Dialogs]
  /\ portOf \in [Calls -> Ports \cup {-1}]
  /\ turn \in [Calls -> TurnRecord]
  /\ foreign \subseteq 1..calls

(* A Play under way has a call, a device and the port its call named, and   *)
(* the answers it holds were sent.                                          *)
PlaysFit ==
  \A c \in GBCameras :
    IF play[c].at = "idle" THEN play[c] = NoPlay
    ELSE /\ play[c].call \in 1..calls /\ play[c].d \in 1..Len(addr)
         /\ play[c].port \in Ports /\ play[c].port = portOf[play[c].call]
         /\ Len(play[c].inbox) <= InboxCap
         /\ \A i \in 1..Len(play[c].inbox) :
              play[c].inbox[i] = "REJECT" => Datagram("REJECT", play[c].call, Platform) \in sent

(* Datagrams are about calls that were made, and a rejected one is over.    *)
MailFits ==
  /\ \A x \in sent : x.call \in 1..calls
  /\ \A i \in 1..Len(addr) : addr[i] \in 0..host
  /\ \A k \in Calls : Datagram("REJECT", k, Platform) \in sent => dialog[k] = "closed"
  /\ \A k \in Calls : k > calls => dialog[k] = "none"

(* Every call that nobody has in hand is over, was hung up or is deaf.      *)
CallsAccounted ==
  \A k \in 1..calls :
    \/ \E c \in GBCameras : play[c].call = k
    \/ k \in deaf
    \/ dialog[k] = "closed"
    \/ \E a \in 0..host : Datagram("BYE", k, a) \in sent

(* While a Play holds its port, no later call gets it.                      *)
PortsHeld ==
  \A c \in GBCameras : play[c].at # "idle" =>
    \A k \in (play[c].call + 1)..calls : portOf[k] # play[c].port

Touched(p, k) == p = portOf[k] \/ p \in turn[k].passed

ServersInTurn ==
  /\ \A k \in 1..calls : turn[k].by <= server
  /\ \A j, k \in 1..calls : j <= k => turn[j].by <= turn[k].by

(* Since a call of this server, either its port was handed out again, or    *)
(* the cursor has come over all ports that lie between the port and itself. *)
CursorMoved ==
  \A j \in 1..calls : turn[j].by = server =>
    \/ \E i \in (j + 1)..calls : portOf[i] = portOf[j]
    \/ \A p \in Ports : Ahead(p) > Ahead(portOf[j]) => \E i \in (j + 1)..calls : Touched(p, i)

Rounds ==
  \A j, k \in 1..calls : j < k /\ portOf[j] = portOf[k] /\ turn[j].by = turn[k].by => WholeRound(j, k)

PortsInTurn == ServersInTurn /\ CursorMoved /\ Rounds /\ \A k \in 1..calls : portOf[k] \in Ports

GBInv == GBTyping /\ PlaysFit /\ MailFits /\ CallsAccounted /\ PortsHeld /\ PortsInTurn /\ ForeignOnlyAfterRound

-----------------------------------------------------------------------------
(* Nobody has called yet: the invariant holds at the start.                *)
LEMMA GBInitInv == GBInit => GBInv
<1> SUFFICES ASSUME GBInit PROVE GBInv
  OBVIOUS
<1> USE GBAssumption DEF GBInit
<1>1. NoPlay \in PlayRecord
  BY DEF NoPlay, PlayRecord
<1>2. play \in [GBCameras -> PlayRecord]
  BY <1>1
<1>3. addr \in Seq(Nat) /\ Len(addr) = 0
  OBVIOUS
<1>4. turn \in [Calls -> TurnRecord]
  BY DEF TurnRecord
<1>5. GBTyping
  BY <1>2, <1>3, <1>4 DEF GBTyping, Dialogs, Ports
<1>6. PlaysFit /\ PortsHeld
  BY DEF PlaysFit, PortsHeld, NoPlay
<1>7. MailFits
  BY <1>3 DEF MailFits
<1>8. CallsAccounted /\ PortsInTurn /\ ForeignOnlyAfterRound
  BY DEF CallsAccounted, PortsInTurn, ServersInTurn, CursorMoved, Rounds, ForeignOnlyAfterRound
<1> QED BY <1>5, <1>6, <1>7, <1>8 DEF GBInv

(* What looks only at the ports stays true when nobody starts a call.       *)
LEMMA PortsKeep ==
  ASSUME PortsInTurn, ForeignOnlyAfterRound, UNCHANGED <<calls, server, cursor, portOf, turn>>
  PROVE  PortsInTurn' /\ (foreign' = foreign => ForeignOnlyAfterRound')
BY DEF PortsInTurn, ServersInTurn, CursorMoved, Rounds, Ahead, Touched, WholeRound, ForeignOnlyAfterRound

(* A Play that goes on with its call, or ends.                              *)
LEMMA PlayTurns ==
  ASSUME GBInv, NEW c \in GBCameras, NEW rec \in PlayRecord, play' = [play EXCEPT ![c] = rec],
         \/ rec = NoPlay
         \/ /\ rec.at # "idle" /\ play[c].at # "idle"
            /\ rec.call = play[c].call /\ rec.d = play[c].d /\ rec.port = play[c].port
            /\ Len(rec.inbox) <= InboxCap
            /\ \A i \in 1..Len(rec.inbox) :
                 rec.inbox[i] = "REJECT" => Datagram("REJECT", rec.call, Platform) \in sent,
         sent \subseteq sent', UNCHANGED <<addr, calls, portOf>>
  PROVE  PlaysFit' /\ PortsHeld' /\ play' \in [GBCameras -> PlayRecord]
<1> USE DEF GBInv
<1>1. play \in [GBCameras -> PlayRecord]
  BY DEF GBTyping
<1>2. play' \in [GBCameras -> PlayRecord]
  BY <1>1
<1>3. \A b \in GBCameras : play'[b] = IF b = c THEN rec ELSE play[b]
  BY <1>1
<1>4. NoPlay.at = "idle"
  BY DEF NoPlay
<1>5. PlaysFit'
  <2> SUFFICES ASSUME NEW b \in GBCameras
               PROVE  IF play'[b].at = "idle" THEN play'[b] = NoPlay
                      ELSE /\ play'[b].call \in 1..calls' /\ play'[b].d \in 1..Len(addr')
                           /\ play'[b].port \in Ports /\ play'[b].port = portOf'[play'[b].call]
                           /\ Len(play'[b].inbox) <= InboxCap
                           /\ \A i \in 1..Len(play'[b].inbox) :
                                play'[b].inbox[i] = "REJECT" => Datagram("REJECT", play'[b].call, Platform) \in sent'
    BY DEF PlaysFit, Datagram, Platform
  <2>1. CASE b # c
    BY <2>1, <1>3 DEF PlaysFit
  <2>2. CASE b = c /\ rec = NoPlay
    BY <2>2, <1>3, <1>4
  <2>3. CASE b = c /\ rec # NoPlay
    BY <2>3, <1>3 DEF PlaysFit
  <2> QED BY <2>1, <2>2, <2>3
<1>6. PortsHeld'
  BY <1>3, <1>4 DEF PortsHeld
<1> QED BY <1>2, <1>5, <1>6

(* The calls stay accounted for when datagrams are added, calls become deaf *)
(* or close, and the Play that lets its call go says so.                    *)
LEMMA AccountKeeps ==
  ASSUME GBInv, sent \subseteq sent', deaf \subseteq deaf', calls' = calls, host' \in Nat, host <= host',
         \A k \in 1..calls : dialog[k] = "closed" => dialog'[k] = "closed",
         \A c \in GBCameras : \/ play'[c].call = play[c].call
                              \/ play[c].call \in deaf'
                              \/ dialog'[play[c].call] = "closed"
                              \/ \E a \in 0..host' : Datagram("BYE", play[c].call, a) \in sent'
  PROVE  CallsAccounted'
<1> USE DEF GBInv
<1> SUFFICES ASSUME NEW k \in 1..calls
             PROVE  \/ \E c \in GBCameras : play'[c].call = k
                    \/ k \in deaf'
                    \/ dialog'[k] = "closed"
                    \/ \E a \in 0..host' : Datagram("BYE", k, a) \in sent'
  BY DEF CallsAccounted, Datagram
<1>1. CASE \E c \in GBCameras : play[c].call = k
  <2>1. PICK c \in GBCameras : play[c].call = k
    BY <1>1
  <2> QED BY <2>1
<1>2. CASE k \in deaf \/ dialog[k] = "closed"
  BY <1>2
<1>3. CASE \E a \in 0..host : Datagram("BYE", k, a) \in sent
  <2>1. PICK a \in 0..host : Datagram("BYE", k, a) \in sent
    BY <1>3
  <2>2. a \in 0..host'
    BY DEF GBTyping
  <2> QED BY <2>1, <2>2
<1> QED BY <1>1, <1>2, <1>3 DEF CallsAccounted

-----------------------------------------------------------------------------
(* The device's own steps, and what becomes of its registration.            *)

(* A REGISTER gives the device an address it has or had; calls rest.       *)
LEMMA RegisterKeeps ==
  ASSUME GBInv, NEW a \in 0..MaxMishaps, handleRegister(a)
  PROVE  GBInv'
<1> USE DEF GBInv, handleRegister
<1>0. a \in 0..host /\ a \in Nat /\ addr \in Seq(Nat) /\ known \in 0..Len(addr) /\ Len(addr) \in Nat
  BY DEF GBTyping
<1>1. addr' \in Seq(Nat) /\ known' \in 0..Len(addr')
  <2>1. CASE known # 0
    <3>1. addr' = [addr EXCEPT ![known] = a] /\ known' = known
      BY <2>1
    <3>2. addr' \in Seq(Nat) /\ Len(addr') = Len(addr)
      BY <3>1, <1>0
    <3> QED BY <3>1, <3>2, <1>0
  <2>2. CASE known = 0
    BY <2>2, <1>0
  <2> QED BY <2>1, <2>2
<1>2. Len(addr) <= Len(addr') /\ \A i \in 1..Len(addr') : addr'[i] \in 0..host
  <2>1. CASE known # 0
    BY <2>1, <1>0 DEF MailFits
  <2>2. CASE known = 0
    BY <2>2, <1>0 DEF MailFits
  <2> QED BY <2>1, <2>2
<1>3. GBTyping'
  BY <1>1 DEF GBTyping
<1>4. PlaysFit'
  BY <1>0, <1>1, <1>2 DEF PlaysFit, Datagram
<1>5. MailFits'
  BY <1>2 DEF MailFits, Datagram
<1>6. CallsAccounted' /\ PortsHeld'
  BY DEF CallsAccounted, PortsHeld, Datagram
<1> QED BY <1>3, <1>4, <1>5, <1>6, PortsKeep

(* An unregistered device is forgotten, its calls go on.                   *)
LEMMA UnregisterKeeps ==
  ASSUME GBInv, Unregister
  PROVE  GBInv'
<1> USE DEF GBInv, Unregister
<1>1. GBTyping'
  BY DEF GBTyping
<1>2. PlaysFit' /\ MailFits'
  BY DEF PlaysFit, MailFits, Datagram
<1>3. CallsAccounted' /\ PortsHeld'
  BY DEF CallsAccounted, PortsHeld, Datagram
<1> QED BY <1>1, <1>2, <1>3, PortsKeep

(* A dialogue changes at the device: datagrams about the call are added,    *)
(* and a call that is closed stays so.                                      *)
LEMMA DeviceKeeps ==
  ASSUME GBInv, NEW k \in Calls,
         Answer(k) \/ Acked(k) \/ Dismissed(k) \/ HangUp(k)
  PROVE  GBInv'
<1> USE DEF GBInv
<1>1. UNCHANGED <<known, addr, calls, server, cursor, play, host, portOf, turn, mishaps, foreign, deaf>>
  BY DEF Answer, Acked, Dismissed, HangUp, DeviceSays
<1>2. /\ sent \subseteq sent'
      /\ \A x \in sent' \ sent : x.call = k
      /\ Datagram("REJECT", k, Platform) \in sent' \ sent => dialog'[k] = "closed"
  <2>1. CASE Acked(k) \/ Dismissed(k)
    BY <2>1 DEF Acked, Dismissed
  <2>2. CASE HangUp(k)
    BY <2>2 DEF HangUp, DeviceSays, Datagram
  <2>3. CASE Answer(k)
    <3>1. CASE DeviceSays(k, "OK", "answered")
      BY <3>1 DEF DeviceSays, Datagram
    <3>2. CASE DeviceSays(k, "REJECT", "closed")
      BY <3>2 DEF DeviceSays, Datagram, GBTyping
    <3> QED BY <2>3, <3>1, <3>2 DEF Answer
  <2> QED BY <2>1, <2>2, <2>3
<1>3. dialog \in [Calls -> Dialogs] /\ dialog[k] # "closed"
  BY DEF GBTyping, Answer, Acked, Dismissed, HangUp
<1>4. dialog' \in [Calls -> Dialogs] /\ \A j \in Calls \ {k} : dialog'[j] = dialog[j]
  BY <1>3 DEF Answer, Acked, Dismissed, HangUp, DeviceSays, Dialogs
<1>5. k \in 1..calls
  <2>1. Datagram("INVITE", k, host) \in sent \/ dialog[k] # "none"
    BY DEF Answer, Acked, Dismissed, HangUp, Arrived
  <2>2. CASE dialog[k] # "none"
    BY <2>2 DEF MailFits, GBTyping, Calls
  <2>3. CASE Datagram("INVITE", k, host) \in sent
    BY <2>3 DEF MailFits, Datagram
  <2> QED BY <2>1, <2>2, <2>3
<1>6. GBTyping'
  BY <1>1, <1>4 DEF GBTyping
<1>7. PlaysFit'
  BY <1>1, <1>2 DEF PlaysFit, Datagram
<1>8. MailFits'
  <2>1. \A x \in sent' : x.call \in 1..calls'
    BY <1>1, <1>2, <1>5 DEF MailFits
  <2>2. \A j \in Calls : Datagram("REJECT", j, Platform) \in sent' => dialog'[j] = "closed"
    <3> SUFFICES ASSUME NEW j \in Calls, Datagram("REJECT", j, Platform) \in sent' PROVE dialog'[j] = "closed"
      OBVIOUS
    <3>1. CASE Datagram("REJECT", j, Platform) \in sent
      BY <3>1, <1>3, <1>4 DEF MailFits
    <3>2. CASE Datagram("REJECT", j, Platform) \notin sent
      <4>1. Datagram("REJECT", j, Platform).call = k
        BY <3>2, <1>2
      <4>2. j = k
        BY <4>1 DEF Datagram
      <4> QED BY <4>2, <3>2, <1>2
    <3> QED BY <3>1, <3>2
  <2>3. \A j \in Calls : j > calls' => dialog'[j] = "none"
    BY <1>1, <1>4, <1>5, GBAssumption DEF MailFits, GBTyping, Calls
  <2>4. \A i \in 1..Len(addr') : addr'[i] \in 0..host'
    BY <1>1 DEF MailFits
  <2> QED BY <2>1, <2>2, <2>3, <2>4 DEF MailFits, Datagram, Platform
<1>9. CallsAccounted'
  <2>1. \A j \in 1..calls : dialog[j] = "closed" => dialog'[j] = "closed"
    BY <1>3, <1>4, GBAssumption DEF GBTyping, Calls
  <2> QED BY <1>1, <1>2, <2>1, AccountKeeps DEF GBTyping
<1>10. PortsHeld'
  BY <1>1 DEF PortsHeld
<1> QED BY <1>1, <1>6, <1>7, <1>8, <1>9, <1>10, PortsKeep

(* A reboot closes every dialogue the device had begun.                    *)
LEMMA RebootKeeps ==
  ASSUME GBInv, Reboot
  PROVE  GBInv'
<1> USE DEF GBInv, Reboot
<1>1. GBTyping'
  BY DEF GBTyping, Dialogs
<1>2. PlaysFit'
  BY DEF PlaysFit, Datagram
<1>3. MailFits'
  BY DEF MailFits, Datagram, GBTyping
<1>4. CallsAccounted'
  <2>1. \A k \in 1..calls : dialog[k] = "closed" => dialog'[k] = "closed"
    BY GBAssumption DEF GBTyping, Calls
  <2>2. host' \in Nat /\ host <= host'
    BY DEF GBTyping
  <2> QED BY <2>1, <2>2, AccountKeeps
<1>5. PortsHeld'
  BY DEF PortsHeld
<1> QED BY <1>1, <1>2, <1>3, <1>4, <1>5, PortsKeep

-----------------------------------------------------------------------------
(* What the server does with a call under way.                              *)

(* A Play writes to its device.                                             *)
LEMMA WritesFit ==
  ASSUME GBInv, NEW c \in GBCameras, play[c].at # "idle", NEW m \in {"INVITE", "ACK", "BYE"},
         sent' = sent \/ sent' = Written(play[c], m),
         UNCHANGED <<addr, calls, host, dialog>>
  PROVE  /\ sent \subseteq sent' /\ MailFits'
         /\ sent' = Written(play[c], "BYE") => \E a \in 0..host : Datagram("BYE", play[c].call, a) \in sent'
<1> USE DEF GBInv
<1> DEFINE to == addr[play[c].d]
<1>1. play[c].call \in 1..calls /\ to \in 0..host
  BY DEF PlaysFit, MailFits
<1>2. Datagram(m, play[c].call, to).call \in 1..calls
  BY <1>1 DEF Datagram
<1>3. \A k \in Calls : Datagram("REJECT", k, Platform) # Datagram(m, play[c].call, to)
  BY DEF Datagram
<1>4. \A x \in sent' : x.call \in 1..calls
  BY <1>2 DEF Written, MailFits
<1>5. \A k \in Calls : Datagram("REJECT", k, Platform) \in sent' => dialog[k] = "closed"
  BY <1>3 DEF Written, MailFits
<1>6. MailFits'
  BY <1>4, <1>5 DEF MailFits, Datagram, Platform
<1> QED BY <1>1, <1>6 DEF Written

(* Any step of a Play that has a call, but for the ports.                   *)
LEMMA StepKeeps ==
  ASSUME GBInv, NEW c \in GBCameras, NEW rec \in PlayRecord, play' = [play EXCEPT ![c] = rec],
         play[c].at # "idle",
         NEW m \in {"INVITE", "ACK", "BYE"}, sent' = sent \/ sent' = Written(play[c], m),
         UNCHANGED <<known, addr, calls, server, cursor, host, dialog, portOf, turn>>,
         foreign' \subseteq 1..calls, ForeignOnlyAfterRound', deaf \subseteq deaf',
         \/ /\ rec = NoPlay
            /\ play[c].call \in deaf' \/ dialog[play[c].call] = "closed" \/ sent' = Written(play[c], "BYE")
         \/ /\ rec.at # "idle"
            /\ rec.call = play[c].call /\ rec.d = play[c].d /\ rec.port = play[c].port
            /\ Len(rec.inbox) <= InboxCap
            /\ \A i \in 1..Len(rec.inbox) :
                 rec.inbox[i] = "REJECT" => Datagram("REJECT", rec.call, Platform) \in sent
  PROVE  GBInv'
<1> USE DEF GBInv
<1>1. /\ sent \subseteq sent' /\ MailFits'
      /\ sent' = Written(play[c], "BYE") => \E a \in 0..host : Datagram("BYE", play[c].call, a) \in sent'
  BY WritesFit
<1>2. PlaysFit' /\ PortsHeld' /\ play' \in [GBCameras -> PlayRecord]
  BY <1>1, PlayTurns
<1>3. GBTyping'
  BY <1>2 DEF GBTyping
<1>4. \A b \in GBCameras : play'[b] = IF b = c THEN rec ELSE play[b]
  BY DEF GBTyping
<1>5. CallsAccounted'
  <2>1. \A b \in GBCameras : \/ play'[b].call = play[b].call
                            \/ play[b].call \in deaf'
                            \/ dialog'[play[b].call] = "closed"
                            \/ \E a \in 0..host' : Datagram("BYE", play[b].call, a) \in sent'
    <3> TAKE b \in GBCameras
    <3>1. CASE b # c
      BY <3>1, <1>4
    <3>2. CASE b = c /\ rec # NoPlay
      BY <3>2, <1>4
    <3>3. CASE b = c /\ rec = NoPlay
      BY <3>3, <1>1
    <3> QED BY <3>1, <3>2, <3>3
  <2>2. host' \in Nat /\ host <= host'
    BY DEF GBTyping
  <2> QED BY <1>1, <2>1, <2>2, AccountKeeps
<1>6. PortsInTurn'
  BY PortsKeep
<1> QED BY <1>1, <1>2, <1>3, <1>5, <1>6

(* What a Play under way has.                                              *)
LEMMA PlayFields ==
  ASSUME GBInv, NEW c \in GBCameras
  PROVE  /\ play[c] \in PlayRecord /\ NoPlay \in PlayRecord /\ NoPlay.at = "idle"
         /\ play[c].at # "idle" => play[c].call \in Calls
BY GBAssumption DEF GBInv, GBTyping, PlaysFit, PlayRecord, NoPlay, Calls

(* A retransmission changes nothing but the mail.                          *)
LEMMA TransmitKeeps ==
  ASSUME GBInv, NEW c \in GBCameras, Transmit(c)
  PROVE  GBInv'
<1>1. play' = [play EXCEPT ![c] = play[c]]
  BY DEF Transmit, GBInv, GBTyping
<1>2. ForeignOnlyAfterRound'
  BY PortsKeep DEF Transmit, GBInv
<1> QED BY <1>1, <1>2, PlayFields, StepKeeps DEF Transmit, GBInv, PlaysFit, GBTyping

(* A Play that gives up leaves its call deaf.                              *)
LEMMA GiveUpKeeps ==
  ASSUME GBInv, NEW c \in GBCameras, GiveUp(c)
  PROVE  GBInv'
<1>1. ForeignOnlyAfterRound'
  BY PortsKeep DEF GiveUp, GBInv
<1> QED BY <1>1, PlayFields, StepKeeps DEF GiveUp, GBInv, GBTyping

(* A Play that leaves has written a BYE.                                   *)
LEMMA LeaveKeeps ==
  ASSUME GBInv, NEW c \in GBCameras, Leave(c)
  PROVE  GBInv'
<1>1. ForeignOnlyAfterRound'
  BY PortsKeep DEF Leave, GBInv
<1> QED BY <1>1, PlayFields, StepKeeps DEF Leave, GBInv, GBTyping

(* A rejected call is over when its Play ends without a BYE.               *)
LEMMA ReadInboxKeeps ==
  ASSUME GBInv, NEW c \in GBCameras, ReadInbox(c)
  PROVE  GBInv'
<1> DEFINE P == play[c]
           msg == Head(P.inbox)
           Read == [P EXCEPT !.inbox = Tail(@)]
           Took == [Read EXCEPT !.at = "acked"]
<1>1. P \in PlayRecord /\ P.at = "inviting" /\ P.inbox # <<>> /\ P.inbox \in Seq({"TRYING", "OK", "REJECT"})
  BY PlayFields DEF ReadInbox, PlayRecord
<1>2. /\ Tail(P.inbox) \in Seq({"TRYING", "OK", "REJECT"}) /\ Len(Tail(P.inbox)) = Len(P.inbox) - 1
      /\ \A i \in 1..Len(Tail(P.inbox)) : i + 1 \in 1..Len(P.inbox) /\ Tail(P.inbox)[i] = P.inbox[i + 1]
      /\ msg \in {"TRYING", "OK", "REJECT"} /\ msg = P.inbox[1] /\ 1 \in 1..Len(P.inbox)
  BY <1>1
<1>3. Len(P.inbox) <= InboxCap /\ Len(P.inbox) \in Nat /\ Len(Tail(P.inbox)) <= InboxCap
  BY <1>1, <1>2, GBAssumption DEF GBInv, PlaysFit
<1>4. \A i \in 1..Len(P.inbox) : P.inbox[i] = "REJECT" => Datagram("REJECT", P.call, Platform) \in sent
  BY <1>1 DEF GBInv, PlaysFit
<1>5. ForeignOnlyAfterRound'
  BY PortsKeep DEF ReadInbox, GBInv
<1>6. CASE msg = "TRYING"
  <2>1. play' = [play EXCEPT ![c] = Read] /\ sent' = sent
    BY <1>6 DEF ReadInbox
  <2>2. Read \in PlayRecord
    BY <1>1, <1>2 DEF PlayRecord
  <2>3. /\ Read.at # "idle" /\ Read.call = P.call /\ Read.d = P.d /\ Read.port = P.port
        /\ Read.inbox = Tail(P.inbox)
    BY <1>1 DEF PlayRecord
  <2> HIDE DEF Read
  <2>4. \A i \in 1..Len(Read.inbox) : Read.inbox[i] = "REJECT" => Datagram("REJECT", Read.call, Platform) \in sent
    BY <1>2, <1>4, <2>3
  <2>5. Len(Read.inbox) <= InboxCap
    BY <1>3, <2>3
  <2> QED BY <1>1, <1>5, <2>1, <2>2, <2>3, <2>4, <2>5, StepKeeps DEF ReadInbox, GBInv, GBTyping
<1>7. CASE msg = "OK"
  <2>1. play' = [play EXCEPT ![c] = Took] /\ sent' = Written(play[c], "ACK")
    BY <1>7 DEF ReadInbox
  <2>2. Took \in PlayRecord
    BY <1>1, <1>2 DEF PlayRecord
  <2>3. /\ Took.at # "idle" /\ Took.call = P.call /\ Took.d = P.d /\ Took.port = P.port
        /\ Took.inbox = Tail(P.inbox)
    BY <1>1 DEF PlayRecord
  <2> HIDE DEF Took
  <2>4. \A i \in 1..Len(Took.inbox) : Took.inbox[i] = "REJECT" => Datagram("REJECT", Took.call, Platform) \in sent
    BY <1>2, <1>4, <2>3
  <2>5. Len(Took.inbox) <= InboxCap
    BY <1>3, <2>3
  <2> QED BY <1>1, <1>5, <2>1, <2>2, <2>3, <2>4, <2>5, StepKeeps DEF ReadInbox, GBInv, GBTyping
<1>8. CASE msg = "REJECT"
  <2>1. play' = [play EXCEPT ![c] = NoPlay] /\ sent' = sent
    BY <1>8 DEF ReadInbox
  <2>2. dialog[P.call] = "closed"
    BY <1>1, <1>2, <1>4, <1>8, PlayFields DEF GBInv, MailFits
  <2> QED BY <1>1, <1>5, <2>1, <2>2, PlayFields, StepKeeps DEF ReadInbox, GBInv, GBTyping
<1> QED BY <1>2, <1>6, <1>7, <1>8

(* A Play whose answers and call stay what they are.                        *)
LEMMA FieldKeeps ==
  ASSUME GBInv, NEW c \in GBCameras, NEW rec \in PlayRecord, play' = [play EXCEPT ![c] = rec],
         play[c].at # "idle", rec.at # "idle",
         rec.call = play[c].call, rec.d = play[c].d, rec.port = play[c].port, rec.inbox = play[c].inbox,
         UNCHANGED <<known, addr, calls, server, cursor, sent, host, dialog, portOf, turn, deaf>>,
         foreign' \subseteq 1..calls, ForeignOnlyAfterRound'
  PROVE  GBInv'
<1>1. Len(rec.inbox) <= InboxCap
  BY DEF GBInv, PlaysFit
<1>2. \A i \in 1..Len(rec.inbox) : rec.inbox[i] = "REJECT" => Datagram("REJECT", rec.call, Platform) \in sent
  BY DEF GBInv, PlaysFit
<1> QED BY <1>1, <1>2, StepKeeps

(* The session is opened once the call is acknowledged.                    *)
LEMMA OpenSessionKeeps ==
  ASSUME GBInv, NEW c \in GBCameras, OpenSession(c)
  PROVE  GBInv'
<1> DEFINE Open == [play[c] EXCEPT !.at = "receiving", !.session = "open"]
<1>1. play[c] \in PlayRecord /\ play[c].at = "acked"
  BY PlayFields DEF OpenSession
<1>2. /\ Open \in PlayRecord /\ Open.at # "idle" /\ Open.call = play[c].call /\ Open.d = play[c].d
      /\ Open.port = play[c].port /\ Open.inbox = play[c].inbox
  BY <1>1 DEF PlayRecord
<1>3. play' = [play EXCEPT ![c] = Open]
  BY DEF OpenSession, GBInv, GBTyping
<1>4. ForeignOnlyAfterRound'
  BY PortsKeep DEF OpenSession, GBInv
<1> HIDE DEF Open
<1> QED BY <1>1, <1>2, <1>3, <1>4, FieldKeeps DEF OpenSession, GBInv, GBTyping

(* A quiet turn of receiveMedia.                                           *)
LEMMA ReadTimeoutKeeps ==
  ASSUME GBInv, NEW c \in GBCameras, ReadTimeout(c)
  PROVE  GBInv'
<1> DEFINE Later == [play[c] EXCEPT !.quiet = @ + 1]
<1>1. play[c] \in PlayRecord /\ play[c].at = "receiving"
  BY PlayFields DEF ReadTimeout
<1>2. /\ Later \in PlayRecord /\ Later.at # "idle" /\ Later.call = play[c].call /\ Later.d = play[c].d
      /\ Later.port = play[c].port /\ Later.inbox = play[c].inbox
  BY <1>1 DEF PlayRecord
<1>3. play' = [play EXCEPT ![c] = Later]
  BY DEF ReadTimeout
<1>4. ForeignOnlyAfterRound'
  BY PortsKeep DEF ReadTimeout, GBInv
<1> HIDE DEF Later
<1> QED BY <1>1, <1>2, <1>3, <1>4, FieldKeeps DEF ReadTimeout, GBInv, GBTyping

(* A BYE closes the session it finds.                                      *)
LEMMA HandleByeKeeps ==
  ASSUME GBInv, NEW c \in GBCameras, handleBye(c)
  PROVE  GBInv'
<1> DEFINE Told == [play[c] EXCEPT !.session = "closed"]
<1>1. play[c] \in PlayRecord /\ play[c].session = "open"
  BY PlayFields DEF handleBye
<1>2. play[c].at # "idle"
  BY <1>1 DEF GBInv, PlaysFit, NoPlay
<1>3. /\ Told \in PlayRecord /\ Told.at # "idle" /\ Told.call = play[c].call /\ Told.d = play[c].d
      /\ Told.port = play[c].port /\ Told.inbox = play[c].inbox
  BY <1>1, <1>2 DEF PlayRecord
<1>4. play' = [play EXCEPT ![c] = Told]
  BY DEF handleBye
<1>5. ForeignOnlyAfterRound'
  BY PortsKeep DEF handleBye, GBInv
<1> HIDE DEF Told
<1> QED BY <1>1, <1>2, <1>3, <1>4, <1>5, FieldKeeps DEF handleBye, GBInv, GBTyping

(* Media for this port that belongs to another call belongs to an earlier   *)
(* one, which had the port a whole round ago, or with another server.       *)
LEMMA ForeignIsOld ==
  ASSUME GBInv, NEW c \in GBCameras, play[c].at # "idle", NEW k \in Streaming(c), k # play[c].call
  PROVE  \E j \in 1..(play[c].call - 1) :
           portOf[j] = portOf[play[c].call] /\ (turn[j].by = turn[play[c].call].by => WholeRound(j, play[c].call))
<1> USE DEF GBInv
<1>1. play[c].call \in 1..calls /\ play[c].port = portOf[play[c].call] /\ calls \in Nat
  BY GBAssumption DEF PlaysFit, GBTyping
<1>2. k \in 1..calls /\ portOf[k] = play[c].port
  BY <1>1 DEF Streaming, MailFits, Calls
<1>3. k < play[c].call
  BY <1>1, <1>2 DEF PortsHeld
<1>4. turn[k].by = turn[play[c].call].by => WholeRound(k, play[c].call)
  BY <1>1, <1>2, <1>3 DEF PortsInTurn, Rounds
<1> QED BY <1>1, <1>2, <1>3, <1>4

(* A packet is the media of the call or of an older one of its port.       *)
LEMMA ReadPacketKeeps ==
  ASSUME GBInv, NEW c \in GBCameras, ReadPacket(c)
  PROVE  GBInv'
<1> DEFINE Heard == [play[c] EXCEPT !.quiet = 0]
<1>1. play[c] \in PlayRecord /\ play[c].at = "receiving" /\ play[c].call \in 1..calls
  BY PlayFields DEF ReadPacket, GBInv, PlaysFit
<1>2. /\ Heard \in PlayRecord /\ Heard.at # "idle" /\ Heard.call = play[c].call /\ Heard.d = play[c].d
      /\ Heard.port = play[c].port /\ Heard.inbox = play[c].inbox
  BY <1>1 DEF PlayRecord
<1>3. play' = [play EXCEPT ![c] = Heard]
  BY DEF ReadPacket
<1>4. PICK k \in Streaming(c) : foreign' = IF k = play[c].call THEN foreign ELSE foreign \cup {play[c].call}
  BY DEF ReadPacket
<1>5. /\ UNCHANGED <<known, addr, calls, server, cursor, sent, host, dialog, portOf, turn, deaf>>
      /\ PortsInTurn /\ ForeignOnlyAfterRound
  BY DEF ReadPacket, GBInv
<1>6. foreign' \subseteq 1..calls
  BY <1>1, <1>4 DEF GBInv, GBTyping
<1>7. ForeignOnlyAfterRound'
  <2>1. CASE k = play[c].call
    BY <2>1, <1>4, <1>5, PortsKeep
  <2>2. CASE k # play[c].call
    <3>1. \E j \in 1..(play[c].call - 1) :
           portOf[j] = portOf[play[c].call] /\ (turn[j].by = turn[play[c].call].by => WholeRound(j, play[c].call))
      BY <2>2, <1>1, ForeignIsOld
    <3> QED BY <3>1, <2>2, <1>4, <1>5 DEF ForeignOnlyAfterRound, WholeRound
  <2> QED BY <2>1, <2>2
<1> HIDE DEF Heard
<1> QED BY <1>1, <1>2, <1>3, <1>5, <1>6, <1>7, FieldKeeps

(* An answer that was sent goes into an inbox that has room.               *)
LEMMA RouteResponseKeeps ==
  ASSUME GBInv, NEW c \in GBCameras, NEW m \in {"TRYING", "OK", "REJECT"}, routeResponse(c, m)
  PROVE  GBInv'
<1> DEFINE P == play[c]
           Got == [P EXCEPT !.inbox = Append(@, m)]
<1>1. /\ P \in PlayRecord /\ P.at # "idle" /\ P.inbox \in Seq({"TRYING", "OK", "REJECT"})
      /\ Len(P.inbox) < InboxCap
  BY PlayFields DEF routeResponse, PlayRecord
<1>2. /\ Append(P.inbox, m) \in Seq({"TRYING", "OK", "REJECT"})
      /\ Len(Append(P.inbox, m)) = Len(P.inbox) + 1
      /\ \A i \in 1..Len(Append(P.inbox, m)) : IF i \in 1..Len(P.inbox) THEN Append(P.inbox, m)[i] = P.inbox[i]
                                                 ELSE Append(P.inbox, m)[i] = m
  BY <1>1
<1>3. /\ Got \in PlayRecord /\ Got.at # "idle" /\ Got.call = P.call /\ Got.d = P.d
      /\ Got.port = P.port /\ Got.inbox = Append(P.inbox, m)
  BY <1>1, <1>2 DEF PlayRecord
<1>4. play' = [play EXCEPT ![c] = Got]
  BY DEF routeResponse
<1>5. ForeignOnlyAfterRound'
  BY PortsKeep DEF routeResponse, GBInv
<1>6. m = "REJECT" => Datagram("REJECT", P.call, Platform) \in sent
  BY DEF routeResponse
<1> HIDE DEF Got
<1>7. Len(Got.inbox) <= InboxCap
  BY <1>1, <1>2, <1>3, GBAssumption
<1>8. \A i \in 1..Len(Got.inbox) : Got.inbox[i] = "REJECT" => Datagram("REJECT", Got.call, Platform) \in sent
  BY <1>1, <1>2, <1>3, <1>6 DEF GBInv, PlaysFit
<1> QED BY <1>1, <1>3, <1>4, <1>5, <1>7, <1>8, StepKeeps DEF routeResponse, GBInv, GBTyping

-----------------------------------------------------------------------------
(* A new server: all calls are deaf, and the ports begin anew.              *)
LEMMA ApplyKeeps ==
  ASSUME GBInv, applyGB28181
  PROVE  GBInv'
<1> USE DEF GBInv, applyGB28181
<1>1. NoPlay \in PlayRecord /\ NoPlay.at = "idle"
  BY GBAssumption DEF NoPlay, PlayRecord, Calls
<1>2. play' \in [GBCameras -> PlayRecord] /\ \A c \in GBCameras : play'[c] = NoPlay
  BY <1>1
<1>3. GBTyping'
  BY <1>2, GBAssumption DEF GBTyping, Ports
<1>4. PlaysFit' /\ PortsHeld'
  BY <1>1, <1>2 DEF PlaysFit, PortsHeld
<1>5. MailFits'
  BY DEF MailFits, Datagram
<1>6. CallsAccounted'
  <2>1. deaf \subseteq deaf' /\ \A c \in GBCameras : play[c].call \in Nat /\ play[c].call # 0 => play[c].call \in deaf'
    OBVIOUS
  <2>2. SUFFICES ASSUME NEW k \in 1..calls, NEW c \in GBCameras, play[c].call = k PROVE k \in deaf'
    BY <2>1 DEF CallsAccounted, Datagram
  <2>3. k \in Nat /\ k # 0
    BY DEF GBTyping
  <2> QED BY <2>1, <2>2, <2>3
<1>7. server \in Nat /\ \A k \in 1..calls : turn[k].by \in Nat /\ turn[k].by < server'
  <2>1. \A k \in 1..calls : k \in Calls
    BY GBAssumption DEF GBTyping, Calls
  <2>2. \A k \in Calls : turn[k].by \in Nat
    BY DEF GBTyping, TurnRecord
  <2>3. server \in Nat /\ server' = server + 1
    BY DEF GBTyping
  <2> HIDE DEF GBInv, applyGB28181
  <2>4. \A k \in 1..calls : turn[k].by <= server
    BY DEF GBInv, PortsInTurn, ServersInTurn
  <2> QED BY <2>1, <2>2, <2>3, <2>4
<1>8. PortsInTurn'
  <2>1. ServersInTurn'
    <3>1. calls' = calls /\ turn' = turn /\ server' = server + 1
      OBVIOUS
    <3>2. \A j, k \in 1..calls : j <= k => turn[j].by <= turn[k].by
      BY DEF PortsInTurn, ServersInTurn
    <3> QED BY <3>1, <3>2, <1>7 DEF ServersInTurn
  <2>2. CursorMoved'
    BY <1>7 DEF CursorMoved, GBTyping
  <2>3. Rounds'
    BY DEF PortsInTurn, Rounds, WholeRound
  <2> QED BY <2>1, <2>2, <2>3 DEF PortsInTurn
<1>9. ForeignOnlyAfterRound'
  BY DEF ForeignOnlyAfterRound, WholeRound
<1> QED BY <1>3, <1>4, <1>5, <1>6, <1>8, <1>9

-----------------------------------------------------------------------------
(* A call begins.                                                           *)

(* How far ports are ahead of the cursor before and after a call.          *)
LEMMA Distances ==
  ASSUME cursor \in Ports, NEW port \in Ports, cursor' = After(port)
  PROVE  /\ cursor' \in Ports
         /\ \A p \in Ports : Ahead(p) \in 0..(NPorts - 1)
         /\ \A p, q \in Ports : Ahead(p) = Ahead(q) => p = q
         /\ \A p \in Ports : Ahead(p)' = IF Ahead(p) > Ahead(port) THEN Ahead(p) - Ahead(port) - 1
                                        ELSE Ahead(p) - Ahead(port) - 1 + NPorts
BY GBAssumption DEF Ports, After, Ahead

(* What a new call does to the turns, given how it took its port.           *)
LEMMA TurnsGoOn ==
  ASSUME GBInv, NEW port \in Ports, calls < MaxCalls, calls' = calls + 1, server' = server,
         cursor' = After(port),
         portOf' = [portOf EXCEPT ![calls + 1] = port],
         turn' = [turn EXCEPT ![calls + 1] = [by |-> server, passed |-> Before(port)]]
  PROVE  PortsInTurn'
<1> USE DEF GBInv
<1> PICK new : new = calls + 1
  OBVIOUS
<1>1. calls \in Nat /\ new \in Calls /\ new = calls + 1 /\ calls' = new /\ 1..calls' = 1..calls \cup {new}
  BY GBAssumption DEF GBTyping, Calls
<1>2. /\ portOf'[new] = port /\ turn'[new].by = server /\ turn'[new].passed = Before(port)
      /\ \A k \in 1..calls : portOf'[k] = portOf[k] /\ turn'[k] = turn[k]
  BY <1>1 DEF GBTyping, Calls
<1>3. \A p \in Ports, k \in 1..calls : Touched(p, k)' <=> Touched(p, k)
  BY <1>2 DEF Touched
<1>4. \A p \in Ports : Touched(p, new)' <=> Ahead(p) <= Ahead(port)
  BY <1>1, <1>2, Distances, GBAssumption DEF Touched, Before, GBTyping
<1>5. ServersInTurn'
  BY <1>1, <1>2 DEF PortsInTurn, ServersInTurn, GBTyping
<1>6. Rounds'
  <2> SUFFICES ASSUME NEW j \in 1..calls', NEW k \in 1..calls', j < k, portOf'[j] = portOf'[k],
                      turn'[j].by = turn'[k].by, NEW p \in Ports
               PROVE  \E i \in (j + 1)..k : Touched(p, i)'
    BY DEF Rounds, WholeRound, Touched
  <2>1. CASE k \in 1..calls
    <3>1. j \in 1..calls
      BY <2>1, <1>1
    <3>2. PICK i \in (j + 1)..k : Touched(p, i)
      BY <2>1, <3>1, <1>2 DEF PortsInTurn, Rounds, WholeRound, Touched
    <3> QED BY <3>1, <3>2, <2>1, <1>1, <1>3
  <2>2. CASE k = new
    <3>1. j \in 1..calls /\ portOf[j] = port /\ turn[j].by = server
      BY <2>2, <1>1, <1>2
    <3>2. CASE \E i \in (j + 1)..calls : portOf[i] = portOf[j]
      <4>1. PICK i \in (j + 1)..calls : portOf[i] = portOf[j]
        BY <3>2
      <4>2. turn[i].by = turn[j].by
        <5>1. i \in 1..calls /\ i \in Calls /\ j \in Calls /\ j <= i
          BY <1>1, <3>1, <4>1, GBAssumption DEF GBTyping, Calls
        <5>2. turn[i].by \in Nat /\ turn[j].by \in Nat
          BY <5>1 DEF GBTyping, TurnRecord
        <5> QED BY <3>1, <5>1, <5>2 DEF PortsInTurn, ServersInTurn, GBTyping
      <4>3. PICK h \in (j + 1)..i : Touched(p, h)
        BY <1>1, <3>1, <4>1, <4>2 DEF PortsInTurn, Rounds, WholeRound, Touched
      <4> QED BY <1>1, <1>3, <2>2, <3>1, <4>1, <4>3
    <3>3. CASE \A q \in Ports : Ahead(q) > Ahead(portOf[j]) => \E i \in (j + 1)..calls : Touched(q, i)
      <4>1. CASE Ahead(p) > Ahead(port)
        <5>1. PICK i \in (j + 1)..calls : Touched(p, i)
          BY <3>1, <3>3, <4>1
        <5> QED BY <1>1, <1>3, <2>2, <3>1, <5>1
      <4>2. CASE ~(Ahead(p) > Ahead(port))
        <5>1. Touched(p, new)'
          BY <1>4, <4>2, Distances DEF GBTyping
        <5> QED BY <1>1, <2>2, <3>1, <5>1
      <4> QED BY <4>1, <4>2
    <3> QED BY <3>1, <3>2, <3>3 DEF PortsInTurn, CursorMoved
  <2> QED BY <1>1, <2>1, <2>2
<1>7. CursorMoved'
  <2> SUFFICES ASSUME NEW j \in 1..calls', turn'[j].by = server', ~ \E i \in (j + 1)..calls' : portOf'[i] = portOf'[j],
                      NEW p \in Ports, Ahead(p)' > Ahead(portOf[j])'
               PROVE  \E i \in (j + 1)..calls' : Touched(p, i)'
    BY DEF CursorMoved
  <2>0. cursor \in Ports /\ calls \in Nat
    BY <1>1 DEF GBTyping
  <2>1. CASE j = new
    <3>1. portOf'[j] = port
      BY <2>1, <1>2
    <3>2. Ahead(port)' = NPorts - 1 /\ Ahead(p)' <= NPorts - 1
      BY <2>0, Distances, GBAssumption
    <3>3. Ahead(portOf[j])' = Ahead(port)'
      BY <3>1 DEF Ahead
    <3> QED BY <2>0, <3>2, <3>3, Distances, GBAssumption
  <2>2. CASE j \in 1..calls
    <3>1. portOf'[j] = portOf[j] /\ turn[j].by = server /\ portOf[j] \in Ports
      BY <2>2, <1>2 DEF PortsInTurn
    <3>2. ~ \E i \in (j + 1)..calls : portOf[i] = portOf[j]
      BY <2>2, <3>1, <1>1, <1>2
    <3>3. \A q \in Ports : Ahead(q) > Ahead(portOf[j]) => \E i \in (j + 1)..calls : Touched(q, i)
      BY <2>2, <3>1, <3>2 DEF PortsInTurn, CursorMoved
    <3>4. new \in (j + 1)..calls'
      BY <2>2, <1>1
    <3> PICK q \in Ports : q = portOf[j]
      BY <3>1
    <3>5. Ahead(p)' > Ahead(q)'
      BY <3>1 DEF Ahead
    <3>6. Ahead(p) > Ahead(q) \/ Ahead(p) <= Ahead(port)
      BY <2>0, <3>5, Distances, GBAssumption
    <3>7. CASE Ahead(p) > Ahead(q)
      <4>1. PICK i \in (j + 1)..calls : Touched(p, i)
        BY <3>3, <3>7
      <4> QED BY <4>1, <2>2, <1>1, <1>3
    <3>8. CASE Ahead(p) <= Ahead(port)
      BY <3>4, <3>8, <1>4
    <3> QED BY <3>6, <3>7, <3>8
  <2> QED BY <1>1, <2>1, <2>2
<1>8. \A k \in 1..calls' : portOf'[k] \in Ports
  BY <1>1, <1>2 DEF PortsInTurn
<1> QED BY <1>5, <1>6, <1>7, <1>8 DEF PortsInTurn

(* A new call gets the first free port from the cursor on.                 *)
LEMMA PlayStartKeeps ==
  ASSUME GBInv, NEW c \in GBCameras, PlayStart(c)
  PROVE  GBInv'
<1> USE DEF GBInv
<1>1. PICK port \in Ports \ InUse :
         /\ play' = [play EXCEPT ![c] = [NoPlay EXCEPT !.at = "inviting", !.call = calls + 1, !.d = known,
                                                         !.port = port]]
         /\ cursor' = After(port)
         /\ portOf' = [portOf EXCEPT ![calls + 1] = port]
         /\ turn' = [turn EXCEPT ![calls + 1] = [by |-> server, passed |-> Before(port)]]
         /\ sent' = Written(play'[c], "INVITE")
  BY DEF PlayStart
<1> DEFINE first == [NoPlay EXCEPT !.at = "inviting", !.call = calls + 1, !.d = known, !.port = port]
<1> PICK new : new = calls + 1
  OBVIOUS
<1>2. /\ play[c] = NoPlay /\ known # 0 /\ calls < MaxCalls /\ calls' = new
      /\ UNCHANGED <<known, addr, server, host, dialog, mishaps, foreign, deaf>>
  BY DEF PlayStart, PlaysFit
<1>3. /\ calls \in Nat /\ new \in Calls /\ 1..calls' = 1..calls \cup {new} /\ new \notin 1..calls
      /\ known \in 1..Len(addr) /\ known \in Nat
  BY <1>2, GBAssumption DEF GBTyping, Calls
<1>4. /\ first.at = "inviting" /\ first.call = new /\ first.d = known /\ first.port = port
      /\ first.inbox = <<>>
  BY DEF NoPlay
<1>5. first \in PlayRecord
  <2>1. calls + 1 \in 0..MaxCalls /\ NoPlay \in PlayRecord
    BY <1>3, PlayFields, GBAssumption DEF Calls
  <2>2. \A r \in PlayRecord : [r EXCEPT !.at = "inviting", !.call = calls + 1] \in PlayRecord
    BY <2>1 DEF PlayRecord
  <2>3. \A r \in PlayRecord : [r EXCEPT !.d = known, !.port = port] \in PlayRecord
    BY <1>3 DEF PlayRecord
  <2> QED BY <2>1, <2>2, <2>3
<1>6. play' = [play EXCEPT ![c] = first]
  BY <1>1
<1> HIDE DEF first
<1>7. play' \in [GBCameras -> PlayRecord] /\ \A b \in GBCameras : play'[b] = IF b = c THEN first ELSE play[b]
  BY <1>5, <1>6 DEF GBTyping
<1>8. /\ portOf' \in [Calls -> Ports \cup {-1}] /\ portOf'[new] = port
      /\ \A k \in 1..calls : portOf'[k] = portOf[k]
  BY <1>1, <1>2, <1>3, GBAssumption DEF GBTyping, Calls
<1>9. turn' \in [Calls -> TurnRecord] /\ \A k \in 1..calls : turn'[k] = turn[k]
  <2>1. [by |-> server, passed |-> Before(port)] \in TurnRecord
    BY DEF TurnRecord, GBTyping, Before
  <2>2. 1..calls \subseteq Calls
    BY <1>2, <1>3, GBAssumption DEF Calls
  <2> QED BY <1>1, <1>3, <2>1, <2>2 DEF GBTyping
<1>10. cursor' \in Ports
  BY <1>1, Distances DEF GBTyping
<1>11. foreign' \subseteq 1..calls'
  BY <1>2, <1>3 DEF GBTyping
<1>12. GBTyping'
  BY <1>2, <1>3, <1>7, <1>8, <1>9, <1>10, <1>11, GBAssumption DEF GBTyping, Calls
<1>13. sent' = sent \cup {Datagram("INVITE", new, addr[known])}
  BY <1>1, <1>4, <1>7 DEF Written
<1>14. PlaysFit'
  <2> SUFFICES ASSUME NEW b \in GBCameras
               PROVE  IF play'[b].at = "idle" THEN play'[b] = NoPlay
                      ELSE /\ play'[b].call \in 1..calls' /\ play'[b].d \in 1..Len(addr')
                           /\ play'[b].port \in Ports /\ play'[b].port = portOf'[play'[b].call]
                           /\ Len(play'[b].inbox) <= InboxCap
                           /\ \A i \in 1..Len(play'[b].inbox) :
                                play'[b].inbox[i] = "REJECT" => Datagram("REJECT", play'[b].call, Platform) \in sent'
    BY DEF PlaysFit, Datagram, Platform
  <2>1. CASE b = c
    <3>1. Len(first.inbox) = 0 /\ 0 <= InboxCap
      BY <1>4, GBAssumption
    <3> QED BY <2>1, <3>1, <1>2, <1>3, <1>4, <1>7, <1>8
  <2>2. CASE b # c
    BY <2>2, <1>2, <1>3, <1>7, <1>8, <1>13 DEF PlaysFit
  <2> QED BY <2>1, <2>2
<1>15. MailFits'
  <2>1. Datagram("INVITE", new, addr[known]).call = new
    BY DEF Datagram
  <2>2. \A k \in Calls : Datagram("REJECT", k, Platform) # Datagram("INVITE", new, addr[known])
    BY DEF Datagram
  <2>3. \A x \in sent' : x.call \in 1..calls'
    BY <1>3, <1>13, <2>1 DEF MailFits
  <2>4. \A k \in Calls : Datagram("REJECT", k, Platform) \in sent' => dialog'[k] = "closed"
    BY <1>2, <1>13, <2>2 DEF MailFits
  <2>5. \A k \in Calls : k > calls' => dialog'[k] = "none"
    BY <1>2, <1>3 DEF MailFits, Calls
  <2>6. \A i \in 1..Len(addr') : addr'[i] \in 0..host'
    BY <1>2 DEF MailFits
  <2> QED BY <2>3, <2>4, <2>5, <2>6 DEF MailFits, Datagram, Platform
<1>16. CallsAccounted'
  <2> SUFFICES ASSUME NEW k \in 1..calls'
               PROVE  \/ \E b \in GBCameras : play'[b].call = k
                      \/ k \in deaf'
                      \/ dialog'[k] = "closed"
                      \/ \E a \in 0..host' : Datagram("BYE", k, a) \in sent'
    BY DEF CallsAccounted, Datagram
  <2>1. CASE k = new
    BY <2>1, <1>4, <1>7
  <2>2. CASE k \in 1..calls
    <3>1. \A b \in GBCameras : play[b].call = k => b # c
      BY <1>2, <1>3, <2>2 DEF NoPlay
    <3> QED BY <2>2, <3>1, <1>2, <1>7, <1>13 DEF CallsAccounted
  <2> QED BY <2>1, <2>2, <1>3
<1>17. PortsHeld'
  <2> SUFFICES ASSUME NEW b \in GBCameras, play'[b].at # "idle", NEW k \in (play'[b].call + 1)..calls'
               PROVE  portOf'[k] # play'[b].port
    BY DEF PortsHeld
  <2>1. CASE b = c
    BY <2>1, <1>2, <1>3, <1>4, <1>7
  <2>2. CASE b # c
    <3>1. play'[b] = play[b] /\ play[b].call \in 1..calls
      BY <2>2, <1>7 DEF PlaysFit
    <3>2. CASE k = new
      BY <3>1, <3>2, <1>1, <1>8 DEF InUse
    <3>3. CASE k \in 1..calls
      BY <3>1, <3>3, <1>3, <1>8 DEF PortsHeld
    <3> QED BY <3>1, <3>2, <3>3, <1>2, <1>3
  <2> QED BY <2>1, <2>2
<1>18. PortsInTurn'
  BY <1>1, <1>2, TurnsGoOn
<1>19. ForeignOnlyAfterRound'
  <2> SUFFICES ASSUME NEW k \in foreign
               PROVE  \E j \in 1..(k - 1) :
                        portOf'[j] = portOf'[k] /\ (turn'[j].by = turn'[k].by => WholeRound(j, k)')
    BY <1>2 DEF ForeignOnlyAfterRound, WholeRound
  <2>1. k \in 1..calls
    BY DEF GBTyping
  <2>2. PICK j \in 1..(k - 1) : portOf[j] = portOf[k] /\ (turn[j].by = turn[k].by => WholeRound(j, k))
    BY DEF ForeignOnlyAfterRound
  <2>3. j \in 1..calls /\ \A i \in (j + 1)..k : i \in 1..calls
    BY <2>1, <1>3
  <2> QED BY <2>1, <2>2, <2>3, <1>8, <1>9 DEF WholeRound
<1> QED BY <1>12, <1>14, <1>15, <1>16, <1>17, <1>18, <1>19

(* Every step keeps the invariant of the calls.                            *)
LEMMA GBNextKeeps == GBInv /\ [GBNext]_gbVars => GBInv'
<1> SUFFICES ASSUME GBInv, [GBNext]_gbVars PROVE GBInv'
  OBVIOUS
<1>1. CASE UNCHANGED gbVars
  <2>1. GBTyping' /\ PlaysFit' /\ MailFits'
    BY <1>1 DEF gbVars, GBInv, GBTyping, PlaysFit, MailFits, Datagram
  <2>2. CallsAccounted' /\ PortsHeld'
    BY <1>1 DEF gbVars, GBInv, CallsAccounted, PortsHeld, Datagram
  <2>3. PortsInTurn' /\ ForeignOnlyAfterRound'
    BY <1>1, PortsKeep DEF gbVars, GBInv
  <2> QED BY <2>1, <2>2, <2>3 DEF GBInv
<1>2. CASE GBNext
  <2>1. ASSUME NEW c \in GBCameras, PlayStep(c) \/ Leave(c) \/ handleBye(c)
        PROVE  GBInv'
    BY <2>1, TransmitKeeps, GiveUpKeeps, ReadInboxKeeps, OpenSessionKeeps, ReadPacketKeeps, ReadTimeoutKeeps,
       LeaveKeeps, HandleByeKeeps DEF PlayStep, LeaveEnded
  <2>2. ASSUME NEW c \in GBCameras, \E m \in {"TRYING", "OK", "REJECT"} : routeResponse(c, m)
        PROVE  GBInv'
    BY <2>2, RouteResponseKeeps
  <2> QED BY <1>2, <2>1, <2>2, PlayStartKeeps, RegisterKeeps, UnregisterKeeps, ApplyKeeps, DeviceKeeps, RebootKeeps
          DEF GBNext
<1> QED BY <1>1, <1>2

(* The invariant is what the runs check of the calls.                      *)
LEMMA GBInvImplies == GBInv => GBTypeOK /\ HungUpOrDeaf
<1> SUFFICES ASSUME GBInv PROVE GBTypeOK /\ HungUpOrDeaf
  OBVIOUS
<1> USE DEF GBInv
<1>1. GBTypeOK
  <2>1. known \in 0..Len(addr) /\ calls \in 0..MaxCalls /\ cursor \in Ports
        /\ \A k \in Calls : dialog[k] \in {"none", "answered", "streaming", "closed"}
    BY DEF GBTyping, Dialogs
  <2>2. ASSUME NEW c \in GBCameras
        PROVE  /\ play[c].at \in {"idle", "inviting", "acked", "receiving"}
               /\ play[c].at = "idle" <=> play[c] = NoPlay
               /\ Len(play[c].inbox) <= InboxCap
    <3>1. NoPlay.at = "idle" /\ Len(NoPlay.inbox) = 0 /\ 0 <= InboxCap
      BY GBAssumption DEF NoPlay
    <3>2. play[c].at \in {"idle", "inviting", "acked", "receiving"}
      BY DEF GBTyping, PlayRecord
    <3> QED BY <3>1, <3>2 DEF PlaysFit
  <2> QED BY <2>1, <2>2 DEF GBTypeOK
<1>2. HungUpOrDeaf
  <2> SUFFICES ASSUME NEW k \in Calls, dialog[k] = "streaming", \A c \in GBCameras : play[c].call # k
               PROVE  k \in deaf \/ \E a \in 0..host : Datagram("BYE", k, a) \in sent
    BY DEF HungUpOrDeaf, Datagram
  <2>1. k \in 1..calls
    BY DEF MailFits, GBTyping, Calls
  <2> QED BY <2>1 DEF CallsAccounted
<1> QED BY <1>1, <1>2

-----------------------------------------------------------------------------
(* Alerts.                                                                  *)
SenderSteps == {"idle", "allow", "deliver", "close", "connect", "store", "publish"}
SenderRecord == [at : SenderSteps, what : {Alert, State}, left : SUBSET Channels, sig : 0..1, key : Nat,
                 old : Nat, client : Nat, n : Nat]
AdminRecord  == [at : {"idle", "save", "saveKey", "tell"}, sees : Nat, wants : SUBSET Channels, sig : 0..1]
AlertRecord  == [at : 0..MaxTicks, targets : SUBSET Channels, tried : SUBSET Channels]
MqttRecord   == [client : Nat, sig : 0..1]

NotifyTyping ==
  /\ ticks \in 0..MaxTicks /\ lastSent \in Int
  /\ wants \in SUBSET Channels /\ sig \in 0..1 /\ vapid \in 0..keys /\ keys \in Nat
  /\ mqtt \in MqttRecord /\ mqtt.client \in 0..made /\ made \in Nat /\ clients \subseteq 1..made
  /\ sender \in [Senders -> SenderRecord]
  /\ admin \in [Admins -> AdminRecord]
  /\ subs \subseteq handed /\ handed \subseteq 1..keys
  /\ accepted \in Seq(AlertRecord)
  /\ crossedWrites \in BOOLEAN /\ unread \in BOOLEAN

(* The throttle: the last alert let through is the one it remembers.        *)
AlertsApart ==
  /\ lastSent <= ticks
  /\ \A i \in 1..Len(accepted) : accepted[i].at <= lastSent
  /\ \A i, j \in 1..Len(accepted) : i < j => accepted[j].at - accepted[i].at >= MinInterval

(* What a sender has left and what it tried are the channels of its alert,  *)
(* which nobody else delivers.                                              *)
Delivers(s) == sender[s].at \notin {"idle", "allow"} /\ sender[s].what = Alert

AlertsInHand ==
  /\ \A s \in Senders :
       /\ sender[s].at # "idle" => sender[s].left # {}
       /\ sender[s].at = "allow" => sender[s].what = Alert
       /\ ~Delivers(s) => sender[s].n = 0
       /\ Delivers(s) =>
            /\ sender[s].n \in 1..Len(accepted)
            /\ accepted[sender[s].n].targets = accepted[sender[s].n].tried \cup sender[s].left
  /\ \A s, t \in Senders : Delivers(s) /\ sender[s].n = sender[t].n => s = t
  /\ \A i \in 1..Len(accepted) :
       /\ accepted[i].targets # {} /\ accepted[i].tried \subseteq accepted[i].targets
       /\ accepted[i].tried # accepted[i].targets => \E s \in Senders : Delivers(s) /\ sender[s].n = i

(* A client that is connected is the shared one, in somebody's hands or     *)
(* leaked; who waits for a new one has closed the old one.                  *)
Taking == {"close", "connect", "store", "publish"}
ClientsInHand ==
  /\ \A s \in Senders :
       /\ sender[s].at \in Taking => sender[s].left = {"mqtt"}
       /\ sender[s].at \notin {"store", "publish"} => sender[s].client = NoClient
       /\ sender[s].at \in {"idle", "allow", "deliver"} => sender[s].old = NoClient
       /\ sender[s].at \in {"connect", "store"} => sender[s].old \notin clients
       /\ sender[s].old \in 0..made /\ sender[s].client \in 0..made
  /\ \A c \in clients \ leaked :
       c = mqtt.client \/ \E s \in Senders : sender[s].at \in {"close", "store"} /\ c \in Holds(s)

(* While requests about the settings do not meet and read what is there,    *)
(* the one under way has seen the key, and browsers know no other.          *)
KeysAgree ==
  /\ \A r \in Admins : /\ admin[r].sees \in 0..keys
                       /\ admin[r].at = "tell" => admin[r].sees # NoKey
  /\ crossedWrites \/ unread \/
       /\ handed \subseteq {vapid}
       /\ \A r \in Admins : admin[r].at # "idle" => admin[r].sees = vapid
       /\ \A r, q \in Admins : admin[r].at # "idle" /\ admin[q].at # "idle" => r = q

NotifyInv == NotifyTyping /\ AlertsApart /\ AlertsInHand /\ ClientsInHand /\ KeysAgree
-----------------------------------------------------------------------------
(* Nothing was sent yet: the invariant holds at the start.                 *)
LEMMA NotifyInitInv == NotifyInit => NotifyInv
<1> SUFFICES ASSUME NotifyInit PROVE NotifyInv
  OBVIOUS
<1> USE NotifierAssumption DEF NotifyInit
<1>1. IdleSender \in SenderRecord
  BY DEF IdleSender, SenderRecord, SenderSteps, NoKey, NoClient
<1>2. IdleAdmin \in AdminRecord
  BY DEF IdleAdmin, AdminRecord, NoKey
<1>3. sender \in [Senders -> SenderRecord] /\ admin \in [Admins -> AdminRecord]
  BY <1>1, <1>2
<1>4. mqtt \in MqttRecord /\ mqtt.client \in 0..made
  BY DEF MqttRecord, NoClient
<1>5. NotifyTyping
  <2>1. accepted \in Seq(AlertRecord) /\ lastSent \in Int
    BY DEF Never
  <2>2. subs \subseteq handed /\ handed \subseteq 1..keys /\ clients \subseteq 1..made /\ ticks \in 0..MaxTicks
    OBVIOUS
  <2>3. wants \in SUBSET Channels /\ sig \in 0..1 /\ vapid \in 0..keys /\ keys \in Nat /\ made \in Nat
    BY DEF NoKey
  <2> QED BY <1>3, <1>4, <2>1, <2>2, <2>3 DEF NotifyTyping
<1>6. AlertsApart /\ AlertsInHand
  BY DEF AlertsApart, AlertsInHand, Delivers, IdleSender, Never
<1>7. ClientsInHand /\ KeysAgree
  BY DEF ClientsInHand, Taking, IdleSender, NoClient, KeysAgree, IdleAdmin, NoKey
<1> QED BY <1>5, <1>6, <1>7 DEF NotifyInv

(* Only the sender that moves changes.                                     *)
LEMMA SenderMoves ==
  ASSUME NotifyTyping, NEW s \in Senders, NEW rec \in SenderRecord, Moves(s, rec)
  PROVE  /\ sender' \in [Senders -> SenderRecord] /\ sender'[s] = rec
         /\ \A t \in Senders : t # s => sender'[t] = sender[t]
BY DEF NotifyTyping, Moves

(* The fields of a sender.                                                 *)
LEMMA SenderFields ==
  ASSUME NotifyTyping, NEW s \in Senders
  PROVE  /\ sender[s] \in SenderRecord /\ IdleSender \in SenderRecord
         /\ sender[s].n \in Nat /\ sender[s].left \subseteq Channels
         /\ sender[s].at \in SenderSteps /\ sender[s].old \in Nat /\ sender[s].client \in Nat
         /\ IdleSender.at = "idle" /\ IdleSender.n = 0 /\ IdleSender.old = NoClient /\ IdleSender.client = NoClient
BY DEF NotifyTyping, SenderRecord, SenderSteps, IdleSender, NoKey, NoClient

(* A sender that has no alert in hand, before and after.                    *)
LEMMA NoAlertKeeps ==
  ASSUME NotifyInv, NEW s \in Senders, NEW rec \in SenderRecord, Moves(s, rec), accepted' = accepted,
         ~Delivers(s), rec.n = 0, rec.at \in {"idle", "allow"} \/ rec.what = State,
         rec.at # "idle" => rec.left # {}, rec.at = "allow" => rec.what = Alert
  PROVE  AlertsInHand'
<1>1. sender'[s] = rec /\ \A t \in Senders : t # s => sender'[t] = sender[t]
  BY SenderMoves DEF NotifyInv
<1>2. ~Delivers(s)' /\ \A t \in Senders : t # s => (Delivers(t)' <=> Delivers(t))
  BY <1>1 DEF Delivers, State, Alert
<1> QED BY <1>1, <1>2 DEF NotifyInv, AlertsInHand

(* A sender on its way with the alert it has.                               *)
LEMMA SameAlertKeeps ==
  ASSUME NotifyInv, NEW s \in Senders, NEW rec \in SenderRecord, Moves(s, rec), accepted' = accepted,
         sender[s].at \notin {"idle", "allow"}, rec.at \notin {"idle", "allow"},
         rec.what = sender[s].what, rec.n = sender[s].n, rec.left = sender[s].left
  PROVE  AlertsInHand'
<1>1. sender'[s] = rec /\ \A t \in Senders : t # s => sender'[t] = sender[t]
  BY SenderMoves DEF NotifyInv
<1>2. \A t \in Senders : Delivers(t)' <=> Delivers(t)
  BY <1>1 DEF Delivers
<1>3. \A t \in Senders : sender'[t].n = sender[t].n /\ sender'[t].left = sender[t].left
  BY <1>1
<1>4. \A t \in Senders : /\ sender'[t].at # "idle" => sender[t].at # "idle"
                         /\ sender'[t].at = "allow" => sender[t].at = "allow"
                         /\ sender'[t].what = sender[t].what
  BY <1>1
<1> QED BY <1>2, <1>3, <1>4 DEF NotifyInv, AlertsInHand

(* A channel has been tried.                                                *)
LEMMA AfterChannelFits ==
  ASSUME NotifyInv, NEW s \in Senders, sender[s].at \notin {"idle", "allow"}
  PROVE  /\ AfterChannel(s) \in SenderRecord
         /\ Channel(s) \in sender[s].left
         /\ sender[s].left = {Channel(s)} => AfterChannel(s) = IdleSender
         /\ sender[s].left # {Channel(s)} =>
              /\ AfterChannel(s).at = "deliver" /\ AfterChannel(s).left = sender[s].left \ {Channel(s)}
              /\ AfterChannel(s).n = sender[s].n /\ AfterChannel(s).what = sender[s].what
              /\ AfterChannel(s).old = sender[s].old /\ AfterChannel(s).client = sender[s].client
<1>1. sender[s].left # {} /\ sender[s].left \subseteq Channels
  BY SenderFields DEF NotifyInv, AlertsInHand
<1>2. Channel(s) \in sender[s].left
  BY <1>1 DEF Channel, Channels
<1>3. sender[s].left = {Channel(s)} <=> sender[s].left \ {Channel(s)} = {}
  BY <1>2
<1>4. [sender[s] EXCEPT !.at = "deliver", !.left = sender[s].left \ {Channel(s)}] \in SenderRecord
  BY <1>1, SenderFields DEF NotifyInv, SenderRecord, SenderSteps
<1> QED BY <1>2, <1>3, <1>4, SenderFields DEF NotifyInv, AfterChannel, SenderRecord

(* A channel more is tried of the alert in hand, and one less is left; of  *)
(* the last the alert is done.                                             *)
LEMMA TriedKeeps ==
  ASSUME NotifyInv, NEW s \in Senders, sender[s].at \notin {"idle", "allow"},
         accepted' = Tried(s), Moves(s, AfterChannel(s)), ticks' = ticks, lastSent' = lastSent
  PROVE  AlertsInHand' /\ AlertsApart' /\ accepted' \in Seq(AlertRecord)
<1> USE DEF NotifyInv
<1> DEFINE n == sender[s].n
           ch == Channel(s)
<1>0. /\ sender'[s] = AfterChannel(s) /\ \A t \in Senders : t # s => sender'[t] = sender[t]
      /\ accepted \in Seq(AlertRecord) /\ sender[s].what \in {Alert, State} /\ sender[s].left \subseteq Channels
  BY AfterChannelFits, SenderMoves, SenderFields DEF NotifyTyping, SenderRecord
<1>1. CASE sender[s].what = State
  <2>1. accepted' = accepted /\ ~Delivers(s)
    BY <1>1 DEF Tried, Delivers, State, Alert
  <2>2. sender[s].n = 0
    BY <2>1 DEF AlertsInHand
  <2>3. AfterChannel(s) = IdleSender \/ (AfterChannel(s).what = State /\ AfterChannel(s).n = 0
                                          /\ AfterChannel(s).left = sender[s].left \ {ch} /\ sender[s].left # {ch} /\ ch \in sender[s].left)
    BY <1>1, <2>2, AfterChannelFits
  <2>4. AlertsInHand'
    BY <2>1, <2>3, NoAlertKeeps, AfterChannelFits, SenderFields DEF NotifyTyping
  <2> QED BY <2>1, <2>4, <1>0 DEF AlertsApart
<1>2. CASE sender[s].what = Alert
  <2>1. Delivers(s) /\ n \in 1..Len(accepted) /\ accepted[n].targets = accepted[n].tried \cup sender[s].left
    BY <1>2 DEF Delivers, AlertsInHand
  <2>0. accepted[n] \in AlertRecord
    BY <1>0, <2>1
  <2> PICK new \in SUBSET Channels : new = accepted[n].tried \cup {ch}
    <3>1. accepted[n].tried \subseteq Channels
      BY <2>0 DEF AlertRecord
    <3>2. ch \in Channels
      BY <1>0, AfterChannelFits
    <3> QED BY <3>1, <3>2
  <2>2. accepted' = [accepted EXCEPT ![n].tried = new]
    BY <1>2 DEF Tried, State, Alert
  <2>3. accepted[n] \in AlertRecord /\ [accepted[n] EXCEPT !.tried = new] \in AlertRecord
    BY <2>0 DEF AlertRecord
  <2>4. /\ accepted' \in Seq(AlertRecord) /\ Len(accepted') = Len(accepted)
        /\ accepted'[n].tried = new /\ accepted'[n].targets = accepted[n].targets /\ accepted'[n].at = accepted[n].at
        /\ \A i \in 1..Len(accepted) : i # n => accepted'[i] = accepted[i]
    BY <1>0, <2>1, <2>2, <2>3 DEF AlertRecord
  <2>5. AlertsApart'
    BY <2>4 DEF AlertsApart
  <2>6. \A t \in Senders : t # s => (Delivers(t)' <=> Delivers(t)) /\ ~(Delivers(t) /\ sender[t].n = n)
    BY <1>0, <2>1 DEF Delivers, AlertsInHand
  <2>7. CASE sender[s].left = {ch}
    <3>1. ~Delivers(s)' /\ sender'[s].n = 0 /\ sender'[s].at = "idle"
      BY <1>0, <2>7, AfterChannelFits, SenderFields DEF Delivers
    <3>2. accepted'[n].tried = accepted'[n].targets
      BY <2>1, <2>4, <2>7
    <3>3. \A t \in Senders :
            /\ sender'[t].at # "idle" => sender'[t].left # {}
            /\ sender'[t].at = "allow" => sender'[t].what = Alert
            /\ ~Delivers(t)' => sender'[t].n = 0
            /\ Delivers(t)' => /\ sender'[t].n \in 1..Len(accepted')
                               /\ accepted'[sender'[t].n].targets = accepted'[sender'[t].n].tried \cup sender'[t].left
      BY <1>0, <2>4, <2>6, <3>1 DEF AlertsInHand
    <3>4. \A t, u \in Senders : Delivers(t)' /\ sender'[t].n = sender'[u].n => t = u
      BY <1>0, <2>4, <2>6, <3>1 DEF AlertsInHand
    <3>5. ASSUME NEW i \in 1..Len(accepted')
          PROVE  /\ accepted'[i].targets # {} /\ accepted'[i].tried \subseteq accepted'[i].targets
                 /\ accepted'[i].tried # accepted'[i].targets => \E t \in Senders : Delivers(t)' /\ sender'[t].n = i
      <4>1. accepted[i].targets # {} /\ accepted[i].tried \subseteq accepted[i].targets
        BY <2>4 DEF AlertsInHand
      <4>2. CASE i = n
        BY <4>1, <4>2, <2>4, <3>2
      <4>3. CASE i # n
        <5>1. accepted'[i] = accepted[i]
          BY <4>3, <2>4
        <5>2. ASSUME accepted'[i].tried # accepted'[i].targets PROVE \E t \in Senders : Delivers(t)' /\ sender'[t].n = i
          <6>1. PICK t \in Senders : Delivers(t) /\ sender[t].n = i
            BY <5>1, <5>2, <2>4 DEF AlertsInHand
          <6>2. t # s
            BY <6>1, <4>3
          <6> QED BY <6>1, <6>2, <1>0, <2>6
        <5> QED BY <4>1, <5>1, <5>2
      <4> QED BY <4>2, <4>3
    <3> QED BY <3>3, <3>4, <3>5, <2>4, <2>5 DEF AlertsInHand
  <2>8. CASE sender[s].left # {ch}
    <3>1. /\ Delivers(s)' /\ sender'[s].n = n /\ sender'[s].left = sender[s].left \ {ch} /\ sender'[s].left # {}
          /\ ch \in sender[s].left
      BY <1>0, <2>1, <2>8, AfterChannelFits DEF Delivers
    <3>2. accepted'[n].targets = accepted'[n].tried \cup sender'[s].left
      BY <2>1, <2>4, <3>1
    <3>3. \A t \in Senders :
            /\ sender'[t].at # "idle" => sender'[t].left # {}
            /\ sender'[t].at = "allow" => sender'[t].what = Alert
            /\ ~Delivers(t)' => sender'[t].n = 0
            /\ Delivers(t)' => /\ sender'[t].n \in 1..Len(accepted')
                               /\ accepted'[sender'[t].n].targets = accepted'[sender'[t].n].tried \cup sender'[t].left
      <4> TAKE t \in Senders
      <4>1. CASE t = s
        BY <4>1, <2>1, <2>4, <3>1, <3>2 DEF Delivers
      <4>2. CASE t # s
        BY <4>2, <1>0, <2>4, <2>6 DEF AlertsInHand
      <4> QED BY <4>1, <4>2
    <3>4. \A t, u \in Senders : Delivers(t)' /\ sender'[t].n = sender'[u].n => t = u
      BY <1>0, <2>1, <2>4, <2>6, <3>1 DEF AlertsInHand
    <3>5. \A i \in 1..Len(accepted') :
            /\ accepted'[i].targets # {} /\ accepted'[i].tried \subseteq accepted'[i].targets
            /\ accepted'[i].tried # accepted'[i].targets => \E t \in Senders : Delivers(t)' /\ sender'[t].n = i
      BY <1>0, <2>1, <2>4, <2>6, <3>1, <3>2 DEF AlertsInHand
    <3> QED BY <3>3, <3>4, <3>5, <2>4, <2>5 DEF AlertsInHand
  <2> QED BY <2>7, <2>8
<1> QED BY <1>0, <1>1, <1>2

-----------------------------------------------------------------------------
(* Where the clients are after a sender's step.                             *)
RecordFits(rec, connected, n) ==
  /\ rec.at \in Taking => rec.left = {"mqtt"}
  /\ rec.at \notin {"store", "publish"} => rec.client = NoClient
  /\ rec.at \in {"idle", "allow", "deliver"} => rec.old = NoClient
  /\ rec.at \in {"connect", "store"} => rec.old \notin connected
  /\ rec.old \in 0..n /\ rec.client \in 0..n

(* The clients stay accounted for if those the sender moved are.           *)
LEMMA ClientsMove ==
  ASSUME NotifyInv, NEW s \in Senders, NEW rec \in SenderRecord, Moves(s, rec),
         RecordFits(rec, clients', made'), made' \in Nat, made <= made', clients' \subseteq clients \cup {made + 1},
         \A c \in clients' \ leaked' :
           \/ c = mqtt'.client
           \/ rec.at \in {"close", "store"} /\ c \in {rec.old, rec.client}
           \/ /\ c \in clients \ leaked /\ c # mqtt.client
              /\ ~(sender[s].at \in {"close", "store"} /\ c \in Holds(s))
  PROVE  ClientsInHand'
<1> USE DEF NotifyInv
<1>1. /\ sender'[s] = rec /\ \A t \in Senders : t # s => sender'[t] = sender[t]
      /\ made \in Nat
  BY SenderMoves DEF NotifyTyping
<1>2. \A t \in Senders : /\ sender'[t].at \in Taking => sender'[t].left = {"mqtt"}
                         /\ sender'[t].at \notin {"store", "publish"} => sender'[t].client = NoClient
                         /\ sender'[t].at \in {"idle", "allow", "deliver"} => sender'[t].old = NoClient
                         /\ sender'[t].at \in {"connect", "store"} => sender'[t].old \notin clients'
                         /\ sender'[t].old \in 0..made' /\ sender'[t].client \in 0..made'
  <2> TAKE t \in Senders
  <2>1. CASE t = s
    BY <2>1, <1>1 DEF RecordFits
  <2>2. CASE t # s
    <3>1. sender'[t] = sender[t] /\ sender[t].old \in 0..made /\ sender[t].client \in 0..made
      BY <2>2, <1>1 DEF ClientsInHand
    <3>2. sender[t].at \in {"connect", "store"} => sender[t].old \notin clients'
      BY <3>1, <1>1 DEF ClientsInHand
    <3> QED BY <3>1, <3>2, <1>1 DEF ClientsInHand
  <2> QED BY <2>1, <2>2
<1>3. ASSUME NEW c \in clients' \ leaked'
      PROVE  c = mqtt'.client \/ \E t \in Senders : sender'[t].at \in {"close", "store"} /\ c \in {sender'[t].old, sender'[t].client}
  <2>1. CASE c = mqtt'.client \/ (rec.at \in {"close", "store"} /\ c \in {rec.old, rec.client})
    BY <2>1, <1>1
  <2>2. CASE /\ c \in clients \ leaked /\ c # mqtt.client
             /\ ~(sender[s].at \in {"close", "store"} /\ c \in Holds(s))
    <3>1. PICK t \in Senders : sender[t].at \in {"close", "store"} /\ c \in Holds(t)
      BY <2>2 DEF ClientsInHand
    <3>2. t # s
      BY <2>2, <3>1
    <3> QED BY <3>1, <3>2, <1>1 DEF Holds
  <2> QED BY <1>3, <2>1, <2>2
<1> QED BY <1>2, <1>3 DEF ClientsInHand, Holds

(* A sender that takes, gives and holds no client.                          *)
LEMMA NoClientMoves ==
  ASSUME NotifyInv, NEW s \in Senders, NEW rec \in SenderRecord, Moves(s, rec), UNCHANGED <<mqtt, clients, made, leaked>>,
         sender[s].at \notin {"close", "store"}, rec.at \in {"idle", "allow", "deliver"},
         rec.old = NoClient, rec.client = NoClient
  PROVE  ClientsInHand'
<1>1. RecordFits(rec, clients', made')
  BY DEF RecordFits, Taking, NotifyInv, NotifyTyping, NoClient
<1>2. \A c \in clients' \ leaked' : c = mqtt.client \/ c # mqtt.client
  OBVIOUS
<1> QED BY <1>1, <1>2, ClientsMove DEF NotifyInv, NotifyTyping

(* No key changes.                                                         *)
LEMMA KeysKeep ==
  ASSUME NotifyInv, UNCHANGED <<vapid, admin, keys, crossedWrites, unread, handed>>
  PROVE  KeysAgree'
BY DEF NotifyInv, KeysAgree

(* No alert and no client changes.                                         *)
LEMMA SettingsKeep ==
  ASSUME NotifyInv, UNCHANGED <<ticks, lastSent, accepted, sender, mqtt, clients, made, leaked>>
  PROVE  AlertsApart' /\ AlertsInHand' /\ ClientsInHand'
BY DEF NotifyInv, AlertsApart, AlertsInHand, Delivers, ClientsInHand, Holds

-----------------------------------------------------------------------------
(* An alert is wanted by a channel before the throttle is asked.           *)
LEMMA NotifyKeeps ==
  ASSUME NotifyInv, NEW s \in Senders, Notify(s)
  PROVE  NotifyInv'
<1> USE DEF NotifyInv, settingsVars, mqttVars
<1>1. PICK rec : rec = IF wants = {} THEN IdleSender
                       ELSE [IdleSender EXCEPT !.at = "allow", !.sig = sig, !.key = vapid, !.left = wants]
  OBVIOUS
<1>2. /\ rec \in SenderRecord /\ rec.at \in {"idle", "allow"} /\ rec.n = 0
      /\ rec.old = NoClient /\ rec.client = NoClient /\ rec.what = Alert
      /\ (rec.at # "idle" => rec.left # {})
  <2>1. vapid \in Nat /\ wants \in SUBSET Channels /\ sig \in 0..1
    BY DEF NotifyTyping
  <2>2. CASE wants = {}
    BY <1>1, <2>2, SenderFields DEF IdleSender
  <2>3. CASE wants # {}
    <3>1. rec = [at |-> "allow", what |-> Alert, left |-> wants, sig |-> sig, key |-> vapid,
                 old |-> NoClient, client |-> NoClient, n |-> 0]
      BY <1>1, <2>3 DEF IdleSender
    <3> QED BY <2>1, <2>3, <3>1 DEF SenderRecord, SenderSteps, NoClient
  <2> QED BY <2>2, <2>3
<1>3. Moves(s, rec) /\ sender[s].at = "idle" /\ ~Delivers(s)
  BY <1>1 DEF Notify, Delivers
<1>4. AlertsInHand'
  BY <1>2, <1>3, NoAlertKeeps DEF Notify
<1>5. ClientsInHand' /\ KeysAgree'
  BY <1>2, <1>3, NoClientMoves, KeysKeep DEF Notify
<1>6. NotifyTyping' /\ AlertsApart'
  BY <1>2, <1>3, SenderMoves DEF Notify, NotifyTyping, AlertsApart
<1> QED BY <1>4, <1>5, <1>6

(* A state goes to the broker, and is no alert.                            *)
LEMMA PublishRawKeeps ==
  ASSUME NotifyInv, NEW s \in Senders, PublishRaw(s)
  PROVE  NotifyInv'
<1> USE DEF NotifyInv, settingsVars, mqttVars
<1>1. PICK rec : rec = [IdleSender EXCEPT !.at = "deliver", !.what = State, !.sig = sig, !.left = {"mqtt"}]
  OBVIOUS
<1>2. /\ rec \in SenderRecord /\ rec.at = "deliver" /\ rec.n = 0 /\ rec.what = State
      /\ rec.old = NoClient /\ rec.client = NoClient /\ rec.left # {}
  <2>1. rec = [at |-> "deliver", what |-> State, left |-> {"mqtt"}, sig |-> sig, key |-> NoKey,
               old |-> NoClient, client |-> NoClient, n |-> 0]
    BY <1>1 DEF IdleSender
  <2> QED BY <2>1 DEF NotifyTyping, SenderRecord, SenderSteps, NoKey, NoClient, Channels
<1>3. Moves(s, rec) /\ sender[s].at = "idle" /\ ~Delivers(s)
  BY <1>1 DEF PublishRaw, Delivers
<1>4. AlertsInHand'
  BY <1>2, <1>3, NoAlertKeeps DEF PublishRaw
<1>5. ClientsInHand' /\ KeysAgree'
  BY <1>2, <1>3, NoClientMoves, KeysKeep DEF PublishRaw
<1>6. NotifyTyping' /\ AlertsApart'
  BY <1>2, <1>3, SenderMoves DEF PublishRaw, NotifyTyping, AlertsApart
<1> QED BY <1>4, <1>5, <1>6

(* The throttle refuses, or the alert is the last one let through.          *)
LEMMA AllowKeeps ==
  ASSUME NotifyInv, NEW s \in Senders, allow(s)
  PROVE  NotifyInv'
<1> USE DEF NotifyInv, settingsVars, mqttVars
<1>0. /\ sender[s].at = "allow" /\ ~Delivers(s) /\ sender[s].old = NoClient /\ sender[s].client = NoClient
      /\ sender[s].n = 0 /\ sender[s].left # {} /\ sender[s].what = Alert /\ sender[s] \in SenderRecord /\ IdleSender \in SenderRecord
      /\ IdleSender.at = "idle" /\ IdleSender.n = 0 /\ IdleSender.old = NoClient /\ IdleSender.client = NoClient
  BY SenderFields DEF allow, Delivers, ClientsInHand, AlertsInHand
<1>1. CASE ticks - lastSent < MinInterval
  <2>1. Moves(s, IdleSender) /\ accepted' = accepted /\ lastSent' = lastSent
    BY <1>1 DEF allow
  <2>2. AlertsInHand' /\ ClientsInHand' /\ KeysAgree'
    BY <1>0, <2>1, NoAlertKeeps, NoClientMoves, KeysKeep DEF allow
  <2>3. NotifyTyping' /\ AlertsApart'
    BY <1>0, <2>1, SenderMoves DEF allow, NotifyTyping, AlertsApart
  <2> QED BY <2>2, <2>3
<1>2. CASE ~(ticks - lastSent < MinInterval)
  <2> PICK new : new = Len(accepted) + 1
    OBVIOUS
  <2> PICK al : al = [at |-> ticks, targets |-> sender[s].left, tried |-> {}]
    OBVIOUS
  <2> PICK rec : rec = [sender[s] EXCEPT !.at = "deliver", !.n = new]
    OBVIOUS
  <2>1. lastSent' = ticks /\ accepted' = Append(accepted, al) /\ Moves(s, rec) /\ ticks' = ticks
    BY <1>2 DEF allow
  <2>2. accepted \in Seq(AlertRecord) /\ Len(accepted) \in Nat /\ al \in AlertRecord /\ al.at = ticks
        /\ al.targets = sender[s].left /\ al.tried = {} /\ new \in Nat /\ new = Len(accepted) + 1
    BY <1>0 DEF NotifyTyping, AlertRecord, SenderRecord
  <2>3. /\ rec \in SenderRecord /\ rec.at = "deliver" /\ rec.n = new /\ rec.left = sender[s].left
        /\ rec.what = sender[s].what /\ rec.old = NoClient /\ rec.client = NoClient
    BY <1>0, <2>2 DEF SenderRecord, SenderSteps
  <2>4. /\ accepted' \in Seq(AlertRecord) /\ Len(accepted') = new /\ accepted'[new] = al
        /\ \A i \in 1..Len(accepted) : accepted'[i] = accepted[i]
        /\ 1..Len(accepted') = 1..Len(accepted) \cup {new} /\ new \notin 1..Len(accepted)
    BY <2>1, <2>2
  <2>5. AlertsApart'
    <3>1. lastSent <= ticks /\ ticks \in Int /\ lastSent \in Int
      BY DEF AlertsApart, NotifyTyping
    <3>2. \A i \in 1..Len(accepted) : accepted[i].at \in Int /\ accepted[i].at <= lastSent
      <4>1. \A i \in 1..Len(accepted) : accepted[i] \in AlertRecord
        BY <2>2
      <4>2. \A n \in 0..MaxTicks : n \in Int
        OBVIOUS
      <4> QED BY <4>1, <4>2 DEF AlertsApart, AlertRecord
    <3>3. \A i \in 1..Len(accepted') : accepted'[i].at <= lastSent'
      BY <2>1, <2>2, <2>4, <3>1, <3>2
    <3>4. \A i, j \in 1..Len(accepted') : i < j => accepted'[j].at - accepted'[i].at >= MinInterval
      <4> SUFFICES ASSUME NEW i \in 1..Len(accepted'), NEW j \in 1..Len(accepted'), i < j
                   PROVE  accepted'[j].at - accepted'[i].at >= MinInterval
        OBVIOUS
      <4>1. CASE j \in 1..Len(accepted)
        <5>1. i \in 1..Len(accepted)
          BY <4>1, <2>2, <2>4
        <5> QED BY <4>1, <5>1, <2>2, <2>4 DEF AlertsApart
      <4>2. CASE j = new
        <5>1. i \in 1..Len(accepted)
          BY <4>2, <2>2, <2>4
        <5>2. accepted'[j].at = ticks /\ accepted'[i].at = accepted[i].at
          BY <4>2, <5>1, <2>2, <2>4
        <5>3. accepted[i].at \in Int /\ accepted[i].at <= lastSent /\ MinInterval \in Int
          BY <5>1, <3>2, NotifierAssumption
        <5> QED BY <5>2, <5>3, <1>2, <3>1
      <4> QED BY <4>1, <4>2, <2>4
    <3>5. lastSent' <= ticks'
      BY <2>1, <3>1
    <3> QED BY <3>3, <3>4, <3>5 DEF AlertsApart
  <2>6. /\ sender' \in [Senders -> SenderRecord] /\ sender'[s] = rec
        /\ \A t \in Senders : t # s => sender'[t] = sender[t]
    BY <2>1, <2>3, SenderMoves
  <2>7. AlertsInHand'
    <3>1. \A t \in Senders : /\ sender[t].n # new
                             /\ t # s => (Delivers(t)' <=> Delivers(t))
      BY <2>2, <2>6 DEF AlertsInHand, Delivers
    <3>2. \A t \in Senders : Delivers(t) => t # s
      BY <1>0
    <3>3. Delivers(s)'
      BY <1>0, <2>3, <2>6 DEF Delivers
    <3>4. \A t \in Senders :
           /\ sender'[t].at # "idle" => sender'[t].left # {}
           /\ sender'[t].at = "allow" => sender'[t].what = Alert
           /\ ~Delivers(t)' => sender'[t].n = 0
           /\ Delivers(t)' => /\ sender'[t].n \in 1..Len(accepted')
                              /\ accepted'[sender'[t].n].targets = accepted'[sender'[t].n].tried \cup sender'[t].left
      <4> TAKE t \in Senders
      <4>1. CASE t = s
        BY <4>1, <1>0, <2>2, <2>3, <2>4, <2>6, <3>3
      <4>2. CASE t # s
        BY <4>2, <2>4, <2>6, <3>1 DEF AlertsInHand
      <4> QED BY <4>1, <4>2
    <3>5. \A t, u \in Senders : Delivers(t)' /\ sender'[t].n = sender'[u].n => t = u
      <4> TAKE t, u \in Senders
      <4>1. CASE t = s /\ u # s
        BY <4>1, <2>3, <2>6, <3>1
      <4>3. CASE t # s /\ u = s
        BY <4>3, <2>3, <2>6, <3>1
      <4>4. CASE t = s /\ u = s
        BY <4>4
      <4>2. CASE t # s /\ u # s
        BY <4>2, <2>6, <3>1 DEF AlertsInHand
      <4> QED BY <4>1, <4>2, <4>3, <4>4
    <3>6. ASSUME NEW i \in 1..Len(accepted')
          PROVE  /\ accepted'[i].targets # {} /\ accepted'[i].tried \subseteq accepted'[i].targets
                 /\ accepted'[i].tried # accepted'[i].targets => \E t \in Senders : Delivers(t)' /\ sender'[t].n = i
      <4>1. CASE i = new
        BY <4>1, <1>0, <2>2, <2>3, <2>4, <2>6, <3>3
      <4>2. CASE i \in 1..Len(accepted)
        <5>1. accepted'[i] = accepted[i]
          BY <4>2, <2>4
        <5>2. ASSUME accepted[i].tried # accepted[i].targets PROVE \E t \in Senders : Delivers(t)' /\ sender'[t].n = i
          <6>1. PICK t \in Senders : Delivers(t) /\ sender[t].n = i
            BY <5>2, <4>2 DEF AlertsInHand
          <6> QED BY <6>1, <2>6, <3>1, <3>2
        <5> QED BY <4>2, <5>1, <5>2 DEF AlertsInHand
      <4> QED BY <4>1, <4>2, <2>4
    <3> QED BY <3>4, <3>5, <3>6 DEF AlertsInHand
  <2>8. ClientsInHand' /\ KeysAgree'
    BY <1>0, <2>1, <2>3, NoClientMoves, KeysKeep DEF allow
  <2>9. NotifyTyping'
    BY <2>1, <2>4, <2>6 DEF allow, NotifyTyping
  <2> QED BY <2>5, <2>7, <2>8, <2>9
<1> QED BY <1>1, <1>2


-----------------------------------------------------------------------------
(* What the steps of a delivery have in common: the settings rest.          *)
LEMMA TypingMoves ==
  ASSUME NotifyInv, NEW s \in Senders, NEW rec \in SenderRecord, Moves(s, rec),
         UNCHANGED <<ticks, lastSent, wants, sig, vapid, admin, handed, keys, crossedWrites, unread>>,
         subs' \subseteq subs, accepted' \in Seq(AlertRecord),
         mqtt' \in MqttRecord, mqtt'.client \in 0..made', made' \in Nat, clients' \subseteq 1..made'
  PROVE  NotifyTyping' /\ KeysAgree'
<1>1. sender' \in [Senders -> SenderRecord]
  BY SenderMoves DEF NotifyInv
<1>2. NotifyTyping'
  BY <1>1 DEF NotifyInv, NotifyTyping
<1> QED BY <1>2, KeysKeep

(* Nothing was let through: alerts are as far apart as before.             *)
LEMMA ApartKeeps ==
  ASSUME NotifyInv, UNCHANGED <<ticks, lastSent, accepted>>
  PROVE  AlertsApart' /\ accepted' \in Seq(AlertRecord)
BY DEF NotifyInv, NotifyTyping, AlertsApart

(* Clients are numbered in the order they are made.                        *)
LEMMA ClientTypes ==
  ASSUME NotifyInv
  PROVE  /\ mqtt \in MqttRecord /\ mqtt.client \in 0..made /\ made \in Nat /\ clients \subseteq 1..made
         /\ mqtt.client \in Nat /\ mqtt.sig \in 0..1
BY DEF NotifyInv, NotifyTyping, MqttRecord

(* The sender's turn at the broker is its last.                             *)
LEMMA BrokerLast ==
  ASSUME NotifyInv, NEW s \in Senders, sender[s].at \notin {"idle", "allow"},
         sender[s].at = "deliver" => Channel(s) = "mqtt"
  PROVE  sender[s].left = {"mqtt"} /\ Channel(s) = "mqtt" /\ AfterChannel(s) = IdleSender
<1>1. sender[s].left # {} /\ sender[s].left \subseteq Channels /\ sender[s].at \in SenderSteps
  BY SenderFields DEF NotifyInv, AlertsInHand
<1>2. sender[s].left = {"mqtt"}
  <2>1. CASE sender[s].at = "deliver"
    BY <1>1, <2>1 DEF Channel, Channels
  <2>2. CASE sender[s].at \in Taking
    BY <2>2 DEF NotifyInv, ClientsInHand
  <2> QED BY <1>1, <2>1, <2>2 DEF SenderSteps, Taking
<1>3. Channel(s) = "mqtt"
  BY <1>2 DEF Channel
<1> QED BY <1>2, <1>3, AfterChannelFits

(* Web push takes no client.                                               *)
LEMMA SendWebPushKeeps ==
  ASSUME NotifyInv, NEW s \in Senders, sendWebPush(s)
  PROVE  NotifyInv'
<1> USE DEF mqttVars
<1>1. sender[s].at = "deliver" /\ accepted' = Tried(s) /\ Moves(s, AfterChannel(s)) /\ subs' \subseteq subs
  BY DEF sendWebPush
<1>2. AlertsInHand' /\ AlertsApart' /\ accepted' \in Seq(AlertRecord)
  BY <1>1, TriedKeeps DEF sendWebPush
<1>3. /\ AfterChannel(s) \in SenderRecord /\ AfterChannel(s).at \in {"idle", "deliver"}
      /\ AfterChannel(s).old = NoClient /\ AfterChannel(s).client = NoClient
  BY <1>1, AfterChannelFits, SenderFields DEF NotifyInv, ClientsInHand
<1>4. ClientsInHand'
  BY <1>1, <1>3, NoClientMoves DEF sendWebPush
<1>5. NotifyTyping' /\ KeysAgree'
  BY <1>1, <1>2, <1>3, TypingMoves, ClientTypes DEF sendWebPush
<1> QED BY <1>2, <1>4, <1>5 DEF NotifyInv

(* The shared client is taken down by who found it away or of another       *)
(* broker.                                                                  *)
LEMMA TakeDownKeeps ==
  ASSUME NotifyInv, NEW s \in Senders, sender[s].at = "deliver", Channel(s) = "mqtt",
         mqtt' = [mqtt EXCEPT !.client = NoClient],
         Moves(s, [sender[s] EXCEPT !.at = "close", !.old = mqtt.client]),
         UNCHANGED <<ticks, lastSent, accepted, settingsVars, clients, made, leaked>>
  PROVE  NotifyInv'
<1> USE DEF settingsVars
<1> PICK rec : rec = [sender[s] EXCEPT !.at = "close", !.old = mqtt.client]
  OBVIOUS
<1>1. /\ rec \in SenderRecord /\ rec.at = "close" /\ rec.old = mqtt.client /\ rec.client = NoClient
      /\ rec.left = {"mqtt"} /\ rec.what = sender[s].what /\ rec.n = sender[s].n /\ rec.left = sender[s].left
  BY SenderFields, ClientTypes, BrokerLast DEF NotifyInv, SenderRecord, SenderSteps, ClientsInHand
<1>2. mqtt' \in MqttRecord /\ mqtt'.client = NoClient
  BY ClientTypes DEF MqttRecord, NoClient
<1>3. AlertsInHand'
  BY <1>1, SameAlertKeeps
<1>4. ClientsInHand'
  <2>1. RecordFits(rec, clients', made')
    BY <1>1, ClientTypes DEF RecordFits, Taking, NoClient
  <2>2. \A c \in clients' \ leaked' :
          \/ c = mqtt'.client
          \/ rec.at \in {"close", "store"} /\ c \in {rec.old, rec.client}
          \/ /\ c \in clients \ leaked /\ c # mqtt.client
             /\ ~(sender[s].at \in {"close", "store"} /\ c \in Holds(s))
    BY <1>1
  <2>3. made' \in Nat /\ made <= made' /\ clients' \subseteq clients \cup {made + 1}
    BY ClientTypes
  <2> QED BY <1>1, <2>1, <2>2, <2>3, ClientsMove
<1>5. NotifyTyping' /\ KeysAgree' /\ AlertsApart'
  BY <1>1, <1>2, TypingMoves, ApartKeeps, ClientTypes DEF NoClient
<1> QED BY <1>3, <1>4, <1>5 DEF NotifyInv

(* The shared client is taken, or taken down.                              *)
LEMMA MqttClientKeeps ==
  ASSUME NotifyInv, NEW s \in Senders, mqttClient(s)
  PROVE  NotifyInv'
<1> USE DEF settingsVars
<1>1. sender[s].at = "deliver" /\ Channel(s) = "mqtt"
  BY DEF mqttClient
<1>2. CASE mqtt.client # NoClient /\ mqtt.sig = sender[s].sig
  <2> PICK rec : rec = [sender[s] EXCEPT !.at = "publish", !.client = mqtt.client]
    OBVIOUS
  <2>1. Moves(s, rec) /\ UNCHANGED <<ticks, lastSent, accepted, settingsVars, mqtt, clients, made, leaked>>
    BY <1>2 DEF mqttClient
  <2>2. /\ rec \in SenderRecord /\ rec.at = "publish" /\ rec.old = NoClient /\ rec.client = mqtt.client
        /\ rec.left = {"mqtt"} /\ rec.what = sender[s].what /\ rec.n = sender[s].n /\ rec.left = sender[s].left
    BY <1>1, SenderFields, ClientTypes, BrokerLast DEF NotifyInv, SenderRecord, SenderSteps, ClientsInHand
  <2>3. AlertsInHand'
    BY <1>1, <2>1, <2>2, SameAlertKeeps
  <2>4. ClientsInHand'
    <3>1. RecordFits(rec, clients', made')
      BY <2>1, <2>2, ClientTypes DEF RecordFits, Taking, NoClient
    <3>2. \A c \in clients' \ leaked' : c = mqtt'.client \/ (c \in clients \ leaked /\ c # mqtt.client)
      BY <2>1
    <3> QED BY <1>1, <2>1, <2>2, <3>1, <3>2, ClientsMove, ClientTypes
  <2>5. NotifyTyping' /\ KeysAgree' /\ AlertsApart'
    BY <2>1, <2>2, TypingMoves, ApartKeeps, ClientTypes
  <2> QED BY <2>3, <2>4, <2>5 DEF NotifyInv
<1>3. CASE ~(mqtt.client # NoClient /\ mqtt.sig = sender[s].sig)
  BY <1>1, <1>3, TakeDownKeeps DEF mqttClient
<1> QED BY <1>2, <1>3

(* The shared client is found away.                                        *)
LEMMA MqttClientAwayKeeps ==
  ASSUME NotifyInv, NEW s \in Senders, mqttClientAway(s)
  PROVE  NotifyInv'
BY TakeDownKeeps DEF mqttClientAway

(* The old client is disconnected by who took it down.                     *)
LEMMA CloseOldKeeps ==
  ASSUME NotifyInv, NEW s \in Senders, closeOld(s)
  PROVE  NotifyInv'
<1> USE DEF settingsVars
<1> PICK rec : rec = [sender[s] EXCEPT !.at = "connect"]
  OBVIOUS
<1>1. /\ sender[s].at = "close" /\ clients' = clients \ {sender[s].old} /\ Moves(s, rec)
      /\ UNCHANGED <<ticks, lastSent, accepted, settingsVars, mqtt, made, leaked>>
  BY DEF closeOld
<1>2. /\ sender[s].client = NoClient /\ sender[s].left = {"mqtt"}
      /\ sender[s].old \in 0..made /\ sender[s].client \in 0..made
  BY <1>1 DEF NotifyInv, ClientsInHand, Taking
<1>3. /\ rec \in SenderRecord /\ rec.at = "connect" /\ rec.old = sender[s].old /\ rec.client = NoClient
      /\ rec.left = {"mqtt"} /\ rec.what = sender[s].what /\ rec.n = sender[s].n /\ rec.left = sender[s].left
  BY <1>2, SenderFields DEF NotifyInv, SenderRecord, SenderSteps
<1>4. AlertsInHand'
  BY <1>1, <1>3, SameAlertKeeps
<1>5. ClientsInHand'
  <2>1. RecordFits(rec, clients', made')
    BY <1>1, <1>2, <1>3 DEF RecordFits, Taking
  <2>2. \A c \in clients' \ leaked' : c \in clients \ leaked /\ c \notin Holds(s)
    BY <1>1, <1>2, ClientTypes DEF Holds, NoClient
  <2>3. \A c \in clients' \ leaked' :
          \/ c = mqtt'.client
          \/ rec.at \in {"close", "store"} /\ c \in {rec.old, rec.client}
          \/ /\ c \in clients \ leaked /\ c # mqtt.client
             /\ ~(sender[s].at \in {"close", "store"} /\ c \in Holds(s))
    <3> TAKE c \in clients' \ leaked'
    <3>1. c \in clients \ leaked /\ c \notin Holds(s)
      BY <2>2
    <3> QED BY <1>1, <3>1
  <2>4. made' \in Nat /\ made <= made' /\ clients' \subseteq clients \cup {made + 1}
    BY <1>1, ClientTypes
  <2> QED BY <1>1, <1>3, <2>1, <2>3, <2>4, ClientsMove
<1>6. NotifyTyping' /\ KeysAgree' /\ AlertsApart'
  BY <1>1, <1>3, TypingMoves, ApartKeeps, ClientTypes
<1> QED BY <1>4, <1>5, <1>6 DEF NotifyInv


(* A new client: the sender's, or nobody's when the wait is over.           *)
LEMMA ConnectKeeps ==
  ASSUME NotifyInv, NEW s \in Senders, Connect(s)
  PROVE  NotifyInv'
<1> USE DEF settingsVars
<1> PICK new : new = made + 1
  OBVIOUS
<1>0. new \in Nat /\ new \notin clients /\ new # NoClient /\ made <= new /\ clients \subseteq 1..new
      /\ mqtt.client \in 0..new /\ \A n \in 0..made : n \in 0..new /\ n # new
  BY ClientTypes DEF NoClient
<1>1. /\ sender[s].at = "connect" /\ made' = new
      /\ UNCHANGED <<ticks, lastSent, settingsVars, mqtt>>
  BY DEF Connect
<1>2. /\ sender[s].client = NoClient /\ sender[s].left = {"mqtt"} /\ sender[s].old \notin clients
      /\ sender[s].old \in 0..made
  BY <1>1 DEF NotifyInv, ClientsInHand, Taking
<1>3. CASE /\ clients' = clients \cup {new} /\ Moves(s, [sender[s] EXCEPT !.at = "store", !.client = new])
           /\ UNCHANGED <<leaked, accepted>>
  <2> PICK rec : rec = [sender[s] EXCEPT !.at = "store", !.client = new]
    OBVIOUS
  <2>1. Moves(s, rec)
    BY <1>3
  <2>2. /\ rec \in SenderRecord /\ rec.at = "store" /\ rec.old = sender[s].old /\ rec.client = new
        /\ rec.left = {"mqtt"} /\ rec.what = sender[s].what /\ rec.n = sender[s].n /\ rec.left = sender[s].left
    BY <1>0, <1>2, SenderFields DEF NotifyInv, SenderRecord, SenderSteps
  <2>3. AlertsInHand'
    BY <1>1, <1>3, <2>1, <2>2, SameAlertKeeps
  <2>4. ClientsInHand'
    <3>1. RecordFits(rec, clients', made')
      <4>1. rec.old \notin clients'
        BY <1>0, <1>2, <1>3, <2>2
      <4>2. rec.old \in 0..made' /\ rec.client \in 0..made'
        BY <1>0, <1>1, <1>2, <2>2
      <4> QED BY <2>2, <4>1, <4>2 DEF RecordFits, Taking
    <3>2. \A c \in clients' \ leaked' :
            \/ c = mqtt'.client
            \/ rec.at \in {"close", "store"} /\ c \in {rec.old, rec.client}
            \/ /\ c \in clients \ leaked /\ c # mqtt.client
               /\ ~(sender[s].at \in {"close", "store"} /\ c \in Holds(s))
      <4> TAKE c \in clients' \ leaked'
      <4>1. c = new \/ c \in clients \ leaked
        BY <1>3
      <4>2. c = new => c \in {rec.old, rec.client}
        BY <2>2
      <4>3. c # mqtt.client \/ c = mqtt'.client
        BY <1>1
      <4> QED BY <1>1, <2>2, <4>1, <4>2, <4>3
    <3> QED BY <1>0, <1>1, <1>3, <2>1, <2>2, <3>1, <3>2, ClientsMove
  <2>5. clients' \subseteq 1..made' /\ mqtt' \in MqttRecord /\ mqtt'.client \in 0..made' /\ made' \in Nat
    BY <1>0, <1>1, <1>3, ClientTypes
  <2>6. NotifyTyping' /\ KeysAgree' /\ AlertsApart'
    BY <1>1, <1>3, <2>1, <2>2, <2>5, TypingMoves, ApartKeeps
  <2> QED BY <2>3, <2>4, <2>6 DEF NotifyInv
<1>4. CASE /\ \/ clients' = clients \cup {new} /\ leaked' = leaked \cup {new}
              \/ UNCHANGED <<clients, leaked>>
           /\ accepted' = Tried(s) /\ Moves(s, AfterChannel(s))
  <2>1. AfterChannel(s) = IdleSender /\ Moves(s, IdleSender) /\ IdleSender \in SenderRecord
    BY <1>1, <1>4, BrokerLast, SenderFields DEF NotifyInv
  <2>2. AlertsInHand' /\ AlertsApart' /\ accepted' \in Seq(AlertRecord)
    BY <1>1, <1>4, TriedKeeps
  <2>3. ClientsInHand'
    <3>1. RecordFits(IdleSender, clients', made')
      BY <1>0, <1>1, SenderFields DEF NotifyInv, RecordFits, Taking, NoClient
    <3>2. \A c \in clients' \ leaked' :
            \/ c = mqtt'.client
            \/ IdleSender.at \in {"close", "store"} /\ c \in {IdleSender.old, IdleSender.client}
            \/ /\ c \in clients \ leaked /\ c # mqtt.client
               /\ ~(sender[s].at \in {"close", "store"} /\ c \in Holds(s))
      <4> TAKE c \in clients' \ leaked'
      <4>1. c \in clients \ leaked
        BY <1>4
      <4>2. c # mqtt.client \/ c = mqtt'.client
        BY <1>1
      <4> QED BY <1>1, <4>1, <4>2
    <3>3. made' \in Nat /\ made <= made' /\ clients' \subseteq clients \cup {made + 1}
      BY <1>0, <1>1, <1>4
    <3> QED BY <2>1, <3>1, <3>2, <3>3, ClientsMove
  <2>4. clients' \subseteq 1..made' /\ mqtt' \in MqttRecord /\ mqtt'.client \in 0..made' /\ made' \in Nat
    <3>1. new \in 1..new
      BY <1>0, ClientTypes
    <3>2. clients' \subseteq clients \cup {new}
      BY <1>4
    <3>3. mqtt' \in MqttRecord /\ mqtt'.client \in 0..new
      BY <1>0, <1>1, ClientTypes
    <3> QED BY <1>0, <1>1, <3>1, <3>2, <3>3
  <2>5. NotifyTyping' /\ KeysAgree'
    BY <1>1, <2>1, <2>2, <2>4, TypingMoves
  <2> QED BY <2>2, <2>3, <2>5 DEF NotifyInv
<1> QED BY <1>3, <1>4 DEF Connect

(* Who stores last has the shared client; the one before it is leaked.      *)
LEMMA StoreKeeps ==
  ASSUME NotifyInv, NEW s \in Senders, Store(s)
  PROVE  NotifyInv'
<1> USE DEF settingsVars
<1> PICK rec : rec = [sender[s] EXCEPT !.at = "publish"]
  OBVIOUS
<1>1. /\ sender[s].at = "store" /\ mqtt' = [client |-> sender[s].client, sig |-> sender[s].sig] /\ Moves(s, rec)
      /\ leaked' = leaked \cup ({mqtt.client} \ {NoClient})
      /\ UNCHANGED <<ticks, lastSent, accepted, settingsVars, clients, made>>
  BY DEF Store
<1>2. /\ sender[s].left = {"mqtt"} /\ sender[s].old \notin clients
      /\ sender[s].old \in 0..made /\ sender[s].client \in 0..made /\ sender[s].sig \in 0..1
  BY <1>1, SenderFields DEF NotifyInv, ClientsInHand, Taking, SenderRecord
<1>3. /\ rec \in SenderRecord /\ rec.at = "publish" /\ rec.old = sender[s].old /\ rec.client = sender[s].client
      /\ rec.left = {"mqtt"} /\ rec.what = sender[s].what /\ rec.n = sender[s].n /\ rec.left = sender[s].left
  BY <1>2, SenderFields DEF NotifyInv, SenderRecord, SenderSteps
<1>4. AlertsInHand'
  BY <1>1, <1>3, SameAlertKeeps
<1>5. ClientsInHand'
  <2>1. RecordFits(rec, clients', made')
    BY <1>1, <1>2, <1>3 DEF RecordFits, Taking
  <2>2. \A c \in clients' \ leaked' :
          \/ c = mqtt'.client
          \/ rec.at \in {"close", "store"} /\ c \in {rec.old, rec.client}
          \/ /\ c \in clients \ leaked /\ c # mqtt.client
             /\ ~(sender[s].at \in {"close", "store"} /\ c \in Holds(s))
    <3> TAKE c \in clients' \ leaked'
    <3>1. c \in clients \ leaked /\ c # mqtt.client /\ c # sender[s].old
      BY <1>1, <1>2, ClientTypes DEF NoClient
    <3>2. CASE c \in Holds(s)
      BY <1>1, <3>1, <3>2 DEF Holds
    <3>3. CASE c \notin Holds(s)
      BY <3>1, <3>3
    <3> QED BY <3>2, <3>3
  <2>3. made' \in Nat /\ made <= made' /\ clients' \subseteq clients \cup {made + 1}
    BY <1>1, ClientTypes
  <2> QED BY <1>1, <1>3, <2>1, <2>2, <2>3, ClientsMove
<1>6. mqtt' \in MqttRecord /\ mqtt'.client \in 0..made'
  BY <1>1, <1>2, ClientTypes DEF MqttRecord
<1>7. NotifyTyping' /\ KeysAgree' /\ AlertsApart'
  BY <1>1, <1>3, <1>6, TypingMoves, ApartKeeps, ClientTypes
<1> QED BY <1>4, <1>5, <1>7 DEF NotifyInv

(* A publish, that may fail, ends the turn of the broker.                  *)
LEMMA PublishKeeps ==
  ASSUME NotifyInv, NEW s \in Senders, Publish(s)
  PROVE  NotifyInv'
<1> USE DEF settingsVars, mqttVars
<1>1. /\ sender[s].at = "publish" /\ accepted' = Tried(s) /\ Moves(s, IdleSender) /\ Moves(s, AfterChannel(s))
      /\ UNCHANGED <<ticks, lastSent, settingsVars, mqtt, clients, made, leaked>>
  BY BrokerLast DEF Publish
<1>2. AlertsInHand' /\ AlertsApart' /\ accepted' \in Seq(AlertRecord)
  BY <1>1, TriedKeeps
<1>3. ClientsInHand'
  BY <1>1, NoClientMoves, SenderFields DEF NotifyInv
<1>4. NotifyTyping' /\ KeysAgree'
  BY <1>1, <1>2, TypingMoves, ClientTypes, SenderFields DEF NotifyInv
<1> QED BY <1>2, <1>3, <1>4 DEF NotifyInv

-----------------------------------------------------------------------------
(* The requests about the settings.                                         *)
LEMMA AdminMoves ==
  ASSUME NotifyTyping, NEW r \in Admins, NEW rec \in AdminRecord, admin' = [admin EXCEPT ![r] = rec]
  PROVE  /\ admin' \in [Admins -> AdminRecord] /\ admin'[r] = rec
         /\ \A q \in Admins : q # r => admin'[q] = admin[q]
BY DEF NotifyTyping

(* A request that begins has seen the key that is there, or none.          *)
LEMMA EditKeeps ==
  ASSUME NotifyInv, NEW r \in Admins, NEW rec \in AdminRecord, Edit(r, rec),
         rec.sees \in {vapid, NoKey}, rec.at = "tell" => rec.sees # NoKey,
         unread' \in BOOLEAN, ~unread' => ~unread /\ rec.sees = vapid
  PROVE  NotifyInv'
<1> USE DEF mqttVars
<1>1. AlertsApart' /\ AlertsInHand' /\ ClientsInHand'
  BY SettingsKeep DEF Edit
<1>2. admin' = [admin EXCEPT ![r] = rec] /\ UNCHANGED <<wants, sig, vapid, subs, handed, keys>>
  BY DEF Edit
<1>3. /\ admin' \in [Admins -> AdminRecord] /\ admin'[r] = rec
      /\ \A q \in Admins : q # r => admin'[q] = admin[q]
  BY <1>2, AdminMoves DEF NotifyInv
<1>4. NotifyTyping'
  <2>1. crossedWrites' \in BOOLEAN
    BY DEF Edit
  <2> QED BY <1>3, <2>1 DEF Edit, NotifyInv, NotifyTyping
<1>5. KeysAgree'
  <2>1. vapid \in 0..keys /\ NoKey \in 0..keys
    BY DEF NotifyInv, NotifyTyping, NoKey
  <2>2. \A q \in Admins : admin'[q].sees \in 0..keys' /\ (admin'[q].at = "tell" => admin'[q].sees # NoKey)
    BY <1>2, <1>3, <2>1 DEF NotifyInv, KeysAgree
  <2>3. ASSUME ~crossedWrites', ~unread'
        PROVE  /\ handed' \subseteq {vapid'}
               /\ \A q \in Admins : admin'[q].at # "idle" => admin'[q].sees = vapid'
               /\ \A q, p \in Admins : admin'[q].at # "idle" /\ admin'[p].at # "idle" => q = p
    <3>1. ~crossedWrites /\ ~unread /\ rec.sees = vapid /\ \A q \in Admins : admin[q].at = "idle"
      BY <2>3 DEF Edit
    <3> QED BY <1>2, <1>3, <3>1 DEF NotifyInv, KeysAgree
  <2> QED BY <2>2, <2>3 DEF KeysAgree
<1> QED BY <1>1, <1>4, <1>5 DEF NotifyInv

(* Both kinds of request read the settings before they write them.         *)
LEMMA RequestsKeep ==
  ASSUME NotifyInv, NEW r \in Admins, handleSetNotifications(r) \/ handleVAPIDPublicKey(r)
  PROVE  NotifyInv'
<1>0. vapid \in Nat /\ wants \in SUBSET Channels /\ sig \in 0..1
  BY DEF NotifyInv, NotifyTyping
<1>1. CASE handleSetNotifications(r)
  <2>1. PICK chosen \in SUBSET Channels, sg \in 0..1, seen \in {vapid, NoKey} :
          /\ Edit(r, [at |-> "save", sees |-> seen, wants |-> chosen, sig |-> sg])
          /\ unread' = (unread \/ seen # vapid)
    BY <1>1 DEF handleSetNotifications
  <2> PICK rec : rec = [at |-> "save", sees |-> seen, wants |-> chosen, sig |-> sg]
    OBVIOUS
  <2>2. rec \in AdminRecord /\ rec.sees = seen /\ rec.at = "save"
    BY <1>0 DEF AdminRecord, NoKey
  <2>3. unread' \in BOOLEAN /\ (~unread' => ~unread /\ seen = vapid)
    BY <2>1, Zenon DEF NotifyInv, NotifyTyping
  <2> QED BY <2>1, <2>2, <2>3, EditKeeps
<1>2. CASE handleVAPIDPublicKey(r)
  <2> PICK rec : rec = [at |-> IF vapid = NoKey THEN "saveKey" ELSE "tell", sees |-> vapid, wants |-> wants, sig |-> sig]
    OBVIOUS
  <2>1. rec \in AdminRecord /\ rec.sees = vapid /\ (rec.at = "tell" => vapid # NoKey)
    BY <1>0 DEF AdminRecord
  <2>2. Edit(r, rec) /\ UNCHANGED unread
    BY <1>2 DEF handleVAPIDPublicKey
  <2>3. unread' \in BOOLEAN
    BY <2>2 DEF NotifyInv, NotifyTyping
  <2> QED BY <2>1, <2>2, <2>3, EditKeeps
<1> QED BY <1>1, <1>2

(* The key that is written is the one that was read, or, with none, a new   *)
(* one; then no browser knows a key yet.                                    *)
LEMMA SaveKeeps ==
  ASSUME NotifyInv, NEW r \in Admins, Save(r)
  PROVE  NotifyInv'
<1> USE DEF mqttVars
<1>1. AlertsApart' /\ AlertsInHand' /\ ClientsInHand'
  BY SettingsKeep DEF Save
<1> DEFINE generates == admin[r].sees = NoKey /\ (admin[r].at = "saveKey" \/ "webPush" \in admin[r].wants)
<1> PICK key : key = IF generates THEN keys + 1 ELSE admin[r].sees
  OBVIOUS
<1> PICK rec : rec = IF admin[r].at = "save" THEN IdleAdmin ELSE [admin[r] EXCEPT !.at = "tell", !.sees = key]
  OBVIOUS
<1>2. /\ admin[r].at \in {"save", "saveKey"}
      /\ keys' = IF generates THEN keys + 1 ELSE keys
      /\ wants' = admin[r].wants /\ sig' = admin[r].sig /\ vapid' = key
      /\ admin' = [admin EXCEPT ![r] = rec]
      /\ UNCHANGED <<subs, handed, crossedWrites, unread>>
  BY DEF Save
<1>3. /\ admin[r] \in AdminRecord /\ admin[r].sees \in 0..keys /\ admin[r].wants \in SUBSET Channels
      /\ admin[r].sig \in 0..1 /\ keys \in Nat
  BY DEF NotifyInv, NotifyTyping, KeysAgree, AdminRecord
<1>4. key \in 0..keys' /\ key \in Nat /\ keys' \in Nat /\ keys <= keys'
  BY <1>2, <1>3
<1>5. /\ rec \in AdminRecord /\ rec.sees \in 0..keys'
      /\ (admin[r].at = "save" => rec.at = "idle")
      /\ (rec.at # "idle" => rec.at = "tell" /\ rec.sees = key)
  <2>1. IdleAdmin \in AdminRecord /\ IdleAdmin.at = "idle" /\ IdleAdmin.sees \in 0..keys'
    BY <1>4 DEF IdleAdmin, AdminRecord, NoKey
  <2>2. LET told == [admin[r] EXCEPT !.at = "tell", !.sees = key]
        IN told \in AdminRecord /\ told.at = "tell" /\ told.sees = key
    BY <1>3, <1>4 DEF AdminRecord
  <2> QED BY <1>4, <2>1, <2>2
<1>6. ASSUME rec.at = "tell" PROVE rec.sees # NoKey
  <2>1. admin[r].at = "saveKey" /\ rec.sees = key
    BY <1>2, <1>5, <1>6
  <2>2. generates => key = keys + 1
    OBVIOUS
  <2>3. ~generates => admin[r].sees # NoKey /\ key = admin[r].sees
    BY <2>1
  <2> QED BY <1>3, <2>1, <2>2, <2>3 DEF NoKey
<1>7. /\ admin' \in [Admins -> AdminRecord] /\ admin'[r] = rec
      /\ \A q \in Admins : q # r => admin'[q] = admin[q]
  BY <1>2, <1>5, AdminMoves DEF NotifyInv
<1>8. NotifyTyping'
  <2>1. handed' \subseteq 1..keys' /\ subs' \subseteq handed'
    BY <1>2, <1>3, <1>4 DEF NotifyInv, NotifyTyping
  <2> QED BY <1>2, <1>3, <1>4, <1>7, <2>1 DEF Save, NotifyInv, NotifyTyping
<1>9. KeysAgree'
  <2>1. \A q \in Admins : admin'[q].sees \in 0..keys' /\ (admin'[q].at = "tell" => admin'[q].sees # NoKey)
    <3> TAKE q \in Admins
    <3>1. CASE q = r
      BY <3>1, <1>5, <1>6, <1>7
    <3>2. CASE q # r
      <4>1. admin[q].sees \in 0..keys /\ (admin[q].at = "tell" => admin[q].sees # NoKey)
        BY DEF NotifyInv, KeysAgree
      <4> QED BY <3>2, <4>1, <1>3, <1>4, <1>7
    <3> QED BY <3>1, <3>2
  <2>2. ASSUME ~crossedWrites', ~unread'
        PROVE  /\ handed' \subseteq {vapid'}
               /\ \A q \in Admins : admin'[q].at # "idle" => admin'[q].sees = vapid'
               /\ \A q, p \in Admins : admin'[q].at # "idle" /\ admin'[p].at # "idle" => q = p
    <3>1. admin[r].sees = vapid /\ handed \subseteq {vapid} /\ \A q \in Admins : q # r => admin[q].at = "idle"
      BY <1>2, <2>2 DEF NotifyInv, KeysAgree
    <3>2. handed' \subseteq {vapid'}
      <4>1. CASE generates
        <5>1. vapid = 0 /\ handed \subseteq {vapid} /\ handed \subseteq 1..keys
          BY <4>1, <3>1 DEF NotifyInv, NotifyTyping, NoKey
        <5>2. handed = {}
          BY <5>1, <1>3
        <5> QED BY <5>2, <1>2
      <4>2. CASE ~generates
        BY <4>2, <3>1, <1>2
      <4> QED BY <4>1, <4>2
    <3>3. \A q \in Admins : admin'[q].at # "idle" => q = r /\ admin'[q].sees = vapid'
      BY <1>2, <1>5, <1>7, <3>1
    <3> QED BY <3>2, <3>3
  <2> QED BY <2>1, <2>2 DEF KeysAgree
<1> QED BY <1>1, <1>8, <1>9 DEF NotifyInv

(* A request that cannot write leaves the settings as they were.           *)
LEMMA SaveFailsKeeps ==
  ASSUME NotifyInv, NEW r \in Admins, SaveFails(r)
  PROVE  NotifyInv'
<1> USE DEF mqttVars
<1>1. AlertsApart' /\ AlertsInHand' /\ ClientsInHand'
  BY SettingsKeep DEF SaveFails
<1>2. IdleAdmin \in AdminRecord /\ IdleAdmin.at = "idle" /\ IdleAdmin.sees \in 0..keys
  BY DEF IdleAdmin, AdminRecord, NoKey, NotifyInv, NotifyTyping
<1>3. /\ admin' \in [Admins -> AdminRecord] /\ admin'[r] = IdleAdmin
      /\ \A q \in Admins : q # r => admin'[q] = admin[q]
  BY <1>2, AdminMoves DEF NotifyInv, SaveFails
<1>4. NotifyTyping'
  BY <1>3 DEF SaveFails, NotifyInv, NotifyTyping
<1>5. KeysAgree'
  BY <1>2, <1>3 DEF SaveFails, NotifyInv, KeysAgree
<1> QED BY <1>1, <1>4, <1>5 DEF NotifyInv

(* A browser is told the key that was written.                             *)
LEMMA TellKeeps ==
  ASSUME NotifyInv, NEW r \in Admins, Tell(r)
  PROVE  NotifyInv'
<1> USE DEF mqttVars
<1>1. AlertsApart' /\ AlertsInHand' /\ ClientsInHand'
  BY SettingsKeep DEF Tell
<1>2. /\ IdleAdmin \in AdminRecord /\ IdleAdmin.at = "idle" /\ IdleAdmin.sees = NoKey
  BY DEF IdleAdmin, AdminRecord, NoKey
<1>3. /\ admin' \in [Admins -> AdminRecord] /\ admin'[r] = IdleAdmin
      /\ \A q \in Admins : q # r => admin'[q] = admin[q]
  BY <1>2, AdminMoves DEF NotifyInv, Tell
<1>4. /\ admin[r].at = "tell" /\ handed' = handed \cup {admin[r].sees}
      /\ UNCHANGED <<wants, sig, vapid, subs, keys, crossedWrites, unread>>
  BY DEF Tell
<1>5. keys \in Nat /\ admin[r].sees \in 1..keys
  BY <1>4 DEF NotifyInv, NotifyTyping, KeysAgree, NoKey
<1>6. NotifyTyping'
  BY <1>3, <1>4, <1>5 DEF Tell, NotifyInv, NotifyTyping
<1>7. KeysAgree'
  <2>1. NoKey \in 0..keys
    BY <1>5 DEF NoKey
  <2>2. \A q \in Admins : admin'[q].sees \in 0..keys' /\ (admin'[q].at = "tell" => admin'[q].sees # NoKey)
    BY <1>2, <1>3, <1>4, <2>1 DEF NotifyInv, KeysAgree
  <2>3. ~crossedWrites' /\ ~unread' =>
          /\ handed' \subseteq {vapid'}
          /\ \A q \in Admins : admin'[q].at # "idle" => admin'[q].sees = vapid'
          /\ \A q, p \in Admins : admin'[q].at # "idle" /\ admin'[p].at # "idle" => q = p
    BY <1>2, <1>3, <1>4 DEF NotifyInv, KeysAgree
  <2> QED BY <2>2, <2>3 DEF KeysAgree
<1> QED BY <1>1, <1>6, <1>7 DEF NotifyInv

(* A browser subscribes with a key it was told.                            *)
LEMMA SubscribeKeeps == NotifyInv /\ handleSubscribePush => NotifyInv'
<1> SUFFICES ASSUME NotifyInv, handleSubscribePush PROVE NotifyInv'
  OBVIOUS
<1> USE DEF mqttVars
<1>1. AlertsApart' /\ AlertsInHand' /\ ClientsInHand' /\ KeysAgree'
  BY SettingsKeep, KeysKeep DEF handleSubscribePush
<1>2. subs' \subseteq handed'
  BY DEF handleSubscribePush, NotifyInv, NotifyTyping
<1>3. NotifyTyping'
  BY <1>2 DEF handleSubscribePush, NotifyInv, NotifyTyping
<1> QED BY <1>1, <1>3 DEF NotifyInv

(* Time passes.                                                            *)
LEMMA TickKeeps == NotifyInv /\ Tick => NotifyInv'
<1> SUFFICES ASSUME NotifyInv, Tick PROVE NotifyInv'
  OBVIOUS
<1> USE DEF mqttVars, settingsVars
<1>1. ticks \in Int /\ lastSent \in Int /\ ticks' = ticks + 1 /\ ticks' \in 0..MaxTicks
  BY NotifierAssumption DEF NotifyInv, NotifyTyping, Tick
<1>2. AlertsApart'
  BY <1>1 DEF NotifyInv, AlertsApart, Tick
<1>3. AlertsInHand' /\ ClientsInHand' /\ KeysAgree'
  BY KeysKeep DEF NotifyInv, AlertsInHand, Delivers, ClientsInHand, Holds, Tick
<1>4. NotifyTyping'
  BY <1>1 DEF NotifyInv, NotifyTyping, Tick
<1> QED BY <1>2, <1>3, <1>4 DEF NotifyInv

(* Every step keeps the invariant of the alerts.                           *)
LEMMA NotifyNextKeeps == NotifyInv /\ [NotifyNext]_notifyVars => NotifyInv'
<1> SUFFICES ASSUME NotifyInv, [NotifyNext]_notifyVars PROVE NotifyInv'
  OBVIOUS
<1>1. CASE UNCHANGED notifyVars
  <2>1. AlertsApart' /\ AlertsInHand' /\ ClientsInHand' /\ KeysAgree'
    BY <1>1, SettingsKeep, KeysKeep DEF notifyVars
  <2> QED BY <1>1, <2>1 DEF notifyVars, NotifyInv, NotifyTyping
<1>2. CASE NotifyNext
  BY <1>2, TickKeeps, SubscribeKeeps, NotifyKeeps, AllowKeeps, SendWebPushKeeps, PublishRawKeeps, MqttClientKeeps,
     MqttClientAwayKeeps, CloseOldKeeps, ConnectKeeps, StoreKeeps, PublishKeeps, RequestsKeep, SaveKeeps,
     SaveFailsKeeps, TellKeeps
     DEF NotifyNext
<1> QED BY <1>1, <1>2

(* The invariant is what the run checks of the alerts.                     *)
LEMMA NotifyInvImplies == NotifyInv => NotifyTypeOK /\ AlertsSound
<1> SUFFICES ASSUME NotifyInv PROVE NotifyTypeOK /\ AlertsSound
  OBVIOUS
<1> USE DEF NotifyInv
<1>1. DOMAIN accepted = 1..Len(accepted)
  BY DEF NotifyTyping
<1>2. NotifyTypeOK
  BY <1>1 DEF NotifyTypeOK, NotifyTyping, AlertsInHand
<1>3. \A i, j \in DOMAIN accepted : i < j => accepted[j].at - accepted[i].at >= MinInterval
  BY <1>1 DEF AlertsApart
<1>4. \A i \in DOMAIN accepted :
        /\ accepted[i].targets # {}
        /\ (\A s \in Senders : sender[s].at = "idle" \/ sender[s].n # i) => accepted[i].tried = accepted[i].targets
  BY <1>1 DEF AlertsInHand, Delivers
<1>5. crossedWrites \/ unread \/ subs \subseteq {vapid}
  BY DEF NotifyTyping, KeysAgree
<1> QED BY <1>2, <1>3, <1>4, <1>5 DEF AlertsSound, ClientsInHand

-----------------------------------------------------------------------------
(* Home Assistant: the types alone; that the broker's picture is right in   *)
(* the end is a liveness property.                                          *)
ResyncRecord ==
  [at : {"asleep", "states", "config"} \cup Fields, left : SUBSET HACameras,
   states : [HACameras -> [online : BOOLEAN, motion : BOOLEAN]], cam : HACameras \cup {"none"}]

HATyping ==
  /\ stored \in [HACameras -> {"on", "off", "none"}]
  /\ running \subseteq HACameras /\ push \subseteq HACameras /\ unsure \subseteq HACameras
  /\ late \in [HACameras -> SUBSET (Fields \X BOOLEAN)]
  /\ live \in [HACameras -> [online : BOOLEAN, motion : BOOLEAN]]
  /\ due \in [HACameras -> SUBSET Fields]
  /\ resync \in ResyncRecord
  /\ resync.at \in Fields => resync.cam \in HACameras

(* No camera is there: the types hold at the start.                         *)
LEMMA HAInitTyping == HAInit => HATyping
<1> SUFFICES ASSUME HAInit PROVE HATyping
  OBVIOUS
<1> USE DEF HAInit
<1>1. Off \in [online : BOOLEAN, motion : BOOLEAN]
  BY DEF Off
<1>2. Asleep \in ResyncRecord /\ Asleep.at = "asleep"
  BY <1>1 DEF Asleep, ResyncRecord
<1>3. live \in [HACameras -> [online : BOOLEAN, motion : BOOLEAN]]
  BY <1>1
<1> QED BY <1>2, <1>3 DEF HATyping, Fields

(* A change of a stream or of motion.                                       *)
LEMMA ChangeTyped ==
  ASSUME HATyping, NEW c \in HACameras, NEW f \in Fields, NEW b \in BOOLEAN, Change(c, f, b)
  PROVE  HATyping'
<1> USE DEF HATyping
<1>1. live' = [live EXCEPT ![c][f] = b] /\ due' = [due EXCEPT ![c] = @ \cup {f}]
  BY DEF Change
<1>2. live[c] \in [online : BOOLEAN, motion : BOOLEAN] /\ due[c] \cup {f} \in SUBSET Fields
  OBVIOUS
<1>3. [live[c] EXCEPT ![f] = b] \in [online : BOOLEAN, motion : BOOLEAN]
  BY <1>2 DEF Fields
<1>4. live' \in [HACameras -> [online : BOOLEAN, motion : BOOLEAN]]
  BY <1>1, <1>3
<1>5. due' \in [HACameras -> SUBSET Fields]
  BY <1>1, <1>2
<1>6. late' \in [HACameras -> SUBSET (Fields \X BOOLEAN)]
  <2>1. PICK m \in Fields \X BOOLEAN : m = <<f, ~b>>
    <3>1. (~b) \in BOOLEAN
      OBVIOUS
    <3> QED BY <3>1
  <2>2. late' = late \/ late' = [late EXCEPT ![c] = late[c] \cup {m}]
    BY <2>1 DEF Change
  <2> QED BY <2>2
<1>7. UNCHANGED <<stored, push, running, resync, unsure>>
  BY DEF Change
<1> QED BY <1>4, <1>5, <1>6, <1>7

(* What a runtime that is stopped leaves.                                   *)
LEMMA ForgetTyped ==
  ASSUME HATyping, NEW c \in HACameras, Forget(c)
  PROVE  /\ live' \in [HACameras -> [online : BOOLEAN, motion : BOOLEAN]]
         /\ due' \in [HACameras -> SUBSET Fields]
         /\ late' \in [HACameras -> SUBSET (Fields \X BOOLEAN)]
         /\ UNCHANGED push
<1> USE DEF HATyping
<1>1. Off \in [online : BOOLEAN, motion : BOOLEAN]
  BY DEF Off
<1>2. live' \in [HACameras -> [online : BOOLEAN, motion : BOOLEAN]] /\ due' \in [HACameras -> SUBSET Fields]
  BY <1>1 DEF Forget
<1>3. PICK left \in Orphans(c) : late' = [late EXCEPT ![c] = late[c] \cup left]
  BY DEF Forget
<1>4. \A f \in Fields : live[c][f] \in BOOLEAN
  <2>1. live[c] \in [online : BOOLEAN, motion : BOOLEAN]
    OBVIOUS
  <2> QED BY <2>1 DEF Fields
<1>5. left \subseteq Fields \X BOOLEAN
  <2>1. {<<f, live[c][f]>> : f \in due[c]} \subseteq Fields \X BOOLEAN
    BY <1>4
  <2> QED BY <1>3, <2>1 DEF Orphans
<1>6. late' \in [HACameras -> SUBSET (Fields \X BOOLEAN)]
  BY <1>3, <1>5
<1> QED BY <1>2, <1>6 DEF Forget

(* A step of the cameras' runtimes and of the requests.                     *)
LEMMA CamerasTyped ==
  ASSUME HATyping, NEW c \in HACameras,
         \/ \E f \in Fields : Up(c, f) \/ Down(c, f) \/ SetState(c, f)
         \/ \E m \in Fields \X BOOLEAN : Late(c, m)
         \/ handleCreateCamera(c) \/ RemoveCamera(c, "disable") \/ RemoveCamera(c, "delete")
         \/ Configure(c) \/ startCamera(c) \/ Clear(c) \/ SayOffline(c) \/ DeleteRow(c)
  PROVE  HATyping'
<1> USE DEF HATyping, pushVars
<1>1. ASSUME NEW f \in Fields, Up(c, f) \/ Down(c, f) PROVE HATyping'
  BY <1>1, ChangeTyped DEF Up, Down
<1>2. ASSUME NEW f \in Fields, SetState(c, f) PROVE HATyping'
  BY <1>2 DEF SetState
<1>3. CASE handleCreateCamera(c) \/ RemoveCamera(c, "disable") \/ RemoveCamera(c, "delete")
  BY <1>3 DEF handleCreateCamera, RemoveCamera
<1>4. CASE Configure(c)
  BY <1>4 DEF Configure
<1>5. CASE startCamera(c)
  <2>1. Forget(c)
    BY <1>5 DEF startCamera
  <2> QED BY <1>5, <2>1, ForgetTyped DEF startCamera
<1>6. CASE Clear(c)
  <2>1. Forget(c)
    BY <1>6 DEF Clear
  <2> QED BY <1>6, <2>1, ForgetTyped DEF Clear
<1>7. CASE SayOffline(c) \/ DeleteRow(c)
  BY <1>7 DEF SayOffline, DeleteRow
<1>8. ASSUME NEW m \in Fields \X BOOLEAN, Late(c, m) PROVE HATyping'
  <2>1. late' \in [HACameras -> SUBSET (Fields \X BOOLEAN)]
    BY <1>8 DEF Late
  <2> QED BY <1>8, <2>1 DEF Late
<1> QED BY <1>1, <1>2, <1>3, <1>4, <1>5, <1>6, <1>7, <1>8

(* The periodic goroutine: the camera it is at is one it has listed.        *)
LEMMA ResyncTyped == HATyping /\ ResyncStep => HATyping'
<1> SUFFICES ASSUME HATyping, ResyncStep PROVE HATyping'
  OBVIOUS
<1> USE DEF HATyping, pushVars
<1>0. Off \in [online : BOOLEAN, motion : BOOLEAN]
  BY DEF Off
<1>1. Asleep \in ResyncRecord /\ Asleep.at = "asleep"
  BY <1>0 DEF Asleep, ResyncRecord
<1>2. \A c \in HACameras : Doubted(c) \subseteq HACameras
  BY DEF Doubted
<1>3. CASE List
  <2>1. [Asleep EXCEPT !.at = "states", !.left = {c \in HACameras : stored[c] # "none"}] \in ResyncRecord
    BY <1>1 DEF ResyncRecord
  <2>2. resync' \in ResyncRecord /\ resync'.at = "states"
    BY <1>1, <1>3, <2>1 DEF List, ResyncRecord
  <2> QED BY <1>3, <2>2 DEF List, Fields
<1>4. CASE HAStates
  <2>1. PICK states \in [HACameras -> [online : BOOLEAN, motion : BOOLEAN]] :
          states = [c \in HACameras |-> IF InMap(c) THEN live[c] ELSE Off]
    BY <1>0
  <2>2. resync' = [resync EXCEPT !.at = "config", !.states = states]
    BY <1>4, <2>1 DEF HAStates
  <2>3. resync' \in ResyncRecord /\ resync'.at = "config"
    BY <2>2 DEF ResyncRecord
  <2> QED BY <1>4, <2>3 DEF HAStates, Fields
<1>5. CASE publishConfig
  <2>1. PICK c \in HACameras : c = CHOOSE x \in resync.left : TRUE
    BY <1>5 DEF publishConfig, ResyncRecord
  <2>2. resync' = [resync EXCEPT !.at = "online", !.cam = c] /\ unsure' = Doubted(c)
    BY <1>5, <2>1 DEF publishConfig
  <2>3. resync' \in ResyncRecord /\ resync'.cam = c
    BY <2>2 DEF ResyncRecord, Fields
  <2> QED BY <1>2, <1>5, <2>2, <2>3 DEF publishConfig
<1>6. CASE publishState
  <2>1. resync.cam \in HACameras /\ unsure' = Doubted(resync.cam)
    BY <1>6 DEF publishState
  <2>2. CASE resync' = [resync EXCEPT !.at = "motion"]
    <3>1. resync' \in ResyncRecord /\ resync'.cam = resync.cam
      BY <2>2 DEF ResyncRecord, Fields
    <3> QED BY <1>2, <1>6, <2>1, <3>1 DEF publishState
  <2>3. CASE resync' = [resync EXCEPT !.at = "config", !.left = resync.left \ {resync.cam}]
    <3>1. resync' \in ResyncRecord /\ resync'.at = "config"
      BY <2>3 DEF ResyncRecord
    <3> QED BY <1>2, <1>6, <2>1, <3>1 DEF publishState, Fields
  <2> QED BY <1>6, <2>2, <2>3 DEF publishState
<1>7. CASE Rest
  BY <1>1, <1>7 DEF Rest, Fields
<1> QED BY <1>3, <1>4, <1>5, <1>6, <1>7 DEF ResyncStep

(* Every step keeps the types, and they are what the run checks.            *)
LEMMA HANextTyped == HATyping /\ [HANext]_haVars => HATyping'
<1> SUFFICES ASSUME HATyping, [HANext]_haVars PROVE HATyping'
  OBVIOUS
<1>1. CASE UNCHANGED haVars
  BY <1>1 DEF haVars, HATyping
<1>2. CASE HANext
  BY <1>2, CamerasTyped, ResyncTyped DEF HANext, HandlerStep, Publishes
<1> QED BY <1>1, <1>2

(* The types are what the run checks.                                       *)
LEMMA HATypingImplies == HATyping => HATypeOK
BY DEF HATyping, HATypeOK, ResyncRecord

-----------------------------------------------------------------------------
(***************************************************************************)
(* Accounts, for any set of users and of concurrent requests: an           *)
(* administrator is left and the tokens tell the truth, as long as no two  *)
(* requests met on an account.  AccountsSound is not inductive: it rests   *)
(* on what a request has read and checked some steps before it writes,     *)
(* which AccountsInv keeps for as long as nobody met it.                   *)
(***************************************************************************)
USE AccountsAssumption

RowRole == Roles \cup {"none"}
UserRow == [role : RowRole, pw : Nat]
Token   == [user : Users, role : RowRole, pw : Nat]
Step    == {"idle", "issue", "check", "write", "delete", "revoke"}
Req     == [at : Step, user : Users, role : RowRole, pw : {0, 1}, old : UserRow]

AccountsShape ==
  /\ users \in [Users -> UserRow]
  /\ tokens \subseteq Token
  /\ request \in [Requests -> Req]
  /\ met \subseteq Users

Acting(q)  == q.at \in {"check", "write", "delete"}
Reading(q) == q.at \in {"issue", "check", "write", "delete"}

\* Two requests on one account have met, and so have two that change administrators.
MeetingsNoted ==
  \A q, r \in Requests : q # r =>
    /\ request[q].at # "idle" /\ request[r].at # "idle" /\ request[q].user = request[r].user
         => request[q].user \in met
    /\ Acting(request[q]) /\ Acting(request[r]) /\ request[q].old.role = Admin /\ request[r].old.role = Admin
         => Root \in met

\* What a request read is still there when it acts upon it.
ReadIsCurrent ==
  \A r \in Requests :
    Reading(request[r]) /\ request[r].user \notin met => users[request[r].user] = request[r].old

\* A request that is about to take an administrator's role or row has seen another one,
\* who is still there, or could not list the accounts.
AnotherAdmin ==
  \A r \in Requests :
    /\ request[r].at = "delete" => request[r].role = "none"
    /\ met = {} /\ ~unlisted /\ request[r].at \in {"write", "delete"} /\ request[r].old.role = Admin /\ request[r].role # Admin
         => \E v \in Users \ {request[r].user} : users[v].role = Admin

AdminLeft == met = {} /\ ~unlisted => \E u \in Users : users[u].role = Admin

TokensTrue ==
  \A t \in tokens : t.user \notin met =>
    \/ users[t.user] = [role |-> t.role, pw |-> t.pw]
    \/ \E r \in Requests : request[r].at = "revoke" /\ request[r].user = t.user

AccountsInv ==
  /\ AccountsShape /\ MeetingsNoted /\ ReadIsCurrent
  /\ AnotherAdmin /\ AdminLeft /\ TokensTrue

-----------------------------------------------------------------------------
\* The seeded account and no token: the invariant holds at the start.
LEMMA InitAccounts == AccountsInit => AccountsInv
<1>. SUFFICES ASSUME AccountsInit PROVE AccountsInv
  OBVIOUS
<1>. USE DEF AccountsInit, NoRequest, NoUser, Admin, Viewer
<1>1. AccountsShape
  BY DEF AccountsShape, UserRow, RowRole, Roles, Req, Step
<1>2. MeetingsNoted /\ ReadIsCurrent /\ AnotherAdmin
  BY DEF MeetingsNoted, ReadIsCurrent, AnotherAdmin, Acting, Reading
<1>3. AdminLeft /\ TokensTrue
  BY DEF AdminLeft, TokensTrue
<1>. QED BY <1>1, <1>2, <1>3 DEF AccountsInv

\* A request begins with what it has just read.
LEMMA BeginsKeeps ==
  ASSUME AccountsInv, NEW r \in Requests, NEW rec \in Req, Begins(r, rec),
         Reading(rec), rec.old = users[rec.user],
         rec.at = "delete" => rec.role = "none",
         rec.at \in {"write", "delete"} => ~(rec.old.role = Admin /\ rec.role # Admin),
         UNCHANGED <<users, tokens, unlisted>>
  PROVE  AccountsInv'
<1>. USE DEF AccountsInv
<1>0. /\ request[r].at = "idle"
      /\ request' = [request EXCEPT ![r] = rec]
      /\ met \subseteq met' /\ met' \subseteq Users
  BY DEF Begins, AccountsShape
<1>1. AccountsShape'
  BY <1>0 DEF AccountsShape
<1>2. ASSUME NEW q \in Requests, q # r
      PROVE  /\ request[q].at # "idle" /\ request[q].user = rec.user => rec.user \in met'
             /\ Acting(request[q]) /\ Acting(rec) /\ request[q].old.role = Admin /\ rec.old.role = Admin => Root \in met'
  <2>1. request[q] \in Others(r)
    BY <1>2 DEF Others
  <2>2. rec.user \in Users
    BY DEF Req
  <2>. QED BY <2>1, <2>2 DEF Begins, Acting
<1>3. \A q \in Requests : q # r => request'[q] = request[q]
  BY <1>0 DEF AccountsShape
<1>4. request'[r] = rec
  BY <1>0 DEF AccountsShape
<1>5. MeetingsNoted'
  BY <1>0, <1>2, <1>3, <1>4 DEF MeetingsNoted, Acting
<1>6. ReadIsCurrent'
  BY <1>0, <1>3, <1>4 DEF ReadIsCurrent, Reading
<1>7. AnotherAdmin'
  BY <1>0, <1>3, <1>4 DEF AnotherAdmin
<1>8. AdminLeft'
  BY <1>0 DEF AdminLeft
<1>9. TokensTrue'
  BY <1>0, <1>3, <1>4 DEF TokensTrue
<1>. QED BY <1>1, <1>5, <1>6, <1>7, <1>8, <1>9

\* A request is over, or goes on to a step that reads nothing, and no row changes.
LEMMA EndsKeeps ==
  ASSUME AccountsInv, NEW r \in Requests, request[r].at # "revoke", Done(r), UNCHANGED <<users, tokens, met, unlisted>>
  PROVE  AccountsInv'
<1>. USE DEF AccountsInv
<1>0. NoRequest \in Req
  BY DEF NoRequest, NoUser, Req, Step, UserRow, RowRole, Roles, Viewer
<1>1. \A q \in Requests : request'[q] = IF q = r THEN NoRequest ELSE request[q]
  BY DEF Done, AccountsShape
<1>2. AccountsShape'
  BY <1>0 DEF AccountsShape, Done
<1>3. NoRequest.at = "idle"
  BY DEF NoRequest
<1>4. MeetingsNoted' /\ ReadIsCurrent' /\ AnotherAdmin'
  BY <1>1, <1>3 DEF MeetingsNoted, ReadIsCurrent, AnotherAdmin, Acting, Reading
<1>5. AdminLeft' /\ TokensTrue'
  BY <1>1, <1>3 DEF AdminLeft, TokensTrue
<1>. QED BY <1>2, <1>4, <1>5

\* The row of q.user is written or deleted by the request that read it, while the other
\* requests stay as they are.
LEMMA OthersKeep ==
  ASSUME AccountsInv, NEW r \in Requests, request[r].at \in {"write", "delete"},
         NEW row \in UserRow, users' = [users EXCEPT ![request[r].user] = row],
         request[r].at = "write" => row.role = request[r].role,
         request[r].at = "delete" => row.role = "none",
         NEW q \in Req, q.at \in {"idle", "revoke"}, q.at = "revoke" => q.user = request[r].user,
         q.at = "idle" /\ request[r].user \notin met => row = users[request[r].user],
         request' = [request EXCEPT ![r] = q], UNCHANGED <<tokens, met, unlisted>>
  PROVE  AccountsInv'
<1>. DEFINE u == request[r].user
<1>. USE DEF AccountsInv
<1>1. u \in Users /\ request[r] \in Req
  BY DEF AccountsShape, Req
<1>2. /\ \A p \in Requests : request'[p] = IF p = r THEN q ELSE request[p]
      /\ \A v \in Users : users'[v] = IF v = u THEN row ELSE users[v]
  BY DEF AccountsShape
<1>3. AccountsShape'
  BY <1>1 DEF AccountsShape
<1>4. MeetingsNoted'
  <2>1. request[r].at # "idle"
    OBVIOUS
  <2>. QED BY <1>2, <2>1 DEF MeetingsNoted, Acting
<1>5. ReadIsCurrent'
  <2>. SUFFICES ASSUME NEW p \in Requests, Reading(request'[p]), request'[p].user \notin met
                PROVE  users'[request'[p].user] = request'[p].old
    BY DEF ReadIsCurrent
  <2>1. p # r /\ request'[p] = request[p]
    BY <1>2 DEF Reading
  <2>2. request[p].user # u
    BY <2>1 DEF MeetingsNoted, Reading
  <2>3. request[p].user \in Users
    BY DEF AccountsShape, Req
  <2>. QED BY <1>2, <2>1, <2>2, <2>3 DEF ReadIsCurrent
<1>6. ASSUME met = {}, ~unlisted, request[r].old.role = Admin, row.role # Admin
      PROVE  /\ \E v \in Users \ {u} : users[v].role = Admin
             /\ \A p \in Requests \ {r} : ~(Acting(request[p]) /\ request[p].old.role = Admin)
  <2>1. request[r].role # Admin
    BY <1>6 DEF AnotherAdmin, Admin
  <2>. QED BY <1>6, <2>1 DEF AnotherAdmin, MeetingsNoted, Acting
<1>7. ASSUME met = {}
      PROVE  users[u] = request[r].old
  BY <1>7 DEF ReadIsCurrent, Reading
<1>8. AnotherAdmin'
  <2>1. ASSUME NEW p \in Requests, request'[p].at = "delete"
        PROVE  request'[p].role = "none"
    BY <1>2, <2>1 DEF AnotherAdmin
  <2>2. ASSUME NEW p \in Requests, met = {}, ~unlisted, request'[p].at \in {"write", "delete"},
               request'[p].old.role = Admin, request'[p].role # Admin
        PROVE  \E v \in Users \ {request'[p].user} : users'[v].role = Admin
    <3>1. p # r /\ request'[p] = request[p]
      BY <1>2, <2>2
    <3>2. PICK v \in Users \ {request[p].user} : users[v].role = Admin
      BY <2>2, <3>1 DEF AnotherAdmin
    <3>3. Acting(request[p]) /\ request[p].old.role = Admin
      BY <2>2, <3>1 DEF Acting
    <3>4. users'[v].role = Admin
      BY <1>2, <1>6, <1>7, <2>2, <3>1, <3>2, <3>3
    <3>. QED BY <3>1, <3>2, <3>4
  <2>. QED BY <2>1, <2>2 DEF AnotherAdmin
<1>9. AdminLeft'
  <2>. SUFFICES ASSUME met = {}, ~unlisted PROVE \E v \in Users : users'[v].role = Admin
    BY DEF AdminLeft
  <2>1. PICK v \in Users : users[v].role = Admin
    BY DEF AdminLeft
  <2>. QED BY <1>2, <1>6, <1>7, <2>1
<1>10. TokensTrue'
  <2>. SUFFICES ASSUME NEW t \in tokens, t.user \notin met
                PROVE  \/ users'[t.user] = [role |-> t.role, pw |-> t.pw]
                       \/ \E p \in Requests : request'[p].at = "revoke" /\ request'[p].user = t.user
    BY DEF TokensTrue
  <2>1. t.user \in Users
    BY DEF AccountsShape, Token
  <2>2. CASE q.at = "revoke" /\ t.user = u
    BY <1>2, <2>2
  <2>3. CASE q.at = "idle" \/ t.user # u
    <3>1. users'[t.user] = users[t.user]
      BY <1>2, <2>1, <2>3
    <3>2. CASE users[t.user] = [role |-> t.role, pw |-> t.pw]
      BY <3>1, <3>2
    <3>3. CASE \E p \in Requests : request[p].at = "revoke" /\ request[p].user = t.user
      <4>1. PICK p \in Requests : request[p].at = "revoke" /\ request[p].user = t.user
        BY <3>3
      <4>2. p # r
        BY <4>1
      <4>. QED BY <1>2, <4>1, <4>2
    <3>. QED BY <3>2, <3>3 DEF TokensTrue
  <2>. QED BY <2>2, <2>3
<1>. QED BY <1>3, <1>4, <1>5, <1>8, <1>9, <1>10

-----------------------------------------------------------------------------
\* A login and a deletion begin by reading the row (auth.go handleLogin, users.go handleDeleteUser).
LEMMA LoginKeeps ==
  ASSUME AccountsInv, NEW r \in Requests, NEW u \in Users, Login(r, u) \/ handleDeleteUser(r, u)
  PROVE  AccountsInv'
<1>1. users[u] \in UserRow
  BY DEF AccountsInv, AccountsShape
<1>2. NoRequest \in Req
  BY DEF NoRequest, NoUser, Req, Step, UserRow, RowRole, Roles, Viewer
<1>3. CASE Login(r, u)
  <2>. DEFINE rec == [NoRequest EXCEPT !.at = "issue", !.user = u, !.old = users[u]]
  <2>1. rec \in Req
    BY <1>1, <1>2 DEF Req, Step
  <2>2. rec.at = "issue" /\ rec.user = u /\ rec.old = users[u]
    BY <1>2 DEF Req
  <2>3. Begins(r, rec) /\ UNCHANGED <<users, tokens, unlisted>>
    BY <1>3 DEF Login
  <2>. HIDE DEF rec
  <2>. QED BY <2>1, <2>2, <2>3, BeginsKeeps DEF Reading
<1>4. CASE handleDeleteUser(r, u)
  <2>. DEFINE rec == [NoRequest EXCEPT !.at = IF users[u].role = Admin THEN "check" ELSE "delete",
                                       !.user = u, !.role = "none", !.old = users[u]]
  <2>1. rec \in Req
    BY <1>1, <1>2 DEF Req, Step, RowRole
  <2>2. /\ rec.at = IF users[u].role = Admin THEN "check" ELSE "delete"
        /\ rec.user = u /\ rec.role = "none" /\ rec.old = users[u]
    BY <1>2 DEF Req
  <2>3. Begins(r, rec) /\ UNCHANGED <<users, tokens, unlisted>>
    BY <1>4 DEF handleDeleteUser
  <2>. HIDE DEF rec
  <2>. QED BY <2>1, <2>2, <2>3, BeginsKeeps DEF Reading
<1>. QED BY <1>3, <1>4

\* An update begins by reading the row; one that demotes an administrator goes by the check.
LEMMA UpdateKeeps ==
  ASSUME AccountsInv, NEW r \in Requests, NEW u \in Users, NEW role \in Roles, NEW newPw \in BOOLEAN,
         handleUpdateUser(r, u, role, newPw)
  PROVE  AccountsInv'
<1>. DEFINE rec == [at |-> IF users[u].role = Admin /\ role # Admin THEN "check" ELSE "write",
                    user |-> u, role |-> role, pw |-> IF newPw THEN 1 ELSE 0, old |-> users[u]]
<1>1. users[u] \in UserRow
  BY DEF AccountsInv, AccountsShape
<1>2. rec \in Req /\ Reading(rec)
  BY <1>1 DEF Req, Step, RowRole, Reading
<1>3. Begins(r, rec) /\ UNCHANGED <<users, tokens, unlisted>>
  BY DEF handleUpdateUser
<1>4. rec.at \in {"check", "write"} /\ rec.old = users[rec.user]
  OBVIOUS
<1>5. rec.at = "write" => ~(rec.old.role = Admin /\ rec.role # Admin)
  OBVIOUS
<1>. HIDE DEF rec
<1>. QED BY <1>2, <1>3, <1>4, <1>5, BeginsKeeps

\* A new account is one that no token and no request names.
LEMMA CreateKeeps ==
  ASSUME AccountsInv, NEW u \in Users, NEW role \in Roles, handleCreateUser(u, role)
  PROVE  AccountsInv'
<1>. USE DEF AccountsInv
<1>1. /\ users[u] = NoUser
      /\ \A t \in tokens : t.user # u
      /\ \A r \in Requests : request[r].at = "idle" \/ request[r].user # u
      /\ users' = [users EXCEPT ![u] = [role |-> role, pw |-> 1]]
      /\ UNCHANGED <<tokens, request, met, unlisted>>
  BY DEF handleCreateUser, Fresh, Has
<1>2. \A v \in Users : users'[v] = IF v = u THEN [role |-> role, pw |-> 1] ELSE users[v]
  BY <1>1 DEF AccountsShape
<1>3. AccountsShape'
  BY <1>1 DEF AccountsShape, UserRow, RowRole
<1>4. MeetingsNoted'
  BY <1>1 DEF MeetingsNoted, Acting
<1>5. \A r \in Requests : request[r].user \in Users
  BY DEF AccountsShape, Req
<1>6. ReadIsCurrent'
  BY <1>1, <1>2, <1>5 DEF ReadIsCurrent, Reading
<1>7. users[u].role # Admin
  BY <1>1 DEF NoUser, Admin
<1>8. \A v \in Users : users[v].role = Admin => users'[v].role = Admin
  BY <1>2, <1>7
<1>9. AnotherAdmin' /\ AdminLeft'
  <2>1. AnotherAdmin'
    BY <1>1, <1>8 DEF AnotherAdmin
  <2>2. AdminLeft'
    BY <1>1, <1>8 DEF AdminLeft
  <2>. QED BY <2>1, <2>2
<1>10. \A t \in tokens : t.user \in Users
  BY DEF AccountsShape, Token
<1>11. TokensTrue'
  BY <1>1, <1>2, <1>10 DEF TokensTrue
<1>. QED BY <1>3, <1>4, <1>6, <1>9, <1>11

\* A token is issued for the row that was read, which is the row there is if nobody met the login.
LEMMA IssueKeeps ==
  ASSUME AccountsInv, NEW r \in Requests, Issue(r)
  PROVE  AccountsInv'
<1>. USE DEF AccountsInv
<1>. DEFINE new == [user |-> request[r].user, role |-> request[r].old.role, pw |-> request[r].old.pw]
<1>0. NoRequest \in Req /\ NoRequest.at = "idle"
  BY DEF NoRequest, NoUser, Req, Step, UserRow, RowRole, Roles, Viewer
<1>1. /\ request[r].at = "issue" /\ tokens' = tokens \cup {new}
      /\ UNCHANGED <<users, met, unlisted>>
      /\ request' = [request EXCEPT ![r] = NoRequest]
      /\ request[r] \in Req
  BY DEF Issue, Done, AccountsShape
<1>2. \A q \in Requests : request'[q] = IF q = r THEN NoRequest ELSE request[q]
  BY <1>1 DEF AccountsShape
<1>3. new \in Token
  BY <1>1 DEF Req, UserRow, Token
<1>4. AccountsShape'
  BY <1>0, <1>1, <1>3 DEF AccountsShape
<1>5. MeetingsNoted' /\ ReadIsCurrent' /\ AnotherAdmin' /\ AdminLeft'
  BY <1>0, <1>1, <1>2 DEF MeetingsNoted, ReadIsCurrent, AnotherAdmin, AdminLeft, Acting, Reading
<1>6. new.user \notin met => users[new.user] = [role |-> new.role, pw |-> new.pw]
  <2>1. request[r].old = [role |-> request[r].old.role, pw |-> request[r].old.pw]
    BY <1>1 DEF Req, UserRow
  <2>. QED BY <1>1, <2>1 DEF ReadIsCurrent, Reading
<1>. HIDE DEF new
<1>7. \A q \in Requests : request[q].at = "revoke" => request'[q] = request[q]
  BY <1>1, <1>2
<1>8. TokensTrue'
  <2>. SUFFICES ASSUME NEW t \in tokens', t.user \notin met
                PROVE  \/ users[t.user] = [role |-> t.role, pw |-> t.pw]
                       \/ \E q \in Requests : request'[q].at = "revoke" /\ request'[q].user = t.user
    BY <1>1 DEF TokensTrue
  <2>. QED BY <1>1, <1>6, <1>7 DEF TokensTrue
<1>. QED BY <1>4, <1>5, <1>8

\* isLastAdmin: the request goes on only if it sees another administrator, or sees nothing.
LEMMA CheckKeeps ==
  ASSUME AccountsInv, NEW r \in Requests, Check(r)
  PROVE  AccountsInv'
<1>0. UNCHANGED <<users, tokens, met>> /\ request[r].at = "check"
  BY DEF Check
<1>1. CASE Done(r) /\ UNCHANGED unlisted
  BY <1>0, <1>1, EndsKeeps
<1>2. CASE GoesOn(r) /\ unlisted' = (unlisted \/ isLastAdmin(request[r].user))
  <2>. USE DEF AccountsInv
  <2>. DEFINE q == [request[r] EXCEPT !.at = IF request[r].role = "none" THEN "delete" ELSE "write"]
  <2>1. /\ request[r] \in Req
        /\ request' = [request EXCEPT ![r] = q]
    BY <1>2 DEF GoesOn, AccountsShape
  <2>2. /\ q \in Req /\ q.at \in {"write", "delete"}
        /\ q.at = "delete" => q.role = "none"
        /\ q.user = request[r].user /\ q.old = request[r].old
    BY <2>1 DEF Req, Step
  <2>. HIDE DEF q
  <2>3. \A p \in Requests : request'[p] = IF p = r THEN q ELSE request[p]
    BY <2>1 DEF AccountsShape
  <2>4. AccountsShape'
    BY <1>0, <2>1, <2>2 DEF AccountsShape
  <2>5. MeetingsNoted' /\ ReadIsCurrent'
    BY <1>0, <2>2, <2>3 DEF MeetingsNoted, ReadIsCurrent, Acting, Reading
  <2>6. ASSUME ~unlisted'
        PROVE  ~unlisted /\ \E v \in Users \ {request[r].user} : users[v].role = Admin
    BY <1>2, <2>6, Zenon DEF isLastAdmin
  <2>7. AnotherAdmin'
    BY <1>0, <2>1, <2>2, <2>3, <2>6 DEF AnotherAdmin
  <2>8. AdminLeft' /\ TokensTrue'
    BY <1>0, <2>1, <2>2, <2>3, <2>6 DEF AdminLeft, TokensTrue
  <2>. QED BY <2>4, <2>5, <2>7, <2>8
<1>. QED BY <1>1, <1>2 DEF Check

\* A statement that fails leaves no trace of its request.
LEMMA StatementFailsKeeps ==
  ASSUME AccountsInv, NEW r \in Requests, StatementFails(r)
  PROVE  AccountsInv'
  BY EndsKeeps DEF StatementFails

\* A row is written; if it told the tokens something, the request goes on to revoke them.
LEMMA WriteKeeps ==
  ASSUME AccountsInv, NEW r \in Requests, Write(r)
  PROVE  AccountsInv'
<1>. DEFINE u == request[r].user
            row == [role |-> request[r].role, pw |-> users[u].pw + request[r].pw]
            toRevoke == [request[r] EXCEPT !.at = "revoke"]
<1>0. NoRequest \in Req /\ NoRequest.at = "idle"
  BY DEF NoRequest, NoUser, Req, Step, UserRow, RowRole, Roles, Viewer
<1>1. request[r].at = "write" /\ request[r] \in Req /\ users[u] \in UserRow /\ UNCHANGED <<tokens, met, unlisted>>
  BY DEF Write, AccountsInv, AccountsShape, Req
<1>2. CASE ~Has(u)
  BY <1>1, <1>2, EndsKeeps DEF Write
<1>3. row \in UserRow /\ toRevoke \in Req /\ toRevoke.at = "revoke" /\ toRevoke.user = u
  BY <1>1 DEF Req, UserRow, Step
<1>4. ASSUME Has(u) PROVE users' = [users EXCEPT ![u] = row]
  BY <1>4 DEF Write
<1>5. CASE Has(u) /\ (request[r].role # request[r].old.role \/ request[r].pw = 1)
  <2>1. request' = [request EXCEPT ![r] = toRevoke]
    BY <1>5 DEF Write, AccountsInv, AccountsShape
  <2>. HIDE DEF toRevoke
  <2>. QED BY <1>1, <1>3, <1>4, <1>5, <2>1, OthersKeep
<1>6. CASE Has(u) /\ ~(request[r].role # request[r].old.role \/ request[r].pw = 1)
  <2>1. request' = [request EXCEPT ![r] = NoRequest]
    BY <1>6 DEF Write, Done
  <2>2. u \notin met => row = users[u]
    <3>1. request[r].pw = 0
      BY <1>1, <1>6 DEF Req
    <3>2. u \notin met => users[u].role = request[r].role
      BY <1>1, <1>6 DEF AccountsInv, ReadIsCurrent, Reading
    <3>. QED BY <1>1, <3>1, <3>2 DEF UserRow
  <2>. QED BY <1>0, <1>1, <1>3, <1>4, <1>6, <2>1, <2>2, OthersKeep
<1>. QED BY <1>2, <1>5, <1>6

\* A row is deleted, and if there was one its tokens are revoked next.
LEMMA DeleteKeeps ==
  ASSUME AccountsInv, NEW r \in Requests, Delete(r)
  PROVE  AccountsInv'
<1>. DEFINE u == request[r].user
            toRevoke == [request[r] EXCEPT !.at = "revoke"]
<1>0. NoRequest \in Req /\ NoRequest.at = "idle" /\ NoUser \in UserRow /\ NoUser.role = "none"
  BY DEF NoRequest, NoUser, Req, Step, UserRow, RowRole, Roles, Viewer
<1>1. /\ request[r].at = "delete" /\ request[r] \in Req /\ UNCHANGED <<tokens, met, unlisted>>
      /\ users' = [users EXCEPT ![u] = NoUser]
  BY DEF Delete, AccountsInv, AccountsShape
<1>2. toRevoke \in Req /\ toRevoke.at = "revoke" /\ toRevoke.user = u
  BY <1>1 DEF Req, Step
<1>3. CASE Has(u)
  <2>1. request' = [request EXCEPT ![r] = toRevoke]
    BY <1>3 DEF Delete, AccountsInv, AccountsShape
  <2>. HIDE DEF toRevoke
  <2>. QED BY <1>0, <1>1, <1>2, <2>1, OthersKeep
<1>4. CASE ~Has(u)
  <2>1. request' = [request EXCEPT ![r] = NoRequest]
    BY <1>4 DEF Delete, Done
  <2>2. NoUser = users[u]
    BY <1>4 DEF Has
  <2>. QED BY <1>0, <1>1, <2>1, <2>2, OthersKeep
<1>. QED BY <1>3, <1>4

\* A token that was waiting for this request to revoke it is gone with the others of its user.
LEMMA RevokeUserKeeps ==
  ASSUME AccountsInv, NEW r \in Requests, revokeUser(r)
  PROVE  AccountsInv'
<1>. USE DEF AccountsInv
<1>0. NoRequest \in Req /\ NoRequest.at = "idle"
  BY DEF NoRequest, NoUser, Req, Step, UserRow, RowRole, Roles, Viewer
<1>1. /\ tokens' = {t \in tokens : t.user # request[r].user}
      /\ request' = [request EXCEPT ![r] = NoRequest]
      /\ UNCHANGED <<users, met, unlisted>>
  BY DEF revokeUser, Done
<1>2. \A q \in Requests : request'[q] = IF q = r THEN NoRequest ELSE request[q]
  BY <1>1 DEF AccountsShape
<1>3. AccountsShape'
  BY <1>0, <1>1 DEF AccountsShape
<1>4. MeetingsNoted' /\ ReadIsCurrent' /\ AnotherAdmin' /\ AdminLeft'
  BY <1>0, <1>1, <1>2 DEF MeetingsNoted, ReadIsCurrent, AnotherAdmin, AdminLeft, Acting, Reading
<1>5. TokensTrue'
  <2>. SUFFICES ASSUME NEW t \in tokens, t.user # request[r].user, t.user \notin met
                PROVE  \/ users[t.user] = [role |-> t.role, pw |-> t.pw]
                       \/ \E q \in Requests : request'[q].at = "revoke" /\ request'[q].user = t.user
    BY <1>1 DEF TokensTrue
  <2>. QED BY <1>2 DEF TokensTrue
<1>. QED BY <1>3, <1>4, <1>5

\* A restart forgets tokens and requests, and seeds an account only when none is left.
LEMMA RestartKeeps ==
  ASSUME AccountsInv, RestartServer
  PROVE  AccountsInv'
<1>. USE DEF AccountsInv
<1>0. NoRequest \in Req /\ NoRequest.at = "idle"
  BY DEF NoRequest, NoUser, Req, Step, UserRow, RowRole, Roles, Viewer
<1>1. /\ tokens' = {} /\ request' = [q \in Requests |-> NoRequest]
      /\ UNCHANGED <<met, unlisted>> /\ users' = ensureSeedAdmin(users)
  BY DEF RestartServer
<1>2. users' \in [Users -> UserRow]
  BY <1>1 DEF AccountsShape, ensureSeedAdmin, UserRow, RowRole, Roles, Admin
<1>3. AccountsShape'
  BY <1>0, <1>1, <1>2 DEF AccountsShape
<1>4. MeetingsNoted' /\ ReadIsCurrent' /\ AnotherAdmin' /\ TokensTrue'
  BY <1>0, <1>1 DEF MeetingsNoted, ReadIsCurrent, AnotherAdmin, TokensTrue, Acting, Reading
<1>5. AdminLeft'
  <2>. SUFFICES ASSUME met = {}, ~unlisted PROVE \E u \in Users : users'[u].role = Admin
    BY <1>1 DEF AdminLeft
  <2>1. PICK u \in Users : users[u].role = Admin
    BY DEF AdminLeft
  <2>2. users[u] # NoUser
    BY <2>1 DEF NoUser, Admin
  <2>3. users' = users
    BY <1>1, <2>2 DEF ensureSeedAdmin
  <2>. QED BY <2>1, <2>3
<1>. QED BY <1>3, <1>4, <1>5

\* Every step keeps the invariant.
LEMMA NextKeeps == AccountsInv /\ [AccountsNext]_accountVars => AccountsInv'
<1>. SUFFICES ASSUME AccountsInv, [AccountsNext]_accountVars PROVE AccountsInv'
  OBVIOUS
<1>1. CASE UNCHANGED accountVars
  BY <1>1 DEF accountVars, AccountsInv, AccountsShape, MeetingsNoted, ReadIsCurrent, AnotherAdmin,
              AdminLeft, TokensTrue, Acting, Reading
<1>2. ASSUME NEW u \in Users, NEW role \in Roles, handleCreateUser(u, role)
      PROVE  AccountsInv'
  BY <1>2, CreateKeeps
<1>3. ASSUME NEW r \in Requests, NEW u \in Users, Login(r, u) \/ handleDeleteUser(r, u)
      PROVE  AccountsInv'
  BY <1>3, LoginKeeps
<1>4. ASSUME NEW r \in Requests, NEW u \in Users, NEW role \in Roles, NEW newPw \in BOOLEAN,
             handleUpdateUser(r, u, role, newPw)
      PROVE  AccountsInv'
  BY <1>4, UpdateKeeps
<1>5. ASSUME NEW r \in Requests, Issue(r) \/ Check(r) \/ Write(r) \/ Delete(r) \/ StatementFails(r) \/ revokeUser(r)
      PROVE  AccountsInv'
  BY <1>5, IssueKeeps, CheckKeeps, WriteKeeps, DeleteKeeps, StatementFailsKeeps,
     RevokeUserKeeps
<1>6. ASSUME NEW t \in tokens, Revoke(t)
      PROVE  AccountsInv'
  <2>1. tokens' \subseteq tokens /\ UNCHANGED <<users, request, met, unlisted>>
    BY <1>6 DEF Revoke
  <2>. QED BY <2>1 DEF AccountsInv, AccountsShape, MeetingsNoted, ReadIsCurrent, AnotherAdmin,
                       AdminLeft, TokensTrue, Acting, Reading
<1>7. CASE RestartServer
  BY <1>7, RestartKeeps
<1>. QED BY <1>1, <1>2, <1>3, <1>4, <1>5, <1>6, <1>7 DEF AccountsNext

\* An administrator is left and the valid tokens tell the truth, for any number of accounts
\* and of requests at once, as long as no two requests met on what they change and none on the
\* last administrator went on without a list of the accounts.
THEOREM AdminsAndTokens == AccountsSpec => []AccountsSound
<1>1. AccountsInv => AccountsSound
  BY DEF AccountsInv, AdminLeft, TokensTrue, AccountsSound
<1>. QED BY InitAccounts, NextKeeps, <1>1, PTL DEF AccountsSpec

-----------------------------------------------------------------------------
\* A row that is there has a role, and so has what a login or an update will write.
RolesFit ==
  /\ \A u \in Users : Has(u) => users[u].role \in Roles
  /\ \A r \in Requests : /\ request[r].at = "issue" => request[r].old.role \in Roles
                         /\ request[r].at = "write" => request[r].role \in Roles
  /\ \A t \in tokens : t.role \in Roles

LEMMA RequestRoles ==
  ASSUME AccountsInv, RolesFit, NEW r \in Requests, NEW rec,
         request' = [request EXCEPT ![r] = rec], UNCHANGED users, tokens' \subseteq tokens,
         rec.at = "issue" => rec.old.role \in Roles, rec.at = "write" => rec.role \in Roles
  PROVE  RolesFit'
<1>1. \A q \in Requests : request'[q] = IF q = r THEN rec ELSE request[q]
  BY DEF AccountsInv, AccountsShape
<1>. QED BY <1>1 DEF RolesFit, Has

\* A request that only moves on to another step.
LEMMA StepRoles ==
  ASSUME AccountsInv, RolesFit, NEW r \in Requests, NEW step, step # "issue",
         step = "write" => request[r].role \in Roles,
         request' = [request EXCEPT ![r].at = step], UNCHANGED tokens,
         \A u \in Users : Has(u)' => users'[u].role \in Roles
  PROVE  RolesFit'
<1>1. \A q \in Requests : q # r => request'[q] = request[q]
  BY DEF AccountsInv, AccountsShape
<1>2. request'[r].at = step /\ request'[r].role = request[r].role
  BY DEF AccountsInv, AccountsShape, Req
<1>. QED BY <1>1, <1>2 DEF RolesFit

LEMMA DoneRoles ==
  ASSUME AccountsInv, RolesFit, NEW r \in Requests, Done(r),
         \A u \in Users : Has(u)' => users'[u].role \in Roles, \A t \in tokens' : t.role \in Roles
  PROVE  RolesFit'
<1>1. \A q \in Requests : request'[q] = IF q = r THEN NoRequest ELSE request[q]
  BY DEF Done, AccountsInv, AccountsShape
<1>2. NoRequest.at = "idle"
  BY DEF NoRequest
<1>. QED BY <1>1, <1>2 DEF RolesFit

LEMMA BeginRoles ==
  ASSUME AccountsInv, RolesFit, NEW r \in Requests, NEW u \in Users,
         \/ Login(r, u) \/ handleDeleteUser(r, u)
         \/ \E role \in Roles, newPw \in BOOLEAN : handleUpdateUser(r, u, role, newPw)
  PROVE  RolesFit'
<1>0. users[u] \in UserRow /\ NoRequest \in Req
  BY DEF NoRequest, NoUser, Req, Step, UserRow, RowRole, Roles, Viewer, AccountsInv, AccountsShape
<1>1. CASE Login(r, u)
  <2>. DEFINE rec == [NoRequest EXCEPT !.at = "issue", !.user = u, !.old = users[u]]
  <2>1. rec.at = "issue" /\ rec.old = users[u]
    BY <1>0 DEF Req
  <2>2. request' = [request EXCEPT ![r] = rec] /\ UNCHANGED <<users, tokens>>
    BY <1>1 DEF Login, Begins
  <2>3. users[u].role \in Roles
    BY <1>1 DEF Login, RolesFit
  <2>. HIDE DEF rec
  <2>. QED BY <2>1, <2>2, <2>3, RequestRoles
<1>2. CASE handleDeleteUser(r, u)
  <2>. DEFINE rec == [NoRequest EXCEPT !.at = IF users[u].role = Admin THEN "check" ELSE "delete",
                                       !.user = u, !.role = "none", !.old = users[u]]
  <2>1. rec.at \in {"check", "delete"}
    BY <1>0 DEF Req
  <2>2. request' = [request EXCEPT ![r] = rec] /\ UNCHANGED <<users, tokens>>
    BY <1>2 DEF handleDeleteUser, Begins
  <2>. HIDE DEF rec
  <2>. QED BY <2>1, <2>2, RequestRoles
<1>3. ASSUME NEW role \in Roles, NEW newPw \in BOOLEAN, handleUpdateUser(r, u, role, newPw)
      PROVE  RolesFit'
  <2>. DEFINE rec == [at |-> IF users[u].role = Admin /\ role # Admin THEN "check" ELSE "write",
                      user |-> u, role |-> role, pw |-> IF newPw THEN 1 ELSE 0, old |-> users[u]]
  <2>1. rec.at \in {"check", "write"} /\ rec.role = role
    OBVIOUS
  <2>2. request' = [request EXCEPT ![r] = rec] /\ UNCHANGED <<users, tokens>>
    BY <1>3 DEF handleUpdateUser, Begins
  <2>. HIDE DEF rec
  <2>. QED BY <2>1, <2>2, RequestRoles
<1>. QED BY <1>1, <1>2, <1>3

LEMMA ChangeRoles ==
  ASSUME AccountsInv, RolesFit, NEW r \in Requests,
         Issue(r) \/ Check(r) \/ Write(r) \/ Delete(r) \/ StatementFails(r) \/ revokeUser(r)
  PROVE  RolesFit'
<1>0. /\ request[r] \in Req /\ request[r].user \in Users
      /\ \A u \in Users : Has(u) => users[u].role \in Roles
  BY DEF AccountsInv, AccountsShape, Req, RolesFit
<1>1. CASE Issue(r)
  <2>1. \A t \in tokens' : t.role \in Roles
    BY <1>1 DEF Issue, RolesFit
  <2>. QED BY <1>0, <1>1, <2>1, DoneRoles DEF Issue, Has
<1>2. CASE Check(r)
  <2>1. request[r].role # "none" => request[r].role \in Roles
    BY <1>0 DEF Req, RowRole
  <2>2. CASE Done(r)
    BY <1>0, <1>2, <2>2, DoneRoles DEF Check, Has, RolesFit
  <2>3. CASE GoesOn(r)
    BY <1>0, <1>2, <2>1, <2>3, StepRoles DEF Check, GoesOn, Has
  <2>. QED BY <1>2, <2>2, <2>3 DEF Check
<1>3. CASE Write(r)
  <2>1. tokens' = tokens /\ request[r].role \in Roles
    BY <1>3 DEF Write, RolesFit
  <2>2. \A u \in Users : Has(u)' => users'[u].role \in Roles
    BY <1>0, <1>3, <2>1 DEF Write, Has, AccountsInv, AccountsShape
  <2>3. CASE Done(r)
    BY <2>1, <2>2, <2>3, DoneRoles DEF RolesFit
  <2>4. CASE request' = [request EXCEPT ![r].at = "revoke"]
    BY <2>1, <2>2, <2>4, StepRoles
  <2>. QED BY <1>3, <2>3, <2>4 DEF Write
<1>4. CASE Delete(r)
  <2>1. tokens' = tokens /\ users' = [users EXCEPT ![request[r].user] = NoUser]
    BY <1>4 DEF Delete
  <2>2. \A u \in Users : Has(u)' => users'[u].role \in Roles
    BY <1>0, <2>1 DEF Has, AccountsInv, AccountsShape
  <2>3. CASE Done(r)
    BY <2>1, <2>2, <2>3, DoneRoles DEF RolesFit
  <2>4. CASE request' = [request EXCEPT ![r].at = "revoke"]
    BY <2>1, <2>2, <2>4, StepRoles
  <2>. QED BY <1>4, <2>3, <2>4 DEF Delete
<1>5. CASE revokeUser(r)
  BY <1>0, <1>5, DoneRoles DEF revokeUser, RolesFit, Has
<1>6. CASE StatementFails(r)
  BY <1>0, <1>6, DoneRoles DEF StatementFails, RolesFit, Has
<1>. QED BY <1>1, <1>2, <1>3, <1>4, <1>5, <1>6

LEMMA RolesKeep == AccountsInv /\ RolesFit /\ [AccountsNext]_accountVars => RolesFit'
<1>. SUFFICES ASSUME AccountsInv, RolesFit, [AccountsNext]_accountVars PROVE RolesFit'
  OBVIOUS
<1>1. CASE UNCHANGED accountVars
  BY <1>1 DEF accountVars, RolesFit, Has
<1>2. ASSUME NEW u \in Users, NEW role \in Roles, handleCreateUser(u, role)
      PROVE  RolesFit'
  BY <1>2 DEF handleCreateUser, RolesFit, Has, AccountsInv, AccountsShape
<1>3. ASSUME NEW t \in tokens, Revoke(t)
      PROVE  RolesFit'
  BY <1>3 DEF Revoke, RolesFit, Has
<1>4. CASE RestartServer
  <2>1. \A u \in Users : Has(u)' => users'[u].role \in Roles
    BY <1>4 DEF RestartServer, ensureSeedAdmin, RolesFit, Has, AccountsInv, AccountsShape, Roles, Admin
  <2>2. tokens' = {} /\ \A q \in Requests : request'[q].at = "idle"
    BY <1>4 DEF RestartServer, NoRequest
  <2>. QED BY <2>1, <2>2 DEF RolesFit
<1>. QED BY <1>1, <1>2, <1>3, <1>4, BeginRoles, ChangeRoles DEF AccountsNext

LEMMA RolesImply == AccountsInv /\ RolesFit => AccountsTypeOK
BY DEF AccountsInv, AccountsShape, RolesFit, AccountsTypeOK, UserRow, RowRole, Token

LEMMA InitRoles == AccountsInit => RolesFit
BY DEF AccountsInit, RolesFit, Has, NoRequest, NoUser, Roles, Admin

\* Rows and tokens have the roles there are, whatever requests overlap.
THEOREM AccountsTypeCorrect == AccountsSpec => []AccountsTypeOK
<1>. QED BY InitAccounts, NextKeeps, InitRoles, RolesKeep, RolesImply, PTL DEF AccountsSpec

-----------------------------------------------------------------------------
(* The parts together.                                                      *)
ServicesInv == GBInv /\ AccountsInv /\ RolesFit /\ NotifyInv /\ HATyping

(* Every part starts in its invariant.                                      *)
LEMMA ServicesInitInv == ServicesInit => ServicesInv
BY GBInitInv, InitAccounts, InitRoles, NotifyInitInv, HAInitTyping DEF ServicesInit, ServicesInv

(* One part moves and the others rest.                                      *)
LEMMA ServicesNextKeeps == ServicesInv /\ [ServicesNext]_servicesVars => ServicesInv'
<1> SUFFICES ASSUME ServicesInv, [ServicesNext]_servicesVars PROVE ServicesInv'
  OBVIOUS
<1>1. [GBNext]_gbVars /\ [AccountsNext]_accountVars /\ [NotifyNext]_notifyVars /\ [HANext]_haVars
  BY DEF ServicesNext, servicesVars
<1> QED BY <1>1, GBNextKeeps, NextKeeps, RolesKeep, NotifyNextKeeps, HANextTyped DEF ServicesInv

(* Every reachable state of the composite is one of its parts' invariants.  *)
LEMMA ServicesInvariant == ServicesSpec => []ServicesInv
BY ServicesInitInv, ServicesNextKeeps, PTL DEF ServicesSpec

(* The four parts keep their types.                                         *)
THEOREM ServicesTypeCorrect == ServicesSpec => []ServicesTypeOK
<1>1. ServicesInv => ServicesTypeOK
  BY GBInvImplies, RolesImply, NotifyInvImplies, HATypingImplies DEF ServicesInv, ServicesTypeOK
<1> QED BY <1>1, ServicesInvariant, PTL

(* A device is not left streaming unless Play gave up before it had read    *)
(* the answer or its server was replaced, and a Play takes another call's   *)
(* media for its own only after a round of the ports or with a new server,  *)
(* whatever is lost, repeated or late on the way.  Without the bounds of    *)
(* MCServices.                                                              *)
THEOREM CallsAreSound == GBSpec => []CallsSound
<1>1. GBInv => CallsSound
  BY GBInvImplies DEF GBInv, CallsSound
<1> QED BY <1>1, GBInitInv, GBNextKeeps, PTL DEF GBSpec

(* Alerts are MinInterval apart and every channel of one is tried; clients  *)
(* that live are in hand; subscriptions are of the key in use; for any      *)
(* number of deliveries and requests at once.                               *)
THEOREM AlertsAreSound == ServicesSpec => []AlertsSound
<1>1. ServicesInv => AlertsSound
  BY NotifyInvImplies DEF ServicesInv
<1> QED BY <1>1, ServicesInvariant, PTL

=============================================================================
