------------------------------- MODULE Notifier -------------------------------
(***************************************************************************)
(* Alerts (notify/notify.go, channels.go) for one camera and kind: each    *)
(* one is delivered by a goroutine of its own, to the channels one after   *)
(* another, over an MQTT client all of them share (and Home Assistant's    *)
(* publisher too), and to the browsers subscribed with the VAPID key of    *)
(* the settings.  The settings are read, changed and written back as one   *)
(* blob by concurrent requests (api/notifications.go).                     *)
(***************************************************************************)
EXTENDS Integers, Sequences, FiniteSets

CONSTANTS
  Senders,      \* goroutines that deliver an alert or publish a state
  Admins,       \* concurrent requests about the settings
  MinInterval,  \* MinIntervalSeconds, in ticks
  MaxTicks,     \* bound: the time of the run
  MaxArrivals,  \* bound: alerts, states and requests about the settings, in all
  MaxLinkFaults \* bound: connects and publishes that fail

ASSUME NotifierAssumption ==
  /\ MinInterval \in Nat \ {0}
  /\ MaxTicks \in Nat /\ MaxArrivals \in Nat /\ MaxLinkFaults \in Nat

Never == -1 - MinInterval
Channels == {"webPush", "mqtt"}   \* of the settings, delivered to in this order
NoKey == 0
NoClient == 0
Alert == "alert"
State == "state"                  \* PublishRaw: to the broker only

VARIABLES
  ticks,
  wants,        \* settings: channels that are enabled and want the kind
  sig,          \* settings: signature of the broker's
  vapid,        \* settings: the key pair's number
  lastSent,
  mqtt,         \* n.mqtt: [client, sig]
  clients,      \* clients that are connected, or reconnect on their own
  made,         \* clients created
  sender, admin,
  subs,         \* stored subscriptions, by the key they were made with
  handed,       \* keys the browsers were told
  keys,         \* keys generated
  arrivals, linkFaults,
  accepted,     \* history: the alerts the throttle let through: [at, targets, tried]
  leaked,       \* history: clients a race or a timeout left behind
  crossedWrites,      \* history: a request about the settings met another one
  unread        \* history: one could not read the key pair there was, and went on without it

notifyVars == <<ticks, wants, sig, vapid, lastSent, mqtt, clients, made, sender, admin, subs,
                handed, keys, arrivals, linkFaults, accepted, leaked, crossedWrites, unread>>
settingsVars == <<wants, sig, vapid, admin, subs, handed, keys, crossedWrites, unread>>
mqttVars == <<mqtt, clients, made, linkFaults, leaked>>

IdleSender == [at |-> "idle", what |-> Alert, left |-> {}, sig |-> 0, key |-> NoKey, old |-> NoClient, client |-> NoClient, n |-> 0]
IdleAdmin  == [at |-> "idle", sees |-> NoKey, wants |-> {}, sig |-> 0]

NotifyInit ==
  /\ ticks = 0
  /\ wants = Channels /\ sig = 0 /\ vapid = NoKey
  /\ lastSent = Never
  /\ mqtt = [client |-> NoClient, sig |-> 0] /\ clients = {} /\ made = 0
  /\ sender = [s \in Senders |-> IdleSender]
  /\ admin = [r \in Admins |-> IdleAdmin]
  /\ subs = {} /\ handed = {} /\ keys = 0
  /\ arrivals = 0 /\ linkFaults = 0
  /\ accepted = <<>> /\ leaked = {} /\ crossedWrites = FALSE /\ unread = FALSE

LinkFault == linkFaults < MaxLinkFaults /\ linkFaults' = linkFaults + 1
Moves(s, rec) == sender' = [sender EXCEPT ![s] = rec]

-----------------------------------------------------------------------------
(* Notify: the settings are read and the channels that want the kind are    *)
(* collected before the throttle is asked.                                  *)
Notify(s) ==
  /\ sender[s].at = "idle" /\ arrivals < MaxArrivals
  /\ arrivals' = arrivals + 1
  /\ Moves(s, IF wants = {} THEN IdleSender
              ELSE [IdleSender EXCEPT !.at = "allow", !.sig = sig, !.key = vapid,
                                      !.left = wants])
  /\ UNCHANGED <<ticks, lastSent, accepted, settingsVars, mqttVars>>

allow(s) ==
  /\ sender[s].at = "allow"
  /\ IF ticks - lastSent < MinInterval
     THEN Moves(s, IdleSender) /\ UNCHANGED <<lastSent, accepted>>
     ELSE /\ lastSent' = ticks
          /\ accepted' = Append(accepted, [at |-> ticks, targets |-> sender[s].left, tried |-> {}])
          /\ Moves(s, [sender[s] EXCEPT !.at = "deliver", !.n = Len(accepted) + 1])
  /\ UNCHANGED <<ticks, arrivals, settingsVars, mqttVars>>

(* deliver, channel by channel; a failure is logged and the next one tried. *)
Channel(s) == IF "webPush" \in sender[s].left THEN "webPush" ELSE "mqtt"
Tried(s) == IF sender[s].what = State THEN accepted
            ELSE [accepted EXCEPT ![sender[s].n].tried = @ \cup {Channel(s)}]
AfterChannel(s) == LET left == sender[s].left \ {Channel(s)}
                   IN IF left = {} THEN IdleSender
                      ELSE [sender[s] EXCEPT !.at = "deliver", !.left = left]

(* Every subscription is tried; one the push service no longer knows is     *)
(* pruned (a browser refuses an alert that another key signs).              *)
sendWebPush(s) ==
  /\ sender[s].at = "deliver" /\ Channel(s) = "webPush"
  /\ subs' \in {subs} \cup {subs \ {k} : k \in subs}
  /\ accepted' = Tried(s)
  /\ Moves(s, AfterChannel(s))
  /\ UNCHANGED <<ticks, wants, sig, vapid, admin, handed, keys, crossedWrites, unread, lastSent, arrivals, mqttVars>>

(* PublishRaw, for Home Assistant.                                          *)
PublishRaw(s) ==
  /\ sender[s].at = "idle" /\ arrivals < MaxArrivals
  /\ arrivals' = arrivals + 1
  /\ Moves(s, [IdleSender EXCEPT !.at = "deliver", !.what = State, !.sig = sig, !.left = {"mqtt"}])
  /\ UNCHANGED <<ticks, lastSent, accepted, settingsVars, mqttVars>>

(* mqttClient, first half: take the shared client, or take it down.         *)
mqttClient(s) ==
  LET q == sender[s]
  IN /\ q.at = "deliver" /\ Channel(s) = "mqtt"
     /\ IF mqtt.client # NoClient /\ mqtt.sig = q.sig
        THEN Moves(s, [q EXCEPT !.at = "publish", !.client = mqtt.client]) /\ UNCHANGED mqtt
        ELSE /\ mqtt' = [mqtt EXCEPT !.client = NoClient]
             /\ Moves(s, [q EXCEPT !.at = "close", !.old = mqtt.client])
     /\ UNCHANGED <<ticks, lastSent, accepted, arrivals, settingsVars, clients, made, linkFaults, leaked>>

(* The client found not connected: the broker is away.                      *)
mqttClientAway(s) ==
  LET q == sender[s]
  IN /\ q.at = "deliver" /\ Channel(s) = "mqtt" /\ mqtt.client # NoClient
     /\ LinkFault
     /\ mqtt' = [mqtt EXCEPT !.client = NoClient]
     /\ Moves(s, [q EXCEPT !.at = "close", !.old = mqtt.client])
     /\ UNCHANGED <<ticks, lastSent, accepted, arrivals, settingsVars, clients, made, leaked>>

closeOldLeavingOpen(s) == \* mutant: the old client is not disconnected
  /\ sender[s].at = "close"
  /\ Moves(s, [sender[s] EXCEPT !.at = "connect"])
  /\ UNCHANGED <<ticks, lastSent, accepted, arrivals, settingsVars, mqttVars>>

closeOld(s) ==
  /\ sender[s].at = "close"
  /\ clients' = clients \ {sender[s].old}
  /\ Moves(s, [sender[s] EXCEPT !.at = "connect"])
  /\ UNCHANGED <<ticks, lastSent, accepted, arrivals, settingsVars, mqtt, made, linkFaults, leaked>>

(* Connect, and wait for eight seconds; a connection that comes about later *)
(* belongs to nobody.                                                       *)
Connect(s) ==
  /\ sender[s].at = "connect"
  /\ made' = made + 1
  /\ \/ /\ clients' = clients \cup {made + 1}
        /\ Moves(s, [sender[s] EXCEPT !.at = "store", !.client = made + 1])
        /\ UNCHANGED <<linkFaults, leaked, accepted>>
     \/ /\ LinkFault
        /\ \/ clients' = clients \cup {made + 1} /\ leaked' = leaked \cup {made + 1}
           \/ UNCHANGED <<clients, leaked>>
        /\ accepted' = Tried(s)
        /\ Moves(s, AfterChannel(s))
  /\ UNCHANGED <<ticks, lastSent, arrivals, settingsVars, mqtt>>

(* mqttClient, second half: whoever comes last is the shared one.           *)
Store(s) ==
  /\ sender[s].at = "store"
  /\ leaked' = leaked \cup ({mqtt.client} \ {NoClient})
  /\ mqtt' = [client |-> sender[s].client, sig |-> sender[s].sig]
  /\ Moves(s, [sender[s] EXCEPT !.at = "publish"])
  /\ UNCHANGED <<ticks, lastSent, accepted, arrivals, settingsVars, clients, made, linkFaults>>

Publish(s) ==
  /\ sender[s].at = "publish"
  /\ accepted' = Tried(s)
  /\ Moves(s, AfterChannel(s))
  /\ UNCHANGED <<ticks, lastSent, arrivals, settingsVars, mqttVars>>

-----------------------------------------------------------------------------
(* The settings.                                                            *)

Edit(r, rec) ==
  /\ admin[r].at = "idle" /\ arrivals < MaxArrivals
  /\ arrivals' = arrivals + 1
  /\ admin' = [admin EXCEPT ![r] = rec]
  /\ crossedWrites' = (crossedWrites \/ \E q \in Admins : admin[q].at # "idle")
  /\ UNCHANGED <<ticks, lastSent, accepted, sender, mqttVars, wants, sig, vapid, subs, handed, keys>>

(* handleSetNotifications: the key pair is carried over from what was read, *)
(* and an error of the read is ignored: then it is that of the defaults.    *)
handleSetNotifications(r) ==
  \E chosen \in SUBSET Channels, sg \in 0..1, seen \in {vapid, NoKey} :
    /\ Edit(r, [at |-> "save", sees |-> seen, wants |-> chosen, sig |-> sg])
    /\ unread' = (unread \/ seen # vapid)

(* handleVAPIDPublicKey writes back all it read.                            *)
handleVAPIDPublicKey(r) ==
  /\ Edit(r, [at |-> IF vapid = NoKey THEN "saveKey" ELSE "tell", sees |-> vapid, wants |-> wants, sig |-> sig])
  /\ UNCHANGED unread

(* SetNotifications or GenerateVAPIDKeys fails: an error, and no key told.  *)
SaveFails(r) ==
  /\ admin[r].at \in {"save", "saveKey"}
  /\ admin' = [admin EXCEPT ![r] = IdleAdmin]
  /\ UNCHANGED <<ticks, lastSent, accepted, arrivals, sender, mqttVars, wants, sig, vapid, subs, handed, keys,
                 crossedWrites, unread>>

Save(r) ==
  LET q == admin[r]
      generates == q.sees = NoKey /\ (q.at = "saveKey" \/ "webPush" \in q.wants)
      key == IF generates THEN keys + 1 ELSE q.sees
  IN /\ q.at \in {"save", "saveKey"}
     /\ keys' = IF generates THEN keys + 1 ELSE keys
     /\ wants' = q.wants /\ sig' = q.sig /\ vapid' = key
     /\ admin' = [admin EXCEPT ![r] = IF q.at = "save" THEN IdleAdmin ELSE [q EXCEPT !.at = "tell", !.sees = key]]
     /\ UNCHANGED <<ticks, lastSent, accepted, arrivals, sender, mqttVars, subs, handed, crossedWrites, unread>>

Tell(r) ==
  /\ admin[r].at = "tell"
  /\ handed' = handed \cup {admin[r].sees}
  /\ admin' = [admin EXCEPT ![r] = IdleAdmin]
  /\ UNCHANGED <<ticks, lastSent, accepted, arrivals, sender, mqttVars, wants, sig, vapid, subs, keys, crossedWrites, unread>>

(* A browser subscribes with the key it was told.                           *)
handleSubscribePush ==
  /\ \E k \in handed : subs' = subs \cup {k}
  /\ UNCHANGED <<ticks, lastSent, accepted, arrivals, sender, mqttVars, wants, sig, vapid, admin, handed, keys, crossedWrites, unread>>

Tick ==
  /\ ticks < MaxTicks /\ ticks' = ticks + 1
  /\ UNCHANGED <<lastSent, accepted, arrivals, sender, mqttVars, settingsVars>>

NotifyNext ==
  \/ Tick \/ handleSubscribePush
  \/ \E s \in Senders :
       \/ Notify(s) \/ allow(s) \/ sendWebPush(s) \/ PublishRaw(s)
       \/ mqttClient(s) \/ mqttClientAway(s) \/ closeOld(s) \/ Connect(s) \/ Store(s) \/ Publish(s)
  \/ \E r \in Admins : handleSetNotifications(r) \/ handleVAPIDPublicKey(r) \/ Save(r) \/ SaveFails(r) \/ Tell(r)

-----------------------------------------------------------------------------
NotifyTypeOK ==
  /\ ticks \in 0..MaxTicks
  /\ clients \subseteq 1..made /\ mqtt.client \in 0..made
  /\ subs \subseteq handed /\ handed \subseteq 1..keys
  /\ \A i \in DOMAIN accepted : accepted[i].tried \subseteq accepted[i].targets

Holds(s) == {sender[s].old, sender[s].client}

(* Alerts let through are MinInterval apart, each for a channel that wanted *)
(* it ("so a suppressed kind does not eat the next allowed notification's   *)
(* window", notify.go 58-59); every channel is tried whatever the others    *)
(* did (47-48); a client that lives is the shared one or in somebody's      *)
(* hands, except where two built one at once or one connected too late      *)
(* (channels.go 216-257); and a subscription was made with the key alerts   *)
(* are signed with ("always carried forward", notifications.go 73-74),      *)
(* unless requests about the settings met, or one could not read the key    *)
(* pair it was to carry forward and nobody looked at the error (52).        *)
AlertsSound ==
  /\ \A i, j \in DOMAIN accepted : i < j => accepted[j].at - accepted[i].at >= MinInterval
  /\ \A i \in DOMAIN accepted :
       /\ accepted[i].targets # {}
       /\ (\A s \in Senders : sender[s].at = "idle" \/ sender[s].n # i) => accepted[i].tried = accepted[i].targets
  /\ \A c \in clients \ leaked : c = mqtt.client \/ \E s \in Senders : sender[s].at \in {"close", "store"} /\ c \in Holds(s)
  /\ crossedWrites \/ unread \/ subs \subseteq {vapid}
=============================================================================
