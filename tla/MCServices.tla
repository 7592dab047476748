------------------------------- MODULE MCServices ------------------------------
(***************************************************************************)
(* One run for the services around the cameras: GB/T 28181 calls, accounts, *)
(* alerts and the Home Assistant messages.  They share no state, so a      *)
(* behaviour is one of a single part and the others rest.                  *)
(***************************************************************************)
EXTENDS GBDialogue, Accounts, Notifier, HomeAssistant

CONSTANT LoneCamera  \* bound: the camera that calls when mishaps happen

ASSUME ServicesAssumption == LoneCamera \in GBCameras

VARIABLE part

ServicesInit ==
  /\ part \in {"calls", "mishaps", "accounts", "alerts", "home"}
  /\ GBInit /\ AccountsInit /\ NotifyInit /\ HAInit
  /\ part # "home" => push = {}

(* Bounds: all cameras call while nothing befalls device and server, or one *)
(* does, fewer times the more does; a request whose read fails comes with   *)
(* one other change, or with one alert; and a camera that pushes does less. *)
InBounds ==
  IF part = "calls" THEN mishaps' = 0
  ELSE calls' + mishaps' <= MaxCalls /\ \A c \in GBCameras \ {LoneCamera} : play'[c] = NoPlay

ServicesNext ==
  \/ part \in {"calls", "mishaps"} /\ GBNext /\ InBounds
     /\ UNCHANGED <<part, accountVars, notifyVars, haVars>>
  \/ part = "accounts" /\ AccountsNext /\ (unlisted' => changes' <= 2)
     /\ UNCHANGED <<part, gbVars, notifyVars, haVars>>
  \/ part = "alerts" /\ NotifyNext /\ (unread' => arrivals' <= 1)
     /\ UNCHANGED <<part, gbVars, accountVars, haVars>>
  \/ part = "home" /\ HANext /\ (push # {} => flips' < MaxFlips)
     /\ UNCHANGED <<part, gbVars, accountVars, notifyVars>>

servicesVars == <<part, gbVars, accountVars, notifyVars, haVars>>

(* The fairness of GBDialogue, whose steps are enabled in its part only, and *)
(* of HomeAssistant, for the part that runs.                                *)
CallsFairness ==
  \A c \in GBCameras : WF_gbVars(PlayStep(c)) /\ WF_gbVars(GiveUp(c))

HomeFairness ==
  /\ WF_haVars(part = "home" /\ ResyncStep) /\ WF_haVars(part = "home" /\ HandlerStep)
  /\ WF_haVars(part = "home" /\ Publishes) /\ WF_haVars(part = "home" /\ GoesDown)

ServicesSpec ==
  ServicesInit /\ [][ServicesNext]_servicesVars /\ CallsFairness /\ HomeFairness

(* The type invariants of the four parts.                                   *)
ServicesTypeOK == GBTypeOK /\ AccountsTypeOK /\ NotifyTypeOK /\ HATypeOK

(* A GB/T 28181 device is told when its call is over, and no call takes     *)
(* another one's media for its own, but for the cases named there           *)
(* (gb28181/play.go).                                                       *)
CallsSound == HungUpOrDeaf /\ ForeignOnlyAfterRound

(* A call the device has ended ends here, and the broker's picture of the   *)
(* cameras is right once nothing changes.                                   *)
ServicesSettle == DeadCallEnds /\ (part = "home" => HASettles)
=============================================================================
