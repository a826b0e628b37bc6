------------------------------ MODULE MCEvents ------------------------------
(***************************************************************************)
(* What the service says of a session, for TLC: its status in the          *)
(* databases, the alerts to the staff, its webhooks and their health.      *)
(* These share nothing but the session, so each behaviour runs one of them *)
(* (the part), chosen at the start, while the others stay where they       *)
(* began.  The session of the alerts is an instance of its own.            *)
(***************************************************************************)
EXTENDS DeviceStatus, Webhooks, WebhookHealth, TLC

CONSTANTS
  b1, b2, e1, e2, e3, e4,
  Pass, OutageAlert

VARIABLES
  part,
  outage,                         \* the live session of the alerts
  since, pass, alerted  \* the variables of OutageAlerts

Alerts == INSTANCE OutageAlerts WITH live <- outage

outageVars == <<outage, since, pass, alerted>>
eventsVars == <<statusVars, webhookVars, healthVars, outageVars, part>>

MCBody == b1 :> <<e1, e2>> @@ b2 :> <<e3, e4>>

EventsInit ==
  /\ StatusInit /\ WebhooksInit /\ HealthInit /\ Alerts!AlertsInit
  /\ part \in {"status", "alerts", "webhooks", "health"}
  /\ part # "webhooks" => safe
  /\ part # "health" => receiver = "ok" /\ probed = "ok" /\ audited

InStatus ==
  part = "status" /\ UNCHANGED <<webhookVars, healthVars, outageVars, part>>
InAlerts ==
  part = "alerts" /\ UNCHANGED <<statusVars, webhookVars, healthVars, part>>
InWebhooks ==
  part = "webhooks" /\ UNCHANGED <<statusVars, healthVars, outageVars, part>>
InHealth ==
  part = "health" /\ UNCHANGED <<statusVars, webhookVars, outageVars, part>>

EventsNext ==
  \/ StatusNext /\ InStatus
  \/ Alerts!AlertsNext /\ InAlerts
  \/ WebhooksNext /\ InWebhooks
  \/ HealthNext /\ InHealth

(* The strong fairness of the parts, of which each behaviour runs one.     *)
SomeGetThrough ==
  \/ HeartbeatArrives /\ InStatus
  \/ Alerts!PassIsServed /\ InAlerts
  \/ HealthArrives /\ InHealth

EventsSpec ==
  /\ EventsInit
  /\ [][EventsNext]_eventsVars
  /\ StatusFairness /\ Alerts!AlertsFairness /\ HealthFairness
  /\ SF_eventsVars(SomeGetThrough)

-----------------------------------------------------------------------------
(* waDeviceMonitor.ts:157-166,242: the alert of the session outage follows *)
(* it (OutageAlerts).                                                      *)
AlertFollows == Alerts!AlertFollows
=============================================================================
