---------------------------- MODULE DeviceStatus ----------------------------
(***************************************************************************)
(* How the state of a session reaches the databases.  Each connection      *)
(* event has a handler (baileysProvider.ts) that writes the hub's row      *)
(* (lib/supabase.ts), then JumpStart's (lib/waDeviceWrite.ts), and         *)
(* handlers of later events do not wait for it.  JumpStart's row is also   *)
(* written by a heartbeat that is sent every minute, whether or not the    *)
(* last one was answered (lib/waDeviceMonitor.ts), and by webhook audits   *)
(* (lib/webhookHealth.ts).  What is observed of a session goes through     *)
(* lib/waDeviceObservation.ts, which spares the database.                  *)
(*                                                                         *)
(* Any request may be lost, applied late, or applied and its answer lost.  *)
(***************************************************************************)
EXTENDS LiveSession, FiniteSets

CONSTANTS
  Handler,  \* bound: connection events being handled at once
  Beat,     \* bound: heartbeats under way at once
  Window,   \* the 30 seconds an observation holds its slot, in ticks
  Nobody

ASSUME StatusConstants ==
  Window \in Nat \ {0} /\ Nobody \notin Handler \cup {"audit"} /\ "audit" \notin Handler

VARIABLES
  handler,  \* what each handler is at
  beat,     \* what each heartbeat under way says
  audit,    \* an audit observation is under way: "idle", "observe"
  slot,     \* the session's entry of attempts, by the call that made it
  row,      \* JumpStart's row
  hub,      \* the hub's row says connected
  reserved  \* history: the reservations that have not failed

statusVars == <<live, handler, beat, audit, slot, row, hub, reserved>>

Caller == Handler \cup {"audit"}
Idle == [at |-> "idle", status |-> "none"]
NoSlot == [by |-> Nobody, age |-> Window]
Outcome == {"applied", "lost", "unanswered"}

StatusInit ==
  /\ LiveInit
  /\ handler = [h \in Handler |-> Idle]
  /\ beat = [b \in Beat |-> "none"]
  /\ audit = "idle"
  /\ slot = NoSlot /\ reserved = {}
  /\ row = [status |-> "disconnected", error |-> FALSE]
  /\ hub = FALSE

-----------------------------------------------------------------------------
(* createDeviceObserver(): one observation in Window is due, and reserves  *)
(* the slot before its request leaves; a status is sent all the same.      *)
Due == slot.age >= Window

Reserve(c) ==
  IF Due
  THEN /\ slot' = [by |-> c, age |-> 0]
       /\ reserved' = reserved \cup {[by |-> c, age |-> 0]}
  ELSE UNCHANGED <<slot, reserved>>

Finished(c, s) == IF s.by = c THEN [s EXCEPT !.by = Nobody] ELSE s

\* mutant: a request that failed frees the slot whoever has it by then
ReleaseAnyones(c, outcome) ==
  IF outcome = "applied"
  THEN /\ slot' = Finished(c, slot)
       /\ reserved' = {Finished(c, r) : r \in reserved}
  ELSE /\ slot' = NoSlot
       /\ reserved' = {r \in reserved : r.by # c}

(* Its request ends: one that failed gives up the slot it still holds.     *)
Release(c, outcome) ==
  IF outcome = "applied"
  THEN /\ slot' = Finished(c, slot)
       /\ reserved' = {Finished(c, r) : r \in reserved}
  ELSE /\ slot' = IF slot.by = c THEN NoSlot ELSE slot
       /\ reserved' = {r \in reserved : r.by # c}

(* 4096 other sessions push the oldest entry out of attempts.              *)
Evicted ==
  /\ ~Due
  /\ slot' = NoSlot /\ reserved' = {}
  /\ UNCHANGED <<live, handler, beat, audit, row, hub>>

TimePasses ==
  LET Older(s) == [s EXCEPT !.age = @ + 1] IN
  /\ ~Due
  /\ slot' = IF slot.age + 1 < Window THEN Older(slot)
             ELSE [slot EXCEPT !.age = Window]
  /\ reserved' = {Older(r) : r \in {x \in reserved : x.age + 1 < Window}}
  /\ UNCHANGED <<live, handler, beat, audit, row, hub>>

-----------------------------------------------------------------------------
(* The connection.update handlers: the session moves, and a handler begins *)
(* with the hub's row.                                                     *)
Handles(h, status) ==
  /\ handler[h] = Idle
  /\ handler' = [handler EXCEPT ![h] = [at |-> "hub", status |-> status]]

ConnectionEvent(h) ==
  /\ \/ QrShown /\ Handles(h, "qr")
     \/ Opened /\ Handles(h, "connected")
     \/ (Closed \/ Stopped) /\ Handles(h, "disconnected")
  /\ UNCHANGED <<beat, audit, slot, row, hub, reserved>>

QuietMove ==
  /\ Starts \/ SocketDied
  /\ UNCHANGED <<handler, beat, audit, slot, row, hub, reserved>>

(* updateDeviceStatus() returns whether or not the write succeeded.        *)
HubWritten(h, outcome) ==
  /\ handler[h].at = "hub"
  /\ hub' = IF outcome = "lost" THEN hub
            ELSE handler[h].status = "connected"
  /\ handler' = [handler EXCEPT ![h].at = "observe"]
  /\ Reserve(h)
  /\ UNCHANGED <<live, beat, audit, row>>

(* writeWaDeviceStatus(): a QR code and a connection clear the error.      *)
RowOf(status) ==
  [status |-> IF status = "qr" THEN "pending" ELSE status,
   error |-> status = "disconnected"]

StatusObserved(h, outcome) ==
  /\ handler[h].at = "observe"
  /\ row' = IF outcome = "lost" THEN row ELSE RowOf(handler[h].status)
  /\ handler' = [handler EXCEPT ![h] = Idle]
  /\ Release(h, outcome)
  /\ UNCHANGED <<live, beat, audit, hub>>

(* persistWebhookHealth(): without a status there is nothing to send       *)
(* unless it is due.                                                       *)
AuditObserves ==
  /\ audit = "idle" /\ Due
  /\ audit' = "observe" /\ Reserve("audit")
  /\ UNCHANGED <<live, handler, beat, row, hub>>

AuditObserved(outcome) ==
  /\ audit = "observe"
  /\ audit' = "idle" /\ Release("audit", outcome)
  /\ UNCHANGED <<live, handler, beat, row, hub>>

-----------------------------------------------------------------------------
\* mutant: the heartbeat believes the session, not the socket
TrustingUpdate ==
  CASE live.status = "connected" -> "connected"
    [] live.status = "qr" -> "pending"
    [] OTHER -> "disconnected"

(* buildHeartbeatUpdates(): what the heartbeat says of the session.        *)
HeartbeatUpdate ==
  CASE Connected -> "connected"
    [] live.status = "qr" -> "pending"
    [] OTHER -> "disconnected"

(* runHeartbeatTick(), up to its request and from there.                   *)
HeartbeatLeaves(b) ==
  /\ live.held /\ beat[b] = "none"
  /\ beat' = [beat EXCEPT ![b] = HeartbeatUpdate]
  /\ UNCHANGED <<live, handler, audit, slot, row, hub, reserved>>

HeartbeatEnds(b, outcome) ==
  /\ beat[b] # "none"
  /\ beat' = [beat EXCEPT ![b] = "none"]
  /\ row' = IF outcome = "lost" THEN row
            ELSE [status |-> beat[b],
                  error |-> row.error /\ beat[b] # "connected"]
  /\ UNCHANGED <<live, handler, audit, slot, hub, reserved>>

StatusNext ==
  \/ \E h \in Handler : ConnectionEvent(h)
  \/ \E h \in Handler, o \in Outcome : HubWritten(h, o) \/ StatusObserved(h, o)
  \/ \E b \in Beat : HeartbeatLeaves(b)
  \/ \E b \in Beat, o \in Outcome : HeartbeatEnds(b, o)
  \/ AuditObserves
  \/ \E o \in Outcome : AuditObserved(o)
  \/ Evicted \/ TimePasses \/ QuietMove

(* Requests end, the interval timer sends heartbeats, and of those that    *)
(* are sent for ever some arrive.                                          *)
StatusFairness ==
  /\ \A h \in Handler :
       /\ WF_statusVars(\E o \in Outcome : HubWritten(h, o))
       /\ WF_statusVars(\E o \in Outcome : StatusObserved(h, o))
  /\ \A b \in Beat : /\ WF_statusVars(HeartbeatLeaves(b))
                     /\ WF_statusVars(\E o \in Outcome : HeartbeatEnds(b, o))

HeartbeatArrives == \E b \in Beat : HeartbeatEnds(b, "applied")

StatusSpec ==
  StatusInit /\ [][StatusNext]_statusVars /\ StatusFairness
    /\ SF_statusVars(HeartbeatArrives)

-----------------------------------------------------------------------------
(* Properties.                                                             *)

(* Each variable has its type, and a slot held by a call is a running      *)
(* call's.                                                                 *)
StatusTypeOK ==
  /\ live.status \in {"connecting", "connected", "qr", "disconnected"}
  /\ row.status \in {"connected", "pending", "disconnected"}
  /\ hub \in BOOLEAN
  /\ slot.by \in Caller \cup {Nobody} /\ slot.age \in 0..Window
  /\ slot.by \in Handler => handler[slot.by].at = "observe"
  /\ slot.by = "audit" => audit = "observe"

(* waDeviceObservation.ts:20-43: the slot that silences a session's        *)
(* observations is always the one reservation of the last Window that did  *)
(* not fail: a failure never silences, and no two reservations that count  *)
(* are closer than Window, also when a slow request fails after another    *)
(* took the slot.                                                          *)
SlotIsReservation ==
  reserved = IF Due THEN {} ELSE {slot}

(* waDeviceMonitor.ts:80-108: if a session stays as it is, JumpStart's row *)
(* comes to say so and goes on saying so, although status writes are lost  *)
(* and overtake each other.                                                *)
RowConverges ==
  /\ <>[](live.held /\ Connected)
       => <>[](row = [status |-> "connected", error |-> FALSE])
  /\ <>[](live.held /\ live.status = "qr") => <>[](row.status = "pending")
  /\ <>[](live.held /\ ~Connected /\ live.status # "qr")
       => <>[](row.status = "disconnected")
=============================================================================
