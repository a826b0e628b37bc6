--------------------------- MODULE WebhookHealth ---------------------------
(***************************************************************************)
(* What the database says of a session's webhook.  The end of each         *)
(* delivery is written without waiting for the write, of which one per     *)
(* session is under way and others are dropped (lib/webhookDispatcher.ts); *)
(* an audit probes every stored session now and then and writes what it    *)
(* finds (lib/webhookAudit.ts).  Either write may be lost, or dropped      *)
(* because the session was observed a moment ago (lib/webhookHealth.ts,    *)
(* DeviceStatus), and they may overtake each other.                        *)
(***************************************************************************)
EXTENDS Naturals

VARIABLES
  receiver, \* what the webhook's receiver answers to a delivery
  probed,   \* and to a probe of the audit
  meta,     \* the session's stored configuration, "none" before it exists
  chain,    \* the write of healthWriteChains, "none" without one
  audited,  \* WA_WEBHOOK_AUDIT_ENABLED
  running,  \* of lib/webhookAudit.ts
  verdict,  \* of the pass: "idle", "probe", or the result it writes
  health    \* the row's category

healthVars ==
  <<receiver, probed, meta, chain, audited, running, verdict, health>>

Answer == {"ok", "rejected", "none"}
Category == {"ok", "auth_rejected", "unreachable", "missing_meta", "invalid_config"}

(* attemptPost(): the category of an attempt.                              *)
CategoryOf(answer) ==
  CASE answer = "ok"       -> "ok"
    [] answer = "rejected" -> "auth_rejected"
    [] answer = "none"     -> "unreachable"

HealthInit ==
  /\ receiver \in Answer /\ probed \in Answer
  /\ meta = "none" /\ audited \in BOOLEAN
  /\ chain = "none" /\ running = FALSE /\ verdict = "idle" /\ health = "ok"

(* A delivery carries the session's webhook secret and goes to the URL the *)
(* session has in memory; a probe carries no such secret and goes to the   *)
(* stored URL.  The two may be answered differently.                       *)
ReceiverChanges ==
  /\ \/ receiver' \in Answer \ {receiver} /\ UNCHANGED probed
     \/ probed' \in Answer \ {probed} /\ UNCHANGED receiver
     \/ receiver' \in Answer /\ probed' = receiver'
  /\ UNCHANGED <<meta, chain, audited, running, verdict, health>>

MetaChanges ==
  /\ meta' \in {"missing", "invalid", "valid"} \ {meta}
  /\ UNCHANGED <<receiver, probed, chain, audited, running, verdict, health>>

-----------------------------------------------------------------------------
(* writeHealthWithoutBlocking(), when the last attempt of a delivery ends. *)
DeliveryEnds ==
  /\ meta # "none"
  /\ chain' = IF chain = "none" THEN CategoryOf(receiver) ELSE chain
  /\ UNCHANGED <<receiver, probed, meta, audited, running, verdict, health>>

\* mutant: a write that was rejected stays on the chain
WriteEndsInPlace(applied) ==
  /\ chain \notin {"none", "rejected"}
  /\ health' = IF applied THEN chain ELSE health
  /\ chain' = IF applied THEN "none" ELSE "rejected"
  /\ UNCHANGED <<receiver, probed, meta, audited, running, verdict>>

WriteEnds(applied) ==
  /\ chain # "none"
  /\ health' = IF applied THEN chain ELSE health
  /\ chain' = "none"
  /\ UNCHANGED <<receiver, probed, meta, audited, running, verdict>>

(* runWebhookAudit() comes to this session: a configuration that cannot    *)
(* work is written without a probe.  The timer's call ends at once while a *)
(* pass is running.                                                        *)
AuditStarts ==
  /\ audited /\ ~running /\ meta # "none"
  /\ running' = TRUE
  /\ verdict' = CASE meta = "missing" -> "missing_meta"
                [] meta = "invalid" -> "invalid_config"
                [] meta = "valid"   -> "probe"
  /\ UNCHANGED <<receiver, probed, meta, chain, audited, health>>

ProbeEnds ==
  /\ verdict = "probe"
  /\ verdict' = CategoryOf(probed)
  /\ UNCHANGED <<receiver, probed, meta, chain, audited, running, health>>

(* The pass ends by its last write, or because something threw.            *)
AuditEnds(applied, throws) ==
  /\ verdict # "idle" /\ (throws \/ verdict # "probe")
  /\ health' = IF applied /\ verdict # "probe" THEN verdict ELSE health
  /\ verdict' = "idle" /\ running' = FALSE
  /\ UNCHANGED <<receiver, probed, meta, chain, audited>>

HealthNext ==
  \/ ReceiverChanges \/ MetaChanges \/ DeliveryEnds \/ AuditStarts \/ ProbeEnds
  \/ \E applied \in BOOLEAN : \/ WriteEnds(applied)
                              \/ \E throws \in BOOLEAN : AuditEnds(applied, throws)

(* The session goes on having events, the audit's timer goes on firing if  *)
(* there is one, probes and writes end, and of the writes some arrive.     *)
HealthFairness ==
  /\ WF_healthVars(DeliveryEnds)
  /\ WF_healthVars(\E applied \in BOOLEAN : WriteEnds(applied))
  /\ WF_healthVars(AuditStarts) /\ WF_healthVars(ProbeEnds)
  /\ WF_healthVars(\E applied, throws \in BOOLEAN : AuditEnds(applied, throws))

HealthArrives ==
  WriteEnds(TRUE) \/ (verdict # "probe" /\ AuditEnds(TRUE, FALSE))

HealthSpec ==
  HealthInit /\ [][HealthNext]_healthVars /\ HealthFairness
    /\ SF_healthVars(HealthArrives)

-----------------------------------------------------------------------------
(* Properties.                                                             *)

(* Each variable has its type, and a pass is running while it is under way.*)
HealthTypeOK ==
  /\ chain \in Category \cup {"none"} /\ health \in Category
  /\ verdict \in Category \cup {"idle", "probe"}
  /\ running <=> verdict # "idle"

(* webhookDispatcher.ts:298-310: if the receiver goes on answering as it   *)
(* does, the row comes to say what it answers to a delivery or, with the   *)
(* audit on, to a probe, and nothing older, although results are dropped   *)
(* and a write of an old one may land after a newer one's.  Where the two  *)
(* are answered alike the row settles; where they are not (the receiver    *)
(* checks the secret a probe lacks) it says now the one, now the other.    *)
HealthFollows ==
  \A a, b \in Answer :
    <>[](receiver = a /\ (audited => probed = b) /\ meta = "valid")
      => <>[](health \in {CategoryOf(c) : c \in {a} \cup IF audited THEN {b} ELSE {}})
=============================================================================
