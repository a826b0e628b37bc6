------------------------------ MODULE Webhooks ------------------------------
(***************************************************************************)
(* The webhooks of one session (lib/webhookDispatcher.ts): the event       *)
(* handlers of providers/baileys/baileysProvider.ts post what they have    *)
(* one event after another, each is tried MaxRetries times with pauses     *)
(* between, and what could not be delivered goes to a bounded log in       *)
(* memory.  Handlers do not wait for each other.  A receiver may take an   *)
(* event whose answer is then lost, so an event can arrive twice, and one  *)
(* that is in the log can have arrived.                                    *)
(***************************************************************************)
EXTENDS Naturals, Sequences, SequencesExt

CONSTANTS
  Batch,             \* bound: the runs of handlers
  Body,              \* the events each of them posts
  MaxRetries,
  MaxFailuresStored

ASSUME WebhookConstants ==
  /\ MaxRetries \in Nat \ {0} /\ MaxFailuresStored \in Nat \ {0}
  /\ \A b \in Batch : Body[b] \in Seq(ToSet(Body[b])) \ {<<>>}

(* Each event is posted by one handler, once.                              *)
ASSUME EventAssumption ==
  \A b, c \in Batch : \A i \in DOMAIN Body[b], k \in DOMAIN Body[c] :
    Body[b][i] = Body[c][k] => b = c /\ i = k

VARIABLES
  phase,      \* of a handler: "ready", "post", "pause", "done"
  index,      \* the event it is at
  attempt,    \* and the attempt at it
  safe,       \* the session's URL passes assertSafeOutboundUrl()
  failureLog,
  arrived,    \* history: the events that arrived
  excused     \* history: those that left the log or were lost with the process

webhookVars == <<phase, index, attempt, safe, failureLog, arrived, excused>>

EventsOf(b) == ToSet(Body[b])
Event(b) == Body[b][index[b]]

WebhooksInit ==
  /\ phase = [b \in Batch |-> "ready"] /\ index = [b \in Batch |-> 1]
  /\ attempt = [b \in Batch |-> 1]
  /\ safe \in BOOLEAN
  /\ failureLog = <<>> /\ arrived = {} /\ excused = {}

Begun(b) == phase[b] \in {"post", "pause"} \/ index[b] > 1

(* The process ends, and what is in memory with it.                        *)
ProcessEnds(begun) ==
  /\ phase' = [b \in Batch |-> IF b \in begun THEN "done" ELSE phase[b]]
  /\ failureLog' = <<>>
  /\ excused' = excused \cup ToSet(failureLog)
                  \cup UNION {EventsOf(b) : b \in begun}
  /\ UNCHANGED <<index, attempt, safe, arrived>>

Crash == ProcessEnds({b \in Batch : Begun(b)})

-----------------------------------------------------------------------------
(* postWebhook() up to its first attempt.  It throws at a URL that is not  *)
(* safe, which no handler catches: the rejection ends the process          *)
(* (lib/crashCapture.ts:136-139).                                          *)
PostBegins(b) ==
  /\ phase[b] = "ready"
  /\ IF safe
     THEN /\ phase' = [phase EXCEPT ![b] = "post"]
          /\ UNCHANGED <<index, attempt, safe, failureLog, arrived, excused>>
     ELSE ProcessEnds({x \in Batch : Begun(x)} \cup {b})

(* attemptPost() ends by an answer, an error or its timer of ten seconds.  *)
Arrives(b, taken) ==
  arrived' = IF taken THEN arrived \cup {Event(b)} ELSE arrived

(* The event is done with, and the handler's loop goes on to the next.     *)
Settled(b) ==
  /\ attempt' = [attempt EXCEPT ![b] = 1]
  /\ IF index[b] < Len(Body[b])
     THEN /\ index' = [index EXCEPT ![b] = @ + 1]
          /\ phase' = [phase EXCEPT ![b] = "ready"]
     ELSE phase' = [phase EXCEPT ![b] = "done"] /\ UNCHANGED index

Delivered(b) ==
  /\ phase[b] = "post"
  /\ Arrives(b, TRUE) /\ Settled(b)
  /\ UNCHANGED <<safe, failureLog, excused>>

(* failureLog keeps the last MaxFailuresStored failures.  What the code    *)
(* keeps of one is its organization, URL, time and error; the event is     *)
(* named here so that the property can say whose failure it is.            *)
Log(e) ==
  LET log == Append(failureLog, e) IN
  IF Len(log) > MaxFailuresStored
  THEN failureLog' = Tail(log) /\ excused' = excused \cup {Head(log)}
  ELSE failureLog' = log /\ UNCHANGED excused

AttemptFails(b, taken) ==
  /\ phase[b] = "post"
  /\ Arrives(b, taken)
  /\ IF attempt[b] < MaxRetries
     THEN /\ phase' = [phase EXCEPT ![b] = "pause"]
          /\ UNCHANGED <<index, attempt, failureLog, excused>>
     ELSE Settled(b) /\ Log(Event(b))
  /\ UNCHANGED safe

\* mutant: while the event waits for its next attempt the loop goes on
PauseEndsBehind(b) ==
  /\ phase[b] = "pause"
  /\ Settled(b)
  /\ UNCHANGED <<safe, failureLog, arrived, excused>>

(* The pause before the next attempt, which goes to the same URL with the  *)
(* same secret whatever became of the session meanwhile.                   *)
PauseEnds(b) ==
  /\ phase[b] = "pause"
  /\ phase' = [phase EXCEPT ![b] = "post"]
  /\ attempt' = [attempt EXCEPT ![b] = @ + 1]
  /\ UNCHANGED <<index, safe, failureLog, arrived, excused>>

(* updateWebhookUrl(), for the events that are posted from then on.        *)
UrlUpdated ==
  /\ safe' = ~safe
  /\ UNCHANGED <<phase, index, attempt, failureLog, arrived, excused>>

(* clearWebhookFailures(), by DELETE /webhook-failures.                    *)
FailuresCleared ==
  /\ failureLog # <<>>
  /\ failureLog' = <<>> /\ excused' = excused \cup ToSet(failureLog)
  /\ UNCHANGED <<phase, index, attempt, safe, arrived>>

Steps(b) ==
  \/ PostBegins(b) \/ Delivered(b) \/ PauseEnds(b)
  \/ \E taken \in BOOLEAN : AttemptFails(b, taken)

WebhooksNext ==
  \/ \E b \in Batch : Steps(b)
  \/ UrlUpdated \/ FailuresCleared \/ Crash

WebhooksSpec == WebhooksInit /\ [][WebhooksNext]_webhookVars

-----------------------------------------------------------------------------
(* Properties.                                                             *)

(* Each variable has its type, and the log its bound.                      *)
WebhooksTypeOK ==
  /\ phase \in [Batch -> {"ready", "post", "pause", "done"}]
  /\ \A b \in Batch : /\ index[b] \in DOMAIN Body[b]
                      /\ attempt[b] \in 1..MaxRetries
  /\ Len(failureLog) <= MaxFailuresStored
  /\ IsInjective(failureLog)

(* The events that are behind a handler, or behind one that arrived.       *)
Passed(b) ==
  {Body[b][i] : i \in {j \in DOMAIN Body[b] :
     \/ j < index[b] \/ (j = index[b] /\ phase[b] = "done")
     \/ \E k \in DOMAIN Body[b] : j < k /\ Body[b][k] \in arrived}}

(* webhookDispatcher.ts:259-279, baileysProvider.ts:370-535: no event      *)
(* vanishes and none is overtaken.  Before a handler goes on from an event *)
(* or the receiver gets a later one of that handler, the event arrived or  *)
(* is in the log, unless younger failures pushed it out, the operator      *)
(* cleared it or the process ended.                                        *)
NoEventIsPassedBy ==
  \A b \in Batch : Passed(b) \subseteq arrived \cup ToSet(failureLog) \cup excused
=============================================================================
