----------------------------- MODULE SendRoutes -----------------------------
(***************************************************************************)
(* A message from its HTTP request to WhatsApp: the handlers that send     *)
(* (routes/messages.ts, routes/sessions.ts), the job in the sender pool    *)
(* (pool/senderPool.ts, whose order and limits are SenderPool's), and the  *)
(* delivery it runs (lib/sendDirect.ts, the providers' sendMessage).       *)
(*                                                                         *)
(* A request waits for its job no longer than the pool's ceiling, the pool *)
(* for the delivery no longer than the send timeout; neither stops it.     *)
(***************************************************************************)
EXTENDS WaDevice, Sequences

CONSTANTS
  Sending,  \* requests that send
  Path,     \* the route of each: "send", "bulk" or "sessionSend"
  Body,     \* its messages, in order
  Message,  \* all of them, each in one request
  Queued,   \* marketing messages that ask to be queued and not waited for
  NoMsg     \* the worker waits for nothing

ASSUME SendingAssumption ==
  /\ Path \in [Sending -> {"send", "bulk", "sessionSend"}]
  /\ Body \in [Sending -> Seq(Message)] /\ Queued \subseteq Message
  /\ \A q \in Sending : /\ Body[q] # <<>>
                        /\ Path[q] # "bulk" => Len(Body[q]) = 1
  /\ NoMsg \notin Message /\ Sending \cap Message = {}

(* A message is named for its place in its request.                        *)
ASSUME MessagesAreDistinct ==
  \A q, p \in Sending : \A i \in DOMAIN Body[q], j \in DOMAIN Body[p] :
    Body[q][i] = Body[p][j] => q = p /\ i = j

VARIABLES
  step,     \* where each handler stands
  index,    \* which of its messages it is at
  results,  \* what it has to say of each, in order
  code,     \* the status it answered with
  job,      \* where each message's job stands
  worker,   \* the job the pool's worker waits for
  handle,   \* the socket each delivery took
  sent,     \* history: messages given to WhatsApp
  acked,    \* history: messages whose delivery heard it was accepted
  look,     \* how far each handler or delivery has read the policy
  held      \* history: what was so of the device while each message's policy
            \* was read for the last time

sendVars ==
  <<step, index, results, code, job, worker, handle, sent, acked, look, held>>

Refusals == {"listen_only", "unavailable", "not_connected"}

Outcome == Refusals \cup {"sent", "queued", "send_timeout", "failed"}

SendRoutesInit ==
  /\ DeviceInit
  /\ step = [q \in Sending |-> "idle"] /\ index = [q \in Sending |-> 1]
  /\ results = [q \in Sending |-> <<>>] /\ code = [q \in Sending |-> "none"]
  /\ job = [m \in Message |-> "none"] /\ worker = NoMsg
  /\ handle = [m \in Message |-> 0]
  /\ sent = {} /\ acked = {}
  /\ look = [x \in Sending \cup Message |-> "rows"]
  /\ held = [m \in Message |-> {}]

Msg(q) == Body[q][index[q]]

(* The status a single message's outcome is answered with.                 *)
StatusOf(outcome) ==
  CASE outcome \in {"sent", "queued"}          -> "200"
    [] outcome = "listen_only"                 -> "403"
    [] outcome = "unavailable"                 -> "503"
    [] outcome = "not_connected"               -> "404"
    [] outcome \in {"send_timeout", "failed"}  -> "500"

(* An outcome is known: a single message's is the answer, a bulk request   *)
(* notes it and goes on with its next message whatever it is.              *)
Settled(q, outcome) ==
  /\ results' = [results EXCEPT ![q] = Append(@, outcome)]
  /\ IF index[q] < Len(Body[q])
     THEN /\ index' = [index EXCEPT ![q] = @ + 1]
          /\ step' = [step EXCEPT ![q] = "check"] /\ UNCHANGED code
     ELSE /\ step' = [step EXCEPT ![q] = "answered"]
          /\ code' = [code EXCEPT ![q] =
                        IF Path[q] = "bulk" THEN "200" ELSE StatusOf(outcome)]
          /\ UNCHANGED index

-----------------------------------------------------------------------------
(* The policy, read by a handler or a delivery.                            *)

Reads(x) ==
  \/ x \in Sending /\ step[x] \in {"check", "recheck"}
  \/ x \in Message /\ job[x] \in {"policy", "recheck"}

(* The database has looked at the table that was asked.                    *)
TableRead(x) ==
  /\ Reads(x) /\ look[x] \in Table
  /\ look' = [look EXCEPT ![x] = ReadDeviceListenOnly(@, device)]
  /\ UNCHANGED <<deviceVars, step, index, results, code, job, worker, handle,
                 sent, acked, held>>

(* The verdict has come; the next reading starts anew.                     *)
Learns(x, verdict) ==
  /\ look[x] = verdict /\ look' = [look EXCEPT ![x] = "rows"]

-----------------------------------------------------------------------------
(* Handlers.                                                               *)

(* POST /api/messages/send and /send-bulk read the policy for themselves   *)
(* first; POST /api/sessions/:orgId/send goes to sendWhatsAppMessage().    *)
SendArrives(q) ==
  /\ step[q] = "idle"
  /\ step' = [step EXCEPT ![q] = IF Path[q] = "sessionSend" THEN "recheck"
                                 ELSE "check"]
  /\ UNCHANGED <<deviceVars, index, results, code, job, worker, handle, sent,
                 acked, held, look>>

Refused(q) ==
  /\ \E verdict \in Verdict \ {"may_send"} :
       Learns(q, verdict) /\ Settled(q, verdict)
  /\ UNCHANGED <<deviceVars, job, worker, handle, sent, acked, held>>

(* pool.enqueue(): a queued message's outcome is known at once.            *)
HandlerChecks(q) ==
  /\ step[q] = "check"
  /\ \/ Refused(q)
     \/ /\ Learns(q, "may_send") /\ Msg(q) \in Queued
        /\ job' = [job EXCEPT ![Msg(q)] = "queued"]
        /\ Settled(q, "queued")
        /\ UNCHANGED <<deviceVars, worker, handle, sent, acked, held>>
     \/ /\ Learns(q, "may_send") /\ Msg(q) \notin Queued
        /\ step' = [step EXCEPT ![q] = "recheck"]
        /\ UNCHANGED <<deviceVars, index, results, code, job, worker, handle,
                       sent, acked, held>>

(* sendWhatsAppMessage(): the policy again, then enqueueAndWait().  A      *)
(* media URL it must not fetch (assertSafeOutboundUrl) fails here.         *)
HandlerEnqueues(q) ==
  /\ step[q] = "recheck"
  /\ \/ Refused(q)
     \/ /\ Learns(q, "may_send") /\ Settled(q, "failed")
        /\ UNCHANGED <<deviceVars, job, worker, handle, sent, acked, held>>
     \/ /\ Learns(q, "may_send")
        /\ job' = [job EXCEPT ![Msg(q)] = "queued"]
        /\ step' = [step EXCEPT ![q] = "wait"]
        /\ UNCHANGED <<deviceVars, index, results, code, worker, handle, sent,
                       acked, held>>

\* mutant: the ceiling takes a job out of the queue and tells nobody
CeilingIsQuiet(q) ==
  /\ step[q] = "wait" /\ job[Msg(q)] = "queued"
  /\ job' = [job EXCEPT ![Msg(q)] = "over"]
  /\ UNCHANGED <<deviceVars, step, index, results, code, worker, handle, sent,
                 acked, held, look>>

(* The ceiling: a job still queued is taken out, one that runs goes on.    *)
CeilingFires(q) ==
  /\ step[q] = "wait"
  /\ job' = [job EXCEPT ![Msg(q)] = IF @ = "queued" THEN "over" ELSE @]
  /\ Settled(q, "send_timeout")
  /\ UNCHANGED <<deviceVars, worker, handle, sent, acked, look, held>>

-----------------------------------------------------------------------------
(* The pool's worker and the delivery.                                     *)

(* job.resolve() and job.reject(): the first settles the request if it     *)
(* still waits for this message.                                           *)
Tell(m, outcome) ==
  IF \E q \in Sending : step[q] = "wait" /\ Msg(q) = m
  THEN \E q \in Sending : /\ step[q] = "wait" /\ Msg(q) = m
                          /\ Settled(q, outcome)
  ELSE UNCHANGED <<step, index, results, code>>

(* The delivery ends; the worker hears of it if it still waits for it.     *)
Ends(m, outcome) ==
  /\ job' = [job EXCEPT ![m] = "over"] /\ handle' = [handle EXCEPT ![m] = 0]
  /\ IF worker = m THEN worker' = NoMsg /\ Tell(m, outcome)
     ELSE UNCHANGED <<worker, step, index, results, code>>

(* sendWhatsAppMessageDirect(): the status, then the policy.               *)
JobTaken(m) ==
  /\ worker = NoMsg /\ job[m] = "queued"
  /\ IF status = "connected"
     THEN /\ job' = [job EXCEPT ![m] = "policy"] /\ worker' = m
          /\ UNCHANGED <<step, index, results, code, handle>>
     ELSE /\ job' = [job EXCEPT ![m] = "over"]
          /\ Tell(m, "not_connected") /\ UNCHANGED <<worker, handle>>
  /\ UNCHANGED <<deviceVars, sent, acked, look, held>>

DeliveryRefused(m) ==
  /\ \E verdict \in Verdict \ {"may_send"} :
       Learns(m, verdict) /\ Ends(m, verdict)
  /\ UNCHANGED <<deviceVars, sent, acked, held>>

(* Then the provider's sendMessage().  Baileys: no open socket is not      *)
(* connected.  Meta Cloud takes its configuration.  Either reads the       *)
(* policy once more.                                                       *)
DeliveryChecks(m) ==
  /\ job[m] = "policy"
  /\ \/ DeliveryRefused(m)
     \/ /\ Learns(m, "may_send") /\ sock > 0 /\ (status # "connected" \/ ~open)
        /\ Ends(m, "not_connected") /\ TornDown
        /\ UNCHANGED <<sent, acked, held>>
     \/ /\ Learns(m, "may_send") /\ (sock > 0 => status = "connected" /\ open)
        /\ job' = [job EXCEPT ![m] = "recheck"]
        /\ handle' = [handle EXCEPT ![m] = sock]
        /\ held' = [held EXCEPT ![m] = Facts(device)]
        /\ UNCHANGED <<deviceVars, step, index, results, code, worker, sent,
                       acked>>

(* The message is handed over.  What remains to be done for it, loading    *)
(* its media included, no later reading of the policy stops.               *)
HandedOver(m) ==
  /\ handle[m] = sock /\ (sock > 0 => open)
  /\ job' = [job EXCEPT ![m] = "flight"] /\ sent' = sent \cup {m}
  /\ UNCHANGED <<deviceVars, step, index, results, code, worker, handle, acked,
                 held>>

(* The socket the delivery took was closed or replaced meanwhile.          *)
SocketIsGone(m) ==
  /\ handle[m] # sock \/ (sock > 0 /\ ~open)
  /\ Ends(m, "failed")
  /\ UNCHANGED <<deviceVars, sent, acked, held>>

\* mutant: what was checked when the job was taken is not checked again
TransmitUnchecked(m) ==
  /\ job[m] = "recheck"
  /\ HandedOver(m) \/ SocketIsGone(m)
  /\ UNCHANGED look

\* mutant: the message leaves before the policy is read
TransmitFirst(m) ==
  /\ job[m] = "recheck"
  /\ \/ Learns(m, "may_send") /\ HandedOver(m)
     \/ /\ \E verdict \in Verdict \ {"may_send"} :
            Learns(m, verdict) /\ Ends(m, verdict)
        /\ sent' = sent \cup {m} /\ UNCHANGED <<deviceVars, acked, held>>

(* The policy for the last time, then the message leaves: on the socket    *)
(* the delivery took.                                                      *)
Transmit(m) ==
  /\ job[m] = "recheck"
  /\ \/ DeliveryRefused(m)
     \/ Learns(m, "may_send") /\ (HandedOver(m) \/ SocketIsGone(m))

Accepted(m) ==
  /\ job[m] = "flight"
  /\ acked' = acked \cup {m}
  /\ Ends(m, "sent")
  /\ UNCHANGED <<deviceVars, sent, look, held>>

(* Its media cannot be loaded, the socket closes, WhatsApp refuses it or   *)
(* the provider's own timeout fires.                                       *)
FlightFails(m) ==
  /\ job[m] = "flight" /\ Ends(m, "failed")
  /\ UNCHANGED <<deviceVars, sent, acked, look, held>>

(* withTimeout() in the worker: it goes on to the next job and has the     *)
(* socket torn down; the delivery itself runs on.                          *)
WorkerGivesUp ==
  /\ worker # NoMsg
  /\ Tell(worker, "send_timeout") /\ worker' = NoMsg /\ TornDown
  /\ UNCHANGED <<job, handle, sent, acked, look, held>>

-----------------------------------------------------------------------------
DeviceMovesOn(devices) ==
  /\ DeviceStep(devices)
  /\ held' = [m \in Message |-> IF job[m] = "recheck"
                                THEN held[m] \cup Facts(device') ELSE held[m]]
  /\ UNCHANGED <<step, index, results, code, job, worker, handle, sent, acked,
                 look>>

Delivers(m) ==
  \/ JobTaken(m)
  \/ DeliveryChecks(m)
  \/ Transmit(m)
  \/ Accepted(m)
  \/ FlightFails(m)

SendRoutesNext(devices) ==
  \/ \E q \in Sending : \/ SendArrives(q)
                        \/ HandlerChecks(q)
                        \/ HandlerEnqueues(q)
                        \/ CeilingFires(q)
  \/ \E x \in Sending \cup Message : TableRead(x)
  \/ \E m \in Message : Delivers(m)
  \/ WorkerGivesUp
  \/ DeviceMovesOn(devices)

SendRoutesSpec ==
  SendRoutesInit /\ [][SendRoutesNext(Device)]_<<deviceVars, sendVars>>

(* The databases answer a handler's reads, and the ceiling's timer fires.  *)
(* Nothing is assumed of the pool, which may be paused, or of WhatsApp.    *)
SendRoutesFairness ==
  \A q \in Sending :
    /\ WF_<<deviceVars, sendVars>>(TableRead(q))
    /\ WF_<<deviceVars, sendVars>>(HandlerChecks(q))
    /\ WF_<<deviceVars, sendVars>>(HandlerEnqueues(q))
    /\ WF_<<deviceVars, sendVars>>(CeilingFires(q))

-----------------------------------------------------------------------------
(* Properties.                                                             *)

(* Each variable has its type.                                             *)
SendRoutesTypeOK ==
  /\ step \in [Sending -> {"idle", "check", "recheck", "wait", "answered"}]
  /\ \A q \in Sending : /\ index[q] \in 1..Len(Body[q])
                        /\ results[q] \in Seq(Outcome)
                        /\ code[q] = "none" <=> step[q] # "answered"
  /\ job \in [Message -> {"none", "queued", "policy", "recheck", "flight",
                          "over"}]
  /\ worker \in Message \cup {NoMsg}
  /\ handle \in [Message -> 0..MaxSock]
  /\ acked \subseteq sent

(* deviceSendPolicy.ts:7 "No positive cache: queued jobs must recheck      *)
(* policy at delivery time": a message is handed to WhatsApp's client only *)
(* if, while its delivery read the policy for the last time, its device    *)
(* had a row that lets it send or, each at some time, no row, an external  *)
(* product's entry in the hub and no organization of JumpStart's, however  *)
(* long the message was queued before.                                     *)
SentWhileOpen == \A m \in sent : MaySend(held[m])

(* messages.ts:67,79-117, sessions.ts:257: an answer says something of     *)
(* every message of the request, in order, and what it says is true then   *)
(* and later: what it calls sent WhatsApp accepted, and what is answered   *)
(* 403, 503 or 404 was not given to WhatsApp and never will be, so the     *)
(* caller may send it again.                                               *)
AnswersAreTrue ==
  \A q \in Sending :
    /\ step[q] = "answered" => Len(results[q]) = Len(Body[q])
    /\ \A i \in DOMAIN results[q] :
         /\ results[q][i] = "sent" => Body[q][i] \in acked
         /\ results[q][i] \in Refusals => Body[q][i] \notin sent

(* senderPool.ts:113-120: a request that sends never waits for ever, also  *)
(* when the pool is paused or WhatsApp never acknowledges.                 *)
SendIsAnswered ==
  \A q \in Sending : []<>(step[q] \in {"idle", "answered"})
=============================================================================
