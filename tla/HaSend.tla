------------------------------- MODULE HaSend -------------------------------
(***************************************************************************)
(* What one process sends over the protected socket of one session under   *)
(* HA: protectSocket() of src/src/ha/coordinator.ts, runFenced() and       *)
(* sendWithPermit() of src/src/ha/store.ts.  A send waits for the one      *)
(* before it, opens a transaction with check_send, performs its operation  *)
(* while the transaction stays open, and commits.  Meanwhile the store of  *)
(* HaStore is called by everybody else, time passes, the database may end  *)
(* the transaction on its own, and the operation may outlast its deadline. *)
(*                                                                         *)
(* A step runs from one await of a send to the next.  The process lives    *)
(* throughout: what a killed process was sending nobody is told about.     *)
(***************************************************************************)
EXTENDS HaStore, Sequences, FiniteSets

CONSTANTS
  Transmission,       \* the calls of a method of the protected socket
  Sender, Mine, Chat, \* the node and boot of the process, and the key
  NoSend

ASSUME SenderAssumption ==
  Sender \in Node /\ Mine \in Boot /\ Chat \in Key /\ NoSend \notin Transmission

VARIABLES
  at,      \* what each send awaits
  line,    \* the chain of promises in sends: who waits for whom
  held,    \* the send whose transaction holds the permit in the database
  going,   \* the operations that have not settled
  told,    \* what the caller of each send has heard
  down,    \* halted, or the socket gone: fence() has run and closed it
  expired, \* the local deadline of the lease has passed
  torn,    \* history: sends whose transaction the database ended itself
  crossed  \* history: sends during whose operation the key was not Mine's

sendVars == <<at, line, held, going, told, down, expired, torn, crossed>>

SendStep == {"uncalled", "queued", "granted", "operating", "committing",
             "rolling", "done"}

SendTypeOK ==
  /\ at \in [Transmission -> SendStep] /\ line \in Seq(Transmission)
  /\ held \in Transmission \cup {NoSend} /\ going \subseteq Transmission
  /\ told \in [Transmission -> {"nothing", "ok", "error"}]
  /\ down \in {"no", "closed", "leaked"} /\ expired \in BOOLEAN
  /\ torn \subseteq Transmission /\ crossed \subseteq Transmission
  /\ (held # NoSend <=> <<Sender, Mine, Chat>> \in permits)

(* The process has claimed the key before protectSocket() sees the socket; *)
(* another node stands by and may fence.                                   *)
ClaimedInit ==
  /\ enabled = [n \in Node |-> TRUE] /\ state = [n \in Node |-> "ready"]
  /\ boot \in [Node -> Boot] /\ boot[Sender] = Mine
  /\ \A n, m \in Node : boot[n] = boot[m] => n = m
  /\ registered = {boot[n] : n \in Node}
  /\ mayFence = [n \in Node |-> n # Sender]
  /\ owner = [k \in Key |-> IF k = Chat THEN <<Sender, Mine>> ELSE NoOwner]
  /\ epoch = [k \in Key |-> IF k = Chat THEN 1 ELSE 0]
  /\ ttl = [k \in Key |-> IF k = Chat THEN LeaseTtl ELSE 0]
  /\ fences = {} /\ permits = {}
  /\ auth = [k \in Key |-> [i \in Item |-> 0]]
  /\ catalog = [k \in Key |-> "restore"]

SendInit ==
  /\ at = [s \in Transmission |-> "uncalled"] /\ line = <<>> /\ held = NoSend
  /\ going = {} /\ told = [s \in Transmission |-> "nothing"]
  /\ down = "no" /\ expired = FALSE /\ torn = {} /\ crossed = {}

MineStill == owner[Chat] = <<Sender, Mine>> /\ <<Sender, Mine>> \notin fences

Goes(s, pc) == at' = [at EXCEPT ![s] = pc]

(* fence() runs once.  The closer ends the socket, or throws and leaves it *)
(* to the supervisor.                                                      *)
FenceNow == down' \in IF down = "no" THEN {"closed", "leaked"} ELSE {down}

Ends(s, answer) == Goes(s, "done") /\ told' = [told EXCEPT ![s] = answer]

(* A send that settles lets the next one begin.                            *)
Leaves(s, answer) == Ends(s, answer) /\ line' = Tail(line)

\* mutant: a send does not wait for the one before it
InAnyOrder(s) == line # <<>>

First(s) == line # <<>> /\ Head(line) = s

(* lease() refuses, and fences, when the process is halted or too late.    *)
Called(s) ==
  /\ at[s] = "uncalled"
  /\ IF down = "no" /\ ~expired
     THEN /\ Goes(s, "queued") /\ line' = Append(line, s)
          /\ UNCHANGED <<told, down>>
     ELSE Ends(s, "error") /\ FenceNow /\ UNCHANGED line
  /\ UNCHANGED <<storeVars, held, going, expired, torn, crossed>>

(* Its turn: BEGIN and check_send.                                         *)
Granted(s) ==
  /\ at[s] = "queued" /\ First(s)
  /\ OpenSend(Sender, Mine, Chat, epoch[Chat])
  /\ Goes(s, "granted") /\ held' = s
  /\ UNCHANGED <<line, going, told, down, expired, torn, crossed>>

(* No connection, a lock that is taken for too long, a stale lease, or an  *)
(* answer that is lost: no permit as far as the process knows.             *)
Denied(s) ==
  /\ at[s] = "queued" /\ First(s)
  /\ Goes(s, "rolling") /\ FenceNow
  /\ UNCHANGED <<storeVars, line, held, going, told, expired, torn, crossed>>

(* The answer to check_send.  A socket that has been closed throws.        *)
Operates(s) ==
  /\ at[s] = "granted"
  /\ IF expired
     THEN Goes(s, "rolling") /\ FenceNow /\ UNCHANGED going
     ELSE /\ UNCHANGED down
          /\ IF down = "closed" THEN Goes(s, "rolling") /\ UNCHANGED going
             ELSE Goes(s, "operating") /\ going' = going \cup {s}
  /\ UNCHANGED <<storeVars, line, held, told, expired, torn, crossed>>

(* The operation settles; after the deadline nobody listens any more.      *)
Settles(s) ==
  /\ s \in going /\ going' = going \ {s}
  /\ \/ at[s] = "operating" /\ (Goes(s, "committing") \/ Goes(s, "rolling"))
     \/ at[s] # "operating" /\ UNCHANGED at
  /\ UNCHANGED <<storeVars, line, held, told, down, expired, torn, crossed>>

\* mutant: the deadline fences, and the send goes on waiting
FencesOnly(s) ==
  /\ at[s] = "operating" /\ down = "no" /\ FenceNow
  /\ UNCHANGED <<storeVars, at, line, held, going, told, expired, torn, crossed>>

(* HA_SEND_DEADLINE, after ten seconds: the operation may go on.           *)
TimesOut(s) ==
  /\ at[s] = "operating"
  /\ Goes(s, "rolling") /\ FenceNow
  /\ UNCHANGED <<storeVars, line, held, going, told, expired, torn, crossed>>

Commits(s) ==
  /\ at[s] = "committing" /\ held = s
  /\ CloseSend(Sender, Mine, Chat) /\ held' = NoSend
  /\ Leaves(s, "ok")
  /\ UNCHANGED <<going, down, expired, torn, crossed>>

(* The transaction is gone, or the answer of COMMIT.                       *)
CommitFails(s) ==
  /\ at[s] = "committing"
  /\ Goes(s, "rolling") /\ FenceNow
  /\ \/ UNCHANGED <<storeVars, held>>
     \/ held = s /\ CloseSend(Sender, Mine, Chat) /\ held' = NoSend
  /\ UNCHANGED <<line, going, told, expired, torn, crossed>>

(* ROLLBACK, whose own failure is swallowed: then the transaction stays    *)
(* open until the database ends it.                                        *)
RollsBack(s) ==
  /\ at[s] = "rolling"
  /\ Leaves(s, "error")
  /\ \/ UNCHANGED <<storeVars, held>>
     \/ held = s /\ CloseSend(Sender, Mine, Chat) /\ held' = NoSend
  /\ UNCHANGED <<going, down, expired, torn, crossed>>

(* The connection is lost, or idle_in_transaction_session_timeout ends it. *)
Torn ==
  /\ held # NoSend /\ CloseSend(Sender, Mine, Chat)
  /\ torn' = torn \cup {held} /\ held' = NoSend
  /\ UNCHANGED <<at, line, going, told, down, expired, crossed>>

(* tick() and the deadline timer, from HaCluster: the lease is not renewed *)
(* in time, and the process fences itself.                                 *)
DeadlinePasses ==
  /\ ~expired /\ expired' = TRUE
  /\ UNCHANGED <<storeVars, at, line, held, going, told, down, torn, crossed>>

FencesItself ==
  /\ down = "no" /\ FenceNow
  /\ UNCHANGED <<storeVars, at, line, held, going, told, expired, torn, crossed>>

(* Everybody else in the store, and the clock.  bound: nobody rejoins, for *)
(* a fenced boot stays fenced.                                             *)
OthersCall ==
  /\ \/ \E n \in Node, b \in Boot :
          \/ ManualFence(n, b) \/ TryAcquire(n, b, Chat)
          \/ Renew(n, b, Chat, epoch[Chat])
     \/ \E a, n \in Node, ab, b \in Boot : FencerCall(a, ab, n, b)
     \/ BootlessFence
     \/ \E n \in Node : DisableNode(n)
     \/ StoreTick
  /\ crossed' = IF MineStill' THEN crossed ELSE crossed \cup going
  /\ UNCHANGED <<at, line, held, going, told, down, expired, torn>>

Sends(s) ==
  \/ Granted(s) \/ Denied(s) \/ Operates(s) \/ TimesOut(s)
  \/ Commits(s) \/ CommitFails(s) \/ RollsBack(s)

SendNext ==
  \/ \E s \in Transmission : Called(s) \/ Sends(s) \/ Settles(s)
  \/ Torn \/ DeadlinePasses \/ FencesItself \/ OthersCall

(* Timers fire and queries end: connecting within 3 seconds, every query   *)
(* within 4, the operation's wait within 10.  WhatsApp owes nothing.       *)
SendFairness == WF_<<storeVars, sendVars>>(\E s \in Transmission : Sends(s))

SendSpec ==
  /\ ClaimedInit /\ SendInit
  /\ [][SendNext]_<<storeVars, sendVars>>
  /\ SendFairness

-----------------------------------------------------------------------------
(* Properties.                                                             *)

(* store.ts:53-55: two operations of a session overlap only in a process   *)
(* that is fenced, although the database may end the transaction of one    *)
(* that still runs.                                                        *)
OneAtATime == Cardinality(going) > 1 => down # "no"

(* store.ts:50-51: a send that was acknowledged was performed while the    *)
(* key belonged to this process: nobody took it, nobody fenced the process *)
(* between its begin and its end, however long it took.                    *)
AckedWasShielded == \A s \in crossed : told[s] # "ok"

SendsAreShielded == OneAtATime /\ AckedWasShielded

(* store.ts:52-77: one send that never settles does not hold back those    *)
(* behind it: each is answered.                                            *)
SendIsSettled == \A s \in Transmission : []<>(told[s] = "nothing" => at[s] = "uncalled")
=============================================================================
