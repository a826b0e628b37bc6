----------------------------- MODULE HaCluster -----------------------------
(***************************************************************************)
(* The active/standby cluster: on each node one supervised process with    *)
(* its HaCoordinator (src/src/ha/coordinator.ts), the supervisor's         *)
(* watchdog (src/src/ha/launcher.ts), the provider that powers a machine   *)
(* off (src/src/ha/providers.ts), and the store of HaStore between them.   *)
(*                                                                         *)
(* register_node, try_acquire and renew are asynchronous: the request is   *)
(* put on the wire, the store executes it at any later time, even after    *)
(* its caller gave up or died, or never, and the answer is handled in a    *)
(* step of its own.  The other calls are a single step.  Any call may fail *)
(* at any time, whatever the store did: an error, a refusal, a lock or     *)
(* query timeout and a lost answer reach the same catch block.             *)
(*                                                                         *)
(* Time is discrete and kept as the time left until a deadline, 0 when it  *)
(* is past: left for lease.deadline - monotonic(), kill for the            *)
(* supervisor's deadline, ttl for the store's expires_at.                  *)
(***************************************************************************)
EXTENDS HaStore

CONSTANTS
  Cluster,     \* CLUSTER_LEASE, the key '@wa-ha-active'
  SelfFence,   \* SELF_FENCE_MS, 15 seconds, in clock units
  Watchdog     \* TRUE: a supervisor always kills its process on time

ASSUME ClusterAssumption == Cluster \in Key
ASSUME SelfFenceAssumption == SelfFence \in Nat \ {0} /\ SelfFence <= LeaseTtl
ASSUME WatchdogAssumption == Watchdog \in BOOLEAN

Session == Key \ {Cluster}

VARIABLES
  power,    \* is the machine of each node on
  proc,     \* boot of the process running on each node, NoBoot: none
  drawn,    \* boots drawn by a process so far
  wire,     \* database requests not executed yet
  halted,   \* HaCoordinator.halted
  restore,  \* .restoring and .restored: "no", "list", "loop", "done"
  todo,     \* sessions restoreSessions() has listed and not looked at yet
  token,    \* leases: the epoch of the lease remembered for each key, 0: none
  left,     \* leases: deadline - monotonic() of each remembered lease
  kill,     \* the supervisor's deadline - monotonic()
  tick,     \* the tick() in progress
  change,   \* the start or stop of each session in progress (transitions)
  takeover, \* the takeover() in progress
  sock,     \* sessions with a raw socket in this process
  closer    \* closers: sessions whose socket fence() can close

machineVars == <<power, proc, drawn>>
leaseMapVars == <<token, left>>
haltVars == <<halted, restore, todo, sock, closer>>
threadVars == <<tick, change, takeover>>
clusterVars == <<storeVars, machineVars, wire, leaseMapVars, haltVars, kill, threadVars>>

Call == [op : {"register", "claim", "renew"}, node : Node, boot : Boot,
         key : Key, epoch : Nat]
MaybeOwner == (Node \X Boot) \cup {NoOwner}

\* pc names the call being awaited, or the answer that has arrived; "off": start()
\* never got past register().  started and budget are SelfFence minus the age of
\* the tick and of the call; seen are the keys this tick has renewed.
TickPc == {"off", "register", "idle", "alive", "renew", "renewed",
           "claim", "owned", "held", "expired"}
TickRec == [pc : TickPc, key : Key, seen : SUBSET Key, started : 0..SelfFence,
            budget : 0..SelfFence, epoch : Nat, owner : MaybeOwner]
NoTick(pc) == [pc |-> pc, key |-> Cluster, seen |-> {}, started |-> 0,
               budget |-> 0, epoch |-> 0, owner |-> NoOwner]

\* pc names what a start or a stop has reached: the claim is awaited or has
\* been answered, the lease is held, the old socket is closed, the catalog
\* is written, the credentials are.
ChangePc == {"idle", "claim", "owned", "leased", "closed", "listed", "saved"}
ChangeRec == [pc : ChangePc, work : {"start", "restore", "stop"},
              budget : 0..SelfFence, epoch : Nat]
NoChange == [pc |-> "idle", work |-> "start", budget |-> 0, epoch |-> 0]

TakeoverRec == [pc : {"idle", "begin", "poweroff", "confirm"}, owner : MaybeOwner]
NoTakeover == [pc |-> "idle", owner |-> NoOwner]

NoTokens == [k \in Key |-> 0]

ClusterTypeOK ==
  /\ StoreTypeOK
  /\ power \in [Node -> BOOLEAN]
  /\ proc \in [Node -> Boot \cup {NoBoot}]
  /\ drawn \subseteq Boot
  /\ wire \subseteq Call
  /\ halted \in [Node -> BOOLEAN]
  /\ restore \in [Node -> {"no", "list", "loop", "done"}]
  /\ todo \in [Node -> SUBSET Session]
  /\ token \in [Node -> [Key -> Nat]]
  /\ left \in [Node -> [Key -> 0..SelfFence]]
  /\ kill \in [Node -> 0..SelfFence]
  /\ tick \in [Node -> TickRec]
  /\ change \in [Node -> [Session -> ChangeRec]]
  /\ takeover \in [Node -> TakeoverRec]
  /\ sock \in [Node -> SUBSET Session]
  /\ closer \in [Node -> SUBSET Session]

ProcessInit ==
  /\ power = [n \in Node |-> TRUE]
  /\ proc = [n \in Node |-> NoBoot]
  /\ drawn = {}
  /\ wire = {}
  /\ halted = [n \in Node |-> FALSE]
  /\ restore = [n \in Node |-> "no"]
  /\ todo = [n \in Node |-> {}]
  /\ token = [n \in Node |-> NoTokens]
  /\ left = [n \in Node |-> NoTokens]
  /\ kill = [n \in Node |-> 0]
  /\ tick = [n \in Node |-> NoTick("off")]
  /\ change = [n \in Node |-> [k \in Session |-> NoChange]]
  /\ takeover = [n \in Node |-> NoTakeover]
  /\ sock = [n \in Node |-> {}]
  /\ closer = [n \in Node |-> {}]

ClusterInit == StoreInit /\ ProcessInit
-----------------------------------------------------------------------------
(***************************************************************************)
(* The coordinator's predicates and helpers.                               *)
(***************************************************************************)
Running(n) == proc[n] # NoBoot

\* isActive(), the test of lease(), and canServe()
IsActive(n) == ~halted[n] /\ token[n][Cluster] > 0 /\ left[n][Cluster] > 0
HasLease(n, k) == IsActive(n) /\ token[n][k] > 0 /\ left[n][k] > 0
CanServe(n) == Running(n) /\ IsActive(n) /\ restore[n] = "done"

Least(S) == CHOOSE m \in S : \A x \in S : m <= x

\* fence(): once only; every registered closer is run, and one that throws
\* leaves its socket open.  leak is a socket that has just been created.
FenceLeaking(n, leak) ==
  IF halted[n]
  THEN sock' = [sock EXCEPT ![n] = @ \cup leak] /\ UNCHANGED <<halted, restore, todo, closer>>
  ELSE \E open \in SUBSET (closer[n] \cap sock[n]) :
         /\ halted' = [halted EXCEPT ![n] = TRUE]
         /\ restore' = [restore EXCEPT ![n] = "no"]
         /\ todo' = [todo EXCEPT ![n] = {}]
         /\ sock' = [sock EXCEPT ![n] = (@ \ closer[n]) \cup open \cup leak]
         /\ closer' = [closer EXCEPT ![n] = {}]

Fence(n) == FenceLeaking(n, {})

\* remember(): the lease counts from the moment the claim was sent.
Remember(n, k, e, budget) ==
  /\ token' = [token EXCEPT ![n][k] = e]
  /\ left' = [left EXCEPT ![n][k] = budget]

Request(op, n, k, e) ==
  [op |-> op, node |-> n, boot |-> proc[n], key |-> k, epoch |-> e]

\* started + min(SELF_FENCE_MS, remainingMs), for a call sent SelfFence - budget ago.
Remaining(budget, rem) ==
  LET age == SelfFence - budget
  IN IF rem < age THEN 0 ELSE Least({budget, rem - age})
-----------------------------------------------------------------------------
(***************************************************************************)
(* Machines, processes and time.                                           *)
(***************************************************************************)
\* The process is gone, with everything it held in memory.
Gone(n) ==
  /\ proc' = [proc EXCEPT ![n] = NoBoot]
  /\ halted' = [halted EXCEPT ![n] = FALSE]
  /\ restore' = [restore EXCEPT ![n] = "no"]
  /\ todo' = [todo EXCEPT ![n] = {}]
  /\ token' = [token EXCEPT ![n] = NoTokens]
  /\ left' = [left EXCEPT ![n] = NoTokens]
  /\ kill' = [kill EXCEPT ![n] = 0]
  /\ tick' = [tick EXCEPT ![n] = NoTick("off")]
  /\ change' = [change EXCEPT ![n] = [k \in Session |-> NoChange]]
  /\ takeover' = [takeover EXCEPT ![n] = NoTakeover]
  /\ sock' = [sock EXCEPT ![n] = {}]
  /\ closer' = [closer EXCEPT ![n] = {}]
  /\ UNCHANGED <<storeVars, drawn, wire>>

\* supervise() forks the service; start() sends register_node.
StartProcess(n, b) ==
  /\ power[n] /\ ~Running(n)
  /\ b \notin drawn
  /\ proc' = [proc EXCEPT ![n] = b]
  /\ drawn' = drawn \cup {b}
  /\ kill' = [kill EXCEPT ![n] = SelfFence]
  /\ tick' = [tick EXCEPT ![n] = NoTick("register")]
  /\ wire' = wire \cup {[op |-> "register", node |-> n, boot |-> b,
                         key |-> Cluster, epoch |-> 0]}
  /\ UNCHANGED <<storeVars, power, leaseMapVars, haltVars, change, takeover>>

\* The supervisor's interval finds its deadline passed: SIGKILL.
WatchdogKill(n) ==
  /\ Running(n) /\ kill[n] = 0
  /\ Gone(n)
  /\ UNCHANGED power

\* The process exits: a crash, a shutdown() or an operator.
ProcessDies(n) ==
  /\ Running(n)
  /\ Gone(n)
  /\ UNCHANGED power

\* The machine goes off: an outage, or the provider's poweroff action.
PowerOff(n) ==
  /\ power[n]
  /\ power' = [power EXCEPT ![n] = FALSE]
  /\ Gone(n)

PowerOn(n) ==
  /\ ~power[n]
  /\ power' = [power EXCEPT ![n] = TRUE]
  /\ UNCHANGED <<storeVars, proc, drawn, wire, leaseMapVars, haltVars, kill, threadVars>>

\* One unit of time passes for everybody.  With Watchdog, no process is left
\* running past its supervisor's deadline.
Advance ==
  /\ Watchdog => \A n \in Node : Running(n) => kill[n] > 0
  /\ ttl' = [k \in Key |-> Earlier(ttl[k])]
  /\ left' = [n \in Node |-> [k \in Key |-> Earlier(left[n][k])]]
  /\ kill' = [n \in Node |-> Earlier(kill[n])]
  /\ tick' = [n \in Node |-> [tick[n] EXCEPT !.started = Earlier(@), !.budget = Earlier(@)]]
  /\ change' = [n \in Node |-> [k \in Session |-> [change[n][k] EXCEPT !.budget = Earlier(@)]]]
  /\ UNCHANGED <<nodeVars, owner, epoch, fences, dataVars, registered, permits,
                 machineVars, wire, token, haltVars, takeover>>
-----------------------------------------------------------------------------
(***************************************************************************)
(* The store executes a request; the answer reaches the process that sent  *)
(* it if that is still running and still waiting for it.                   *)
(***************************************************************************)
TickWaits(r) ==
  /\ proc[r.node] = r.boot
  /\ tick[r.node].pc = r.op /\ tick[r.node].key = r.key

ChangeWaits(r) ==
  /\ r.op = "claim" /\ r.key \in Session
  /\ proc[r.node] = r.boot /\ change[r.node][r.key].pc = "claim"

AnswerTick(r, pc) ==
  tick' = IF TickWaits(r) THEN [tick EXCEPT ![r.node].pc = pc] ELSE tick

ExecRegister(r) ==
  /\ r.op = "register"
  /\ RegisterNode(r.node, r.boot)
  /\ wire' = wire \ {r}
  /\ AnswerTick(r, "idle")
  /\ UNCHANGED <<machineVars, leaseMapVars, haltVars, kill, change, takeover>>

\* The claim is granted, or confirmed to the owner of a live lease.
ExecClaim(r) ==
  /\ r.op = "claim"
  /\ \/ /\ Identity(r.node, r.boot) /\ KeyFree(r.key)
        /\ OwnsLive(r.node, r.boot, r.key)
        /\ UNCHANGED storeVars
     \/ TryAcquire(r.node, r.boot, r.key)
  /\ wire' = wire \ {r}
  /\ tick' = IF ~TickWaits(r) THEN tick
             ELSE [tick EXCEPT ![r.node].pc = "owned", ![r.node].epoch = epoch'[r.key],
                               ![r.node].budget = Remaining(@, ttl'[r.key])]
  /\ change' = IF ~ChangeWaits(r) THEN change
               ELSE [change EXCEPT ![r.node][r.key].pc = "owned",
                                   ![r.node][r.key].epoch = epoch'[r.key],
                                   ![r.node][r.key].budget = Remaining(@, ttl'[r.key])]
  /\ UNCHANGED <<machineVars, leaseMapVars, haltVars, kill, takeover>>

\* The claim is answered owned: false, with the owner in the way.  A session's
\* caller throws; the tick looks at expired.
ExecClaimHeld(r) ==
  /\ r.op = "claim"
  /\ Identity(r.node, r.boot) /\ KeyFree(r.key)
  /\ ~OwnsLive(r.node, r.boot, r.key)
  /\ LeaseLive(r.key) \/ OwnerUnfenced(r.key)
  /\ wire' = wire \ {r}
  /\ tick' = IF ~TickWaits(r) THEN tick
             ELSE [tick EXCEPT ![r.node].owner = owner[r.key],
                     ![r.node].pc = IF LeaseLive(r.key) THEN "held" ELSE "expired"]
  /\ UNCHANGED <<storeVars, machineVars, leaseMapVars, haltVars, kill, change, takeover>>

ExecRenew(r) ==
  /\ r.op = "renew"
  /\ Renew(r.node, r.boot, r.key, r.epoch)
  /\ wire' = wire \ {r}
  /\ AnswerTick(r, "renewed")
  /\ UNCHANGED <<machineVars, leaseMapVars, haltVars, kill, change, takeover>>

\* The request never takes effect: it is lost, or the store refuses it.
RequestFails(r) ==
  /\ wire' = wire \ {r}
  /\ UNCHANGED <<storeVars, machineVars, leaseMapVars, haltVars, kill, threadVars>>

Exec(r) == ExecRegister(r) \/ ExecClaim(r) \/ ExecClaimHeld(r) \/ ExecRenew(r)
-----------------------------------------------------------------------------
(***************************************************************************)
(* tick(), the timers and the restore it starts.                           *)
(***************************************************************************)
\* The end of a tick that has the leases tok with m left: the heartbeat, and
\* the restore once the node is active.
FinishTick(n, tok, m) ==
  /\ tick' = [tick EXCEPT ![n] = NoTick("idle")]
  /\ IF tick[n].started = 0
     THEN Fence(n) /\ UNCHANGED kill        \* HA_RENEWAL_DEADLINE
     ELSE /\ kill' = [kill EXCEPT ![n] =
                      Least({tick[n].started} \cup {m[k] : k \in {k \in Key : tok[k] > 0}})]
          /\ restore' = [restore EXCEPT ![n] =
                IF ~halted[n] /\ tok[Cluster] > 0 /\ m[Cluster] > 0 /\ @ = "no"
                THEN "list" ELSE @]
          /\ UNCHANGED <<halted, todo, sock, closer>>

\* What tick() does at once when the keys in seen are renewed and the leases
\* have m left: renew the next one, claim the cluster lease, or finish.
Proceed(n, seen, m) ==
  LET rest == {k \in Key : token[n][k] > 0} \ seen
      Ask(op, k) == /\ wire' = wire \cup {Request(op, n, k, token[n][k])}
                    /\ tick' = [tick EXCEPT ![n].pc = op, ![n].key = k,
                                            ![n].seen = seen, ![n].budget = SelfFence]
                    /\ UNCHANGED <<kill, haltVars>>
  IN \/ \E k \in rest : Ask("renew", k)
     \/ rest = {} /\ token[n][Cluster] = 0 /\ Ask("claim", Cluster)
     \/ rest = {} /\ token[n][Cluster] > 0 /\ FinishTick(n, token[n], m) /\ UNCHANGED wire

TickStart(n) ==
  /\ tick[n].pc = "idle" /\ ~halted[n]
  /\ tick' = [tick EXCEPT ![n].pc = "alive", ![n].started = SelfFence]
  /\ UNCHANGED <<storeVars, machineVars, wire, leaseMapVars, haltVars, kill, change, takeover>>

\* node_alive() succeeds.
AliveAnswered(n) ==
  /\ tick[n].pc = "alive"
  /\ Identity(n, proc[n])
  /\ Proceed(n, {}, left[n])
  /\ UNCHANGED <<storeVars, machineVars, leaseMapVars, change, takeover>>

\* mutant: a renewed lease counts from the answer
RenewCountsFromAnswer(n) ==
  /\ tick[n].pc = "renewed"
  /\ left' = [left EXCEPT ![n][tick[n].key] = SelfFence]
  /\ Proceed(n, tick[n].seen \cup {tick[n].key},
             [left[n] EXCEPT ![tick[n].key] = SelfFence])
  /\ UNCHANGED <<storeVars, machineVars, token, change, takeover>>

RenewAnswered(n) ==
  /\ tick[n].pc = "renewed"
  /\ left' = [left EXCEPT ![n][tick[n].key] = tick[n].budget]
  /\ Proceed(n, tick[n].seen \cup {tick[n].key},
             [left[n] EXCEPT ![tick[n].key] = tick[n].budget])
  /\ UNCHANGED <<storeVars, machineVars, token, change, takeover>>

\* The answer to the claim: remember(), stand by, or take over.
ClaimOwned(n) ==
  LET e == tick[n].epoch  b == tick[n].budget IN
  /\ tick[n].pc = "owned" /\ b > 0
  /\ Remember(n, Cluster, e, b)
  /\ FinishTick(n, [token[n] EXCEPT ![Cluster] = e], [left[n] EXCEPT ![Cluster] = b])
  /\ UNCHANGED <<storeVars, machineVars, wire, change, takeover>>

ClaimHeld(n) ==
  /\ tick[n].pc \in {"held", "expired"}
  /\ FinishTick(n, token[n], left[n])
  /\ takeover' = IF tick[n].pc = "expired" /\ takeover[n].pc = "idle"
                 THEN [takeover EXCEPT ![n] = [pc |-> "begin", owner |-> tick[n].owner]]
                 ELSE takeover
  /\ UNCHANGED <<storeVars, machineVars, wire, leaseMapVars, change>>

\* A call of the tick fails, or HA_LEASE_RESPONSE_TOO_LATE: its catch block.
TickFails(n) ==
  /\ tick[n].pc \notin {"off", "register", "idle"}
  /\ tick' = [tick EXCEPT ![n] = NoTick("idle")]
  /\ Fence(n)
  /\ UNCHANGED <<storeVars, machineVars, wire, leaseMapVars, kill, change, takeover>>

\* start() rejects: no timer is ever installed, and nobody fences.
RegisterFails(n) ==
  /\ tick[n].pc = "register"
  /\ tick' = [tick EXCEPT ![n] = NoTick("off")]
  /\ UNCHANGED <<storeVars, machineVars, wire, leaseMapVars, haltVars, kill, change, takeover>>

\* The 100 ms timer finds a lease past its deadline.
DeadlineTimer(n) ==
  /\ ~halted[n]
  /\ \E k \in Key : token[n][k] > 0 /\ left[n][k] = 0
  /\ Fence(n)
  /\ UNCHANGED <<storeVars, machineVars, wire, leaseMapVars, kill, threadVars>>

\* A capacity sample, a restore, a read or a write of auth state, a catalog
\* read, a send or a shutdown fences the process.
GuardedCallFails(n) ==
  /\ tick[n].pc \notin {"off", "register"} /\ ~halted[n]
  /\ Fence(n)
  /\ UNCHANGED <<storeVars, machineVars, wire, leaseMapVars, kill, threadVars>>

\* restoreSessions(): list the catalog, then start what has no socket, one
\* after the other.
RestoreLists(n) ==
  /\ restore[n] = "list"
  /\ IsActive(n) => Identity(n, proc[n])
  /\ restore' = [restore EXCEPT ![n] = "loop"]
  /\ todo' = [todo EXCEPT ![n] =
               IF IsActive(n) THEN {k \in Session : catalog[k] = "restore"} ELSE {}]
  /\ UNCHANGED <<storeVars, machineVars, wire, leaseMapVars, halted, sock, closer,
                 kill, threadVars>>

RestoreSkips(n, k) ==
  /\ k \in todo[n] /\ k \in sock[n] \cap closer[n]
  /\ \A j \in Session : change[n][j].work # "restore"
  /\ todo' = [todo EXCEPT ![n] = @ \ {k}]
  /\ UNCHANGED <<storeVars, machineVars, wire, leaseMapVars, halted, restore, sock,
                 closer, kill, threadVars>>

RestoreDone(n) ==
  /\ restore[n] = "loop" /\ todo[n] = {}
  /\ restore' = [restore EXCEPT ![n] = "done"]
  /\ UNCHANGED <<storeVars, machineVars, wire, leaseMapVars, halted, todo, sock,
                 closer, kill, threadVars>>
-----------------------------------------------------------------------------
(***************************************************************************)
(* Starting and stopping a session (baileysProvider, sessionManager), one  *)
(* at a time for each key: transition().                                   *)
(***************************************************************************)
HasSocket(n, k) == k \in sock[n] \cap closer[n]

\* acquireSession() on a node that is active: a lease it remembers, or a claim.
ChangeBegins(n, k, work) ==
  /\ IsActive(n)
  /\ change[n][k].pc = "idle"
  /\ work = "restore" => /\ k \in todo[n] /\ ~HasSocket(n, k)
                         /\ \A j \in Session : change[n][j].work # "restore"
  /\ LET leased == HasLease(n, k) IN
     /\ change' = [change EXCEPT ![n][k] =
                     [NoChange EXCEPT !.pc = IF leased THEN "leased" ELSE "claim",
                                      !.work = work,
                                      !.budget = IF leased THEN 0 ELSE SelfFence]]
     /\ wire' = IF leased THEN wire ELSE wire \cup {Request("claim", n, k, 0)}
  /\ UNCHANGED <<storeVars, machineVars, leaseMapVars, haltVars, kill, tick, takeover>>

Reach(n, k, pc) == change' = [change EXCEPT ![n][k].pc = pc]

ChangeOwned(n, k) ==
  LET c == change[n][k] IN
  /\ c.pc = "owned" /\ c.budget > 0
  /\ Remember(n, k, c.epoch, c.budget)
  /\ change' = [change EXCEPT ![n][k] = [NoChange EXCEPT !.pc = "leased", !.work = c.work]]
  /\ UNCHANGED <<storeVars, machineVars, wire, haltVars, kill, tick, takeover>>

\* closeSocket(), in a restart or in a stop.
SocketClosed(n, k) ==
  /\ HasSocket(n, k)
  /\ sock' = [sock EXCEPT ![n] = @ \ {k}]
  /\ closer' = [closer EXCEPT ![n] = @ \ {k}]
  /\ UNCHANGED <<storeVars, machineVars, wire, leaseMapVars, halted, restore, todo,
                 kill, tick, takeover>>

RestartCloses(n, k) ==
  /\ change[n][k].pc = "leased" /\ change[n][k].work # "stop"
  /\ SocketClosed(n, k)
  /\ Reach(n, k, "closed")

SaveMeta(n, k) ==
  /\ change[n][k].pc \in {"leased", "closed"} /\ ~HasSocket(n, k)
  /\ change[n][k].work # "stop"
  /\ HasLease(n, k)
  /\ PutCatalog(n, proc[n], k, token[n][k], TRUE, FALSE)
  /\ Reach(n, k, "listed")
  /\ UNCHANGED <<machineVars, wire, leaseMapVars, haltVars, kill, tick, takeover>>

SaveCreds(n, k) ==
  /\ change[n][k].pc = "listed" /\ change[n][k].work # "stop"
  /\ HasLease(n, k)
  /\ WriteAuth(n, proc[n], k, token[n][k], Item, {})
  /\ Reach(n, k, "saved")
  /\ UNCHANGED <<machineVars, wire, leaseMapVars, haltVars, kill, tick, takeover>>

\* mutant: protectSocket() throws without fencing
OpenSocketUnfenced(n, k) ==
  /\ change[n][k].pc = "saved"
  /\ change' = [change EXCEPT ![n][k] = NoChange]
  /\ sock' = [sock EXCEPT ![n] = @ \cup {k}]
  /\ IF HasLease(n, k)
     THEN /\ closer' = [closer EXCEPT ![n] = @ \cup {k}]
          /\ todo' = [todo EXCEPT ![n] = IF change[n][k].work = "restore" THEN @ \ {k} ELSE @]
     ELSE UNCHANGED <<closer, todo>>
  /\ UNCHANGED <<halted, restore>>
  /\ UNCHANGED <<storeVars, machineVars, wire, leaseMapVars, kill, tick, takeover>>

\* makeWASocket(), then protectSocket(): without a lease the raw socket exists
\* already, and no closer will ever reach it.
OpenSocket(n, k) ==
  /\ change[n][k].pc = "saved"
  /\ change' = [change EXCEPT ![n][k] = NoChange]
  /\ IF HasLease(n, k)
     THEN /\ sock' = [sock EXCEPT ![n] = @ \cup {k}]
          /\ closer' = [closer EXCEPT ![n] = @ \cup {k}]
          /\ todo' = [todo EXCEPT ![n] = IF change[n][k].work = "restore" THEN @ \ {k} ELSE @]
          /\ UNCHANGED <<halted, restore>>
     ELSE FenceLeaking(n, {k})
  /\ UNCHANGED <<storeVars, machineVars, wire, leaseMapVars, kill, tick, takeover>>

\* stopSession(): the catalog entry stops being restored, then the socket is
\* closed.  A request finds the node serving; a shutdown stops the sessions of
\* any node, with keepAuthFiles, which leaves the catalog alone.
StopSaves(n, k) ==
  /\ change[n][k].pc = "leased" /\ change[n][k].work = "stop"
  /\ CanServe(n) /\ HasLease(n, k)
  /\ \E purge \in BOOLEAN : PutCatalog(n, proc[n], k, token[n][k], FALSE, purge)
  /\ Reach(n, k, "listed")
  /\ UNCHANGED <<machineVars, wire, leaseMapVars, haltVars, kill, tick, takeover>>

StopCloses(n, k) ==
  /\ change[n][k].pc \in {"leased", "listed"} /\ change[n][k].work = "stop"
  /\ change' = [change EXCEPT ![n][k] = NoChange]
  /\ \/ SocketClosed(n, k)
     \/ ~HasSocket(n, k) /\ UNCHANGED <<storeVars, machineVars, wire, leaseMapVars,
                                       haltVars, kill, tick, takeover>>

\* updateSessionWebhook() rewrites the catalog entry, outside transition().
WebhookSaved(n, k) ==
  /\ CanServe(n) /\ HasLease(n, k)
  /\ PutCatalog(n, proc[n], k, token[n][k], TRUE, FALSE)
  /\ UNCHANGED <<machineVars, wire, leaseMapVars, haltVars, kill, threadVars>>

\* A start or a stop throws.  Only calls that use the lease fence, and a
\* failing restore always does.
ChangeFails(n, k) ==
  /\ change[n][k].pc # "idle"
  /\ change' = [change EXCEPT ![n][k] = NoChange]
  /\ \/ Fence(n)
     \/ change[n][k].work # "restore" /\ UNCHANGED haltVars
  /\ UNCHANGED <<storeVars, machineVars, wire, leaseMapVars, kill, tick, takeover>>

\* WhatsApp or the network ends a connection.
SocketEnds(n, k) ==
  /\ k \in sock[n]
  /\ sock' = [sock EXCEPT ![n] = @ \ {k}]
  /\ UNCHANGED <<storeVars, machineVars, wire, leaseMapVars, halted, restore, todo,
                 closer, kill, threadVars>>
-----------------------------------------------------------------------------
(***************************************************************************)
(* takeover(): begin_fence, power-off observed at the provider, and        *)
(* confirm_fence; a failure is only an alert.                              *)
(***************************************************************************)
Target(n) == takeover[n].owner[1]
TargetBoot(n) == takeover[n].owner[2]

BeginTakeover(n) ==
  /\ takeover[n].pc = "begin"
  /\ BeginFence(n, proc[n], Target(n), TargetBoot(n))
  /\ takeover' = [takeover EXCEPT ![n].pc = "poweroff"]
  /\ UNCHANGED <<machineVars, wire, leaseMapVars, haltVars, kill, tick, change>>

\* The provider carries out the poweroff action.
ProviderPowersOff(n) ==
  /\ takeover[n].pc = "poweroff"
  /\ PowerOff(Target(n))

PowerOffObserved(n) ==
  /\ takeover[n].pc = "poweroff"
  /\ ~power[Target(n)]
  /\ takeover' = [takeover EXCEPT ![n].pc = "confirm"]
  /\ UNCHANGED <<storeVars, machineVars, wire, leaseMapVars, haltVars, kill, tick, change>>

ConfirmTakeover(n) ==
  /\ takeover[n].pc = "confirm"
  /\ ConfirmFence(n, proc[n], Target(n), TargetBoot(n))
  /\ takeover' = [takeover EXCEPT ![n] = NoTakeover]
  /\ UNCHANGED <<machineVars, wire, leaseMapVars, haltVars, kill, tick, change>>

TakeoverFails(n) ==
  /\ takeover[n].pc # "idle"
  /\ takeover' = [takeover EXCEPT ![n] = NoTakeover]
  /\ UNCHANGED <<storeVars, machineVars, wire, leaseMapVars, haltVars, kill, tick, change>>

\* An approved operator action or the schema's owner.  The runbook allows the
\* manual fence only after the machine was seen off or its process gone.
OperatorActs(n, b) ==
  /\ \/ proc[n] # b /\ ManualFence(n, b)
     \/ Rejoin(n, b)
     \/ ActivateFencing(n, b)
  /\ UNCHANGED <<machineVars, wire, leaseMapVars, haltVars, kill, threadVars>>

OwnerDisables(n) ==
  /\ DisableNode(n)
  /\ UNCHANGED <<machineVars, wire, leaseMapVars, haltVars, kill, threadVars>>
-----------------------------------------------------------------------------
TickStep(n) ==
  \/ TickStart(n) \/ AliveAnswered(n) \/ RenewAnswered(n)
  \/ ClaimOwned(n) \/ ClaimHeld(n)

RestoreStep(n) ==
  RestoreLists(n) \/ RestoreDone(n) \/ \E k \in Session : RestoreSkips(n, k)

SessionStep(n, k) ==
  \/ \E work \in {"start", "restore", "stop"} : ChangeBegins(n, k, work)
  \/ ChangeOwned(n, k) \/ RestartCloses(n, k) \/ SaveMeta(n, k) \/ SaveCreds(n, k)
  \/ OpenSocket(n, k) \/ StopSaves(n, k) \/ StopCloses(n, k)
  \/ WebhookSaved(n, k) \/ ChangeFails(n, k) \/ SocketEnds(n, k)

TakeoverStep(n) ==
  BeginTakeover(n) \/ ProviderPowersOff(n) \/ PowerOffObserved(n) \/ ConfirmTakeover(n)

\* What goes wrong on a node without anybody asking for it.
Fault(n) ==
  \/ ProcessDies(n) \/ PowerOff(n) \/ TickFails(n) \/ RegisterFails(n)
  \/ GuardedCallFails(n) \/ TakeoverFails(n)

ClusterNext ==
  \/ Advance
  \/ \E r \in wire : Exec(r) \/ RequestFails(r)
  \/ \E n \in Node :
       \/ \E b \in Boot : StartProcess(n, b) \/ OperatorActs(n, b)
       \/ PowerOn(n) \/ WatchdogKill(n) \/ DeadlineTimer(n)
       \/ TickStep(n) \/ RestoreStep(n) \/ TakeoverStep(n)
       \/ \E k \in Session : SessionStep(n, k)
       \/ OwnerDisables(n) \/ Fault(n)

ClusterSpec == ClusterInit /\ [][ClusterNext]_clusterVars

\* Time passes, the interval timers of a process fire, what is on the wire is
\* executed or fails, and answers are handled.  A provider that keeps being
\* asked acts some time, however often takeover() fails in between.
ClusterFairness ==
  /\ WF_clusterVars(Advance)
  /\ WF_clusterVars(\E r \in wire : Exec(r) \/ RequestFails(r))
  /\ \A n \in Node :
       /\ WF_clusterVars(WatchdogKill(n))
       /\ WF_clusterVars(DeadlineTimer(n))
       /\ WF_clusterVars(TickStep(n))
       /\ WF_clusterVars(RestoreStep(n))
       /\ SF_clusterVars(BeginTakeover(n))
       /\ SF_clusterVars(ProviderPowersOff(n))
       /\ SF_clusterVars(PowerOffObserved(n))
       /\ SF_clusterVars(ConfirmTakeover(n))
-----------------------------------------------------------------------------
(***************************************************************************)
(* Properties.                                                             *)
(***************************************************************************)
\* A raw WhatsApp socket is open only in the process that owns the session's
\* key, with the epoch it remembers: nobody else can claim the key while the
\* socket exists, however late the process and the messages are, because the
\* key moves only once the machine was seen off.  So no session has two sockets.
SocketBelongsToOwner ==
  \A n \in Node : \A k \in sock[n] :
    owner[k] = <<n, proc[n]>> /\ epoch[k] = token[n][k]

\* At most one node answers customer requests.
OneNodeServes == \A m, n \in Node : CanServe(m) /\ CanServe(n) => m = n

\* A lease that a process believes in is one the database grants it, for at
\* least as long: the local deadline counts from the sending of the call that
\* the database counts from its execution.
LocalDeadlineIsEarlier ==
  \A n \in Node, k \in Key : token[n][k] > 0 /\ left[n][k] > 0 =>
    owner[k] = <<n, proc[n]>> /\ epoch[k] = token[n][k] /\ left[n][k] <= ttl[k]

\* A socket no closer reaches exists only in a fenced process, which the
\* watchdog is about to kill.
LeakedSocketIsFenced ==
  \A n \in Node : sock[n] \subseteq closer[n] \/ halted[n]

\* A raw socket is the owner's, and within its reach or about to end.
SocketsAreOwned == SocketBelongsToOwner /\ LeakedSocketIsFenced

\* With supervisors that work, begin_fence finds the process it is about to
\* cut off dead already: a standby that takes over never powers off a process
\* that still serves.
FencingFindsProcessDead ==
  Watchdog => \A n \in Node :
    state[n] = "fencing" /\ boot[n] # NoBoot => proc[n] # boot[n]

\* A process that goes on ticking, with the right to fence.
HealthyFencer(n) ==
  Running(n) /\ ~halted[n] /\ mayFence[n] /\ Identity(n, proc[n])

\* Failover: while some node goes on ticking and may fence, the service does
\* not stay down, whatever happens to the node that was serving.
ServiceComesBack ==
  \A n \in Node :
    <>[]HealthyFencer(n) => []<>(\E m \in Node : CanServe(m))
=============================================================================
