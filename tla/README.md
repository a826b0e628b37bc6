# A verification of the jumpstart WhatsApp service

The service connects organisations ("sessions") to WhatsApp, sends messages for
them through a rate-limited pool, relays inbound messages to webhooks, and can be
deployed as an active/standby pair of machines that share one database. This
directory holds TLA+ models of the parts in which order, time and failure decide
whether it works, what TLC checks about them, and what TLAPS proves.

Contents: [Inventory](#inventory) · [Modules](#modules-and-how-they-correspond-to-the-code) ·
[Runs](#runs) · [Bounds](#bounds) · [Fairness](#fairness) · [Proofs](#proofs) ·
[What the model leaves out](#what-the-model-leaves-out) · [Findings](#findings) · [Plan](#plan)

Paths below are relative to `src/`; the TypeScript sources are in `src/src/`.

## Inventory

### The HA deployment (`src/ha/`, `supabase/migrations/20261014073436_wa_ha_phase1.sql`)

| Component | State | Operations | Talks to |
|---|---|---|---|
| **Lease store**: schema `wa_ha`, `ha/store.ts` | `nodes`, `leases`, `fences`, `auth_state`, `catalog`, `approvals`, samples, alerts | `register_node`, `try_acquire`, `renew`, `write_auth`, `put_catalog`, `check_send`, `begin_fence`, `confirm_fence`, operator actions | every node's service, fencer and operator login |
| **Coordinator**: `ha/coordinator.ts`, `ha/authState.ts` | `halted`, `leases` with local deadlines, `closers`, `transitions`, `takingOver`, `restoring`, `restored` | `start`, `tick` every 5 s, a 100 ms deadline timer, `fence`, `takeover`, `acquireSession`, `transition`, `protectSocket` | store, supervisor (heartbeat), fencer, session manager |
| **Supervisor**: `ha/launcher.ts`, `ha/supervisorClock.ts` | the child's deadline | fork, heartbeat, SIGKILL | coordinator |
| **Fencer and provisioner**: `ha/providers.ts` | an action at the cloud provider | power off and observe; one paid attempt to create a machine | provider API, approvals |

What is hard: two machines, one database, one provider, and no common clock. Every
database call can be late, lost, or executed after its caller is dead; a process may
be paused for any time; a fenced process may still have a socket to WhatsApp.
Correct means: one node serves; a session's socket is only ever open in the process
that owns the session's key; a key changes hands only after the machine of its
owner was seen powered off; and the service comes back after a crash.

### The sender pool (`src/pool/`)

| Component | State | Operations | Talks to |
|---|---|---|---|
| **Sender pool**: `senderPool.ts`, `poolStore.ts`, `rateConfig.ts` | two lanes of jobs, `processing`, one timer, `paused`, consecutive failures, the day's count and the timestamps of marketing messages; on disk as JSON | `enqueueAndWait`, `enqueue`, `processQueue`, `sendOfficialOtp`, `onSession…`, `onMessageDelivered` | providers (sending), session events, HTTP routes |
| **Capacity planner**: `capacityPlanner.ts` | none | an estimate of the day's capacity | HTTP |

What is hard: the worker gives way at two awaits while timers, ceilings, pauses,
one-time passwords and disconnects arrive, and a job leaves its queue and comes back
to it. Correct means: no lost wakeup, nothing sent that was reported as not sent,
caps and gaps kept across midnight and restarts, a brake that holds.

### Sessions and providers

| Component | State | Operations |
|---|---|---|
| **Session manager and HTTP gate**: `sessionManager.ts`, `index.ts` | provider of each session | start, stop, webhook update, 503 while not serving |
| **Baileys provider**: `providers/baileys/` | sockets, timers, suppressed sockets, `intentionallyStoppedOrgIds` | start, stop, reconnect, keepalive, suppression, restore, recovery |
| **Session auth lock**: `lib/sessionAuthLock.ts` | a lock file with pid, boot and heartbeat | acquire, refresh, release, take over from the dead |
| **File auth state**: `lib/hardenedMultiFileAuthState.ts` | credential files and a backup | write through a temporary file, read with fallback |
| **Session metadata**: `lib/sessionStore.ts`, `lib/sessionWebhookUrl.ts` | one JSON file for each session | save, load, list |
| **Meta Cloud provider**: `providers/meta-cloud/`, `lib/metaClient.ts` | none; shared recovery of the OTP session | send, webhook verification |
| **Recovery scheduler and shutdown**: `lib/sessionRecoveryScheduler.ts`, `lib/shutdown.ts` | a retry timer | recovery passes, orderly stop |

What is hard: every handler awaits I/O between reading and changing the maps of
sockets and timers. Correct means: one socket a session, a stopped session stays
stopped, a dropped one is reconnected or given up for a reason, credentials are never
half written.

### Requests (`src/routes/`, `src/middleware/`)

| Component | State | Operations | Talks to |
|---|---|---|---|
| **Group and contact routes**: `groups.ts`, `contacts.ts` | two caches | what a CRM does with a group or asks of a number, one handler each | a session's live socket, the device's policy |
| **Sends**: `messages.ts`, part of `sessions.ts` | none | one message, or up to 100 in one request | sender pool, provider |
| **Starts**: part of `sessions.ts`, `connect.ts` | the page's polling | start, migrate, connect page | entitlement, session manager |
| **Entitlement and policy**: `lib/supabase.ts`, `lib/deviceSendPolicy.ts`, `lib/validationAlert.ts` | throttle of alerts | `validateOrg`, `assertDeviceCanSend` | the hub's and JumpStart's databases |

What is hard: a handler awaits up to a dozen things, and while it does the licence, the
policy, the socket and the account change; WhatsApp may perform what it was asked and
never say so. Correct means: nothing is done for a device that must not send, what was done
is not reported as an error, an outage is not taken for an ended licence, and everybody
gets an answer.

### Telling the world (`src/lib/`)

| Component | State | Operations | Talks to |
|---|---|---|---|
| **Webhook dispatcher**: `webhookDispatcher.ts`, `webhookHealth.ts`, `webhookAudit.ts` | failure log, pending health writes | three attempts at each event, probes of every session | the receiver, JumpStart |
| **Device monitor**: `waDeviceMonitor.ts`, `waDeviceObservation.ts`, `waDeviceWrite.ts`, `otomatorAlertPolicy.ts` | when a session went down, the slots of observations | heartbeats, status writes, alerts | both databases, WhatsApp, email |
| **Inbound pipeline**: handlers in `baileysProvider.ts`, `groupInbound.ts`, `backfillGuard.ts` | none | a message becomes a webhook | dispatcher |

What is hard: writes are lost and overtake each other, intervals start the next pass while
the last one still waits, handlers do not wait for each other. Correct means: the rows come
to say what is the case, every event arrives in order or is in the log, and staff hear of
every outage that lasts.

### Around them

The store of outgoing messages (`lib/outgoingMessageStore.ts`) keeps on disk what WhatsApp may
ask for again; its sweeps overlap, and the newest messages must survive them. Capacity planner, device
reconciliation for the operator, media and template caches, the bot, cryptography.
`PROJECT.json` lists each with its status; its `hazards` list says, line by line, what can go
wrong that a test would hardly reach, and which property watches it.

## Modules and how they correspond to the code

```
ExclusiveOwner                     what a lease store promises
   ^ implemented by
HaStore  <── HaStoreProofs         the tables of wa_ha, one action for each function
   ^ extended by
HaCluster  <── HaClusterProofs     processes, coordinators, supervisors, provider
HaApprovals ┐                      what operators approve, and what is done with it
HaSend      ┴<── HaEffectProofs    the sends of one protected socket
   ^ HaCluster, HaApprovals        ^ HaCluster        ^ HaSend, SenderPool
MCHaCluster                        MCHaSessions       MCSending
                                   MCHaFailover

SenderPool  <── SenderPoolProofs   one session's pool
   ^ extended by
MCSenderPool  MCSending

BaileysSession  <── BaileysSessionProofs   one session of the Baileys provider without HA
   ^ extended by
MCBaileysSession

SessionDir  <── SessionDirProofs   one session's directory: lock, credentials, keys
Onboarding  <── RouteProofs        who may start a session
OutgoingStore  <── SessionDirProofs  the messages it keeps for retries
   ^ all extended by
MCSessionDir

WaDevice                           policy, status and socket, as handlers see them
   ^ extended by
SocketRoutes  SendRoutes           groups and contacts; messages through the pool
   ^ both extended by
Routes  <── RouteProofs            both at once
   ^ extended by
MCRoutes

LiveSession                        a session as those see it that report on it
   ^ extended by
DeviceStatus  <── EventProofs      its rows
OutageAlerts                       the alerts to the staff
Webhooks  <── EventProofs          its events
WebhookHealth                      the health of their receiver
   ^ composed by
MCEvents
```

**ExclusiveOwner** is the abstract specification. A key has one holder; it is granted
to somebody else only after its holder was *retired*, for good; every grant raises the
key's token; only the present, unretired holder writes under a key, and what it writes
carries the present token. There is no time in it: a lease's expiry, by itself, gives
nobody anything.

**HaStore** models the tables. `enabled, state, boot, mayFence` are the columns of
`nodes`; `owner, epoch, ttl` those of `leases`; `fences`, `auth`, `catalog` the tables
of those names. An expiry is kept as the time left (`ttl`), so a tick of the clock
decrements it. Each SQL function is one action, since it locks what it reads: the node
row (`FOR SHARE` in `identity()`, `FOR UPDATE` where it changes), the lease row, the
key's advisory lock. The exception is `check_send` in `sendWithPermit`, whose transaction
stays open while a message is transmitted: `permits` holds those transactions, and
`NodeRowFree` and `KeyFree` are the waits of the others for its locks. A function waiting
for a lock is an action that is not enabled; one that raises an exception changes nothing
and is no action here. `StoreNext` lets any node call anything with any boot and
any epoch ever handed out, which covers every late, repeated or stale call.
The one restriction on callers is that a process registers once with a boot nobody used
(`randomUUID`). `BootlessFence` is `begin_fence` for a node nobody ever registered, whose boot is NULL: the
state becomes fencing, and as `confirm_fence` compares boots nothing ever confirms it. `auth` records which epoch wrote a row, a ghost of the ciphertext that
the property about stale writers needs.

**HaCluster** adds to that store, on each node, a machine (`power`), a process (`proc`, its
boot), its `HaCoordinator` and its supervisor. `register_node`, `try_acquire` and `renew`
are requests on a `wire`: the store executes them any time later, also after the caller
gave up or died, and the answer is handled in a step of its own, if the caller
still waits. `tick[n]`, `change[n][k]` and `takeover[n]` are the program counters of
`tick()`, of the start or stop of a session inside `transition()`, and of
`takeover()`; an action is what runs from one await to the next. `left` is the time to a lease's local deadline, counted
as `remember()` counts it, from the sending of the call; `kill` is the time to the
supervisor's. `FenceLeaking` is `fence()`: it runs once, and each closer may throw
and leave its socket open. `OpenSocket` is the end of a start, in
which the raw socket exists before `protectSocket()` looks for the lease. The end of a
process forgets everything in memory and leaves wire and store as they are.

**HaSend** models the sends of one protected socket above that store: `line` is the chain of promises
of `runFenced()`, `at` the await of each `sendWithPermit()`, `held` the send whose
transaction is open in the database, `going` the operations that have not settled, which outlive
their deadline and their transaction. Everybody else calls the store meanwhile (`OthersCall`). `torn` and
`crossed` are histories: a transaction that the database ended on its own, and a key that was lost during an
operation.

**HaApprovals** models the table `operator_approvals`: `ConsumeApproval` is the guarded update,
`OperatorNodeAction` spends an approval and acts in one transaction, `Provision` spends it before
`Posts` asks the provider, who may carry out a request late or never. The answer of each call may be
lost, and every caller may end anywhere.

**SenderPool** models one session's pool. A step runs from one await of
`processQueue()` to the next; `worker` says at which await it is, `timer` whether
`processorTimer` is set. `Loop` is one turn of the loop, with operational jobs first, and
`Leave` the `finally` block. `marketing` holds the accounts of the limits, and `file` what
is on disk, apart from what is in memory: each handler saves where the code does, and
`onSessionConnected()` reads the file again (`Connected`). A kill may come anywhere: `Restart` reads the last save,
`RestartUnbraked` comes between the two saves of `onSendFailure()`, `RestartTorn` in the middle of one, which
leaves a file that is read as a new pool's. `Purge` removes the file. `caller` is what the one who asked has been
told, and `acked` a history of acknowledged marketing messages, with the times at which they were sent off and
acknowledged, that the properties about limits are stated on; it begins anew where the pool begins with the
default state. `cut` says that the failure that pulls the brake was saved and the pause was not.

**BaileysSession** models one session without HA. A start is named by the session object
and the socket it makes: `starting` says which starts await the auth state and who called
them, `conn` is the connection of each socket, `session` with `status` the entry of
`sessions`, `mapped` that of `sockets`. `stopped`, `suppressed`, `timer` and `keepalive` are
`intentionallyStoppedOrgIds`, `suppressReconnectSockets`, `reconnectTimers` and
`keepaliveTimers` with its misses. `Opens`, `OpenHandled`, `Closes` and `CloseHandled` are
the handler of `connection.update` before and after its writes, so handlers of several
sockets overlap; `Teardown` is `forceTeardownAndReconnect()`, part of `Probe` and of two
steps of a send. `pass` is the restore at boot and the recovery passes after it. `meta`,
`paired` and `lock` are what is on disk, and all that `Exit` leaves. An exception in the
reconnect timer is one nobody handles, which ends the process (`crashCapture.ts`); other callers of
`start()` catch it. `writes` is the queue of credential writes of a directory that was removed, which nobody
drains or drops: `CredsWritten` brings a login back into `creds.json`. `asked` is what was last asked of
the session, by a start, a stop or a purge; what restores, recoveries and timers do leaves it as it is.
`overlapped` is a history: in this process a start, stop or teardown of
the session came while a start awaited, or a stop or a route's start while the
restore did. The code has nothing against it and the routes can do it: without `overlapped` in them TLC
finds, within five steps, two starts that each open a socket, of which only the later is
in `sockets` and the other is never ended (`OneSocket`), and a stop that releases the lock
of a start that then opens the session (`SocketIsLocked`, `StoppedIsQuiet`). The properties of
`session_safe` say that all the rest keeps its order.

**SessionDir** models `sessions/<key>/` shared by several processes: `pid` says which boot
runs under which pid, `foreign` which pids other programs have. `StartOwned` reads the lock as
`acquireSessionLock()` does and decides by `IsPidAlive`; `ClaimLock` is the rename that takes
it, a step of its own because another process may come between. `Load` reads the folder,
`SetKeys` and `Pairs` change what is in memory and queue a write, `WriteTemporary`, `Rename`
and `WriteFails` are the steps of `atomicWriteJson()`; two files of keys stand for all of them.
`Exits` ends a process anywhere, `Purge`, `Migrate` and `StopKeeping` are the ways a session
leaves its directory. `excused` is a history of what the code has nothing against and the
properties therefore except, named in the module: two processes that read the lock before
either renames (`raced`), a removal under a holder (`stolen`), writes queued at a removal
(`late`) or at another start (`stale`), and writes the disk refuses (`lossy`).

**OutgoingStore** models stores that nobody waits for (`Writes`, `Renames`), every `Every`-th of which sweeps
the directory: `sweep` is what each sweep has listed and not yet looked at, or found too old (`Stats`,
`Cuts`, `Unlinks`), with the time it began at. Sweeps overlap each other and other stores, and a restart
ends them and sets `count` to zero.

**Onboarding** models `validateOrg()` with one action for each table it reads. `licence` is
what the tables say and changes between reads, `config` which databases the deployment has,
`ask` what each request is at and what it found. `ever` and `throughout` are histories of what was
in force while the request ran. `Fails` is `recordOrgValidationFailure()` with its throttle, which is set before
the alert goes out and stays when the alert fails; `quiet` is the throttle's age, and `alertAge` a history of each
request's own: the ticks since it last set out to alert.

**WaDevice** is what a handler reads of one session: the tables behind
`assertDeviceCanSend()` (`device`), `status` of the manager and `sock`, the generation of the socket in
the map, with `open` for its WebSocket. They move at any time, also between the up to three reads of
`readDeviceListenOnly()`: `ReadDeviceListenOnly` says what the answer of one read leads to, the next table or a
verdict. `Facts` is what the tables say at one moment, and `MaySend` which facts, each true at some
moment, let a device send.

**SocketRoutes** writes each handler as its *plan*, the sequence of things it awaits, each with
what an error or a timeout makes of the request (`GroupCreate`, `ContactProfile`, … one for
each route). One set of actions runs all plans: `TableAnswers` (one read of the policy, `reading`), `ReadPolicy` (its verdict), `TakeSocket`, `LookInCache`,
`Issue` and so on, `Performs` is WhatsApp, `Reply` its answer, `QueryTimesOut` the timer of
`withTimeout()`. `done` and `back` are histories of what WhatsApp did and what the handler
heard of it, `shown` of what was so of the device since the request came.

**SendRoutes** follows a message from its request through the pool to WhatsApp. `step`,
`index` and `results` are the handler's, `job` says where the message is: queued, before
either policy check, in flight. Handlers and deliveries read the policy table by table (`TableRead`, `look`), and `held`
is a history of what was so while a delivery read it for the last time. Baileys loads media inside
`sock.sendMessage()`, after that: a message in flight may still wait for its media, and may fail for it (`FlightFails`). `CeilingFires` and `WorkerGivesUp` end a wait and
nothing else, so a message may still leave after its caller was told `send_timeout`. Order
and limits of the pool are SenderPool's; here any queued job may be next.

**Routes** is both at once: each behaviour of it is one of either module, and they see the same
device. What a send does to the socket (`TornDown`) the handlers of the others see as the device's own step.

**LiveSession**, **DeviceStatus**: a session just moves; each of its connection events gets a
handler that writes the hub's row and then JumpStart's, beside heartbeats and audits. A
request is lost, applied, or applied with its answer lost, and requests overtake each other.
`slot` is the session's entry in `attempts` of `createDeviceObserver()`, with the call that made it.

**OutageAlerts** models passes of `runHeartbeatTick()` that overlap: `pass` is where each is,
`since` the entry of `nonConnectedSince`, `alerted` the row's `alerted_at`, which a pass reads before its loop
(`RowRead`) and uses when the loop comes to the session (`Decides`), any time later. `served` says
whether database and mail serve this pass to its end.

**Webhooks** models handlers that post their events one after another; `failureLog` is the
bounded log, `safe` whether the URL passes `assertSafeOutboundUrl()`, `excused` the
events that were pushed out of the log, cleared, or lost with the process. **WebhookHealth** models the
write that each end of a delivery tries to make, dropped while another is pending (`chain`),
and the audit beside it (`running`, `verdict`). A probe carries no webhook secret and goes to the URL of
`meta.json`, so it may be answered (`probed`) otherwise than a delivery (`receiver`).

**MCHaCluster, MCSending, MCSessionDir, MCRoutes, MCEvents** are sums: `part` chooses at the start which
of their modules a behaviour runs, while the others stay where they began. The modules of one
sum share no state that both change, so nothing is lost by not interleaving them, and one run
asks one question of a whole area.

Definitions marked "mutant" are deliberate bugs (a guard dropped, a reset forgotten, an
off-by-one). No specification uses them; each stands beside what it is a wrong version
of, and `PROJECT.json` pairs it with the property that TLC finds violated when it is used
instead. They show that every property depends on the code it is about.

## Runs

`tlc -config X.cfg M`. The runs `ha_sessions`, `ha_failover`, `pool_rates`, `session_safe` and
`session_retried` check deadlock; in the others behaviours end, because boots, jobs or requests run out.

| Run (cfg) | Question | Properties |
|---|---|---|
| `ha_cluster` (`HaCluster.cfg`) | Do the SQL functions keep their promises, whoever calls them in whatever order? Do two nodes ever both serve, does fencing ever hit a live process? Is an approval spent once? | `StoreTypeOK`, `FencedBootIsPowerless`, `FencingIsQuiesced`, `PermitHolderUndisturbed`, `NoOrphanedLease`, `ImplementsExclusiveOwner`, `OneNodeServes`, `FencingFindsProcessDead`, `ApprovalIsSpentOnce` |
| `ha_sessions` (`HaSessions.cfg`) | A session is started, restarted, stopped, restored and taken over although supervisors may fail: does its socket stay with the owner of its key? | `LocalDeadlineIsEarlier`, `SocketsAreOwned` |
| `ha_failover` (`HaFailover.cfg`) | Does service come back? | `ServiceComesBack` |
| `sending` (`Sending.cfg`) | Jobs of both lanes, ceilings, pauses, OTPs and restarts in any order: is a wakeup lost, is anything sent that must not be, are operational jobs answered while marketing jobs put the worker to sleep? Under HA, do sends overlap, are they acknowledged although the key was lost, does one hold back the rest? | `NoLostWakeup`, `QueuedIsWanted`, `BrakeHolds`, `NoSendWhilePaused`, `OperationalServed`, `SendsAreShielded`, `SendIsSettled` |
| `pool_rates` (`SenderPoolRates.cfg`) | Do cap, gap and hourly limit survive slow sends, reconnects, kills and midnight, as long as the file is not lost? | `LimitsHold` |
| `session_safe` (`SessionSafe.cfg`) | Starts, stops, late handlers, timers, probes, sends, restore and recovery of one session in any order, in this process or the next: is there one locked socket, and none after a stop until a start is asked for? | `OneLockedSocket`, `StoppedIsQuiet`, `RecoveryIsAlone` |
| `session_retried` (`SessionRetried.cfg`) | Is a dropped session always tried again? | `SessionRetried` |
| `session_dir` (`SessionDir.cfg`) | Processes that end anywhere share a directory: are lock, credentials and keys sound? Who gets a session, and how often are the staff told of failures? Which messages are kept for retries? | `OpenersHoldLock`, `DiskIsSound`, `GoneStaysGone`, `AnswerFollowsLicence`, `AlertsAreSpaced`, `RetriesAreKept` |
| `routes` (`Routes.cfg`) | Requests overlap while policy, socket and WhatsApp change under them, also between the reads of one policy check: who acts, what is reported, who is answered? | `PolicyIsKept`, `DoneIsReported`, `ProfileIsRecent`, `AnswersAreTrue`, `RequestsAnswered` |
| `events` (`Events.cfg`) | Do rows, alerts, webhooks and their health follow what happens, although requests are lost and overtake each other? | `SlotIsReservation`, `NoEventIsPassedBy`, `RowConverges`, `AlertFollows`, `HealthFollows` |
| `session_given_up` (`SessionGivenUp.cfg`) | Does recovery retry a session whose start threw? (No: see Findings.) | `RetryNextInterval`, violated |
| `pool_midnight` (`SenderPoolMidnight.cfg`) | Is the hourly limit a rolling one? (No: see Findings.) | `HourlyCap`, violated |

Every component's module has a type invariant, `…TypeOK`, which gives the types of its variables (those of
`WaDevice` and `LiveSession` are in the modules that extend them). The
store's is a property of `ha_cluster` and proved; the others are true in the runs of their
modules too and are not listed there, because they say nothing about the code.

What the less obvious properties say:

* `NoOrphanedLease`: whoever owns a key is fenced or can still be. `confirm_fence` and
  `manual-fence` insist on the boot in the node's row; a row that forgot the boot of an
  unfenced owner would lock its keys for ever.
* `FencingIsQuiesced`: between `begin_fence` and a rejoin the node being fenced has no
  live lease, so what the provider powers off can no longer write or send.
* `LocalDeadlineIsEarlier`: a lease a process believes in is its own in the database and
  lives at least as long there, however late the answer was.
* `SocketsAreOwned`: the strongest statement about safety. It holds although the
  process may have been fenced long ago, a closer may have thrown, and its supervisor may
  be gone (`Watchdog = FALSE`), because a key moves only once the machine was seen off.
* `FencingFindsProcessDead` needs the watchdog: then the 15 seconds of the process end
  before the 60 seconds of the lease, and a takeover never powers off a node that still
  serves.
* `ServiceComesBack`: if some node goes on ticking with the right to fence, some node
  serves again and again.
* `SendsAreShielded`: a send is acknowledged only if the key was its process's from begin to end, although
  the database may end its transaction, and no two operations overlap unless the process is fenced.
  `SendIsSettled`: a send whose operation never settles does not hold back those behind it.
* `ApprovalIsSpentOnce`: at most one machine, request or action for each approval, and an
  approval of a node action is spent only with its effect, on the boot it was given for.
* `StoppedIsQuiet`: once a stop was the last thing asked of a session, nothing but a start that is asked for
  gives it a socket, a reconnect or a start, neither in this process nor in a later one, and the same holds of a
  purge until a queued write has brought a login back (Findings). Two flags keep it from reconnecting, one of them cleared by
  whichever socket opens or closes first. Replaced sockets close late, and only the set of
  suppressed sockets keeps the second close after a restart and a stop from reconnecting.
* `SessionRetried`: close, teardown, probe, restore and recovery leave the reconnect to each
  other by looking at the same maps; no order of them makes all look away.
* `QueuedIsWanted`: what is queued has not been given up, and is queued once. It is why a
  job that timed out in its queue is not sent later.
* `BrakeHolds`: the brake is pulled after the limit of failures, also across kills. Two ways around it are in its text
  or its model: a kill between the two saves of the last failure (`cut`), which the next failure ends, and a lost file,
  after which no failure has been counted either.
* `LimitsHold` has three parts: the cap of a day, the gap, and the hourly cap for hours
  within a day. They are stated on what WhatsApp acknowledged, not on the pool's counters, and hold from one loss of
  the pool's file to the next (Findings).
* `OpenersHoldLock`: whoever has loaded a session's credentials holds the lock, so no two
  processes write them, although the lock is judged by a pid that another program may have.
* `DiskIsSound`: a crash between any two steps of any write leaves
  credentials whose keys are on disk, and with an empty queue the disk has what memory has.
* `RetriesAreKept`: a stored message is deleted only when it expired or as many as the cap are newer,
  whichever sweeps overlap or end half-way; and without a restart the directory stays within the cap
  and the stores between two sweeps.
* `AnswerFollowsLicence`: whatever read fails, or changes between two reads, a start was
  entitled at some time while the request ran, and "subscribe" is told to nobody who was
  entitled all along.
* `AlertsAreSpaced`: a failure of one code alerts the staff exactly if no request has set out to for a gap, whichever requests meet it
  and however many alerts are on their way: never two in a gap, and none kept quiet for longer. That an alert which set
  out also arrives is not said, because the code does not see to it (Observations).
* `PolicyIsKept`: WhatsApp does only what the tables let the device do since the request came, and a message is handed over only if
  they did while its delivery read the policy for the last time; a check when it was queued would not do. The tables are
  read one after the other, so what let it send may have been true at different moments.
* `AnswersAreTrue`: of each message in a request, in order. A refusal is final: no later step
  of the pool sends what was refused.
* `DoneIsReported`: a group that was created is answered as created, whatever fails after.
* `NoEventIsPassedBy`: an event arrives or is in the failure log before its handler, or the
  receiver, gets to the next.
* `RowConverges`, `AlertFollows`, `HealthFollows`: if the world stays as it is, the row says so
  from some time on, whichever writes were lost or late before. Where the receiver answers a probe otherwise than a
  delivery, `HealthFollows` says that the row has one of the two answers and nothing older; it goes on changing between them.

## Bounds

* `ha_cluster` has three parts. In the part `store` two nodes call the store with three boots,
  one key and one item. Three boots let a node crash or be fenced and come back, and let a
  fenced and a new boot of one node coexist with an owner on the other. Keys meet only in
  the node row: `BeginFence` looks at all leases of a node, and a second key is in
  `ha_sessions`. In the part `cluster` two boots are one crash and one successor, or one
  process on each node; that is the whole story of a failover. In the part `approvals` the same two nodes
  register with the same two boots, with two approvals of any kind and two callers. `LeaseTtl = 2`, `SelfFence = 1`:
  live, about to expire and expired, and the ratio of the code's 60 and 15 seconds. The states are
  finite because boots run out, which is why deadlock is not checked here: with all
  boots used and fenced nothing more can be called.
* `ha_failover` has the bounds of the part `cluster`. `MCHaFailover` activates fencing before the
  first claim and keeps the operator out, so only `takeover()` can bring the service back, and
  adds no symmetry, which would be unsound for liveness.
* `ha_sessions`: the cluster key and one session, `LeaseTtl = SelfFence = 1`, which makes
  the local deadline as late as the code could possibly have it. To stay within minutes
  `MCHaSessions` activates fencing before the first claim, lets a request linger on the
  wire for ever instead of dropping it, and leaves operator and `PowerOn` to `ha_cluster`.
  Fences by a failed tick or a failed guarded call, closers that throw, crashes and
  takeovers all occur.
* `sending`: in the part `pool` one operational job, one marketing job somebody waits for and one nobody
  does, `MaxFailures = 2`, two units of time. The operational job waits while a marketing job
  is sent or sleeps; failures stop being counted at `MaxFailures`, where the code only
  compares with "at least". No symmetry, since some properties are liveness properties. In the part
  `permits` one process has two sends for one session, one behind the other, and a node that may fence it.
* `pool_rates`: three marketing jobs, a cap of two a day, days of eight units, long enough
  for a third message that the hour of two would allow, and three units after midnight: a send
  can begin before it and be acknowledged long after. The gap (2 to 3) is shorter than the hour
  blocks, so that each limit has cases of its own. `pool_midnight` has days of four and a
  gap of one, so that messages fit into the hour around midnight.
* `session_safe`: three starts: a session object, its socket, and a replaced one whose
  handlers are still at work, with every kind of failure of a start. A name is used again
  when nothing refers to it any more. `session_retried` has two, no
  symmetry, and `Throws = FALSE`, because with `TRUE` `session_given_up` shows
  that a session is given up.
* The clock of the pool stops at `MaxTime`; nothing else does, so in `pool_rates` the pool does not deadlock.
* `session_dir`: three processes, so that two can run while a third has died and its pid is
  given again, and two pids, so that it is. Two login identities of which the first has two
  revisions, two writes waiting in a process: a purge, a new pairing and a stale write of the old
  one. The constraint `StillSaid` leaves out what follows a race for the lock or its
  removal under a holder, of which no property says anything. Two requests, one of them a connect
  page; three licences and three configurations (`MCLicences`, `MCConfigs`) that reach every read
  and every answer, and one change of the licence while requests run.
  In the part `outgoing` four messages are stored, every second store sweeps, one message is kept and
  messages expire after one unit of time of three: two sweeps overlap, list what the other
  deletes, and end half-way; after a restart nothing expires any more.
* `routes`: in the part `sockets` two requests of any route, two sockets, two changes of the
  device's rows; timers of one tick, a cache that lives one tick, and a clock of five, so that an
  entry is filled twice, expires and is filled again. `MCRoutes` gives the optional parts of a
  body where they matter. There `Together` lets a second request run beside the first
  and after it where the two share a cache (profiles, participating groups); any other request runs
  alone and first. `RowsMatter` lets the rows change only while a request runs that
  will read them, and the clock stands still while no timer and no cache entry depends on it. In the part `sends` a bulk request of two messages, one of which does not wait
  for the pool, and a single one. Rows of every kind stay as they are under both (`AloneWithChanges`), and change once under either alone, of which the bulk request
  has two messages on their way: each message reads the policy for itself, and two
  requests meet in the pool and at the socket. Requests end, so deadlock is not checked here nor in `events`.
* `events`: two handlers, two heartbeats, two passes and two batches of two events: one and one
  that overtakes it. Three attempts as in the code, a log of two, `Window = 1` and
  `OutageAlert = 2` units of time. One session is monitored, since sessions meet only in the order
  of a loop.

## Fairness

* Cluster: time passes; the interval timers of a running process fire (`TickStep`,
  `DeadlineTimer`, `WatchdogKill`); what is on the wire is executed or fails; the restore
  makes its steps. The steps of a takeover are strongly fair: `takeover()` may fail any
  number of times, and is started again by the next tick that sees the expired lease, so a
  provider and a database that keep being asked do what is asked at some time. Nothing is
  assumed of crashes, operators, sessions or the connections to WhatsApp.
  `ServiceComesBack` also assumes, in its own text, a node that stays healthy.
* Session: awaits end, timers fire, and a socket that was ended closes, as Baileys does.
  A restore or a recovery that is tried for ever finds a webhook URL and
  the lock free at some time, also when the process keeps crashing (strong fairness of the
  restore's look and of its start: the restart policy of Docker starts it again, and a
  recovery pass comes every 15 minutes). Nothing is assumed of connections,
  probes, sends, routes or crashes. `SessionRetried` leaves out processes in which starts
  overlapped, where a name may be lost to a socket nobody ends, and a session whose migration
  failed after the stop, which stays stopped until its process ends.
* Routes: handlers go on, the databases answer their reads of the policy, a timer that is due fires, and time passes while one is set (strong
  fairness, since a reply may disable it again and again); the ceiling of the pool fires. Nothing is
  assumed of WhatsApp, the worker of the pool and its deliveries, the databases' contents or the socket: requests are
  answered although WhatsApp never replies and the pool is paused.
* Events: requests to a database end, one way or the other; intervals start heartbeats, passes and
  audits; time passes. Of the heartbeats, passes and health writes that are made for ever, some get
  through (one strong fairness for the three, as each behaviour runs one part). For `HealthFollows`
  deliveries go on being made. A pass that is served has a mail server that takes its email; how long it takes is
  open, since its loop may wait for many sessions. Webhooks and the directory are checked for safety only.
* Sends under HA: connecting, each query and the wait for an operation have an end (3, 4 and 10
  seconds), so some send goes on while one can (`SendFairness`). Operations never need to settle, and
  nothing is assumed of the store, the others or the deadline.
* Pool: a timer that is set fires, a sleep ends, and `withTimeout()` ends every send.
  Nothing is assumed of the clock, the connection or the ceilings, and
  `OperationalServed` is about a pool that stays out of pauses, because a pause is meant to
  hold everything back.

## Proofs

`tlapm M.tla` checks them for every value of the constants, under the assumptions named in
the modules: `NoBoot`, `NoOwner`, `NoAction`, `NoPid`, `NoSend` and `None` are not values of their types,
`LeaseTtl` and `AlertGap` are positive, jobs are of one kind each, the rates are positive, an hour is no
shorter than a minute, each event is posted by one handler, once, and each message is in one request, once. The theorems are about the
specification of the module alone; where a run composes it with others, each step of the
composition is one of its steps or leaves its variables alone.

**HaStoreProofs** proves every invariant of the store in `ha_cluster`, and the refinement. The
invariants are proved together (`StoreInv`): that a fenced boot is powerless needs to know
that a boot about to register was never fenced, which is the strengthening
`BootsAreRegistered`; that a granted key leaves its old owner harmless needs the fence; that
a permit's holder is undisturbed needs the absence of locks in the steps that would
disturb it. `StoreInvStep` has one step for each SQL function.
`StoreImplementsExclusiveOwner` maps each function to `Grant`, `Retire`, `Write` or a
stutter: `write_auth` is a `Write` only because `FencedBootIsPowerless` shows that whoever passes
`check_lease` is not retired.

**SenderPoolProofs** proves that no wakeup is lost, that the brake holds and that nothing
is sent while paused, for all jobs, rates and clocks. The invariant `PoolInv` joins
`ControlOK` (the types of what the control reads), `NoLostWakeup`, `BrakeHolds` and `FileOK`, which says of the saved
state what `BrakeHolds` says of the one in memory, with the kill between two saves as its one exception.
`LeaveControl` and `LoopControl` say once what the worker's two building blocks preserve,
`WithoutQueue` that removing a job leaves a queue. Two more invariants stand on it. `WantedInv` proves
`QueuedIsWanted`: the lanes are `Tidy`, and the job being sent is in none of them and is not new, so neither a
retry nor a second enqueue can queue it twice. `LimitsInv` proves `LimitsHold`, in three parts that relate the
pool's memory to the history of what was acknowledged: the history is `InSequence`; the timestamps and the count
of the day account for every acknowledged message since the day began (`Counted`), so a count the code compares
with a cap bounds the number in the history; and the history is `Capped`. All three hold of the accounts in `file` too (`Ledger`), whatever
was saved since, because a kill or a reconnect brings them back. `Room` is what `canSendMarketing()` has
found when a marketing send starts, and what a midnight or a restart during the send must leave true.

**HaClusterProofs** proves `LocalDeadlineIsEarlier`, `OneNodeServes`, `SocketsAreOwned`, `FencingFindsProcessDead` and
the refinement `ClusterSpec => StoreSpec`: a step of the cluster is one function of the store or leaves the tables
alone (`IsStoreStep`), so that every theorem of `HaStoreProofs` holds of a running cluster, and its invariants may be
used here. The inductive invariant `ClusterInv` adds to `StoreInv` what processes, requests and tables agree on. A boot on the
wire or in a table was drawn, so a fresh one is nobody's (`BootsAreDrawn`); a fenced boot has no process
(`FencedIsGone`); what a tick, a start or a process remembers of a lease is what the store says, with a deadline that is
not later (`LeasesAreCurrent`); a socket and a change under way have their lease (`WorkHasLease`), and a socket no
closer reaches is in a fenced process. `ClaimIsOnce` says that a node claims the cluster lease only while it does not own it,
also when an answer was lost, without which a late claim would extend a lease nobody remembers.
`FencingFindsProcessDead` has a premise, `SelfFence < LeaseTtl`, as 15 seconds (`coordinator.ts:8`) are shorter than 60
(`try_acquire` and `renew`): the supervisor's deadline then comes before the end of the lease (`WatchdogInTime`).
That is assumed of nothing else: the other theorems hold for every length.

**SessionDirProofs** proves every invariant of the directory, for any number of processes, pids, revisions and queued
writes. `OpenersHoldLock` (`OpenersHoldLockTheorem`) has the invariant `LockInv` of two parts. `ProcessInv` holds always:
memory belongs to running processes and a pid to one of them, a lock file names a boot that
was used, and a running process whose record is in the lock file believes that it holds the lock.
`Exclusive` holds as long as `raced` and `stolen` record nothing: what a process believes to hold it
holds, and who is about to claim does so alone and takes the lock from nobody (`ClaimFromNobody`).
`DataOK` adds the types of what is in memory and queued, and that only an open session's tasks follow its
credentials; `FrozenQueue`, `RenameCases` and `BodyValue` say what a stop, a rename and a temporary file do to a queue.
`GoneStaysGone` (`WhatIsGoneStaysGone`) follows from `GoneInv`: no identity in use has gone, and a new one is none of them.
It needs no absence of races. For `DiskIsSound` (`DiskStaysSound`) `DiskInv` says that one process at a time is
`Busy`, that everything it may still write has its keys on disk (`Backed`), and that the one pair of keys in its queue comes after all of
that (`Below`), half written or not. `SavedInv` says that what an open session has in memory is on disk or a task of its queue writes it
still.

It also proves `RetriesAreKept` of the store of outgoing messages (`StoredMessagesAreKept`), for every cap and period of
sweeps. What a sweep is to cut can be spared: as many as the cap were stored no earlier (`Shielded`, part of `SweepsOK`), whether or not
they are still on disk, so that other sweeps may delete meanwhile (`OldestAreShielded`, `NewestStay`). The bound on the
folder rests on `StoresAreCounted`: the files on disk are no more than the cap and the stores since the last sweep began,
or one sweep under way still has to list or to cut the others.

**HaEffectProofs** proves `SendsAreShielded` and `ApprovalIsSpentOnce` above the store. `SendIsStoreStep` shows that
whatever the sends, the coordinator and others do is a step of `HaStore`, so `StoreInv` carries over. Around it, `ChainInv` says
what the queue, the permit and the operation agree on: only the head of the queue is past its begin
(`FirstIsBusy`); an operation that goes on with nobody waiting runs in a fenced process
(`AbandonedIsFenced`); a send that lost the key lost its transaction before (`CrossedCannotCommit`), which
holds because `PermitHolderUndisturbed` lets nobody take the key from a permit that is held; and what
was acknowledged is over (`AckedIsOver`). For the approvals, `OneUse` replaces the count of the callers on their way by
what each two of them can hold, and adds that what has not been consumed has no caller and no
effect; `SpentIsApproved` says that a spent row stays what it was, so that `SpentWithItsEffect` can be kept
across later requests for the same action. `EffectsLast` is the reason why effects stay: no function of the store deletes a fence or takes
back from a node that it may fence.

**BaileysSessionProofs** proves the types of a session, `OneLockedSocket`, `StoppedIsQuiet` and `RecoveryIsAlone`.
`NamesAreFree` always holds; `Orderly` holds until starts and stops overlap: a live socket is the mapped one, and
who else has a close to come is suppressed (`OthersAreSuppressed`); a start under way is the session, holds the
lock and has nothing mapped (`StartIsTheSession`); the mapped socket has session and lock
(`SocketHasSession`); without a session no timer is set (`GoneIsQuiet`). For `StoppedIsQuiet` the invariant `NothingWaits` is added:
while the session is gone, nothing in memory or on disk is left that a handler, a restore or a later process would
start it from (`GoneIsOut`), and only a stop makes it gone (`GoneByStop`). `Unmapped` and `Ended` say what
teardown and stop have in common.

**RouteProofs** proves the safety properties of all requests. For `AnswerFollowsLicence` `HistoryOK` relates what a request has
seen in force to the tables now; `ReadsOK` says for each read what its predecessors have ruled out, or
established, about the time since the request arrived. `ServiceStep` has one case for each read a request makes.
For `AlertsAreSpaced` `GapOK` ties the one throttle to what every request did itself: it is no older than any
request's last alert, and while it silences there is a request whose alert it counts from.
What is sent was open to be (`FitInv`): a reading that has come so far rests on facts that were shown to it (`Backed`, `Policies`), and
facts once shown stay in the history (`StillBacked`). For
`AnswersAreTrue`, `TurnsOK` says that results come in the order of the messages, `JobsOK` where the job of a message
may be while its request waits for it, and `ResultsOK` which jobs are over for good after which result.
The plans of `SocketRoutes` are proved about first. Each *turns* at one step (`Turns`): what comes before changes
nothing at WhatsApp (`Harmless`), what comes behind is passed over when it fails (`BestEffort`); `WrittenPlans`
and `ReadPlans` show it for every route and every body. `ForwardLeaves` says that whichever action takes a request
forward, it goes to a later step or answers, with 200 if the step is best effort. From these follow `AllowedOK`
(a request that is beyond its policy check has been shown a device that may send),
`HeardOK` (a request that has heard of a change has only best effort before it) and `AgesOK` (at each step of a profile, how old
its first query can be). `RoutesKeepThePolicy` is about `Routes`, where both kinds of requests read the tables while they change.

**EventProofs** proves `NoEventIsPassedBy` and `SlotIsReservation`. What a handler has left behind is accounted for (`BehindIsAccounted`),
and nothing has arrived that it has not come to (`NothingAhead`), which needs that an event has one
place in one handler. `LogAccounts` shows that a full log excuses what it pushes out. For the slot of observations, `StatusInv` says that a call that
holds it is under way, so nobody releases a slot that is not his; `ReleaseKeeps`, `ReserveKeeps` and `AgeKeeps` are the three
things that can happen to it.

Only model-checked: the liveness properties, which are out of TLAPS's reach: `ServiceComesBack`,
`OperationalServed`, `SendIsSettled`, `SessionRetried`, `RequestsAnswered`, `RowConverges`, `AlertFollows`,
`HealthFollows`. Every invariant and action property that a passing run checks has a theorem.

## What the model leaves out

* Store: capacity samples, alerts, grants and row-level security; encryption of
  the stored credentials (a row is its key and writer).
* Cluster: how a failing HTTP request is answered. A shutdown is a set of stops and the end
  of the process. Any guarded call may fail at any time, so a late or refused send is
  `GuardedCallFails`; the transmission itself is `HaSend`'s, in a process that lives on: what a killed
  process was sending nobody is told about.
  What happens at WhatsApp when two sockets of one account meet is outside.
* Pool: the health score and the warm-up stages it allows (`DailyCap` is one stage's cap),
  the capacity estimate, the wording of errors. A job has one identity for all attempts. OTPs
  are modelled one at a time: two at once change only the failure count and the pause, which
  the model lets change at any time through `Delivered`, `Connected` and `Disconnected`.
  A send that timed out is never acknowledged later to the pool; it is neither counted
  nor retried, and the caps are about acknowledged messages. A disk that refuses a save is left out: the exception ends
  the process (`crashCapture.ts:136`) unless a request's handler catches it. To the pool a migration is a purge of the old session's
  file and a new pool.
* Session: QR codes and pairing codes (a socket that shows one is connecting), inbound
  messages, statuses and groups, phone numbers, what the webhook and the device table are
  told, and the pause of the sender pool, whose module lets it come at any time. The lock
  of another process is a start that finds it taken. The old directory of a migration is one
  that was purged, its new one a session that starts. One send at a time.
* Directory: names and dates in the metadata; file permissions; the deletion of single
  keys; key files beyond two. A write that fails (`WriteFails`) does so at once; the temporary file
  it may leave is in nobody's way. The same holds for `OutgoingStore`, where a file whose `stat` fails is one
  that is gone.
* Onboarding: the connect token, the page itself and its polling; what the staff are told.
* Routes: validation of bodies, API keys, rate limits, the formatting of answers; what is in a
  group's metadata. A step that cannot fail in a way the handler sees is joined with the one before
  it. The pool's order is SenderPool's, and its pauses are a worker that takes no job.
* Events: what a message is mapped to, signatures and secrets of webhooks; several sessions in
  one pass; the operator's reconciliation.
* Everything with status `not_modelled` in `PROJECT.json`, for the reason given there.

## Findings

* `pool_midnight`: `resetMarketingDayIfNeeded()` empties the timestamps of the last hour
  when the UTC day changes, while `pool/types.ts` calls the limits rolling ones. `PerHour`
  messages before midnight and one more right after it are the counterexample. Within one
  day the limit holds (`HourlyCapWithinDay`), and the daily cap and the gap hold across
  midnight.
* `session_given_up`: a start that throws after it made the session object leaves its status
  at connecting, and recovery looks at disconnected sessions only.

Two more disagreements with a comment are in the models (`RestartTorn` and `Purge`; `CredsWritten`), without a run
of their own:

* `poolStore.ts:35,47-49,61`: a save is written in place, and a file that is missing or that a kill has torn is read as that of a
  pool which has sent nothing and is not paused. The day's cap, the gap and the brake do not survive it: the cap may be
  sent once more on the same day, while
  `pool/types.ts:12` says "Max marketing messages per calendar day". `LimitsHold` and `BrakeHolds` are about a pool that keeps its file.
* `hardenedMultiFileAuthState.ts:39`, `routes/sessions.ts:269`: a stop with a purge neither drains nor drops the queue of credential
  writes. Once the directory is made again, by a late store of an outgoing message, a save of the pool or a new
  start, a queued write brings the old login back; as there is no `meta.json` to opt out, a recovery pass
  or the next boot then starts the session with it (`baileysProvider.ts:743`), without a QR code, while the comment of
  `deleteSessionAuthDir()` says "next pairing needs a new QR scan" (`sessionStore.ts:79`). `StoppedIsQuiet` ends for a purge where the login is back.

### Observations

Behaviour met while modelling that no document of the repository denies, so that no run
states the opposite:

* `ha/store.ts:53`: a send that waits in the queue runs in a process that fenced itself meanwhile,
  if the closer threw and left the socket open; the permit is what keeps it from being acknowledged
  after another node has the key.
* `outgoingMessageStore.ts:18-22`: the overshoot of `OUTGOING_MSG_ENFORCE_EVERY` is for one life of the process:
  `storeCounts` starts at zero again, so restarts between two sweeps add to it (`RetriesAreKept`
  leaves them out). Line 131 takes a file's time for that of its rename; it is that of the write. A `stat`
  that fails for want of file descriptors deletes the message (175-177).
* `baileysProvider.ts:681`: nobody waits for a message to be stored; a retry that is asked for at once finds
  nothing.
* `baileysProvider.ts:314,322`: the close handler of a replaced socket stops the keepalive that the
  new socket's open started, and pauses the pool that it resumed.
* `sessionAuthLock.ts:84`: two processes that both read no lock, or a dead one's, before either renames
  both go on. `OpenersHoldLock` holds without that race.
* `senderPool.ts:366,380`: the failure that pulls the brake is saved before the pause is; killed in between, the pool comes back unpaused.
* `poolStore.ts:43-47,55`: after a migration the pool's file still names its old organization, and saves go to that one's directory.
* `validationAlert.ts:93`: the throttle is set before the alert is sent, so one that is lost silences its code for the gap.
* `deviceSendPolicy.ts:10,19,31`: the policy is up to three queries; a device may be sent for on facts that were never
  true together.
* `baileysProvider.ts:669-671`: media is loaded inside `sock.sendMessage()`, after the last look at the policy; what
  changes while a large file is fetched no longer stops the message.
* `webhookAudit.ts:80-84`: the probe lacks the secret that `postWebhook()` appends to a delivery
  (`webhookDispatcher.ts:235-239`) and takes its URL from `meta.json`; a receiver that checks the secret makes the row alternate
  between ok and auth_rejected.
* Migration, `consume_approval`: an operator may call it by hand for any kind of approval, which spends it without effect; in this
  repository only `provision()` calls it by itself.
* Migration, `begin_fence`: of a node that never registered it makes one that stays in state fencing, as no boot can be confirmed.
* `routes/connect.ts:140-169`: the page decides on a status it read before it awaited JumpStart's row, and
  restarts a session that reconnected meanwhile; an answer of its polling that comes after
  "connected" leaves the page where it was (343-402).
* `supabase.ts:140-148`: without JumpStart's database those whose licence is there are told 403.
* `sessionWebhookUrl.ts:40`: the session's secret is cleared before the read that may fail.
* `providers/index.ts:21`: starting a session at Meta while Baileys runs it leaves it with two providers.
* `routes/groups.ts`: its calls have no timeout; where WhatsApp does not reply the request waits for
  ever (`RequestsAnswered` is about contacts and sends). The cached list of groups outlives the account it was
  read from (367).
* `senderPool.ts:253`: a message whose send timed out may still leave, and is told to nobody.
* `supabase.ts:236`: the hub's row is written by connection events only; a write that is lost or overtaken
  stays wrong until the next one. JumpStart's row has the heartbeat, which is why `RowConverges`
  holds; that of a stopped session has none any more.
* `waDeviceMonitor.ts:242,262`: a lost clear hides the next outage until a later pass clears it;
  passes that overlap may tell one outage twice.
* `webhookDispatcher.ts:232`: an unsafe URL makes `postWebhook()` reject; where the caller does not catch it
  the process ends (`crashCapture.ts:136`). Renaming the failures of a migrated session misses
  deliveries in flight, and `PATCH /webhook` keeps the old secret. `INTEGRATION-WORKMATCH.md:405-413`
  speaks of three retries, the code makes three attempts.

## Plan

Done: the HA store with its sends and approvals, the cluster, the pool, the session, its directory, the
routes, the events, the proofs of the store with its sends and approvals, of the cluster above it, of the
session, of the pool, of the directory with its store of messages, the requests, the webhooks and the rows. Left, in this order:

1. The composition of `BaileysSession` with `SenderPool`'s pause and resume, and the events of a
   socket under HA; a stop under HA that reads the catalog before it writes; the Meta provider's
   shared recovery of the OTP session.
2. Pure operators checked against reference definitions: capacity planner, device reconciliation,
   the backfill decision, warm-up stages and health score.
3. Proofs: for each module that is added, its invariants.
