----------------------------- MODULE SenderPool -----------------------------
(***************************************************************************)
(* The sender pool of one session (src/src/pool/senderPool.ts): two lanes  *)
(* of jobs, one worker that is woken by a timer, the marketing rate limits *)
(* of src/src/pool/rateConfig.ts, the emergency brake, and the state it    *)
(* keeps on disk (src/src/pool/poolStore.ts).                              *)
(*                                                                         *)
(* A step is what runs between two awaits: processQueue() gives way only   *)
(* while it sleeps and while a message is being sent.  What the file says  *)
(* is kept apart from what the pool remembers: each handler saves where    *)
(* the code does, the process may end between two saves of one handler or  *)
(* in the middle of one, a purge removes the file, and a file that is      *)
(* missing or torn is read as a new pool's.  The health score and the      *)
(* warm-up it allows are left out: DailyCap is the cap of one stage.       *)
(* Times are in units of a clock that starts at 1; a job is sent at most   *)
(* once, with one identity.                                                *)
(***************************************************************************)
EXTENDS Naturals, Sequences, FiniteSets

CONSTANTS
  Job,            \* messages
  Operational,    \* those of the operational lane; the others are marketing
  Unattended,     \* marketing jobs of enqueue(): nobody waits for them
  NoJob,
  Minute, PerMinute, Hour, PerHour,
  Day, DailyCap,
  GapMin, GapMax, \* jitterMinSec, jitterMaxSec
  MaxFailures,    \* maxConsecutiveFailures
  MaxTime         \* bound of the clock

ASSUME JobAssumption ==
  /\ Operational \subseteq Job
  /\ Unattended \subseteq Job \ Operational
  /\ NoJob \notin Job
ASSUME RateAssumption ==
  /\ {Minute, PerMinute, Hour, PerHour, Day, DailyCap, GapMin, GapMax,
      MaxFailures, MaxTime} \subseteq Nat \ {0}
  /\ Minute <= Hour /\ GapMin <= GapMax

VARIABLES
  now,        \* Date.now()
  queue,      \* operationalQueue and marketingQueue
  caller,     \* what has become of each job for the one who asked
  worker,     \* processing, and the await processQueue() is at
  timer,      \* processorTimer is set
  paused,     \* state.paused
  failures,   \* state.health.consecutiveFailures, up to MaxFailures
  marketing,  \* state.marketingSentDayKey, -Today, -Timestamps, lastMarketingSendAt
  otp,        \* the sendOfficialOtp() in progress
  file,       \* what loadPoolState() would find: one saved state, or none
  acked,      \* history: start and end of the marketing sends that succeeded
              \* since the pool last began with the default state
  cut         \* history: the process before was killed after it had saved the
              \* failure that pulls the brake, before it saved the pause; nothing
              \* has succeeded, failed or been resumed since

saved == <<file, acked, cut>>
vars == <<now, queue, caller, worker, timer, paused, failures, marketing, otp, saved>>

Lane == {"operational", "marketing"}
LaneOf(j) == IF j \in Operational THEN "operational" ELSE "marketing"
Time == 0..MaxTime

Marketing == [day : Time, today : Nat, stamps : SUBSET Time, last : Time]

Idle == [pc |-> "off", job |-> NoJob, start |-> 0]

TypeOK ==
  /\ now \in Time
  /\ queue \in [Lane -> Seq(Job)]
  /\ caller \in [Job -> {"new", "waiting", "unattended", "resolved", "rejected", "lost"}]
  /\ worker \in [pc : {"off", "sleep", "send"}, job : Job \cup {NoJob}, start : Time]
  /\ timer \in BOOLEAN
  /\ paused \in BOOLEAN
  /\ failures \in 0..MaxFailures
  /\ marketing \in Marketing
  /\ otp \in {"none", "recovering", "sending"}
  /\ file \subseteq [paused : BOOLEAN, failures : 0..MaxFailures, marketing : Marketing]
  /\ acked \subseteq Time \X Time
  /\ cut \in BOOLEAN

DayOf(t) == t \div Day

\* createDefaultPoolState()
NoneSent == [day |-> DayOf(now), today |-> 0, stamps |-> {}, last |-> 0]
Default == [paused |-> FALSE, failures |-> 0, marketing |-> NoneSent]

Init ==
  /\ now = 1
  /\ queue = [l \in Lane |-> <<>>]
  /\ caller = [j \in Job |-> "new"]
  /\ worker = Idle
  /\ timer = FALSE
  /\ paused = FALSE
  /\ failures = 0
  /\ marketing = NoneSent
  /\ otp = "none"
  /\ file = {Default}
  /\ acked = {}
  /\ cut = FALSE
-----------------------------------------------------------------------------
\* resetMarketingDayIfNeeded()
ResetDay(m) ==
  IF m.day = DayOf(now) THEN m
  ELSE [m EXCEPT !.day = DayOf(now), !.today = 0, !.stamps = {}]

\* savePoolState() of the state as it is after the step, with accounts m.
Save(m) == file' = {[paused |-> paused', failures |-> failures', marketing |-> m]}

\* mutant: the defaults are spread over what was read
LoadBare(f) ==
  {[s EXCEPT !.marketing = NoneSent] : s \in IF f = {} THEN {Default} ELSE f}

\* loadPoolState() and resetMarketingDayIfNeeded(): what is read from file f.
Load(f) ==
  {[s EXCEPT !.marketing = ResetDay(@)] : s \in IF f = {} THEN {Default} ELSE f}

\* Whoever begins with the default state knows of no message.
Remembered(f) == IF f = {} THEN {} ELSE acked

\* marketingWaitMs() draws a new gap each time it is asked.
MayWait(m) == m.last > 0 /\ now < m.last + GapMax
GapOver(m) == m.last = 0 \/ now >= m.last + GapMin

Sent(m, window) == Cardinality({t \in m.stamps : t + window >= now})

\* canSendMarketing()
CanSendMarketing(m) ==
  /\ m.today < DailyCap
  /\ Sent(m, Minute) < PerMinute
  /\ Sent(m, Hour) < PerHour

Empty(q) == \A l \in Lane : q[l] = <<>>

\* mutant: the finally block does not look at the queues
LeaveForgets(q, p, t) == worker' = Idle /\ queue' = q /\ timer' = t

\* The worker leaves processQueue(), through its finally block; t says whether
\* the processor timer is set already.
Leave(q, p, t) ==
  /\ worker' = Idle
  /\ queue' = q
  /\ timer' = (t \/ (~p /\ ~Empty(q)))

Sleep(q, t) ==
  /\ worker' = [Idle EXCEPT !.pc = "sleep"]
  /\ queue' = q
  /\ timer' = t

Send(q, l, t) ==
  /\ worker' = [pc |-> "send", job |-> Head(q[l]), start |-> now]
  /\ queue' = [q EXCEPT ![l] = Tail(@)]
  /\ timer' = t

\* One turn of processQueue()'s loop, up to its next await: operational jobs
\* first; a marketing job goes back to the front when it has to wait.
Loop(q, m, p, t) ==
  LET r == ResetDay(m) IN
  /\ marketing' = r
  /\ \/ (p \/ Empty(q)) /\ Leave(q, p, t)
     \/ ~p /\ q["operational"] # <<>> /\ Send(q, "operational", t)
     \/ /\ ~p /\ q["operational"] = <<>> /\ q["marketing"] # <<>>
        /\ \/ GapOver(r) /\ CanSendMarketing(r) /\ Send(q, "marketing", t)
           \/ (MayWait(r) \/ ~CanSendMarketing(r)) /\ Sleep(q, t)

\* resume(), which saves the accounts m too.
Resume(m) ==
  /\ paused' = FALSE
  /\ failures' = 0
  /\ timer' = TRUE
  /\ cut' = FALSE
  /\ Save(m)

OneMore == IF failures = MaxFailures THEN failures ELSE failures + 1

\* mutant: the brake is pulled, but not saved
CountFailureForgets ==
  /\ failures' = OneMore
  /\ paused' = (paused \/ failures' = MaxFailures)
  /\ cut' = FALSE
  /\ file' = {[paused |-> paused, failures |-> failures', marketing |-> marketing]}

\* onSendFailure(): one more failure is saved, and at the limit the brake, which
\* is saved after it.
CountFailure ==
  /\ failures' = OneMore
  /\ paused' = (paused \/ failures' = MaxFailures)
  /\ cut' = FALSE
  /\ Save(marketing)
-----------------------------------------------------------------------------
\* enqueueAndWait() and enqueue()
Enqueue(j) ==
  /\ caller[j] = "new"
  /\ caller' = [caller EXCEPT ![j] = IF j \in Unattended THEN "unattended" ELSE "waiting"]
  /\ queue' = [queue EXCEPT ![LaneOf(j)] = Append(@, j)]
  /\ timer' = TRUE
  /\ UNCHANGED <<now, worker, paused, failures, marketing, otp, saved>>

\* removeQueuedJob()
Keep(s, j) == s  \* mutant: the job stays in its queue
Without(s, j) ==
  IF \E i \in DOMAIN s : s[i] = j
  THEN LET i == CHOOSE i \in DOMAIN s : s[i] = j
       IN SubSeq(s, 1, i - 1) \o SubSeq(s, i + 1, Len(s))
  ELSE s

\* The ceiling of enqueueAndWait(): the job leaves its queue, if it is there.
CeilingFires(j) ==
  /\ caller[j] = "waiting"
  /\ caller' = [caller EXCEPT ![j] = "rejected"]
  /\ queue' = [queue EXCEPT ![LaneOf(j)] = Without(@, j)]
  /\ UNCHANGED <<now, worker, timer, paused, failures, marketing, otp, saved>>

\* The processor timer: processQueue() returns at once when one is running.
TimerFires ==
  /\ timer
  /\ IF worker.pc = "off"
     THEN Loop(queue, marketing, paused, FALSE)
     ELSE timer' = FALSE /\ UNCHANGED <<worker, queue, marketing>>
  /\ UNCHANGED <<now, caller, paused, failures, otp, saved>>

\* Both sleeps end in a break.
SleepEnds ==
  /\ worker.pc = "sleep"
  /\ Leave(queue, paused, timer)
  /\ UNCHANGED <<now, caller, paused, failures, marketing, otp, saved>>

Settle(j, result) ==
  caller' = [caller EXCEPT ![j] = IF @ = "waiting" THEN result ELSE @]

\* onSendSuccess()
Count(m) ==
  [m EXCEPT !.stamps = {t \in @ \cup {now} : t + Hour >= now},
            !.today = @ + 1, !.last = now]

SendSucceeds ==
  LET isMarketing == worker.job \notin Operational
      m == IF isMarketing THEN Count(marketing) ELSE marketing IN
  /\ worker.pc = "send"
  /\ Settle(worker.job, "resolved")
  /\ failures' = 0
  /\ cut' = FALSE
  /\ acked' = IF isMarketing THEN acked \cup {<<worker.start, now>>} ELSE acked
  /\ UNCHANGED <<now, paused, otp>>
  /\ Save(m)
  /\ Loop(queue, m, paused, timer)

\* mutant: the loop goes on after the failure that pulled the brake
SendFailsGoesOn ==
  /\ worker.pc = "send"
  /\ Settle(worker.job, "rejected")
  /\ CountFailure
  /\ Loop(queue, marketing, FALSE, timer)
  /\ UNCHANGED <<now, otp, acked>>

\* The provider refuses, or the send times out and its outcome stays unknown.
SendFails ==
  /\ worker.pc = "send"
  /\ Settle(worker.job, "rejected")
  /\ CountFailure
  /\ IF paused' THEN Leave(queue, TRUE, timer) /\ UNCHANGED marketing
               ELSE Loop(queue, marketing, FALSE, timer)
  /\ UNCHANGED <<now, otp, acked>>

\* onSessionConnected(): the state is read from the file again, whatever the pool
\* remembers, and resumed.
Connected ==
  /\ \E s \in Load(file) : marketing' = s.marketing /\ Resume(s.marketing)
  /\ acked' = Remembered(file)
  /\ UNCHANGED <<now, queue, caller, worker, otp>>

\* onSessionDisconnected(): the failure is counted, and the brake is pulled
\* whatever the count, before anything is saved.
Disconnected ==
  /\ failures' = OneMore
  /\ paused' = TRUE
  /\ cut' = FALSE
  /\ Save(marketing)
  /\ UNCHANGED <<now, queue, caller, worker, timer, marketing, otp, acked>>

\* onMessageDelivered()
Delivered ==
  /\ failures' = 0
  /\ cut' = FALSE
  /\ UNCHANGED <<now, queue, caller, worker, timer, paused, marketing, otp, acked>>
  /\ Save(marketing)

\* getStatus() and estimateCapacity() start the new day too; they save nothing.
StatusRead ==
  /\ marketing' = ResetDay(marketing)
  /\ UNCHANGED <<now, queue, caller, worker, timer, paused, failures, otp, saved>>

\* sendOfficialOtp() bypasses the lanes, and clears a pause it finds.
OtpBegins ==
  /\ otp = "none"
  /\ otp' = "recovering"
  /\ UNCHANGED <<now, queue, caller, worker, timer, paused, failures, marketing, saved>>

OtpRecovers ==
  /\ otp = "recovering"
  /\ otp' = "sending"
  /\ IF paused THEN Resume(marketing) ELSE UNCHANGED <<paused, failures, timer, file, cut>>
  /\ UNCHANGED <<now, queue, caller, worker, marketing, acked>>

OtpSucceeds ==
  /\ otp = "sending"
  /\ otp' = "none"
  /\ failures' = 0
  /\ cut' = FALSE
  /\ UNCHANGED <<now, queue, caller, worker, timer, paused, marketing, acked>>
  /\ Save(marketing)

OtpFails ==
  /\ otp # "none"
  /\ otp' = "none"
  /\ CountFailure
  /\ UNCHANGED <<now, queue, caller, worker, timer, marketing, acked>>

\* deleteSessionAuthDir() and the migration of the session remove the file; the
\* pool lives on in pools.
Purge ==
  /\ file' = {}
  /\ UNCHANGED <<now, queue, caller, worker, timer, paused, failures, marketing, otp, acked, cut>>

\* The process is killed and starts again, with file f: the queues and whoever
\* waits are gone, the rest is what the constructor reads, and saves again.
RestartWith(f) ==
  /\ queue' = [l \in Lane |-> <<>>]
  /\ caller' = [j \in Job |-> IF caller[j] \in {"waiting", "unattended"} THEN "lost" ELSE caller[j]]
  /\ worker' = Idle
  /\ timer' = FALSE
  /\ otp' = "none"
  /\ \E s \in Load(f) :
       /\ marketing' = s.marketing /\ paused' = s.paused /\ failures' = s.failures
       /\ Save(s.marketing)
  /\ acked' = Remembered(f)
  /\ UNCHANGED now

Restart == RestartWith(file) /\ cut' = (cut /\ file # {})

\* writeFileSync() writes in place: killed in the middle, it leaves a file that
\* JSON.parse() refuses.
RestartTorn == RestartWith({}) /\ cut' = FALSE

\* Killed between the two saves of onSendFailure(): the failure is in the file,
\* the pause is not.
RestartUnbraked ==
  /\ worker.pc = "send" \/ otp # "none"
  /\ RestartWith({[paused |-> paused, failures |-> OneMore, marketing |-> marketing]})
  /\ cut' = (~paused /\ OneMore = MaxFailures)

Tick ==
  /\ now < MaxTime
  /\ now' = now + 1
  /\ UNCHANGED <<queue, caller, worker, timer, paused, failures, marketing, otp, saved>>
-----------------------------------------------------------------------------
Next ==
  \/ \E j \in Job : Enqueue(j) \/ CeilingFires(j)
  \/ TimerFires \/ SleepEnds \/ SendSucceeds \/ SendFails
  \/ Connected \/ Disconnected \/ Delivered \/ StatusRead
  \/ OtpBegins \/ OtpRecovers \/ OtpSucceeds \/ OtpFails
  \/ Purge \/ Restart \/ RestartTorn \/ RestartUnbraked \/ Tick

Spec == Init /\ [][Next]_vars

\* Timers fire, and withTimeout() ends every send.  Nothing is assumed of the
\* clock, the sessions or the ceiling of enqueueAndWait().
PoolFairness ==
  /\ WF_vars(TimerFires) /\ WF_vars(SleepEnds)
  /\ WF_vars(SendSucceeds \/ SendFails)
-----------------------------------------------------------------------------
(***************************************************************************)
(* Properties.                                                             *)
(***************************************************************************)
\* No lost wakeup: while jobs are queued and the pool is not paused, a worker
\* runs or the timer that starts one is set.  A timer that fires while the
\* worker sleeps is consumed, and resume() may come at any point of it.
NoLostWakeup ==
  paused \/ Empty(queue) \/ timer \/ worker.pc # "off"

\* A caller that was told send_timeout while its job was queued never has the
\* message sent behind its back, although a job leaves its queue and returns
\* to it: whatever is queued is still wanted, and queued once.
QueuedIsWanted ==
  \A l \in Lane :
    /\ \A i \in DOMAIN queue[l] : caller[queue[l][i]] \in {"waiting", "unattended"}
    /\ \A i, k \in DOMAIN queue[l] : queue[l][i] = queue[l][k] => i = k

\* After MaxFailures failures in a row the pool is paused until somebody
\* resumes it, wherever the failures come from (sends, the official OTP,
\* disconnects) and however often the process is killed meanwhile, as long as
\* its file can be read.  The one way past the brake is a kill between the two
\* saves of the failure that pulls it, and the next failure ends that.
BrakeHolds == failures = MaxFailures => paused \/ cut

\* No send starts while the pool is paused.
NoSendWhilePaused ==
  [][worker' # worker /\ worker'.pc = "send" => ~paused']_vars

\* The daily cap: of the marketing messages sent off on one day, no more than
\* DailyCap are acknowledged to a pool that has not lost its file in between,
\* restarts, kills, reconnects that read the file again, late acknowledgements
\* and status reads around midnight included.
DailyCapHolds ==
  \A d \in {DayOf(t) : t \in Time} :
    Cardinality({a \in acked : DayOf(a[1]) = d}) <= DailyCap

\* Between an acknowledged marketing message and the next one sent off there
\* is the shortest gap at least, across midnight, reconnects and restarts.
GapHolds ==
  \A a, b \in acked : a # b => b[1] >= a[2] + GapMin \/ a[1] >= b[2] + GapMin

\* Acknowledgements in the hour that ends with b.
InHour(b) == {a \in acked : a[2] <= b[2] /\ a[2] + Hour >= b[2]}

\* "Max marketing messages per rolling hour" (types.ts), for hours that lie
\* within one day.
HourlyCapWithinDay ==
  \A b \in acked :
    (\A a \in InHour(b) : DayOf(a[1]) = DayOf(b[2])) => Cardinality(InHour(b)) <= PerHour

\* What the pool promises of the rate of marketing messages (rateConfig.ts), from
\* one loss of its file to the next.
LimitsHold == DailyCapHolds /\ GapHolds /\ HourlyCapWithinDay

\* "Max marketing messages per rolling hour" (types.ts), for every hour.
HourlyCap == \A b \in acked : Cardinality(InHour(b)) <= PerHour

\* In a pool that stays out of pauses every operational job is answered
\* without the help of its ceiling, however long marketing jobs are held back.
OperationalServed ==
  <>[]~paused =>
    \A j \in Operational : caller[j] = "waiting" ~> caller[j] # "waiting"
=============================================================================
