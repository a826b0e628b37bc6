-------------------------- MODULE SenderPoolProofs --------------------------
(***************************************************************************)
(* The worker of SenderPool for every set of jobs, every rate and every    *)
(* length of the clock: its state keeps its types, no wakeup is lost, the  *)
(* brake holds, nothing is sent off while the pool is paused or once its   *)
(* caller was told that it was not, and the limits are kept.               *)
(***************************************************************************)
EXTENDS SenderPool, SequenceTheorems, FiniteSetTheorems, TLAPS

Queues == [Lane -> Seq(Job)]
Workers == [pc : {"off", "sleep", "send"}, job : Job \cup {NoJob}, start : Time]

\* What the worker's control reads and writes.
ControlOK ==
  /\ now \in Time
  /\ queue \in Queues
  /\ worker \in Workers
  /\ timer \in BOOLEAN
  /\ paused \in BOOLEAN
  /\ failures \in 0..MaxFailures

\* A saved state keeps its types, whatever its accounts are.
Entry(s) ==
  /\ s = [paused |-> s.paused, failures |-> s.failures, marketing |-> s.marketing]
  /\ s.paused \in BOOLEAN
  /\ s.failures \in 0..MaxFailures

\* The brake is in the saved state s as well, but for a kill between its saves,
\* which c records.
Braked(s, c) == s.failures = MaxFailures => s.paused \/ c

FileOK == \A s \in file : Entry(s) /\ Braked(s, cut)

PoolInv == ControlOK /\ NoLostWakeup /\ cut \in BOOLEAN /\ BrakeHolds /\ FileOK

\* The bounds are numbers, and the idle worker is a worker.
LEMMA Bounds ==
  /\ MaxTime \in Nat \ {0} /\ MaxFailures \in Nat \ {0}
  /\ 0 \in 0..MaxFailures /\ 0 # MaxFailures
  /\ 0 \in Time /\ Idle \in Workers
<1>1. MaxTime \in Nat \ {0} /\ MaxFailures \in Nat \ {0}
  BY RateAssumption
<1>2. 0 \in Time
  BY <1>1 DEF Time
<1>3. 0 \in 0..MaxFailures /\ 0 # MaxFailures
  BY <1>1
<1> QED
  BY <1>1, <1>2, <1>3 DEF Idle, Workers

\* Removing a job from a queue leaves a queue, and an empty queue empty.
LEMMA WithoutQueue ==
  ASSUME NEW s \in Seq(Job), NEW j
  PROVE  /\ Without(s, j) \in Seq(Job)
         /\ s = <<>> => Without(s, j) = <<>>
<1>1. CASE \E i \in DOMAIN s : s[i] = j
  <2> DEFINE i == CHOOSE i \in DOMAIN s : s[i] = j
  <2>1. i \in 1..Len(s)
    BY <1>1
  <2> HIDE DEF i
  <2>2. SubSeq(s, 1, i - 1) \in Seq(Job) /\ SubSeq(s, i + 1, Len(s)) \in Seq(Job)
    <3>1. \A k \in 1..Len(s) : s[k] \in Job
      OBVIOUS
    <3> QED
      BY <2>1, <3>1, SubSeqProperties
  <2>3. SubSeq(s, 1, i - 1) \o SubSeq(s, i + 1, Len(s)) \in Seq(Job)
    BY <2>2
  <2> QED
    BY <1>1, <2>1, <2>3 DEF Without, i
<1>2. CASE ~\E i \in DOMAIN s : s[i] = j
  BY <1>2 DEF Without
<1> QED
  BY <1>1, <1>2

\* What leaving processQueue() does to the control state.
LEMMA LeaveControl ==
  ASSUME NEW q \in Queues, NEW p \in BOOLEAN, NEW t \in BOOLEAN, Leave(q, p, t)
  PROVE  /\ queue' \in Queues /\ worker' \in Workers /\ timer' \in BOOLEAN
         /\ p \/ Empty(queue') \/ timer'
         /\ worker'.pc = "off"
<1>1. worker' = Idle /\ queue' = q /\ timer' = (t \/ (~p /\ ~Empty(q)))
  BY DEF Leave
<1>2. timer' \in BOOLEAN /\ (p \/ Empty(queue') \/ timer')
  BY <1>1, Zenon DEF Empty
<1> QED
  BY <1>1, <1>2, Bounds DEF Idle

\* One turn of the loop: it stops for a pause, and what it leaves queued has a
\* worker or a timer.
LEMMA LoopControl ==
  ASSUME NEW q \in Queues, NEW m, NEW p \in BOOLEAN, NEW t \in BOOLEAN,
         now \in Time, Loop(q, m, p, t)
  PROVE  /\ queue' \in Queues /\ worker' \in Workers /\ timer' \in BOOLEAN
         /\ p \/ Empty(queue') \/ timer' \/ worker'.pc # "off"
         /\ worker'.pc = "send" => ~p
<1>1. CASE Leave(q, p, t)
  BY <1>1, LeaveControl
<1>2. ASSUME NEW l \in Lane, ~p, q[l] # <<>>, Send(q, l, t)
      PROVE  /\ queue' \in Queues /\ worker' \in Workers /\ timer' \in BOOLEAN
             /\ worker'.pc = "send"
  <2>1. Head(q[l]) \in Job /\ Tail(q[l]) \in Seq(Job)
    BY <1>2 DEF Queues
  <2> QED
    BY <1>2, <2>1 DEF Send, Queues, Workers
<1>3. CASE Sleep(q, t)
  BY <1>3, Bounds DEF Sleep, Idle, Workers
<1> QED
  BY <1>1, <1>2, <1>3 DEF Loop, Lane

\* The default state is one that can be saved, with the brake off.
LEMMA DefaultEntry == Entry(Default) /\ Default.failures = 0 /\ ~Default.paused
<1>1. /\ Default.paused = FALSE /\ Default.failures = 0 /\ Default.marketing = NoneSent
      /\ Default = [paused |-> FALSE, failures |-> 0, marketing |-> NoneSent]
  BY DEF Default
<1> HIDE DEF Default
<1> QED
  BY <1>1, Bounds DEF Entry

\* What is saved is what the pool remembers.
LEMMA SaveKeeps ==
  ASSUME NEW m, Save(m), paused' \in BOOLEAN, failures' \in 0..MaxFailures, BrakeHolds'
  PROVE  FileOK'
<1> DEFINE e == [paused |-> paused', failures |-> failures', marketing |-> m]
<1>1. file' = {e} /\ e.paused = paused' /\ e.failures = failures' /\ e.marketing = m
  BY DEF Save
<1>2. Entry(e)
  BY <1>1 DEF Entry
<1>3. Braked(e, cut')
  BY <1>1, Zenon DEF Braked, BrakeHolds
<1> HIDE DEF e
<1>4. \A x \in file' : Entry(x) /\ Braked(x, cut')
  BY <1>1, <1>2, <1>3
<1> QED
  BY <1>4 DEF FileOK, Entry, Braked

\* What is read is what was saved, or the default state; the day may be new.
LEMMA LoadReads ==
  ASSUME NEW f, \A x \in f : Entry(x), NEW s \in Load(f)
  PROVE  /\ s.paused \in BOOLEAN /\ s.failures \in 0..MaxFailures
         /\ f = {} => s.failures = 0 /\ ~s.paused /\ s.marketing = ResetDay(NoneSent)
         /\ f # {} => \E x \in f : /\ s.paused = x.paused /\ s.failures = x.failures
                                   /\ s.marketing = ResetDay(x.marketing)
<1>1. PICK x \in IF f = {} THEN {Default} ELSE f :
        s = [x EXCEPT !.marketing = ResetDay(x.marketing)]
  BY DEF Load
<1>2. Entry(x)
  BY <1>1, DefaultEntry
<1>3. s.paused = x.paused /\ s.failures = x.failures /\ s.marketing = ResetDay(x.marketing)
  <2>1. x = [paused |-> x.paused, failures |-> x.failures, marketing |-> x.marketing]
    BY <1>2 DEF Entry
  <2> QED
    BY <1>1, <2>1
<1>4. f = {} => x.failures = 0 /\ ~x.paused /\ x.marketing = NoneSent
  BY <1>1 DEF Default
<1> QED
  BY <1>1, <1>2, <1>3, <1>4 DEF Entry

\* A default state can always be read.
LEMMA SomethingIsRead == \A f : \E s : s \in Load(f)
  BY DEF Load

\* A killed process starts with empty queues and with the brake its file knows of.
LEMMA RestartKeeps ==
  ASSUME PoolInv, NEW f, RestartWith(f), cut' \in BOOLEAN,
         \A x \in f : Entry(x) /\ Braked(x, cut')
  PROVE  PoolInv' /\ worker'.pc = "off"
<1>1. PICK s \in Load(f) :
        /\ marketing' = s.marketing /\ paused' = s.paused /\ failures' = s.failures
        /\ Save(s.marketing)
  BY DEF RestartWith
<1>2. paused' \in BOOLEAN /\ failures' \in 0..MaxFailures
  BY <1>1, LoadReads
<1>3. BrakeHolds'
  <2>1. CASE f = {}
    BY <1>1, <2>1, LoadReads, Bounds DEF BrakeHolds
  <2>2. CASE f # {}
    <3>1. PICK x \in f : s.paused = x.paused /\ s.failures = x.failures
      BY <2>2, LoadReads
    <3>2. x.failures = MaxFailures => x.paused \/ cut'
      BY DEF Braked
    <3> QED
      BY <1>1, <3>1, <3>2, Zenon DEF BrakeHolds
  <2> QED
    BY <2>1, <2>2
<1>4. FileOK'
  BY <1>1, <1>2, <1>3, SaveKeeps
<1>5. /\ queue' \in Queues /\ Empty(queue)' /\ worker' \in Workers /\ worker'.pc = "off"
      /\ timer' \in BOOLEAN /\ now' \in Time
  <2>1. /\ queue' = [l \in Lane |-> <<>>] /\ worker' = Idle /\ timer' = FALSE
        /\ now' = now
    BY DEF RestartWith
  <2>2. queue' \in Queues /\ Empty(queue)'
    BY <2>1 DEF Queues, Empty
  <2>3. worker' \in Workers /\ worker'.pc = "off"
    BY <2>1, Bounds DEF Idle
  <2> QED
    BY <2>1, <2>2, <2>3 DEF PoolInv, ControlOK
<1> QED
  BY <1>2, <1>3, <1>4, <1>5 DEF PoolInv, ControlOK, NoLostWakeup

\* onSendFailure() leaves the brake as it must be, in the pool and in the file.
LEMMA FailureBrakes ==
  ASSUME PoolInv, CountFailure
  PROVE  /\ failures' \in 0..MaxFailures /\ paused' \in BOOLEAN /\ cut' \in BOOLEAN
         /\ BrakeHolds' /\ FileOK'
         /\ paused => paused'
<1>1. failures' \in 0..MaxFailures
  BY Bounds DEF CountFailure, OneMore, PoolInv, ControlOK
<1>2. paused' = (paused \/ failures' = MaxFailures) /\ cut' = FALSE /\ Save(marketing)
  BY DEF CountFailure
<1>3. paused' \in BOOLEAN /\ (failures' = MaxFailures => paused') /\ (paused => paused')
  BY <1>2, Zenon
<1>4. BrakeHolds'
  BY <1>3 DEF BrakeHolds
<1> QED
  BY <1>1, <1>2, <1>3, <1>4, SaveKeeps

\* An empty pool on an empty disk satisfies the invariant.
LEMMA PoolInitially == Init => PoolInv
<1> SUFFICES ASSUME Init PROVE PoolInv
  OBVIOUS
<1>1. queue \in Queues /\ Empty(queue)
  BY DEF Init, Queues, Empty
<1>2. now \in Time
  BY Bounds DEF Init, Time
<1>3. worker \in Workers /\ failures \in 0..MaxFailures /\ failures # MaxFailures
  BY Bounds DEF Init
<1>4. timer \in BOOLEAN /\ paused \in BOOLEAN /\ cut \in BOOLEAN
  BY DEF Init
<1>5. FileOK
  <2>1. file = {Default}
    BY DEF Init
  <2> QED
    BY <2>1, DefaultEntry, Bounds DEF FileOK, Braked
<1> QED
  BY <1>1, <1>2, <1>3, <1>4, <1>5 DEF PoolInv, ControlOK, NoLostWakeup, BrakeHolds

\* Every step keeps the invariant, and sends nothing off in a paused pool.
LEMMA PoolStep ==
  ASSUME PoolInv, [Next]_vars
  PROVE  /\ PoolInv'
         /\ worker' # worker /\ worker'.pc = "send" => ~paused'
<1> DEFINE Control == ControlOK /\ NoLostWakeup
           Pause == cut \in BOOLEAN /\ BrakeHolds /\ FileOK
           Quiet == worker' # worker /\ worker'.pc = "send" => ~paused'
           Goal == Control' /\ Pause' /\ Quiet
<1> SUFFICES Goal
  BY DEF PoolInv
<1>0. /\ MaxFailures \in Nat \ {0} /\ MaxTime \in Nat \ {0}
      /\ now \in Time /\ queue \in Queues /\ worker \in Workers /\ timer \in BOOLEAN
      /\ paused \in BOOLEAN /\ failures \in 0..MaxFailures /\ NoLostWakeup
  BY Bounds DEF PoolInv, ControlOK
\* Steps that leave the pause, the failures and the file alone.
<1>1. ASSUME UNCHANGED <<paused, failures, saved>> PROVE Pause'
  BY <1>1 DEF PoolInv, BrakeHolds, FileOK, Entry, Braked, saved
\* Steps that leave the worker's control alone, or wake it.
<1>2. ASSUME UNCHANGED <<now, queue, worker>>, paused' \in BOOLEAN,
             failures' \in 0..MaxFailures,
             timer' = TRUE \/ (UNCHANGED timer /\ (paused => paused'))
      PROVE  Control' /\ Quiet
  <2>1. now' \in Time /\ queue' \in Queues /\ worker' \in Workers /\ timer' \in BOOLEAN
    BY <1>0, <1>2
  <2>2. (Empty(queue))' = Empty(queue) /\ worker'.pc = worker.pc
    BY <1>2 DEF Empty
  <2>3. NoLostWakeup'
    <3>1. CASE timer' = TRUE
      BY <3>1 DEF NoLostWakeup
    <3>2. CASE timer' = timer /\ (paused => paused')
      BY <1>0, <2>2, <3>2, Zenon DEF NoLostWakeup
    <3> QED
      BY <1>2, <3>1, <3>2
  <2> QED
    BY <1>2, <2>1, <2>3 DEF ControlOK
\* Steps that save what they leave.
<1>3. ASSUME NEW m, Save(m), cut' = FALSE, paused' \in BOOLEAN, failures' \in 0..MaxFailures,
             failures' = MaxFailures => paused'
      PROVE  Pause'
  <2>1. BrakeHolds'
    BY <1>3 DEF BrakeHolds
  <2> QED
    BY <1>3, <2>1, SaveKeeps
<1>4. ASSUME NEW m, Resume(m) PROVE Pause' /\ paused' \in BOOLEAN /\ failures' \in 0..MaxFailures
  <2>1. paused' = FALSE /\ failures' = 0 /\ cut' = FALSE /\ Save(m)
    BY <1>4 DEF Resume
  <2> QED
    BY <1>3, <2>1, Bounds
<1>5. ASSUME NEW j \in Job, Enqueue(j) PROVE Goal
  <2>1. LaneOf(j) \in Lane
    BY DEF LaneOf, Lane
  <2>2. Append(queue[LaneOf(j)], j) \in Seq(Job)
    BY <1>0, <2>1 DEF Queues
  <2>3. Control' /\ Quiet
    BY <1>0, <1>5, <2>1, <2>2 DEF Enqueue, Queues, ControlOK, NoLostWakeup
  <2> QED
    BY <1>1, <1>5, <2>3 DEF Enqueue
<1>6. ASSUME NEW j \in Job, CeilingFires(j) PROVE Goal
  <2>1. LaneOf(j) \in Lane
    BY DEF LaneOf, Lane
  <2>2. queue[LaneOf(j)] \in Seq(Job)
    BY <1>0, <2>1 DEF Queues
  <2>3. queue' = [queue EXCEPT ![LaneOf(j)] = Without(queue[LaneOf(j)], j)]
    BY <1>6 DEF CeilingFires
  <2>4. queue' \in Queues
    BY <1>0, <2>1, <2>2, <2>3, WithoutQueue DEF Queues
  <2>5. Empty(queue) => Empty(queue')
    BY <1>0, <2>1, <2>2, <2>3, WithoutQueue DEF Empty, Queues
  <2>6. Control' /\ Quiet
    BY <1>0, <1>6, <2>4, <2>5 DEF CeilingFires, ControlOK, NoLostWakeup, Empty
  <2> QED
    BY <1>1, <1>6, <2>6 DEF CeilingFires
<1>7. CASE TimerFires
  <2>1. CASE worker.pc = "off"
    <3>1. Control' /\ Quiet
      BY <1>0, <1>7, <2>1, LoopControl DEF TimerFires, ControlOK, NoLostWakeup
    <3> QED
      BY <1>1, <1>7, <3>1 DEF TimerFires
  <2>2. CASE worker.pc # "off"
    <3>1. Control' /\ Quiet
      BY <1>0, <1>7, <2>2 DEF TimerFires, ControlOK, NoLostWakeup
    <3> QED
      BY <1>1, <1>7, <3>1 DEF TimerFires
  <2> QED
    BY <2>1, <2>2
<1>8. CASE SleepEnds
  <2>1. Control' /\ Quiet
    BY <1>0, <1>8, LeaveControl DEF SleepEnds, ControlOK, NoLostWakeup
  <2> QED
    BY <1>1, <1>8, <2>1 DEF SleepEnds
<1>9. CASE SendSucceeds
  <2> DEFINE m == IF worker.job \notin Operational THEN Count(marketing) ELSE marketing
  <2>1. /\ Loop(queue, m, paused, timer) /\ Save(m)
        /\ failures' = 0 /\ cut' = FALSE /\ UNCHANGED <<now, paused>>
    BY <1>9 DEF SendSucceeds
  <2> HIDE DEF m
  <2>2. Pause'
    BY <1>0, <1>3, <2>1, Bounds
  <2>3. Control' /\ Quiet
    BY <1>0, <2>1, LoopControl, Bounds, Zenon DEF ControlOK, NoLostWakeup
  <2> QED
    BY <2>2, <2>3
<1>10. CASE SendFails
  <2>1. CountFailure /\ UNCHANGED now
    BY <1>10 DEF SendFails
  <2>2. Pause' /\ paused' \in BOOLEAN /\ failures' \in 0..MaxFailures
    BY <2>1, FailureBrakes
  <2>3. Control' /\ Quiet
    <3>1. CASE paused'
      <4>1. Leave(queue, TRUE, timer)
        BY <1>10, <3>1 DEF SendFails
      <4> QED
        BY <1>0, <2>1, <2>2, <3>1, <4>1, LeaveControl DEF ControlOK, NoLostWakeup
    <3>2. CASE ~paused'
      <4>1. Loop(queue, marketing, FALSE, timer)
        BY <1>10, <3>2 DEF SendFails
      <4> QED
        BY <1>0, <2>1, <2>2, <3>2, <4>1, LoopControl DEF ControlOK, NoLostWakeup
    <3> QED
      BY <3>1, <3>2
  <2> QED
    BY <2>2, <2>3
<1>11. CASE Connected
  <2>1. PICK s \in Load(file) : Resume(s.marketing)
    BY <1>11 DEF Connected
  <2>2. UNCHANGED <<now, queue, worker>> /\ timer' = TRUE
    BY <1>11, <2>1 DEF Connected, Resume
  <2> QED
    BY <1>2, <1>4, <2>1, <2>2
<1>12. CASE Disconnected
  <2>1. /\ failures' \in 0..MaxFailures /\ paused' = TRUE /\ cut' = FALSE /\ Save(marketing)
        /\ UNCHANGED <<now, queue, worker, timer>>
    BY <1>0, <1>12 DEF Disconnected, OneMore
  <2> QED
    BY <1>2, <1>3, <2>1
<1>13. CASE Delivered \/ OtpSucceeds
  <2>1. /\ failures' = 0 /\ cut' = FALSE /\ Save(marketing)
        /\ UNCHANGED <<now, queue, worker, timer, paused>>
    BY <1>13 DEF Delivered, OtpSucceeds
  <2> QED
    BY <1>0, <1>2, <1>3, <2>1, Bounds
<1>14. CASE StatusRead \/ OtpBegins
  BY <1>0, <1>1, <1>2, <1>14 DEF StatusRead, OtpBegins
<1>15. CASE OtpRecovers
  <2>1. CASE paused
    <3>1. Resume(marketing) /\ UNCHANGED <<now, queue, worker>> /\ timer' = TRUE
      BY <1>15, <2>1 DEF OtpRecovers, Resume
    <3> QED
      BY <1>2, <1>4, <3>1
  <2>2. CASE ~paused
    <3>1. UNCHANGED <<now, queue, worker, timer, paused, failures, saved>>
      BY <1>15, <2>2 DEF OtpRecovers, saved
    <3> QED
      BY <1>0, <1>1, <1>2, <3>1
  <2> QED
    BY <2>1, <2>2
<1>16. CASE OtpFails
  <2>1. CountFailure /\ UNCHANGED <<now, queue, worker, timer>>
    BY <1>16 DEF OtpFails
  <2> QED
    BY <1>2, <2>1, FailureBrakes
<1>17. CASE Purge
  <2>1. UNCHANGED <<now, queue, worker, timer, paused, failures, cut>> /\ file' = {}
    BY <1>17 DEF Purge
  <2>2. Pause'
    BY <2>1 DEF PoolInv, BrakeHolds, FileOK
  <2> QED
    BY <1>0, <1>2, <2>1, <2>2
<1>18. CASE Restart
  <2>1. RestartWith(file) /\ cut' = (cut /\ file # {})
    BY <1>18 DEF Restart
  <2>2. cut' \in BOOLEAN /\ \A x \in file : Entry(x) /\ Braked(x, cut')
    BY <2>1, Zenon DEF PoolInv, FileOK, Braked
  <2> QED
    BY <2>1, <2>2, RestartKeeps DEF PoolInv
<1>19. CASE RestartTorn
  BY <1>19, RestartKeeps DEF RestartTorn, PoolInv
<1>20. CASE RestartUnbraked
  <2> DEFINE e == [paused |-> paused, failures |-> OneMore, marketing |-> marketing]
  <2>1. RestartWith({e}) /\ cut' = (~paused /\ OneMore = MaxFailures)
    BY <1>20 DEF RestartUnbraked
  <2>2. OneMore \in 0..MaxFailures
    BY <1>0 DEF OneMore
  <2>3. e.paused = paused /\ e.failures = OneMore /\ Entry(e)
    BY <1>0, <2>2 DEF Entry
  <2>4. cut' \in BOOLEAN /\ Braked(e, cut')
    BY <2>1, <2>3, Zenon DEF Braked
  <2> HIDE DEF e
  <2>5. \A x \in {e} : Entry(x) /\ Braked(x, cut')
    BY <2>3, <2>4
  <2> QED
    BY <2>1, <2>4, <2>5, RestartKeeps DEF PoolInv
<1>21. CASE Tick
  <2>1. now' \in Time /\ UNCHANGED <<queue, worker, timer, paused, failures, saved>>
    BY <1>0, <1>21 DEF Tick, Time
  <2>2. Control' /\ Quiet
    BY <1>0, <2>1 DEF ControlOK, NoLostWakeup, Empty
  <2> QED
    BY <1>1, <2>1, <2>2
<1>22. CASE UNCHANGED vars
  BY <1>0, <1>1, <1>2, <1>22 DEF vars
<1> QED
  BY <1>5, <1>6, <1>7, <1>8, <1>9, <1>10, <1>11, <1>12, <1>13, <1>14, <1>15, <1>16,
     <1>17, <1>18, <1>19, <1>20, <1>21, <1>22 DEF Next

\* The invariant the theorems about the pool rest on.
LEMMA PoolInvariant == Spec => []PoolInv
<1>1. PoolInv /\ [Next]_vars => PoolInv'
  BY PoolStep
<1> QED
  BY <1>1, PoolInitially, PTL DEF Spec

\* While jobs are queued in a pool that is not paused, the worker runs or will
\* be started: no interleaving of enqueues, sleeps, sends and pauses strands
\* a job.
THEOREM NoWakeupIsLost == Spec => []NoLostWakeup
<1>1. PoolInv => NoLostWakeup
  BY DEF PoolInv
<1> QED
  BY <1>1, PoolInvariant, PTL

\* Enough failures in a row keep the pool paused until it is resumed, however
\* often the process is killed and its file is torn, removed or read again; only
\* a kill between the two saves of onSendFailure() lets a pool go on, and it is
\* then known to have happened.
THEOREM BrakeAlwaysHolds == Spec => []BrakeHolds
<1>1. PoolInv => BrakeHolds
  BY DEF PoolInv
<1> QED
  BY <1>1, PoolInvariant, PTL

\* processQueue() never starts a send in a paused pool.
THEOREM NothingSentWhilePaused == Spec => NoSendWhilePaused
<1>1. PoolInv /\ [Next]_vars => [worker' # worker /\ worker'.pc = "send" => ~paused']_vars
  BY PoolStep
<1> QED
  BY <1>1, PoolInvariant, PTL DEF Spec, NoSendWhilePaused
-----------------------------------------------------------------------------
(***************************************************************************)
(* Whatever is queued is still wanted.                                     *)
(***************************************************************************)
Answer == {"new", "waiting", "unattended", "resolved", "rejected", "lost"}
Wanted == {"waiting", "unattended"}

\* Queue q, where c says what has become of each job: each job is in its lane,
\* once, and still wanted.
Tidy(q, c) ==
  \A l \in Lane :
    /\ \A i \in DOMAIN q[l] : LaneOf(q[l][i]) = l /\ c[q[l][i]] \in Wanted
    /\ \A i, k \in DOMAIN q[l] : q[l][i] = q[l][k] => i = k

Absent(q, j) == \A l \in Lane : \A i \in DOMAIN q[l] : q[l][i] # j

\* The job being sent has left its queue, and nobody can queue it again.
WantedInv ==
  /\ caller \in [Job -> Answer]
  /\ Tidy(queue, caller)
  /\ worker.pc = "send" =>
       worker.job \in Job /\ caller[worker.job] # "new" /\ Absent(queue, worker.job)

\* Removing a job leaves the others as they were, and each of them once.
LEMMA WithoutKeeps ==
  ASSUME NEW s \in Seq(Job), NEW j,
         \A i, k \in DOMAIN s : s[i] = s[k] => i = k
  PROVE  LET r == Without(s, j) IN
         /\ \A m \in DOMAIN r : \E i \in DOMAIN s : s[i] = r[m] /\ s[i] # j
         /\ \A m, k \in DOMAIN r : r[m] = r[k] => m = k
<1>1. CASE ~\E i \in DOMAIN s : s[i] = j
  BY <1>1 DEF Without
<1>2. CASE \E i \in DOMAIN s : s[i] = j
  <2> DEFINE i == CHOOSE i \in DOMAIN s : s[i] = j
  <2>1. i \in 1..Len(s) /\ s[i] = j
    BY <1>2
  <2>2. Without(s, j) = SubSeq(s, 1, i - 1) \o SubSeq(s, i + 1, Len(s))
    BY <1>2 DEF Without
  <2> HIDE DEF i
  <2>3. \A k \in 1..Len(s) : s[k] \in Job
    OBVIOUS
  <2> DEFINE a == SubSeq(s, 1, i - 1)
             b == SubSeq(s, i + 1, Len(s))
             r == a \o b
  <2>4. /\ a \in Seq(Job) /\ Len(a) = i - 1
        /\ \A k \in 1..(i - 1) : a[k] = s[k]
    BY <2>1, <2>3, SubSeqProperties
  <2>5. /\ b \in Seq(Job) /\ Len(b) = Len(s) - i
        /\ \A k \in 1..(Len(s) - i) : b[k] = s[k + i]
    <3>1. \A k \in (i + 1)..Len(s) : s[k] \in Job
      BY <2>1, <2>3
    <3>2. /\ b \in Seq(Job)
          /\ Len(b) = IF i + 1 <= Len(s) THEN Len(s) - (i + 1) + 1 ELSE 0
          /\ \A k \in 1..(Len(s) - (i + 1) + 1) : b[k] = s[i + 1 + k - 1]
      BY <2>1, <3>1, SubSeqProperties
    <3> QED
      BY <2>1, <3>2
  <2> HIDE DEF a, b
  <2>6. /\ r \in Seq(Job) /\ DOMAIN r = 1..(Len(s) - 1)
        /\ \A m \in 1..(Len(s) - 1) : r[m] = IF m < i THEN s[m] ELSE s[m + 1]
    <3>1. r \in Seq(Job) /\ Len(r) = Len(s) - 1
      <4>1. a \in Seq(Job) /\ b \in Seq(Job)
        BY <2>4, <2>5
      <4>2. r \in Seq(Job) /\ Len(r) = Len(a) + Len(b)
        BY <4>1
      <4> QED
        BY <2>1, <2>4, <2>5, <4>2
    <3>2. ASSUME NEW m \in 1..(Len(s) - 1) PROVE r[m] = IF m < i THEN s[m] ELSE s[m + 1]
      <4>1. CASE m < i
        BY <2>1, <2>4, <2>5, <4>1
      <4>2. CASE ~(m < i)
        <5>1. m - (i - 1) \in 1..(Len(s) - i)
          BY <2>1, <4>2
        <5>2. r[m] = b[m - (i - 1)]
          BY <2>1, <2>4, <2>5, <4>2, <5>1
        <5>3. b[m - (i - 1)] = s[m - (i - 1) + i]
          BY <2>5, <5>1
        <5> QED
          BY <2>1, <4>2, <5>2, <5>3
      <4> QED
        BY <4>1, <4>2
    <3> QED
      BY <3>1, <3>2
  <2> HIDE DEF r
  <2>7. ASSUME NEW m \in DOMAIN r PROVE \E k \in DOMAIN s : s[k] = r[m] /\ s[k] # j
    BY <2>1, <2>6
  <2>8. ASSUME NEW m \in DOMAIN r, NEW k \in DOMAIN r, r[m] = r[k] PROVE m = k
    BY <2>1, <2>6, <2>8
  <2>9. Without(s, j) = r
    BY <2>2 DEF r, a, b
  <2> QED
    BY <2>7, <2>8, <2>9
<1> QED
  BY <1>1, <1>2

\* One turn of the loop takes at most one job from the queues.
LEMMA LoopTidy ==
  ASSUME NEW q \in Queues, NEW m, NEW p \in BOOLEAN, NEW t \in BOOLEAN, NEW c,
         Tidy(q, c), Loop(q, m, p, t)
  PROVE  /\ Tidy(queue', c)
         /\ worker'.pc = "send" =>
              /\ worker'.job \in Job /\ c[worker'.job] \in Wanted
              /\ Absent(queue', worker'.job)
<1>1. CASE Leave(q, p, t) \/ Sleep(q, t)
  BY <1>1 DEF Leave, Sleep, Idle
<1>2. ASSUME NEW l \in Lane, q[l] # <<>>, Send(q, l, t)
      PROVE  /\ Tidy(queue', c)
             /\ worker'.job \in Job /\ c[worker'.job] \in Wanted
             /\ Absent(queue', worker'.job)
  <2>1. q[l] \in Seq(Job) /\ Len(q[l]) \in Nat \ {0}
    BY <1>2 DEF Queues
  <2>2. worker'.job = q[l][1] /\ queue' = [q EXCEPT ![l] = Tail(q[l])]
    BY <1>2, <2>1 DEF Send
  <2>3. \A k \in Lane : queue'[k] = IF k = l THEN Tail(q[l]) ELSE q[k]
    BY <2>2 DEF Queues
  <2>4. /\ DOMAIN Tail(q[l]) = 1..(Len(q[l]) - 1)
        /\ \A i \in DOMAIN Tail(q[l]) : i + 1 \in DOMAIN q[l] /\ i \in Nat /\ Tail(q[l])[i] = q[l][i + 1]
    BY <2>1
  <2>5. 1 \in DOMAIN q[l]
    BY <2>1
  <2>6. Tidy(queue', c)
    <3> SUFFICES ASSUME NEW k \in Lane
                 PROVE  /\ \A i \in DOMAIN queue'[k] :
                             LaneOf(queue'[k][i]) = k /\ c[queue'[k][i]] \in Wanted
                        /\ \A i, h \in DOMAIN queue'[k] : queue'[k][i] = queue'[k][h] => i = h
      BY DEF Tidy
    <3>1. CASE k = l
      <4>1. \A i \in DOMAIN Tail(q[l]) : LaneOf(Tail(q[l])[i]) = l /\ c[Tail(q[l])[i]] \in Wanted
        BY <2>4 DEF Tidy
      <4>2. \A i, h \in DOMAIN Tail(q[l]) : Tail(q[l])[i] = Tail(q[l])[h] => i = h
        <5> SUFFICES ASSUME NEW i \in DOMAIN Tail(q[l]), NEW h \in DOMAIN Tail(q[l]),
                            Tail(q[l])[i] = Tail(q[l])[h]
                     PROVE  i = h
          OBVIOUS
        <5>1. i + 1 \in DOMAIN q[l] /\ h + 1 \in DOMAIN q[l] /\ q[l][i + 1] = q[l][h + 1]
          BY <2>4
        <5>2. i + 1 = h + 1
          BY <5>1 DEF Tidy
        <5> QED
          BY <2>4, <5>2
      <4> QED
        BY <2>3, <3>1, <4>1, <4>2
    <3>2. CASE k # l
      BY <2>3, <3>2 DEF Tidy
    <3> QED
      BY <3>1, <3>2
  <2>7. worker'.job \in Job /\ LaneOf(worker'.job) = l /\ c[worker'.job] \in Wanted
    BY <2>1, <2>2, <2>5 DEF Tidy
  <2>8. Absent(queue', worker'.job)
    <3> SUFFICES ASSUME NEW k \in Lane, NEW i \in DOMAIN queue'[k]
                 PROVE  queue'[k][i] # worker'.job
      BY DEF Absent
    <3>1. CASE k = l
      <4>1. i \in DOMAIN Tail(q[l]) /\ queue'[k][i] = Tail(q[l])[i]
        BY <2>3, <3>1
      <4>2. i + 1 \in DOMAIN q[l] /\ queue'[k][i] = q[l][i + 1] /\ i + 1 # 1
        BY <2>1, <2>4, <4>1
      <4> QED
        BY <2>2, <2>5, <4>2 DEF Tidy
    <3>2. CASE k # l
      BY <2>3, <2>7, <3>2 DEF Tidy
    <3> QED
      BY <3>1, <3>2
  <2> QED
    BY <2>6, <2>7, <2>8
<1> QED
  BY <1>1, <1>2 DEF Loop, Lane

\* Nothing is queued at the start.
LEMMA WantedInitially == Init => WantedInv
  BY DEF Init, WantedInv, Tidy, Answer, Idle

\* Every step keeps what is queued wanted.
LEMMA WantedStep == PoolInv /\ WantedInv /\ [Next]_vars => WantedInv'
<1> SUFFICES ASSUME PoolInv, WantedInv, [Next]_vars PROVE WantedInv'
  OBVIOUS
<1>0. queue \in Queues /\ paused \in BOOLEAN /\ timer \in BOOLEAN /\ worker \in Workers
  BY DEF PoolInv, ControlOK
<1>1. \A l \in Lane : queue[l] \in Seq(Job)
  BY <1>0 DEF Queues
\* A worker that is not sent off anew keeps the job it has.
<1>2. ASSUME Tidy(queue', caller'), caller' \in [Job -> Answer],
             worker'.pc = "send" =>
               /\ worker'.job \in Job /\ caller'[worker'.job] # "new"
               /\ Absent(queue', worker'.job)
      PROVE  WantedInv'
  BY <1>2 DEF WantedInv
<1>3. ASSUME UNCHANGED <<queue, caller, worker>> PROVE WantedInv'
  BY <1>3 DEF WantedInv, Tidy, Absent
<1>4. ASSUME NEW j \in Job, Enqueue(j) PROVE WantedInv'
  <2> DEFINE l == LaneOf(j)
  <2>1. l \in Lane /\ queue[l] \in Seq(Job)
    BY <1>1 DEF LaneOf, Lane
  <2>2. /\ caller[j] = "new" /\ caller' = [caller EXCEPT ![j] = caller'[j]]
        /\ caller'[j] \in Wanted
    BY <1>4 DEF Enqueue, WantedInv, Wanted
  <2>3. caller' \in [Job -> Answer] /\ \A i \in Job : i # j => caller'[i] = caller[i]
    BY <2>2 DEF WantedInv, Wanted, Answer
  <2>4. queue' = [queue EXCEPT ![l] = Append(queue[l], j)] /\ worker' = worker
    BY <1>4 DEF Enqueue
  <2>5. \A k \in Lane : queue'[k] = IF k = l THEN Append(queue[l], j) ELSE queue[k]
    BY <1>0, <2>4 DEF Queues
  <2>6. /\ DOMAIN Append(queue[l], j) = 1..(Len(queue[l]) + 1)
        /\ \A i \in 1..(Len(queue[l]) + 1) :
             Append(queue[l], j)[i] = IF i = Len(queue[l]) + 1 THEN j ELSE queue[l][i]
        /\ DOMAIN queue[l] = 1..Len(queue[l]) /\ Len(queue[l]) \in Nat
    BY <2>1
  <2>7. Absent(queue, j)
    BY <2>2 DEF Absent, WantedInv, Tidy, Wanted
  <2> HIDE DEF l
  <2>8. ASSUME NEW k \in Lane
        PROVE  /\ \A i \in DOMAIN queue'[k] :
                    LaneOf(queue'[k][i]) = k /\ caller'[queue'[k][i]] \in Wanted
               /\ \A i, h \in DOMAIN queue'[k] : queue'[k][i] = queue'[k][h] => i = h
    <3>1. \A i \in DOMAIN queue[k] :
            /\ queue[k][i] \in Job /\ queue[k][i] # j
            /\ LaneOf(queue[k][i]) = k /\ caller'[queue[k][i]] \in Wanted
      BY <1>1, <2>3, <2>7 DEF Absent, WantedInv, Tidy
    <3>2. CASE k = l
      <4>1. \A i \in DOMAIN queue'[k] : LaneOf(queue'[k][i]) = k /\ caller'[queue'[k][i]] \in Wanted
        <5> TAKE i \in DOMAIN queue'[k]
        <5>0. i \in 1..(Len(queue[l]) + 1) /\ queue'[k][i] = Append(queue[l], j)[i]
          BY <2>1, <2>5, <2>6, <3>2
        <5>1. CASE i = Len(queue[l]) + 1
          <6>1. queue'[k][i] = j
            BY <2>6, <5>0, <5>1
          <6> QED
            BY <2>2, <3>2, <6>1 DEF l
        <5>2. CASE i # Len(queue[l]) + 1
          <6>1. i \in DOMAIN queue[k] /\ queue'[k][i] = queue[k][i]
            BY <2>6, <3>2, <5>0, <5>2
          <6> QED
            BY <3>1, <6>1
        <5> QED
          BY <5>1, <5>2
      <4>2. ASSUME NEW i \in DOMAIN queue'[k], NEW h \in DOMAIN queue'[k],
                   queue'[k][i] = queue'[k][h]
            PROVE  i = h
        <5>1. queue'[k] = Append(queue[l], j)
          BY <2>1, <2>5, <3>2
        <5>2. /\ i \in 1..(Len(queue[l]) + 1) /\ h \in 1..(Len(queue[l]) + 1)
              /\ Append(queue[l], j)[i] = Append(queue[l], j)[h]
          BY <2>6, <4>2, <5>1
        <5>3. \A m \in 1..Len(queue[l]) : queue[l][m] # j
          BY <2>6, <3>1, <3>2
        <5>4. \A m, o \in 1..Len(queue[l]) : queue[l][m] = queue[l][o] => m = o
          BY <2>1, <2>6 DEF WantedInv, Tidy
        <5> QED
          BY <2>6, <5>2, <5>3, <5>4
      <4> QED
        BY <4>1, <4>2
    <3>3. CASE k # l
      BY <2>5, <3>1, <3>3 DEF WantedInv, Tidy
    <3> QED
      BY <3>2, <3>3
  <2>9. worker.pc = "send" =>
          caller'[worker.job] # "new" /\ worker.job \in Job /\ worker.job # j
    BY <2>2, <2>3 DEF WantedInv
  <2>10. worker.pc = "send" => Absent(queue', worker.job)
    <3> SUFFICES ASSUME worker.pc = "send", NEW k \in Lane, NEW i \in DOMAIN queue'[k]
                 PROVE  queue'[k][i] # worker.job
      BY DEF Absent
    <3>1. \A h \in DOMAIN queue[k] : queue[k][h] # worker.job
      BY DEF WantedInv, Absent
    <3>2. CASE k = l
      <4>1. i \in 1..(Len(queue[l]) + 1) /\ queue'[k][i] = Append(queue[l], j)[i]
        BY <2>1, <2>5, <2>6, <3>2
      <4> QED
        BY <2>6, <2>9, <3>1, <3>2, <4>1
    <3>3. CASE k # l
      BY <2>5, <3>1, <3>3
    <3> QED
      BY <3>2, <3>3
  <2> QED
    BY <1>2, <2>3, <2>4, <2>8, <2>9, <2>10 DEF Tidy
<1>5. ASSUME NEW j \in Job, CeilingFires(j) PROVE WantedInv'
  <2> DEFINE l == LaneOf(j)
  <2>1. l \in Lane /\ queue[l] \in Seq(Job)
    BY <1>1 DEF LaneOf, Lane
  <2>2. /\ caller' = [caller EXCEPT ![j] = "rejected"] /\ worker' = worker
        /\ queue' = [queue EXCEPT ![l] = Without(queue[l], j)]
    BY <1>5 DEF CeilingFires
  <2>3. /\ caller' \in [Job -> Answer] /\ \A i \in Job : i # j => caller'[i] = caller[i]
        /\ caller'[j] = "rejected"
    BY <2>2 DEF WantedInv, Answer
  <2>4. \A k \in Lane : queue'[k] = IF k = l THEN Without(queue[l], j) ELSE queue[k]
    BY <1>0, <2>2 DEF Queues
  <2>5. \A k \in Lane : k # l => \A i \in DOMAIN queue[k] : queue[k][i] # j
    BY DEF WantedInv, Tidy
  <2> HIDE DEF l
  <2>6. /\ \A m \in DOMAIN Without(queue[l], j) :
             \E i \in DOMAIN queue[l] : queue[l][i] = Without(queue[l], j)[m] /\ queue[l][i] # j
        /\ \A m, k \in DOMAIN Without(queue[l], j) :
             Without(queue[l], j)[m] = Without(queue[l], j)[k] => m = k
    <3>1. \A i, k \in DOMAIN queue[l] : queue[l][i] = queue[l][k] => i = k
      BY <2>1 DEF WantedInv, Tidy
    <3> QED
      BY <2>1, <3>1, WithoutKeeps
  <2>7. ASSUME NEW k \in Lane, NEW m \in DOMAIN queue'[k]
        PROVE  \E i \in DOMAIN queue[k] : queue[k][i] = queue'[k][m] /\ queue[k][i] # j
    BY <2>4, <2>5, <2>6
  <2>8. Tidy(queue', caller')
    <3> SUFFICES ASSUME NEW k \in Lane
                 PROVE  /\ \A i \in DOMAIN queue'[k] :
                             LaneOf(queue'[k][i]) = k /\ caller'[queue'[k][i]] \in Wanted
                        /\ \A i, h \in DOMAIN queue'[k] : queue'[k][i] = queue'[k][h] => i = h
      BY DEF Tidy
    <3>1. ASSUME NEW i \in DOMAIN queue'[k]
          PROVE  LaneOf(queue'[k][i]) = k /\ caller'[queue'[k][i]] \in Wanted
      <4>1. PICK h \in DOMAIN queue[k] : queue[k][h] = queue'[k][i] /\ queue[k][h] # j
        BY <2>7
      <4>2. queue[k][h] \in Job
        BY <1>1
      <4> QED
        BY <2>3, <4>1, <4>2 DEF WantedInv, Tidy
    <3>2. \A i, h \in DOMAIN queue'[k] : queue'[k][i] = queue'[k][h] => i = h
      <4>1. CASE k = l
        BY <2>4, <2>6, <4>1
      <4>2. CASE k # l
        BY <2>4, <4>2 DEF WantedInv, Tidy
      <4> QED
        BY <4>1, <4>2
    <3> QED
      BY <3>1, <3>2
  <2>9. worker.pc = "send" => /\ worker.job \in Job /\ caller'[worker.job] # "new"
                              /\ Absent(queue', worker.job)
    BY <2>3, <2>7 DEF WantedInv, Absent
  <2> QED
    BY <1>2, <2>2, <2>3, <2>8, <2>9
\* The worker has nothing in hand when the loop takes its next job.
<1>6. ASSUME NEW m, NEW p \in BOOLEAN, Loop(queue, m, p, timer) \/ Loop(queue, m, p, FALSE),
             caller' \in [Job -> Answer], Tidy(queue, caller')
      PROVE  WantedInv'
  <2>1. /\ Tidy(queue', caller')
        /\ worker'.pc = "send" =>
             worker'.job \in Job /\ caller'[worker'.job] \in Wanted /\ Absent(queue', worker'.job)
    <3>1. CASE Loop(queue, m, p, timer)
      BY <1>0, <1>6, <3>1, LoopTidy
    <3>2. CASE Loop(queue, m, p, FALSE)
      BY <1>0, <1>6, <3>2, LoopTidy
    <3> QED
      BY <1>6, <3>1, <3>2
  <2> QED
    BY <1>2, <1>6, <2>1 DEF Wanted
<1>7. ASSUME NEW p, NEW t, Leave(queue, p, t), caller' \in [Job -> Answer], Tidy(queue, caller')
      PROVE  WantedInv'
  BY <1>2, <1>7 DEF Leave, Idle
<1>8. ASSUME NEW j \in Job, NEW result \in Answer, Settle(j, result), Absent(queue, j)
      PROVE  caller' \in [Job -> Answer] /\ Tidy(queue, caller')
  <2>1. caller' \in [Job -> Answer] /\ \A i \in Job : i # j => caller'[i] = caller[i]
    BY <1>8 DEF Settle, WantedInv
  <2>2. \A l \in Lane : \A i \in DOMAIN queue[l] : queue[l][i] \in Job /\ queue[l][i] # j
    BY <1>1, <1>8 DEF Absent
  <2> QED
    BY <2>1, <2>2 DEF WantedInv, Tidy
<1>9. CASE TimerFires
  <2>1. CASE worker.pc = "off"
    BY <1>0, <1>6, <1>9, <2>1 DEF TimerFires, WantedInv
  <2>2. CASE worker.pc # "off"
    BY <1>3, <1>9, <2>2 DEF TimerFires
  <2> QED
    BY <2>1, <2>2
<1>10. CASE SleepEnds
  BY <1>7, <1>10 DEF SleepEnds, WantedInv
<1>11. CASE SendSucceeds
  <2>1. /\ Settle(worker.job, "resolved") /\ worker.job \in Job /\ Absent(queue, worker.job)
        /\ \E m : Loop(queue, m, paused, timer)
    BY <1>11 DEF SendSucceeds, WantedInv
  <2>2. "resolved" \in Answer
    BY DEF Answer
  <2> QED
    BY <1>0, <1>6, <1>8, <2>1, <2>2
<1>12. CASE SendFails
  <2>1. /\ Settle(worker.job, "rejected") /\ worker.job \in Job /\ Absent(queue, worker.job)
        /\ Leave(queue, TRUE, timer) \/ Loop(queue, marketing, FALSE, timer)
    BY <1>12 DEF SendFails, WantedInv
  <2>2. "rejected" \in Answer
    BY DEF Answer
  <2> QED
    BY <1>0, <1>6, <1>7, <1>8, <2>1, <2>2
<1>13. CASE Connected \/ Disconnected \/ Delivered \/ StatusRead \/ Purge
  BY <1>3, <1>13 DEF Connected, Disconnected, Delivered, StatusRead, Purge
<1>14. CASE OtpBegins \/ OtpRecovers \/ OtpSucceeds \/ OtpFails \/ Tick \/ UNCHANGED vars
  BY <1>3, <1>14 DEF OtpBegins, OtpRecovers, OtpSucceeds, OtpFails, Tick, vars
<1>15. ASSUME NEW f, RestartWith(f) PROVE WantedInv'
  <2>1. /\ \A l \in Lane : DOMAIN queue'[l] = {}
        /\ worker'.pc = "off" /\ caller' \in [Job -> Answer]
    BY <1>15 DEF RestartWith, Idle, WantedInv, Answer
  <2> QED
    BY <1>2, <2>1 DEF Tidy
<1>16. CASE Restart \/ RestartTorn \/ RestartUnbraked
  BY <1>15, <1>16 DEF Restart, RestartTorn, RestartUnbraked
<1> QED
  BY <1>4, <1>5, <1>9, <1>10, <1>11, <1>12, <1>13, <1>14, <1>16 DEF Next

\* A caller that was told send_timeout while its job was queued never has the
\* message sent behind its back, for any number of jobs and callers.
THEOREM WhatIsQueuedIsWanted == Spec => []QueuedIsWanted
<1>1. WantedInv => QueuedIsWanted
  BY DEF WantedInv, Tidy, Wanted, QueuedIsWanted
<1>2. PoolInv /\ WantedInv /\ [Next]_vars => WantedInv'
  BY WantedStep
<1> QED
  BY <1>1, <1>2, WantedInitially, PoolInvariant, PTL DEF Spec
-----------------------------------------------------------------------------
(***************************************************************************)
(* The limits.  h is a history of acknowledged marketing sends, m what the *)
(* pool remembers of them.                                                 *)
(***************************************************************************)
OnDay(h, d) == {a \in h : DayOf(a[1]) = d}
Recent(h, d, t) == {a \in h : DayOf(a[1]) = d /\ a[2] + Hour >= t}
HourOf(h, b) == {a \in h : a[2] <= b[2] /\ a[2] + Hour >= b[2]}

MemoryOK(m) ==
  /\ m \in [day : Nat, today : Nat, stamps : SUBSET Nat, last : Nat]
  /\ IsFiniteSet(m.stamps)
  /\ m.day <= DayOf(now) /\ m.last <= now

\* The sends of the history followed each other, and the pool remembers when
\* the last one ended.
InSequence(m, h) ==
  /\ h \subseteq Nat \X Nat /\ IsFiniteSet(h)
  /\ \A a \in h : /\ a[1] <= a[2] /\ 0 < a[2] /\ a[2] <= m.last
                  /\ DayOf(a[1]) <= m.day
  /\ \A a, b \in h : a # b => b[1] >= a[2] + GapMin \/ a[1] >= b[2] + GapMin

\* The counter of the day counts no less than the sends that began on it, and
\* the timestamps are those of the last hour.
Counted(m, h) ==
  /\ Cardinality(OnDay(h, m.day)) <= m.today
  /\ \A a \in Recent(h, m.day, now) : a[2] \in m.stamps

Capped(h) ==
  /\ \A d \in Nat : Cardinality(OnDay(h, d)) <= DailyCap
  /\ \A b \in h :
       (\A a \in HourOf(h, b) : DayOf(a[1]) = DayOf(b[2])) =>
         Cardinality(HourOf(h, b)) <= PerHour

Ledger(m, h) == MemoryOK(m) /\ InSequence(m, h) /\ Counted(m, h) /\ Capped(h)

\* A marketing message on its way since s leaves room for itself.
Room(m, h, s) ==
  /\ s \in Nat /\ s <= now /\ DayOf(s) <= m.day
  /\ \A a \in h : a[2] + GapMin <= s
  /\ Cardinality(OnDay(h, DayOf(s))) < DailyCap
  /\ Cardinality(Recent(h, DayOf(s), s)) < PerHour

\* The accounts in the file may be of an older day than those in memory; they
\* know of the same messages.
LimitsInv ==
  /\ now > 0
  /\ Ledger(marketing, acked)
  /\ \A e \in file : Ledger(e.marketing, acked)
  /\ worker.pc = "send" /\ worker.job \notin Operational => Room(marketing, acked, worker.start)

\* The rates are numbers.
LEMMA Rates ==
  /\ Hour \in Nat \ {0} /\ PerHour \in Nat \ {0} /\ Day \in Nat \ {0}
  /\ DailyCap \in Nat \ {0} /\ GapMin \in Nat \ {0}
  BY RateAssumption

\* A day does not end before it began.
LEMMA Days ==
  /\ \A t \in Nat : DayOf(t) \in Nat
  /\ \A t, u \in Nat : t <= u => DayOf(t) <= DayOf(u)
  BY Rates DEF DayOf

\* The parts of a finite history are finite.
LEMMA Parts ==
  ASSUME NEW h, IsFiniteSet(h)
  PROVE  /\ \A d : IsFiniteSet(OnDay(h, d)) /\ Cardinality(OnDay(h, d)) \in Nat
         /\ \A d, t : IsFiniteSet(Recent(h, d, t)) /\ Cardinality(Recent(h, d, t)) \in Nat
         /\ \A b : IsFiniteSet(HourOf(h, b)) /\ Cardinality(HourOf(h, b)) \in Nat
<1>1. \A g \in SUBSET h : IsFiniteSet(g) /\ Cardinality(g) \in Nat
  BY FS_Subset, FS_CardinalityType
<1>2. /\ \A d : OnDay(h, d) \in SUBSET h
      /\ \A d, t : Recent(h, d, t) \in SUBSET h
      /\ \A b : HourOf(h, b) \in SUBSET h
  BY DEF OnDay, Recent, HourOf
<1> QED
  BY <1>1, <1>2

\* Resetting the day keeps the accounts, and whoever is on the way keeps its
\* place in the day it began.
LEMMA ResetKeeps ==
  ASSUME now \in Nat, NEW m, NEW h, Ledger(m, h)
  PROVE  /\ Ledger(ResetDay(m), h)
         /\ ResetDay(m).day = DayOf(now)
         /\ \A s : Room(m, h, s) => Room(ResetDay(m), h, s)
<1>1. m \in [day : Nat, today : Nat, stamps : SUBSET Nat, last : Nat]
  BY DEF Ledger, MemoryOK
<1>2. CASE m.day = DayOf(now)
  <2>1. ResetDay(m) = m
    BY <1>2 DEF ResetDay
  <2> QED
    BY <1>2, <2>1
<1>3. CASE m.day # DayOf(now)
  <2> DEFINE r == ResetDay(m)
  <2>1. /\ r \in [day : Nat, today : Nat, stamps : SUBSET Nat, last : Nat]
        /\ r.day = DayOf(now) /\ r.today = 0 /\ r.stamps = {} /\ r.last = m.last
    <3>1. r = [m EXCEPT !.day = DayOf(now), !.today = 0, !.stamps = {}]
      BY <1>3 DEF ResetDay
    <3>2. r = [day |-> DayOf(now), today |-> 0, stamps |-> {}, last |-> m.last]
      BY <1>1, <3>1
    <3>3. DayOf(now) \in Nat /\ m.last \in Nat
      BY <1>1, Days
    <3> HIDE DEF r
    <3> QED
      BY <3>2, <3>3
  <2> HIDE DEF r
  <2>2. m.day < DayOf(now)
    BY <1>1, <1>3, Days DEF Ledger, MemoryOK
  <2>3. MemoryOK(r)
    BY <2>1, Days, FS_EmptySet DEF Ledger, MemoryOK
  <2>4. \A a \in h : a[1] \in Nat /\ DayOf(a[1]) <= m.day
    BY DEF Ledger, InSequence
  <2>5. \A a \in h : DayOf(a[1]) < DayOf(now)
    BY <1>1, <2>2, <2>4, Days
  <2>6. InSequence(r, h)
    BY <2>1, <2>5, Days DEF Ledger, InSequence
  <2>7. Counted(r, h)
    <3>1. \A a \in h : DayOf(a[1]) # DayOf(now)
      BY <2>4, <2>5, Days
    <3>2. OnDay(h, r.day) = {} /\ Recent(h, r.day, now) = {}
      BY <2>1, <3>1 DEF OnDay, Recent
    <3> QED
      BY <2>1, <3>2, FS_EmptySet DEF Counted
  <2>8. \A s : Room(m, h, s) => Room(r, h, s)
    BY <1>1, <2>1, <2>2, Days DEF Room
  <2> QED
    BY <2>1, <2>3, <2>6, <2>7, <2>8 DEF Ledger, r
<1> QED
  BY <1>2, <1>3

\* A marketing message that may be sent leaves room for itself.
LEMMA SendHasRoom ==
  ASSUME now \in Nat, now > 0, NEW m, NEW h, Ledger(m, h), m.day = DayOf(now),
         GapOver(m), CanSendMarketing(m)
  PROVE  Room(m, h, now)
<1>1. /\ m.day \in Nat /\ m.today \in Nat /\ m.stamps \in SUBSET Nat /\ m.last \in Nat
      /\ IsFiniteSet(m.stamps) /\ IsFiniteSet(h)
      /\ \A a \in h : a[1] \in Nat /\ a[2] \in Nat
      /\ \A a \in h : a = <<a[1], a[2]>>
  BY DEF Ledger, MemoryOK, InSequence
<1>2. \A a \in h : a[2] + GapMin <= now
  <2>1. \A a \in h : 0 < a[2] /\ a[2] <= m.last
    BY DEF Ledger, InSequence
  <2> QED
    BY <1>1, <2>1, Rates DEF GapOver
<1>3. Cardinality(OnDay(h, DayOf(now))) < DailyCap
  BY <1>1, Rates, Parts DEF CanSendMarketing, Ledger, Counted
<1>4. Cardinality(Recent(h, DayOf(now), now)) < PerHour
  <2> DEFINE R == Recent(h, DayOf(now), now)
             T == {t \in m.stamps : t + Hour >= now}
             f == [a \in R |-> a[2]]
  <2>1. IsFiniteSet(T) /\ Cardinality(T) \in Nat /\ Cardinality(T) < PerHour
    <3>1. T \in SUBSET m.stamps
      OBVIOUS
    <3> QED
      BY <1>1, <3>1, FS_Subset, FS_CardinalityType DEF CanSendMarketing, Sent
  <2>2. f \in [R -> T]
    BY DEF Ledger, Counted, Recent
  <2>3. ASSUME NEW a \in R, NEW b \in R, a # b PROVE a[2] # b[2]
    <3>1. a \in h /\ b \in h
      BY DEF Recent
    <3>2. b[1] >= a[2] + GapMin \/ a[1] >= b[2] + GapMin
      BY <2>3, <3>1 DEF Ledger, InSequence
    <3>3. a[1] <= a[2] /\ b[1] <= b[2]
      BY <3>1 DEF Ledger, InSequence
    <3> QED
      BY <1>1, <3>1, <3>2, <3>3, Rates
  <2> HIDE DEF T
  <2>4. f \in Injection(R, T)
    BY <2>2, <2>3 DEF Injection, IsInjective
  <2>5. Cardinality(R) <= Cardinality(T) /\ Cardinality(R) \in Nat
    BY <1>1, <2>1, <2>4, FS_Injection, Parts
  <2> QED
    BY <2>1, <2>5, Rates
<1> QED
  BY <1>1, <1>2, <1>3, <1>4 DEF Room

\* An acknowledged message takes the room that was left for it.
LEMMA CountKeeps ==
  ASSUME now \in Nat, now > 0, NEW m, NEW h, NEW s, Ledger(m, h), Room(m, h, s)
  PROVE  Ledger(Count(m), h \cup {<<s, now>>})
<1> DEFINE n == Count(m)
           e == <<s, now>>
           g == h \cup {e}
<1>1. /\ m.day \in Nat /\ m.today \in Nat /\ m.stamps \in SUBSET Nat /\ m.last \in Nat
      /\ m \in [day : Nat, today : Nat, stamps : SUBSET Nat, last : Nat]
      /\ IsFiniteSet(m.stamps) /\ m.day <= DayOf(now)
  BY DEF Ledger, MemoryOK
<1>2. /\ h \subseteq Nat \X Nat /\ IsFiniteSet(h)
      /\ \A a \in h : a[1] \in Nat /\ a[2] \in Nat /\ a[1] <= a[2] /\ 0 < a[2]
      /\ \A a \in h : DayOf(a[1]) <= m.day
  BY DEF Ledger, InSequence
<1>3. /\ n.day = m.day /\ n.today = m.today + 1 /\ n.last = now
      /\ n.stamps = {t \in m.stamps \cup {now} : t + Hour >= now}
      /\ n \in [day : Nat, today : Nat, stamps : SUBSET Nat, last : Nat]
  <2> DEFINE st == {t \in m.stamps \cup {now} : t + Hour >= now}
  <2>1. n = [m EXCEPT !.stamps = st, !.today = m.today + 1, !.last = now]
    BY DEF Count
  <2> HIDE DEF st, n
  <2>2. n = [day |-> m.day, today |-> m.today + 1, stamps |-> st, last |-> now]
    BY <1>1, <2>1
  <2>3. st \in SUBSET Nat
    BY <1>1 DEF st
  <2> QED
    BY <1>1, <2>2, <2>3 DEF st
<1>4. /\ s \in Nat /\ s <= now /\ DayOf(s) <= m.day /\ e \in Nat \X Nat
      /\ e[1] = s /\ e[2] = now
      /\ \A a \in h : a[2] + GapMin <= s
  BY DEF Room
<1>5. \A a \in h : a[2] < s /\ a[2] < now /\ a # e
  BY <1>2, <1>4, Rates
<1> HIDE DEF n, e
<1>6. MemoryOK(n)
  <2>1. IsFiniteSet(m.stamps \cup {now}) /\ n.stamps \in SUBSET (m.stamps \cup {now})
    BY <1>1, <1>3, FS_AddElement
  <2>2. IsFiniteSet(n.stamps)
    BY <2>1, FS_Subset
  <2> QED
    BY <1>1, <1>3, <2>2 DEF MemoryOK
<1>7. InSequence(n, g)
  <2>1. g \subseteq Nat \X Nat /\ IsFiniteSet(g)
    BY <1>2, <1>4, FS_AddElement
  <2>2. ASSUME NEW a \in g
        PROVE  a[1] <= a[2] /\ 0 < a[2] /\ a[2] <= now /\ DayOf(a[1]) <= m.day
    BY <1>2, <1>4, <1>5
  <2>3. ASSUME NEW a \in g, NEW b \in g, a # b
        PROVE  b[1] >= a[2] + GapMin \/ a[1] >= b[2] + GapMin
    <3>1. CASE a \in h /\ b \in h
      BY <2>3, <3>1 DEF Ledger, InSequence
    <3>2. CASE a = e /\ b \in h
      BY <1>2, <1>4, <3>2, Rates
    <3>3. CASE a \in h /\ b = e
      BY <1>2, <1>4, <3>3, Rates
    <3> QED
      BY <2>3, <3>1, <3>2, <3>3
  <2> QED
    BY <1>3, <2>1, <2>2, <2>3 DEF InSequence
<1>8. ASSUME NEW d \in Nat
      PROVE  /\ OnDay(g, d) = IF DayOf(s) = d THEN OnDay(h, d) \cup {e} ELSE OnDay(h, d)
             /\ Cardinality(OnDay(h, d)) \in Nat
             /\ DayOf(s) = d => Cardinality(OnDay(g, d)) = Cardinality(OnDay(h, d)) + 1
             /\ DayOf(s) # d => Cardinality(OnDay(g, d)) = Cardinality(OnDay(h, d))
  <2>1. OnDay(g, d) = IF DayOf(s) = d THEN OnDay(h, d) \cup {e} ELSE OnDay(h, d)
    BY <1>4 DEF OnDay
  <2>2. IsFiniteSet(OnDay(h, d)) /\ Cardinality(OnDay(h, d)) \in Nat /\ e \notin OnDay(h, d)
    BY <1>2, <1>5, Parts DEF OnDay
  <2> QED
    BY <2>1, <2>2, FS_AddElement
<1>9. Counted(n, g)
  <2>1. Cardinality(OnDay(g, m.day)) <= m.today + 1
    <3>1. Cardinality(OnDay(h, m.day)) <= m.today
      BY DEF Ledger, Counted
    <3>2. /\ Cardinality(OnDay(h, m.day)) \in Nat
          /\ \/ Cardinality(OnDay(g, m.day)) = Cardinality(OnDay(h, m.day)) + 1
             \/ Cardinality(OnDay(g, m.day)) = Cardinality(OnDay(h, m.day))
      BY <1>1, <1>8
    <3> QED
      BY <1>1, <3>1, <3>2
  <2>2. ASSUME NEW a \in Recent(g, m.day, now) PROVE a[2] \in n.stamps
    <3>1. a \in g /\ DayOf(a[1]) = m.day /\ a[2] + Hour >= now
      BY DEF Recent
    <3>2. CASE a = e
      BY <1>3, <1>4, <3>2, Rates
    <3>3. CASE a \in h
      BY <1>3, <3>1, <3>3 DEF Ledger, Counted, Recent
    <3> QED
      BY <3>1, <3>2, <3>3
  <2> QED
    BY <1>3, <2>1, <2>2 DEF Counted
<1>10. Capped(g)
  <2>1. ASSUME NEW d \in Nat PROVE Cardinality(OnDay(g, d)) <= DailyCap
    <3>1. Cardinality(OnDay(h, d)) <= DailyCap
      BY DEF Ledger, Capped
    <3>2. DayOf(s) = d => Cardinality(OnDay(h, d)) < DailyCap
      BY DEF Room
    <3>3. Cardinality(OnDay(h, d)) \in Nat
      BY <1>8
    <3>4. CASE DayOf(s) = d
      <4>1. Cardinality(OnDay(g, d)) = Cardinality(OnDay(h, d)) + 1
        BY <1>8, <3>4
      <4> QED
        BY <3>2, <3>3, <3>4, <4>1, Rates
    <3>5. CASE DayOf(s) # d
      BY <1>8, <3>1, <3>5
    <3> QED
      BY <3>4, <3>5
  <2>2. ASSUME NEW b \in g, \A a \in HourOf(g, b) : DayOf(a[1]) = DayOf(b[2])
        PROVE  Cardinality(HourOf(g, b)) <= PerHour
    <3>1. CASE b \in h
      <4>1. HourOf(g, b) = HourOf(h, b)
        BY <1>2, <1>4, <1>5, <3>1 DEF HourOf
      <4> QED
        BY <2>2, <3>1, <4>1 DEF Ledger, Capped
    <3>2. CASE b = e
      <4>1. HourOf(g, e) = HourOf(h, e) \cup {e}
        BY <1>4, Rates DEF HourOf
      <4>2. DayOf(s) = DayOf(now) /\ \A a \in HourOf(h, e) : DayOf(a[1]) = DayOf(now)
        BY <1>4, <2>2, <3>2, <4>1
      <4>3. HourOf(h, e) \in SUBSET Recent(h, DayOf(s), s)
        BY <1>2, <1>4, <4>2, Rates DEF HourOf, Recent
      <4>4. /\ IsFiniteSet(HourOf(h, e)) /\ Cardinality(HourOf(h, e)) \in Nat
            /\ Cardinality(HourOf(h, e)) <= Cardinality(Recent(h, DayOf(s), s))
            /\ Cardinality(Recent(h, DayOf(s), s)) \in Nat
        BY <1>2, <4>3, Parts, FS_Subset
      <4>5. e \notin HourOf(h, e)
        BY <1>5 DEF HourOf
      <4>6. Cardinality(HourOf(g, e)) = Cardinality(HourOf(h, e)) + 1
        BY <4>1, <4>4, <4>5, FS_AddElement
      <4> QED
        BY <3>2, <4>4, <4>6, Rates DEF Room
    <3> QED
      BY <3>1, <3>2
  <2> QED
    BY <2>1, <2>2 DEF Capped
<1> QED
  BY <1>6, <1>7, <1>9, <1>10 DEF Ledger, n, e

\* While the clock stands still, a step keeps the limits that leaves accounts in
\* order and sends only where there is room.
LEMMA AccountsKeep ==
  ASSUME LimitsInv, now' = now, NEW m, NEW h, Ledger(m, h), marketing' = m, acked' = h,
         \A e \in file' : Ledger(e.marketing, h),
         worker'.pc = "send" /\ worker'.job \notin Operational => Room(m, h, worker'.start)
  PROVE  LimitsInv'
<1>1. Ledger(m, h) => Ledger(marketing, acked)'
  BY DEF Ledger, MemoryOK, InSequence, Counted, Capped, OnDay, Recent, HourOf, DayOf
<1>2. (\A e \in file : Ledger(e.marketing, acked))'
  <2> SUFFICES ASSUME NEW e \in file' PROVE Ledger(e.marketing, acked)'
    OBVIOUS
  <2>1. Ledger(e.marketing, h)
    OBVIOUS
  <2> QED
    BY <2>1 DEF Ledger, MemoryOK, InSequence, Counted, Capped, OnDay, Recent, HourOf, DayOf
<1>3. \A s : Room(m, h, s) /\ s = worker'.start => Room(marketing, acked, worker.start)'
  BY DEF Room, OnDay, Recent, DayOf
<1> QED
  BY <1>1, <1>2, <1>3 DEF LimitsInv

\* One turn of the loop sends a marketing message only where there is room.
LEMMA LoopLimits ==
  ASSUME PoolInv, LimitsInv, now' = now,
         NEW q \in Queues, NEW c, Tidy(q, c), NEW m, NEW p, NEW t, Loop(q, m, p, t),
         Ledger(m, acked'), \A e \in file' : Ledger(e.marketing, acked')
  PROVE  LimitsInv'
<1> DEFINE r == ResetDay(m)
<1>1. now \in Nat /\ now > 0
  BY DEF PoolInv, ControlOK, Time, LimitsInv
<1>2. Ledger(r, acked') /\ r.day = DayOf(now)
  BY <1>1, ResetKeeps
<1>3. marketing' = r
  BY DEF Loop
<1> HIDE DEF r
<1>4. CASE worker'.pc # "send"
  BY <1>2, <1>3, <1>4, AccountsKeep
<1>5. CASE worker'.pc = "send"
  <2>1. \/ q["operational"] # <<>> /\ Send(q, "operational", t)
        \/ GapOver(r) /\ CanSendMarketing(r) /\ Send(q, "marketing", t)
    BY <1>5 DEF Loop, Leave, Sleep, Idle, r
  <2>2. CASE q["operational"] # <<>> /\ Send(q, "operational", t)
    <3>1. q["operational"] \in Seq(Job) /\ "operational" \in Lane
      BY DEF Queues, Lane
    <3>2. /\ 1 \in DOMAIN q["operational"]
          /\ worker'.job = q["operational"][1]
      BY <2>2, <3>1 DEF Send
    <3>3. worker'.job \in Operational
      <4>1. LaneOf(worker'.job) = "operational"
        BY <3>1, <3>2 DEF Tidy
      <4> QED
        BY <4>1 DEF LaneOf
    <3> QED
      BY <1>2, <1>3, <3>3, AccountsKeep
  <2>3. CASE GapOver(r) /\ CanSendMarketing(r) /\ Send(q, "marketing", t)
    <3>1. worker'.start = now
      BY <2>3 DEF Send
    <3>2. Room(r, acked', now)
      BY <1>1, <1>2, <2>3, SendHasRoom
    <3> QED
      BY <1>2, <1>3, <3>1, <3>2, AccountsKeep
  <2> QED
    BY <2>1, <2>2, <2>3
<1> QED
  BY <1>4, <1>5

\* A pool that has sent nothing is in order.
LEMMA NoneSentOK ==
  ASSUME now \in Nat
  PROVE  Ledger(NoneSent, {}) /\ NoneSent.day = DayOf(now)
<1> DEFINE m == NoneSent
<1>1. DayOf(now) \in Nat
  BY Days
<1>2. /\ m.day = DayOf(now) /\ m.today = 0 /\ m.stamps = {} /\ m.last = 0
      /\ m \in [day : Nat, today : Nat, stamps : SUBSET Nat, last : Nat]
  BY <1>1 DEF NoneSent
<1> HIDE DEF m
<1>3. MemoryOK(m)
  BY <1>1, <1>2, FS_EmptySet DEF MemoryOK
<1>4. \A d, t : OnDay({}, d) = {} /\ Recent({}, d, t) = {}
  BY DEF OnDay, Recent
<1>5. InSequence(m, {})
  BY FS_EmptySet DEF InSequence
<1>6. Counted(m, {})
  BY <1>2, <1>4, FS_EmptySet DEF Counted
<1>7. Capped({})
  BY <1>4, FS_EmptySet, Rates DEF Capped
<1> QED
  BY <1>2, <1>3, <1>5, <1>6, <1>7 DEF Ledger, m

\* Time that passes keeps accounts in order: fewer messages are recent.
LEMMA LaterInOrder ==
  ASSUME now \in Nat, NEW m, NEW h, Ledger(m, h)
  PROVE  /\ m.day <= DayOf(now + 1) /\ m.last <= now + 1
         /\ \A a \in Recent(h, m.day, now + 1) : a[2] \in m.stamps
<1>1. m.last \in Nat /\ m.day \in Nat /\ \A a \in h : a[2] \in Nat
  BY DEF Ledger, MemoryOK, InSequence
<1>2. DayOf(now) <= DayOf(now + 1) /\ DayOf(now) \in Nat /\ DayOf(now + 1) \in Nat
  BY Days
<1>3. m.day <= DayOf(now + 1) /\ m.last <= now + 1
  BY <1>1, <1>2 DEF Ledger, MemoryOK
<1>4. Recent(h, m.day, now + 1) \subseteq Recent(h, m.day, now)
  BY <1>1, Rates DEF Recent
<1> QED
  BY <1>3, <1>4 DEF Ledger, Counted

\* Nothing has been sent at the start.
LEMMA LimitsInitially == Init => LimitsInv
<1> SUFFICES ASSUME Init PROVE LimitsInv
  OBVIOUS
<1>1. now = 1 /\ acked = {} /\ worker.pc = "off" /\ marketing = NoneSent /\ file = {Default}
  BY DEF Init, Idle
<1>2. Ledger(NoneSent, {})
  BY <1>1, NoneSentOK
<1>3. Default.marketing = NoneSent
  BY DEF Default
<1> QED
  BY <1>1, <1>2, <1>3 DEF LimitsInv

\* What is read from a file is in order with the messages it knows of.
LEMMA LoadInOrder ==
  ASSUME now \in Nat, NEW f, \A x \in f : Entry(x) /\ Ledger(x.marketing, acked),
         NEW s \in Load(f)
  PROVE  Ledger(s.marketing, Remembered(f)) /\ s.marketing.day = DayOf(now)
<1>1. \A x \in f : Entry(x)
  OBVIOUS
<1>2. CASE f = {}
  <2>1. s.marketing = ResetDay(NoneSent)
    BY <1>1, <1>2, LoadReads
  <2>2. ResetDay(NoneSent) = NoneSent
    BY NoneSentOK DEF ResetDay
  <2> QED
    BY <1>2, <2>1, <2>2, NoneSentOK DEF Remembered
<1>3. CASE f # {}
  <2>1. PICK x \in f : s.marketing = ResetDay(x.marketing)
    BY <1>1, <1>3, LoadReads
  <2> QED
    BY <1>3, <2>1, ResetKeeps DEF Remembered
<1> QED
  BY <1>2, <1>3

\* Every step keeps the limits.
LEMMA LimitsStep ==
  PoolInv /\ WantedInv /\ LimitsInv /\ [Next]_vars => LimitsInv'
<1> SUFFICES ASSUME PoolInv, WantedInv, LimitsInv, [Next]_vars PROVE LimitsInv'
  OBVIOUS
<1>0. /\ now \in Nat /\ now > 0 /\ queue \in Queues /\ Tidy(queue, caller)
      /\ Ledger(marketing, acked) /\ IsFiniteSet(acked)
      /\ \A e \in file : Entry(e) /\ Ledger(e.marketing, acked)
  BY DEF PoolInv, ControlOK, Time, LimitsInv, WantedInv, Ledger, InSequence, FileOK
\* What a step saves is what it leaves in memory.
<1>1. ASSUME NEW m, NEW h, Save(m), Ledger(m, h)
      PROVE  \A e \in file' : Ledger(e.marketing, h)
  BY <1>1 DEF Save
\* Steps that may only start the new day or save the accounts, and send nothing.
<1>2. ASSUME now' = now, acked' = acked,
             marketing' = marketing \/ marketing' = ResetDay(marketing),
             worker' = worker \/ worker'.pc # "send",
             file' = file \/ Save(marketing) \/ file' = {}
      PROVE  LimitsInv'
  <2>1. /\ Ledger(marketing', acked)
        /\ \A s : Room(marketing, acked, s) => Room(marketing', acked, s)
    BY <1>0, <1>2, ResetKeeps
  <2>2. worker'.pc = "send" /\ worker'.job \notin Operational =>
          Room(marketing', acked, worker'.start)
    BY <1>2, <2>1 DEF LimitsInv
  <2>3. \A e \in file' : Ledger(e.marketing, acked)
    BY <1>0, <1>1, <1>2
  <2> QED
    BY <1>2, <2>1, <2>2, <2>3, AccountsKeep
<1>3. CASE \E j \in Job : Enqueue(j) \/ CeilingFires(j)
  BY <1>2, <1>3 DEF Enqueue, CeilingFires, saved
<1>4. CASE TimerFires
  <2>1. CASE worker.pc = "off"
    BY <1>0, <1>4, <2>1, LoopLimits DEF TimerFires, saved
  <2>2. CASE worker.pc # "off"
    BY <1>2, <1>4, <2>2 DEF TimerFires, saved
  <2> QED
    BY <2>1, <2>2
<1>5. CASE SleepEnds
  BY <1>2, <1>5 DEF SleepEnds, Leave, Idle, saved
<1>6. CASE SendSucceeds
  <2>1. CASE worker.job \in Operational
    <3>1. /\ Loop(queue, marketing, paused, timer) /\ Save(marketing)
          /\ acked' = acked /\ now' = now
      BY <1>6, <2>1 DEF SendSucceeds
    <3> QED
      BY <1>0, <1>1, <3>1, LoopLimits
  <2>2. CASE worker.job \notin Operational
    <3> DEFINE m == Count(marketing)
               h == acked \cup {<<worker.start, now>>}
    <3>1. /\ Loop(queue, m, paused, timer) /\ Save(m) /\ now' = now /\ acked' = h
          /\ Room(marketing, acked, worker.start)
      BY <1>6, <2>2 DEF SendSucceeds, LimitsInv
    <3>2. Ledger(m, h)
      BY <1>0, <3>1, CountKeeps
    <3> HIDE DEF m, h
    <3>3. \A e \in file' : Ledger(e.marketing, h)
      BY <1>1, <3>1, <3>2
    <3> QED
      BY <1>0, <3>1, <3>2, <3>3, LoopLimits
  <2> QED
    BY <2>1, <2>2
<1>7. CASE SendFails
  <2>1. Save(marketing) /\ acked' = acked /\ now' = now
    BY <1>7 DEF SendFails, CountFailure
  <2>2. CASE paused'
    BY <1>2, <1>7, <2>1, <2>2 DEF SendFails, Leave, Idle
  <2>3. CASE ~paused'
    <3>1. Loop(queue, marketing, FALSE, timer)
      BY <1>7, <2>3 DEF SendFails
    <3> QED
      BY <1>0, <1>1, <2>1, <3>1, LoopLimits
  <2> QED
    BY <2>2, <2>3
\* The pool reads its file again: a message on its way keeps its place, in a day
\* that is not over or in a new one.
<1>8. CASE Connected
  <2>1. PICK s \in Load(file) : marketing' = s.marketing /\ Save(s.marketing)
    BY <1>8 DEF Connected, Resume
  <2> DEFINE m == s.marketing
             h == Remembered(file)
  <2>2. Ledger(m, h) /\ m.day = DayOf(now)
    BY <1>0, LoadInOrder
  <2>3. acked' = h /\ now' = now /\ worker' = worker /\ h \subseteq acked
    BY <1>8 DEF Connected, Remembered
  <2>4. \A e \in file' : Ledger(e.marketing, h)
    BY <1>1, <2>1, <2>2
  <2>5. h = {} \/ h = acked
    BY DEF Remembered
  <2> HIDE DEF m, h
  <2>6. ASSUME NEW t, Room(marketing, acked, t) PROVE Room(m, h, t)
    <3>1. t \in Nat /\ t <= now /\ DayOf(t) <= m.day
      BY <1>0, <2>2, <2>6, Days DEF Room
    <3>2. CASE h = acked
      BY <2>6, <3>1, <3>2 DEF Room
    <3>3. CASE h = {}
      <4>1. OnDay(h, DayOf(t)) = {} /\ Recent(h, DayOf(t), t) = {}
        BY <3>3 DEF OnDay, Recent
      <4>2. Cardinality({}) = 0
        BY FS_EmptySet
      <4> QED
        BY <3>1, <3>3, <4>1, <4>2, Rates DEF Room
    <3> QED
      BY <2>5, <3>2, <3>3
  <2>7. worker'.pc = "send" /\ worker'.job \notin Operational => Room(m, h, worker'.start)
    BY <2>3, <2>6 DEF LimitsInv
  <2> QED
    BY <2>1, <2>2, <2>3, <2>4, <2>7, AccountsKeep DEF m
<1>9. CASE Disconnected \/ Delivered \/ StatusRead \/ Purge
  BY <1>2, <1>9 DEF Disconnected, Delivered, StatusRead, Purge, saved
<1>10. CASE OtpBegins \/ OtpRecovers \/ OtpSucceeds \/ OtpFails \/ UNCHANGED vars
  BY <1>2, <1>10
  DEF OtpBegins, OtpRecovers, OtpSucceeds, OtpFails, Resume, CountFailure, saved, vars
\* A process that was killed has nothing on its way.
<1>11. ASSUME NEW f, RestartWith(f), \A x \in f : Entry(x) /\ Ledger(x.marketing, acked)
       PROVE  LimitsInv'
  <2>1. PICK s \in Load(f) : marketing' = s.marketing /\ Save(s.marketing)
    BY <1>11 DEF RestartWith
  <2>2. Ledger(s.marketing, Remembered(f))
    BY <1>0, <1>11, LoadInOrder
  <2>3. acked' = Remembered(f) /\ now' = now /\ worker'.pc # "send"
    BY <1>11 DEF RestartWith, Idle
  <2>4. \A e \in file' : Ledger(e.marketing, acked')
    BY <1>1, <2>1, <2>2, <2>3
  <2> QED
    BY <2>1, <2>2, <2>3, <2>4, AccountsKeep
<1>12. CASE Restart \/ RestartTorn
  BY <1>0, <1>11, <1>12 DEF Restart, RestartTorn
<1>13. CASE RestartUnbraked
  <2> DEFINE e == [paused |-> paused, failures |-> OneMore, marketing |-> marketing]
  <2>1. RestartWith({e}) /\ e.marketing = marketing
    BY <1>13 DEF RestartUnbraked
  <2>2. Entry(e)
    BY Bounds DEF Entry, OneMore, PoolInv, ControlOK
  <2> HIDE DEF e
  <2> QED
    BY <1>0, <1>11, <2>1, <2>2
<1>14. CASE Tick
  <2>1. now' = now + 1 /\ UNCHANGED <<marketing, acked, worker, file>>
    BY <1>14 DEF Tick, saved
  <2>2. ASSUME NEW m, Ledger(m, acked) PROVE Ledger(m, acked)'
    <3>1. /\ m.day <= DayOf(now + 1) /\ m.last <= now + 1
          /\ \A a \in Recent(acked, m.day, now + 1) : a[2] \in m.stamps
      BY <1>0, <2>2, LaterInOrder
    <3>2. MemoryOK(m)'
      BY <2>1, <2>2, <3>1 DEF Ledger, MemoryOK, DayOf
    <3>3. InSequence(m, acked)' /\ Capped(acked)'
      BY <2>1, <2>2 DEF Ledger, InSequence, Capped, OnDay, HourOf, DayOf
    <3>4. Counted(m, acked)'
      BY <2>1, <2>2, <3>1 DEF Ledger, Counted, OnDay, Recent, DayOf
    <3> QED
      BY <3>2, <3>3, <3>4 DEF Ledger
  <2>3. Ledger(marketing, acked)'
    <3>1. PICK m : m = marketing
      OBVIOUS
    <3>2. Ledger(m, acked)'
      BY <1>0, <2>2, <3>1
    <3> QED
      BY <2>1, <3>1, <3>2
      DEF Ledger, MemoryOK, InSequence, Counted, Capped, OnDay, Recent, HourOf, DayOf
  <2>4. (\A e \in file : Ledger(e.marketing, acked))'
    <3> SUFFICES ASSUME NEW e \in file' PROVE Ledger(e.marketing, acked)'
      OBVIOUS
    <3>1. Ledger(e.marketing, acked)
      BY <1>0, <2>1
    <3> QED
      BY <2>2, <3>1
  <2>5. (worker.pc = "send" /\ worker.job \notin Operational =>
           Room(marketing, acked, worker.start))'
    BY <1>0, <2>1 DEF LimitsInv, Room, OnDay, Recent, DayOf
  <2> QED
    BY <1>0, <2>1, <2>3, <2>4, <2>5 DEF LimitsInv
<1> QED
  BY <1>3, <1>4, <1>5, <1>6, <1>7, <1>8, <1>9, <1>10, <1>12, <1>13, <1>14 DEF Next

\* canSendMarketing() and marketingWaitMs(): however sends, failures, midnights,
\* reconnects, purges and kills follow each other, the messages acknowledged since
\* the pool last began with the default state keep the daily cap and the gap, and
\* the hourly cap within one day.
THEOREM LimitsAreKept == Spec => []LimitsHold
<1>1. LimitsInv => LimitsHold
  <2> SUFFICES ASSUME LimitsInv PROVE LimitsHold
    OBVIOUS
  <2>1. DailyCapHolds
    <3>1. \A t \in Time : DayOf(t) \in Nat
      BY Days, Bounds DEF Time
    <3> QED
      BY <3>1 DEF DailyCapHolds, LimitsInv, Ledger, Capped, OnDay
  <2>2. GapHolds
    BY DEF GapHolds, LimitsInv, Ledger, InSequence
  <2>3. HourlyCapWithinDay
    BY DEF HourlyCapWithinDay, InHour, LimitsInv, Ledger, Capped, HourOf
  <2> QED
    BY <2>1, <2>2, <2>3 DEF LimitsHold
<1>2. PoolInv /\ WantedInv /\ LimitsInv /\ [Next]_vars => LimitsInv'
  BY LimitsStep
<1>3. PoolInv /\ WantedInv /\ [Next]_vars => WantedInv'
  BY WantedStep
<1> QED
  BY <1>1, <1>2, <1>3, WantedInitially, LimitsInitially, PoolInvariant, PTL DEF Spec
=============================================================================
