---------------------------- MODULE MCHaSessions ----------------------------
(***************************************************************************)
(* HaCluster with one session, for TLC.  To keep the run within minutes    *)
(* fencing is activated before the first claim, a request may linger on    *)
(* the wire for ever but is not dropped, a process that leaves is killed   *)
(* by the provider, the watchdog or a crash of its own, and the operator   *)
(* stays out; MCHaCluster takes every action of HaCluster.                 *)
(***************************************************************************)
EXTENDS HaCluster, TLC

Symmetry == Permutations(Node) \cup Permutations(Boot)

FencingActivated(n, b) ==
  /\ owner[Cluster] = NoOwner
  /\ ActivateFencing(n, b)
  /\ UNCHANGED <<machineVars, wire, leaseMapVars, haltVars, kill, threadVars>>

SessionsNext ==
  \/ Advance
  \/ \E r \in wire : Exec(r)
  \/ \E n \in Node :
       \/ \E b \in Boot : StartProcess(n, b) \/ (proc[n] = b /\ FencingActivated(n, b))
       \/ WatchdogKill(n) \/ DeadlineTimer(n) \/ ProcessDies(n)
       \/ TickStep(n) \/ RestoreStep(n) \/ TakeoverStep(n)
       \/ \E k \in Session : SessionStep(n, k)
       \/ TickFails(n) \/ GuardedCallFails(n)

SessionsSpec == ClusterInit /\ [][SessionsNext]_clusterVars
=============================================================================
