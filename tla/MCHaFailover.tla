---------------------------- MODULE MCHaFailover ----------------------------
(***************************************************************************)
(* The failover of HaCluster for TLC's liveness check: fencing is          *)
(* activated before the first claim and the operator then stays out, so    *)
(* that only takeover() can bring the service back.                        *)
(***************************************************************************)
EXTENDS HaCluster

FencingActivated(n, b) ==
  /\ owner[Cluster] = NoOwner
  /\ ActivateFencing(n, b)
  /\ UNCHANGED <<machineVars, wire, leaseMapVars, haltVars, kill, threadVars>>

FailoverNext ==
  \/ Advance
  \/ \E r \in wire : Exec(r) \/ RequestFails(r)
  \/ \E n \in Node :
       \/ \E b \in Boot : StartProcess(n, b) \/ (proc[n] = b /\ FencingActivated(n, b))
       \/ WatchdogKill(n) \/ DeadlineTimer(n)
       \/ TickStep(n) \/ RestoreStep(n) \/ TakeoverStep(n)
       \/ ProcessDies(n) \/ TickFails(n) \/ TakeoverFails(n)

FailoverSpec == ClusterInit /\ [][FailoverNext]_clusterVars /\ ClusterFairness
=============================================================================
