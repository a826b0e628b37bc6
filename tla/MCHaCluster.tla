---------------------------- MODULE MCHaCluster ----------------------------
(***************************************************************************)
(* The lease store, the approvals and the cluster for TLC.  Each behaviour *)
(* runs one of three parts, chosen at the start: the store alone, whose    *)
(* functions three boots call in any order and with old arguments          *)
(* (HaStore); operators who spend their approvals (HaApprovals); or two    *)
(* nodes that call the store as coordinator.ts does (HaCluster).  The last *)
(* two have two boots, each of which any node may run.  Nodes are          *)
(* interchangeable, and so are the boots that all parts use, the approvals *)
(* and the callers.                                                        *)
(***************************************************************************)
EXTENDS HaCluster, HaApprovals, TLC

CONSTANTS b1, b2

VARIABLE part

clusterOnly == <<machineVars, wire, leaseMapVars, haltVars, kill, threadVars>>

Symmetry ==
  Permutations(Node) \cup Permutations({b1, b2})
    \cup Permutations(Approval) \cup Permutations(Caller)

PartsInit ==
  ClusterInit /\ ApprovalInit /\ part \in {"store", "approvals", "cluster"}

PartsNext ==
  /\ UNCHANGED part
  /\ \/ part = "store" /\ StoreNext /\ UNCHANGED <<approvalVars, clusterOnly>>
     \/ /\ part = "approvals" /\ ApprovalNext /\ registered' \subseteq {b1, b2}
        /\ UNCHANGED clusterOnly
     \/ /\ part = "cluster" /\ ClusterNext /\ drawn' \subseteq {b1, b2}
        /\ UNCHANGED approvalVars

PartsSpec == PartsInit /\ [][PartsNext]_<<clusterVars, approvalVars, part>>
=============================================================================
