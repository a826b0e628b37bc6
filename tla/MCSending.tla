----------------------------- MODULE MCSending -----------------------------
(***************************************************************************)
(* How a message leaves, for TLC: the pool that decides when it is sent    *)
(* (SenderPool), and under HA the permit under which it is (HaSend).  The  *)
(* two share nothing but the message: each behaviour runs one part, chosen *)
(* at the start, while the other stays where it began.                     *)
(***************************************************************************)
EXTENDS SenderPool, HaSend

VARIABLE part

permitVars == <<storeVars, sendVars>>

SendingInit ==
  Init /\ ClaimedInit /\ SendInit /\ part \in {"pool", "permits"}

SendingNext ==
  /\ UNCHANGED part
  /\ \/ part = "pool" /\ Next /\ UNCHANGED permitVars
     \/ part = "permits" /\ SendNext /\ UNCHANGED vars

SendingSpec ==
  /\ SendingInit
  /\ [][SendingNext]_<<vars, permitVars, part>>
  /\ PoolFairness /\ SendFairness
=============================================================================
