-------------------------- MODULE HaClusterProofs --------------------------
(***************************************************************************)
(* The cluster, for every set of nodes, boots and sessions, every lease    *)
(* length and every order of messages, crashes and operator actions: its   *)
(* steps are steps of the lease store, no two nodes serve, sockets belong  *)
(* to the owner of their key, and a watchdog that works has killed a       *)
(* process before its node is fenced.                                      *)
(***************************************************************************)
EXTENDS HaCluster, HaStoreProofs, WellFoundedInduction

HaltTypeOK ==
  /\ halted \in [Node -> BOOLEAN]
  /\ restore \in [Node -> {"no", "list", "loop", "done"}]
  /\ todo \in [Node -> SUBSET Session]
  /\ sock \in [Node -> SUBSET Session]
  /\ closer \in [Node -> SUBSET Session]

ThreadTypeOK ==
  /\ tick \in [Node -> TickRec]
  /\ change \in [Node -> [Session -> ChangeRec]]
  /\ takeover \in [Node -> TakeoverRec]

MachineTypeOK ==
  /\ power \in [Node -> BOOLEAN]
  /\ proc \in [Node -> Boot \cup {NoBoot}]
  /\ drawn \subseteq Boot
  /\ wire \subseteq Call
  /\ token \in [Node -> [Key -> Nat]]
  /\ left \in [Node -> [Key -> 0..SelfFence]]
  /\ kill \in [Node -> 0..SelfFence]

ProcessTypeOK == HaltTypeOK /\ ThreadTypeOK /\ MachineTypeOK

Mine(n, k) == owner[k] = <<n, proc[n]>>

\* A machine that is off runs nothing, and what is gone holds nothing.
GoneIsEmpty ==
  \A n \in Node :
    /\ ~power[n] => proc[n] = NoBoot
    /\ proc[n] = NoBoot =>
         /\ tick[n].pc = "off" /\ takeover[n].pc = "idle" /\ sock[n] = {}
         /\ \A k \in Key : token[n][k] = 0
         /\ \A k \in Session : change[n][k].pc = "idle"

\* No boot is known to anybody before a process has drawn it.
BootsAreDrawn ==
  /\ registered \subseteq drawn
  /\ \A n \in Node : proc[n] \in drawn \cup {NoBoot}
  /\ \A n, m \in Node, b \in Boot :
       tick[n].owner = <<m, b>> \/ takeover[n].owner = <<m, b>> => b \in drawn
  /\ \A r \in wire : r.boot \in drawn

\* One more fact about the store alone.
OwnedHasEpoch == \A k \in Key : owner[k] # NoOwner => epoch[k] > 0

\* A process is gone before its boot is recorded as fenced.
FencedIsGone ==
  /\ \A n \in Node, b \in Boot : <<n, b>> \in fences => proc[n] # b
  /\ \A n, m \in Node, b \in Boot :
       takeover[n] = [pc |-> "confirm", owner |-> <<m, b>>] => proc[m] # b

\* Who takes over has seen an owner, which has the cluster lease for as long
\* as its process runs.
TakeoverSeesOwner ==
  \A n \in Node :
    /\ tick[n].pc = "expired" => tick[n].owner # NoOwner
    /\ takeover[n].pc # "idle" => takeover[n].owner # NoOwner
    /\ \A m \in Node, b \in Boot :
         (tick[n].owner = <<m, b>> \/ takeover[n].owner = <<m, b>>) /\ proc[m] = b =>
           Mine(m, Cluster)

\* What a process remembers of the leases, or is about to, is what the store
\* says, and its deadlines are not later.
LeasesAreCurrent ==
  \A n \in Node :
    /\ \A k \in Key : token[n][k] > 0 =>
         Mine(n, k) /\ epoch[k] = token[n][k] /\ left[n][k] <= ttl[k]
    /\ tick[n].pc = "owned" =>
         Mine(n, Cluster) /\ epoch[Cluster] = tick[n].epoch
           /\ tick[n].budget <= ttl[Cluster]
    /\ tick[n].pc = "renewed" => tick[n].budget <= ttl[tick[n].key]
    /\ \A k \in Session : change[n][k].pc = "owned" =>
         Mine(n, k) /\ epoch[k] = change[n][k].epoch /\ change[n][k].budget <= ttl[k]

WorkHasLease ==
  \A n \in Node, k \in Session :
    \/ k \in sock[n]
    \/ change[n][k].pc \in {"leased", "closed", "listed", "saved"}
    => token[n][k] > 0

ClusterClaim(r, n) ==
  r.op = "claim" /\ r.key = Cluster /\ r.node = n /\ r.boot = proc[n]

\* A process claims the cluster lease only while it does not own it: one whose
\* answer was lost has fenced itself and ticks no more.
ClaimIsOnce ==
  /\ \A r \in wire : r.op = "claim" => r.epoch = 0
  /\ \A n \in Node :
       /\ tick[n].pc \in {"claim", "owned", "held", "expired"} =>
            tick[n].key = Cluster /\ token[n][Cluster] = 0
       /\ Running(n) /\ Mine(n, Cluster) /\ token[n][Cluster] = 0 =>
            tick[n].pc = "owned" \/ (tick[n].pc = "idle" /\ halted[n])
       /\ \A r \in wire : ClusterClaim(r, n) =>
            /\ ~Mine(n, Cluster)
            /\ tick[n].pc = "claim" \/ (tick[n].pc = "idle" /\ halted[n])

\* The supervisor's deadline of an owner of the cluster lease comes before the
\* end of the lease.
WatchdogInTime ==
  Watchdog =>
    \A n \in Node : Running(n) /\ Mine(n, Cluster) =>
      /\ kill[n] < ttl[Cluster]
      /\ token[n][Cluster] > 0 => left[n][Cluster] < ttl[Cluster]
      /\ tick[n].pc = "owned" => tick[n].budget < ttl[Cluster]
      /\ tick[n].pc = "renewed" /\ tick[n].key = Cluster => tick[n].budget < ttl[Cluster]

\* The fast deadlines are what makes the difference only if the process's lease
\* is shorter than the store's, as 15 seconds are shorter than 60.
Timely == SelfFence < LeaseTtl => WatchdogInTime /\ FencingFindsProcessDead

ProcessInv ==
  /\ ProcessTypeOK
  /\ GoneIsEmpty /\ BootsAreDrawn
  /\ FencedIsGone /\ TakeoverSeesOwner
  /\ LeasesAreCurrent /\ WorkHasLease /\ LeakedSocketIsFenced /\ ClaimIsOnce
  /\ Timely

ClusterInv == StoreInv /\ OwnedHasEpoch /\ ProcessInv
-----------------------------------------------------------------------------
(***************************************************************************)
(* Deadlines.                                                              *)
(***************************************************************************)
LEMMA LeastIsLeast ==
  ASSUME NEW S \in SUBSET Nat, S # {}
  PROVE  Least(S) \in S /\ \A x \in S : Least(S) <= x
<1> DEFINE R == OpToRel(<, Nat)
<1>1. IsWellFoundedOn(R, Nat)
  BY NatLessThanWellFounded, Zenon
<1>2. \A x, y \in Nat : x < y => <<x, y>> \in R
  BY Zenon DEF OpToRel
<1> HIDE DEF R
<1>3. PICK m \in S : \A x \in S : ~ (<<x, m>> \in R)
  BY <1>1, WFMin
<1>4. \A x \in S : ~ (x < m)
  <2>1. m \in Nat /\ \A x \in S : x \in Nat
    OBVIOUS
  <2> QED
    BY <1>2, <1>3, <2>1, Zenon
<1>5. \A x \in S : m <= x
  BY <1>4
<1> QED
  BY <1>5 DEF Least

\* A lease that is counted from the sending of its claim ends no later than
\* the claim, aged as it is, and what the store grants.
LEMMA RemainingIsEarlier ==
  ASSUME NEW budget \in 0..SelfFence, NEW rem \in Nat
  PROVE  /\ Remaining(budget, rem) \in 0..SelfFence
         /\ Remaining(budget, rem) <= budget
         /\ Remaining(budget, rem) <= rem
<1> DEFINE age == SelfFence - budget
<1>0. SelfFence \in Nat /\ age \in Nat
  BY SelfFenceAssumption
<1>1. CASE rem < age
  BY <1>0, <1>1 DEF Remaining
<1>2. CASE ~(rem < age)
  <2>1. {budget, rem - age} \in SUBSET Nat
    BY <1>0, <1>2
  <2>2. Least({budget, rem - age}) \in {budget, rem - age}
        /\ Least({budget, rem - age}) <= budget /\ Least({budget, rem - age}) <= rem - age
    BY <2>1, LeastIsLeast
  <2>3. Remaining(budget, rem) = Least({budget, rem - age})
    BY <1>2 DEF Remaining
  <2> QED
    BY <1>0, <1>2, <2>2, <2>3
<1> QED
  BY <1>1, <1>2

LEMMA EarlierIsEarlier ==
  ASSUME NEW max \in Nat, NEW t \in 0..max
  PROVE  /\ Earlier(t) \in 0..max /\ Earlier(t) <= t
         /\ t > 0 => Earlier(t) = t - 1
BY DEF Earlier
-----------------------------------------------------------------------------
(***************************************************************************)
(* Types.                                                                  *)
(***************************************************************************)
LEMMA TypeParts == ClusterTypeOK <=> StoreTypeOK /\ ProcessTypeOK
BY DEF ClusterTypeOK, ProcessTypeOK, HaltTypeOK, ThreadTypeOK, MachineTypeOK

\* Fencing, and whatever else a node does with its sockets short of opening one:
\* a halted process stays halted, and no socket is left without a closer.
HaltsKeep ==
  /\ HaltTypeOK'
  /\ \A n \in Node : halted[n] => halted'[n]
  /\ \A n \in Node : sock'[n] \subseteq sock[n]
  /\ LeakedSocketIsFenced => LeakedSocketIsFenced'

LEMMA FenceLeaks ==
  ASSUME HaltTypeOK, NEW n \in Node, NEW leak \in SUBSET Session, FenceLeaking(n, leak)
  PROVE  /\ HaltTypeOK' /\ halted'[n]
         /\ \A m \in Node : halted[m] => halted'[m]
         /\ sock'[n] \subseteq sock[n] \cup leak
         /\ \A m \in Node \ {n} : sock'[m] = sock[m] /\ closer'[m] = closer[m]
         /\ LeakedSocketIsFenced => LeakedSocketIsFenced'
<1>1. CASE halted[n]
  BY <1>1 DEF FenceLeaking, HaltTypeOK, LeakedSocketIsFenced
<1>2. CASE ~halted[n]
  <2>1. PICK open \in SUBSET (closer[n] \cap sock[n]) :
          /\ halted' = [halted EXCEPT ![n] = TRUE]
          /\ restore' = [restore EXCEPT ![n] = "no"]
          /\ todo' = [todo EXCEPT ![n] = {}]
          /\ sock' = [sock EXCEPT ![n] = (@ \ closer[n]) \cup open \cup leak]
          /\ closer' = [closer EXCEPT ![n] = {}]
    BY <1>2 DEF FenceLeaking
  <2>2. HaltTypeOK'
    BY <2>1 DEF HaltTypeOK
  <2>3. /\ halted'[n] /\ \A m \in Node : halted[m] => halted'[m]
        /\ sock'[n] \subseteq sock[n] \cup leak
        /\ \A m \in Node \ {n} :
             sock'[m] = sock[m] /\ closer'[m] = closer[m] /\ halted'[m] = halted[m]
    BY <2>1 DEF HaltTypeOK
  <2>4. LeakedSocketIsFenced => LeakedSocketIsFenced'
    BY <2>3 DEF LeakedSocketIsFenced
  <2> QED
    BY <2>2, <2>3, <2>4
<1> QED
  BY <1>1, <1>2

LEMMA FenceKeeps ==
  ASSUME HaltTypeOK, NEW n \in Node, Fence(n)
  PROVE  HaltsKeep /\ halted'[n]
BY FenceLeaks DEF Fence, HaltsKeep

\* What the end of a tick does.
LEMMA Finishes ==
  ASSUME ProcessTypeOK, NEW n \in Node, NEW tok \in [Key -> Nat],
         NEW m \in [Key -> 0..SelfFence], FinishTick(n, tok, m)
  PROVE  /\ tick' = [tick EXCEPT ![n] = NoTick("idle")]
         /\ HaltsKeep /\ kill' \in [Node -> 0..SelfFence]
         /\ \A j \in Node \ {n} : kill'[j] = kill[j]
         /\ kill'[n] = kill[n] \/ \A k \in Key : tok[k] > 0 => kill'[n] <= m[k]
<1>1. CASE tick[n].started = 0
  BY <1>1, FenceKeeps DEF FinishTick, ProcessTypeOK, MachineTypeOK
<1>2. CASE tick[n].started # 0
  <2> DEFINE S == {tick[n].started} \cup {m[k] : k \in {k \in Key : tok[k] > 0}}
  <2>0. tick[n].started \in 0..SelfFence
    BY DEF ProcessTypeOK, ThreadTypeOK, TickRec
  <2>1. S \in SUBSET Nat /\ S # {} /\ S \subseteq 0..SelfFence
    BY <2>0, SelfFenceAssumption
  <2>2. Least(S) \in S /\ \A x \in S : Least(S) <= x
    BY <2>1, LeastIsLeast
  <2>3. \A k \in Key : tok[k] > 0 => m[k] \in S
    OBVIOUS
  <2>4. kill' = [kill EXCEPT ![n] = Least(S)]
    BY <1>2 DEF FinishTick
  <2>5. HaltsKeep
    BY <1>2 DEF FinishTick, HaltsKeep, ProcessTypeOK, HaltTypeOK, LeakedSocketIsFenced
  <2> HIDE DEF S
  <2> QED
    BY <2>1, <2>2, <2>3, <2>4, <2>5 DEF FinishTick, ProcessTypeOK, MachineTypeOK
<1> QED
  BY <1>1, <1>2
-----------------------------------------------------------------------------
(***************************************************************************)
(* What a step may do and keep the invariant.                              *)
(***************************************************************************)
LEMMA ClusterInitially == ClusterInit => ClusterInv
<1> SUFFICES ASSUME ClusterInit PROVE ClusterInv
  OBVIOUS
<1> USE SelfFenceAssumption, ClusterAssumption, NoOwnerAssumption, NoBootAssumption
    DEF ClusterInit, ProcessInit
<1>1. StoreInv
  BY StoreInitially
<1>2. ProcessTypeOK
  <2>1. NoTick("off") \in TickRec
    BY DEF NoTick, TickRec, TickPc, MaybeOwner
  <2>2. NoChange \in ChangeRec /\ NoTakeover \in TakeoverRec
    BY DEF NoChange, ChangeRec, ChangePc, NoTakeover, TakeoverRec, MaybeOwner
  <2>3. NoTokens \in [Key -> 0..SelfFence] /\ NoTokens \in [Key -> Nat]
    BY DEF NoTokens
  <2> QED
    BY <2>1, <2>2, <2>3 DEF ProcessTypeOK, HaltTypeOK, ThreadTypeOK, MachineTypeOK
<1>3. GoneIsEmpty /\ BootsAreDrawn /\ TakeoverSeesOwner
  BY DEF GoneIsEmpty, BootsAreDrawn, TakeoverSeesOwner, StoreInit, NoTick, NoTakeover,
         NoChange, NoTokens
<1>4. OwnedHasEpoch /\ FencedIsGone
  BY DEF OwnedHasEpoch, FencedIsGone, StoreInit, NoTakeover
<1>5. LeasesAreCurrent /\ WorkHasLease /\ LeakedSocketIsFenced
  BY DEF LeasesAreCurrent, WorkHasLease, LeakedSocketIsFenced, NoTick, NoChange, NoTokens
<1>6. ClaimIsOnce /\ Timely
  BY DEF ClaimIsOnce, Timely, WatchdogInTime, FencingFindsProcessDead, Running, NoTick,
         StoreInit
<1> QED
  BY <1>1, <1>2, <1>3, <1>4, <1>5, <1>6 DEF ClusterInv, ProcessInv

Work == {"leased", "closed", "listed", "saved"}

\* Sessions are started, stopped and restored, and requests are lost, under the
\* leases as they are.
LEMMA WorkKeeps ==
  ASSUME ClusterInv,
         UNCHANGED <<nodeVars, leaseVars, fences, registered, machineVars, leaseMapVars,
                     kill, tick, takeover>>,
         HaltTypeOK', LeakedSocketIsFenced', \A n \in Node : halted[n] => halted'[n],
         wire' \subseteq Call,
         \A r \in wire' \ wire :
           r.op = "claim" /\ r.key \in Session /\ r.epoch = 0 /\ r.boot \in drawn,
         change' \in [Node -> [Session -> ChangeRec]],
         \A n \in Node, k \in Session :
           \/ change'[n][k] = change[n][k]
           \/ /\ proc[n] # NoBoot /\ change'[n][k].pc # "owned"
              /\ change'[n][k].pc \in Work => token[n][k] > 0,
         \A n \in Node : \A k \in sock'[n] \ sock[n] : token[n][k] > 0
  PROVE  ProcessInv'
<1> USE DEF ClusterInv, ProcessInv, nodeVars, leaseVars, machineVars, leaseMapVars
<1>1. ProcessTypeOK'
  BY DEF ProcessTypeOK, ThreadTypeOK, MachineTypeOK
<1>2. GoneIsEmpty'
  <2>1. ASSUME NEW n \in Node, proc[n] = NoBoot
        PROVE  sock'[n] = {} /\ \A k \in Session : change'[n][k].pc = "idle"
    <3>1. sock[n] = {} /\ \A k \in Key : token[n][k] = 0
      BY <2>1 DEF GoneIsEmpty
    <3>2. sock'[n] \subseteq Session /\ Session \subseteq Key
      BY DEF HaltTypeOK, Session
    <3>3. \A k \in sock'[n] : FALSE
      BY <3>1, <3>2
    <3> QED
      BY <2>1, <3>3 DEF GoneIsEmpty
  <2> QED
    BY <2>1 DEF GoneIsEmpty
<1>3. BootsAreDrawn' /\ FencedIsGone' /\ TakeoverSeesOwner'
  BY DEF BootsAreDrawn, FencedIsGone, TakeoverSeesOwner, Mine
<1>4. LeasesAreCurrent'
  BY DEF LeasesAreCurrent, Mine
<1>5. WorkHasLease'
  BY DEF WorkHasLease, Work
<1>6. ClaimIsOnce'
  BY DEF ClaimIsOnce, ClusterClaim, Mine, Running, Session
<1>7. Timely'
  BY DEF Timely, WatchdogInTime, FencingFindsProcessDead, Mine, Running
<1> QED
  BY <1>1, <1>2, <1>3, <1>4, <1>5, <1>6, <1>7

\* Whoever is gone holds nothing, and nobody else notices.
LEMMA GoneKeeps ==
  ASSUME ClusterInv, NEW n \in Node, Gone(n),
         power' \in [Node -> BOOLEAN], \A m \in Node : power'[m] = power[m] \/ m = n
  PROVE  ProcessInv'
<1> USE DEF ClusterInv, ProcessInv
<1>1. /\ proc \in [Node -> Boot \cup {NoBoot}] /\ proc' = [proc EXCEPT ![n] = NoBoot]
      /\ UNCHANGED <<storeVars, drawn, wire>>
      /\ ProcessTypeOK
  BY DEF ProcessTypeOK, MachineTypeOK, Gone
<1>2. ProcessTypeOK'
  <2>1. NoTick("off") \in TickRec
    BY SelfFenceAssumption, ClusterAssumption DEF NoTick, TickRec, TickPc, MaybeOwner
  <2>2. NoChange \in ChangeRec /\ NoTakeover \in TakeoverRec
    BY SelfFenceAssumption
    DEF NoChange, ChangeRec, ChangePc, NoTakeover, TakeoverRec, MaybeOwner
  <2>3. NoTokens \in [Key -> 0..SelfFence] /\ NoTokens \in [Key -> Nat]
    BY SelfFenceAssumption DEF NoTokens
  <2>4. HaltTypeOK'
    BY <1>1 DEF Gone, ProcessTypeOK, HaltTypeOK
  <2>5. ThreadTypeOK'
    BY <1>1, <2>1, <2>2 DEF Gone, ProcessTypeOK, ThreadTypeOK
  <2>6. MachineTypeOK'
    BY <1>1, <2>3, SelfFenceAssumption DEF Gone, ProcessTypeOK, MachineTypeOK
  <2> QED
    BY <2>4, <2>5, <2>6 DEF ProcessTypeOK
<1>3. /\ proc'[n] = NoBoot /\ tick'[n] = NoTick("off") /\ takeover'[n] = NoTakeover
      /\ sock'[n] = {} /\ token'[n] = NoTokens /\ closer'[n] = {} /\ left'[n] = NoTokens
      /\ change'[n] = [k \in Session |-> NoChange]
  BY <1>1 DEF Gone, ProcessTypeOK, HaltTypeOK, ThreadTypeOK, MachineTypeOK
<1>4. \A m \in Node : m # n =>
        /\ proc'[m] = proc[m] /\ tick'[m] = tick[m] /\ takeover'[m] = takeover[m]
        /\ sock'[m] = sock[m] /\ token'[m] = token[m] /\ closer'[m] = closer[m]
        /\ left'[m] = left[m] /\ change'[m] = change[m] /\ halted'[m] = halted[m]
        /\ kill'[m] = kill[m] /\ power'[m] = power[m]
  BY DEF Gone, ProcessTypeOK, HaltTypeOK, ThreadTypeOK, MachineTypeOK
<1>5. /\ NoTick("off").pc = "off" /\ NoTick("off").owner = NoOwner
      /\ NoTakeover.pc = "idle" /\ NoTakeover.owner = NoOwner /\ NoChange.pc = "idle"
      /\ \A k \in Key : NoTokens[k] = 0
      /\ \A m \in Node, b \in Boot : NoOwner # <<m, b>>
  <2>1. NoTick("off").pc = "off" /\ NoTick("off").owner = NoOwner
    BY DEF NoTick
  <2>2. NoTakeover.pc = "idle" /\ NoTakeover.owner = NoOwner
    BY DEF NoTakeover
  <2>3. NoChange.pc = "idle" /\ \A k \in Key : NoTokens[k] = 0
    BY DEF NoChange, NoTokens
  <2>4. \A m \in Node, b \in Boot : NoOwner # <<m, b>>
    BY NoOwnerAssumption
  <2> QED
    BY <2>1, <2>2, <2>3, <2>4
<1>5a. /\ tick'[n].pc = "off" /\ takeover'[n].pc = "idle"
       /\ \A k \in Key : token'[n][k] = 0
       /\ \A k \in Session : change'[n][k].pc = "idle"
       /\ \A m \in Node, b \in Boot :
            tick'[n].owner # <<m, b>> /\ takeover'[n].owner # <<m, b>>
  <2>1. /\ tick'[n].pc = "off" /\ tick'[n].owner = NoOwner
        /\ takeover'[n].pc = "idle" /\ takeover'[n].owner = NoOwner
    BY <1>3, <1>5
  <2>2. \A k \in Key : token'[n][k] = 0
    BY <1>3, <1>5
  <2>3. \A k \in Session : change'[n][k].pc = "idle"
    BY <1>3, <1>5
  <2> QED
    BY <1>5, <2>1, <2>2, <2>3
<1>6. GoneIsEmpty'
  BY <1>3, <1>4, <1>5a DEF GoneIsEmpty
<1>7. BootsAreDrawn'
  BY <1>1, <1>3, <1>4, <1>5a DEF BootsAreDrawn, storeVars
<1>8. FencedIsGone'
  <2>1. \A m \in Node, b \in Boot : proc[m] # b => proc'[m] # b
    BY <1>3, <1>4, NoBootAssumption
  <2>2. \A m \in Node : takeover'[m].pc = "confirm" => takeover'[m] = takeover[m]
    BY <1>4, <1>5a
  <2> QED
    BY <1>1, <2>1, <2>2 DEF FencedIsGone, storeVars
<1>9. TakeoverSeesOwner'
  <2>1. ASSUME NEW j \in Node, NEW m \in Node, NEW b \in Boot,
               tick'[j].owner = <<m, b>> \/ takeover'[j].owner = <<m, b>>, proc'[m] = b
        PROVE  Mine(m, Cluster)'
    <3>1. j # n /\ m # n
      BY <1>3, <1>5a, <2>1, NoBootAssumption
    <3>2. Mine(m, Cluster)
      BY <1>4, <2>1, <3>1 DEF TakeoverSeesOwner
    <3> QED
      BY <1>1, <1>4, <3>1, <3>2 DEF Mine, storeVars, leaseVars
  <2>2. \A j \in Node : /\ tick'[j].pc = "expired" => tick'[j].owner # NoOwner
                        /\ takeover'[j].pc # "idle" => takeover'[j].owner # NoOwner
    BY <1>4, <1>5a DEF TakeoverSeesOwner
  <2> QED
    BY <2>1, <2>2 DEF TakeoverSeesOwner
<1>10. LeasesAreCurrent' /\ WorkHasLease' /\ LeakedSocketIsFenced'
  <2>1. LeasesAreCurrent'
    BY <1>1, <1>3, <1>4, <1>5a DEF LeasesAreCurrent, Mine, storeVars, leaseVars, Session
  <2>2. WorkHasLease'
    BY <1>3, <1>4, <1>5a DEF WorkHasLease
  <2>3. LeakedSocketIsFenced'
    BY <1>3, <1>4 DEF LeakedSocketIsFenced
  <2> QED
    BY <2>1, <2>2, <2>3
<1>11. ClaimIsOnce'
  <2>1. \A r \in wire : r.boot # NoBoot
    BY <1>1, NoBootAssumption DEF ProcessTypeOK, MachineTypeOK, Call
  <2> QED
    BY <1>1, <1>3, <1>4, <1>5, <2>1
    DEF ClaimIsOnce, ClusterClaim, Mine, Running, storeVars, leaseVars
<1>12. Timely'
  <2>1. WatchdogInTime => WatchdogInTime'
    BY <1>1, <1>3, <1>4 DEF WatchdogInTime, Mine, Running, storeVars, leaseVars
  <2>2. FencingFindsProcessDead => FencingFindsProcessDead'
    BY <1>1, <1>3, <1>4 DEF FencingFindsProcessDead, storeVars, nodeVars
  <2> QED
    BY <2>1, <2>2 DEF Timely
<1> QED
  BY <1>2, <1>6, <1>7, <1>8, <1>9, <1>10, <1>11, <1>12

\* A process starts with a boot that nobody has heard of.
LEMMA StartKeeps ==
  ASSUME ClusterInv, NEW n \in Node, NEW b \in Boot, StartProcess(n, b)
  PROVE  ProcessInv'
<1> USE DEF ClusterInv, ProcessInv
<1> DEFINE r0 == [op |-> "register", node |-> n, boot |-> b, key |-> Cluster, epoch |-> 0]
<1>1. /\ ProcessTypeOK /\ proc[n] = NoBoot /\ b \notin drawn /\ power[n]
      /\ proc' = [proc EXCEPT ![n] = b] /\ drawn' = drawn \cup {b}
      /\ tick' = [tick EXCEPT ![n] = NoTick("register")] /\ wire' = wire \cup {r0}
      /\ kill' = [kill EXCEPT ![n] = SelfFence]
      /\ UNCHANGED <<storeVars, power, leaseMapVars, haltVars, change, takeover>>
  BY DEF StartProcess, Running
<1>2. NoTick("register") \in TickRec /\ NoTick("register").pc = "register"
      /\ NoTick("register").owner = NoOwner
  BY SelfFenceAssumption, ClusterAssumption DEF NoTick, TickRec, TickPc, MaybeOwner
<1>3. /\ proc'[n] = b /\ tick'[n] = NoTick("register") /\ b # NoBoot
      /\ \A m \in Node : m # n => /\ proc'[m] = proc[m] /\ tick'[m] = tick[m]
                                  /\ kill'[m] = kill[m]
  BY <1>1, NoBootAssumption DEF ProcessTypeOK, ThreadTypeOK, MachineTypeOK
<1>4. \A k \in Key : owner[k] # <<n, b>>
  <2>1. b \notin registered
    BY <1>1 DEF BootsAreDrawn
  <2>2. <<n, b>> \notin fences /\ boot[n] # b
    BY <2>1, NoBootAssumption DEF StoreInv, BootsAreRegistered
  <2> QED
    BY <2>2 DEF StoreInv, NoOrphanedLease
<1>5. ProcessTypeOK'
  <2>1. r0 \in Call
    BY ClusterAssumption DEF Call
  <2> QED
    BY <1>1, <1>2, <2>1, SelfFenceAssumption
    DEF ProcessTypeOK, HaltTypeOK, ThreadTypeOK, MachineTypeOK, haltVars, leaseMapVars
<1>6. GoneIsEmpty'
  BY <1>1, <1>3 DEF GoneIsEmpty, haltVars, leaseMapVars
<1>7. BootsAreDrawn'
  <2>1. \A m \in Node : proc'[m] \in drawn' \cup {NoBoot}
    BY <1>1, <1>3 DEF BootsAreDrawn
  <2>2. \A j, m \in Node, c \in Boot :
          tick'[j].owner = <<m, c>> => tick[j].owner = <<m, c>>
    <3>1. \A m \in Node, c \in Boot : NoOwner # <<m, c>>
      BY NoOwnerAssumption
    <3>2. \A j \in Node : tick'[j] = tick[j] \/ tick'[j].owner = NoOwner
      BY <1>2, <1>3
    <3> QED
      BY <3>1, <3>2
  <2>3. \A j, m \in Node, c \in Boot :
          tick'[j].owner = <<m, c>> \/ takeover'[j].owner = <<m, c>> => c \in drawn'
    BY <1>1, <2>2 DEF BootsAreDrawn
  <2>4. \A r \in wire' : r.boot \in drawn'
    BY <1>1 DEF BootsAreDrawn
  <2>5. registered' \subseteq drawn'
    BY <1>1 DEF BootsAreDrawn, storeVars
  <2> QED
    BY <2>1, <2>3, <2>4, <2>5 DEF BootsAreDrawn
<1>8. FencedIsGone'
  <2>1. \A m \in Node, c \in Boot : <<m, c>> \in fences => c # b
    BY <1>1 DEF StoreInv, BootsAreRegistered, BootsAreDrawn
  <2>2. \A j, m \in Node, c \in Boot : takeover[j].owner = <<m, c>> => c # b
    BY <1>1 DEF BootsAreDrawn
  <2> QED
    BY <1>1, <1>3, <2>1, <2>2 DEF FencedIsGone, storeVars
<1>9. TakeoverSeesOwner'
  <2>1. \A j, m \in Node, c \in Boot :
          takeover[j].owner = <<m, c>> \/ tick[j].owner = <<m, c>> => c # b
    BY <1>1 DEF BootsAreDrawn
  <2> QED
    <3>1. ASSUME NEW j \in Node, NEW m \in Node, NEW c \in Boot,
                 tick'[j].owner = <<m, c>> \/ takeover'[j].owner = <<m, c>>, proc'[m] = c
          PROVE  Mine(m, Cluster)'
      <4>1. tick[j].owner = <<m, c>> \/ takeover[j].owner = <<m, c>>
        <5>1. NoOwner # <<m, c>>
          BY NoOwnerAssumption
        <5>2. takeover'[j] = takeover[j] /\ (tick'[j] = tick[j] \/ tick'[j].owner = NoOwner)
          BY <1>1, <1>2, <1>3
        <5> QED
          BY <3>1, <5>1, <5>2
      <4>2. m # n /\ proc[m] = c
        BY <1>3, <2>1, <3>1, <4>1
      <4>3. Mine(m, Cluster)
        BY <4>1, <4>2 DEF TakeoverSeesOwner
      <4> QED
        BY <1>1, <1>3, <4>2, <4>3 DEF Mine, storeVars, leaseVars
    <3>2. \A j \in Node : /\ tick'[j].pc = "expired" => tick'[j].owner # NoOwner
                          /\ takeover'[j].pc # "idle" => takeover'[j].owner # NoOwner
      BY <1>1, <1>2, <1>3 DEF TakeoverSeesOwner
    <3> QED
      BY <3>1, <3>2 DEF TakeoverSeesOwner
<1>11. /\ \A k \in Key : token[n][k] = 0
       /\ sock[n] = {} /\ \A k \in Session : change[n][k].pc = "idle"
  BY <1>1 DEF GoneIsEmpty
<1>12. LeasesAreCurrent' /\ WorkHasLease' /\ LeakedSocketIsFenced'
  BY <1>1, <1>2, <1>3, <1>11
  DEF LeasesAreCurrent, WorkHasLease, LeakedSocketIsFenced, Mine, storeVars, leaseVars,
      Session, haltVars, leaseMapVars
<1>13. ClaimIsOnce'
  <2>1. \A r \in wire : r.boot # b
    BY <1>1 DEF BootsAreDrawn
  <2>2. ASSUME NEW r \in wire', NEW m \in Node, ClusterClaim(r, m)'
        PROVE  r \in wire /\ m # n /\ ClusterClaim(r, m)
    BY <1>1, <1>3, <2>1, <2>2 DEF ClusterClaim
  <2>3. ~ Mine(n, Cluster)'
    BY <1>1, <1>3, <1>4, ClusterAssumption DEF Mine, storeVars, leaseVars
  <2>4. \A m \in Node : m # n => Mine(m, Cluster)' = Mine(m, Cluster)
    BY <1>1, <1>3 DEF Mine, storeVars, leaseVars
  <2> QED
    BY <1>1, <1>2, <1>3, <2>2, <2>3, <2>4
    DEF ClaimIsOnce, Running, haltVars, leaseMapVars
<1>14. Timely'
  <2>1. ~ Mine(n, Cluster)'
    BY <1>1, <1>3, <1>4, ClusterAssumption DEF Mine, storeVars, leaseVars
  <2>2. \A m \in Node : boot[m] # b
    BY <1>1, <1>3 DEF StoreInv, BootsAreRegistered, BootsAreDrawn
  <2>3. WatchdogInTime => WatchdogInTime'
    BY <1>1, <1>3, <2>1
    DEF WatchdogInTime, Mine, Running, storeVars, leaseVars, leaseMapVars
  <2>4. FencingFindsProcessDead => FencingFindsProcessDead'
    BY <1>1, <1>3, <2>2 DEF FencingFindsProcessDead, storeVars, nodeVars
  <2> QED
    BY <2>3, <2>4 DEF Timely
<1> QED
  BY <1>5, <1>6, <1>7, <1>8, <1>9, <1>12, <1>13, <1>14
-----------------------------------------------------------------------------
(***************************************************************************)
(* The steps of the store, as the cluster takes them.                      *)
(***************************************************************************)
\* An owner has been granted an epoch.
LEMMA StoreFactsStep ==
  ASSUME StoreTypeOK, OwnedHasEpoch, [StoreNext]_storeVars
  PROVE  OwnedHasEpoch'
<1> USE NoBootAssumption, NoOwnerAssumption
    DEF StoreTypeOK, OwnedHasEpoch, nodeVars, leaseVars
<1>1. ASSUME NEW n \in Node, NEW b \in Boot, NEW k \in Key, TryAcquire(n, b, k)
      PROVE  OwnedHasEpoch'
  BY <1>1 DEF TryAcquire
<1>2. ASSUME NEW n \in Node, NEW b \in Boot,
             \/ RegisterNode(n, b) \/ ManualFence(n, b) \/ Rejoin(n, b)
             \/ ActivateFencing(n, b) \/ DisableNode(n)
      PROVE  OwnedHasEpoch'
  BY <1>2 DEF RegisterNode, ManualFence, Rejoin, ActivateFencing, DisableNode
<1>3. ASSUME NEW n \in Node, NEW b \in Boot, NEW a \in Node, NEW ab \in Boot,
             BeginFence(a, ab, n, b) \/ ConfirmFence(a, ab, n, b)
      PROVE  OwnedHasEpoch'
  BY <1>3 DEF BeginFence, ConfirmFence
<1>3a. ASSUME BootlessFence PROVE OwnedHasEpoch'
  BY <1>3a DEF BootlessFence, BeginFence
<1>4. ASSUME UNCHANGED <<nodeVars, owner, epoch>>
      PROVE  OwnedHasEpoch'
  BY <1>4
<1>5. ASSUME NEW n \in Node, DisableNode(n)
      PROVE  OwnedHasEpoch'
  BY <1>5 DEF DisableNode
<1>6. ASSUME NEW n \in Node, NEW b \in Boot, NEW k \in Key, NEW e \in 1..epoch[k],
             \/ Renew(n, b, k, e) \/ OpenSend(n, b, k, e) \/ CloseSend(n, b, k)
             \/ \E put, del \in SUBSET Item : WriteAuth(n, b, k, e, put, del)
             \/ \E res, purge \in BOOLEAN : PutCatalog(n, b, k, e, res, purge)
      PROVE  UNCHANGED <<nodeVars, owner, epoch>>
  BY <1>6 DEF Renew, OpenSend, CloseSend, WriteAuth, PutCatalog
<1>7. ASSUME NEW n \in Node, NEW b \in Boot, NEW k \in Key, CloseSend(n, b, k)
      PROVE  UNCHANGED <<nodeVars, owner, epoch>>
  BY <1>7 DEF CloseSend
<1>8. StoreTick \/ UNCHANGED storeVars => UNCHANGED <<nodeVars, owner, epoch>>
  BY DEF StoreTick, storeVars
<1> HIDE DEF StoreTypeOK, OwnedHasEpoch, nodeVars, leaseVars
<1> QED
  BY <1>1, <1>2, <1>3, <1>3a, <1>4, <1>5, <1>6, <1>7, <1>8
  DEF StoreNext, ServiceCall, OperatorCall, FencerCall

\* Somebody who holds a lease runs, and the lease is a grant of the store.
LEMMA HolderRuns ==
  ASSUME ClusterInv, NEW n \in Node, NEW k \in Key, token[n][k] > 0
  PROVE  /\ proc[n] \in Boot /\ Mine(n, k)
         /\ token[n][k] \in 1..epoch[k] /\ epoch[k] = token[n][k]
<1> USE DEF ClusterInv, ProcessInv, ProcessTypeOK, MachineTypeOK
<1>1. proc[n] # NoBoot
  BY DEF GoneIsEmpty
<1>2. proc[n] \in Boot
  BY <1>1
<1>3. Mine(n, k) /\ epoch[k] = token[n][k]
  BY DEF LeasesAreCurrent
<1>4. epoch[k] \in Nat
  BY DEF StoreInv, StoreTypeOK
<1> QED
  BY <1>2, <1>3, <1>4

\* Whoever takes over runs, and fences a node and a boot.
LEMMA FencerRuns ==
  ASSUME ClusterInv, NEW n \in Node, takeover[n].pc # "idle"
  PROVE  /\ proc[n] \in Boot /\ Target(n) \in Node /\ TargetBoot(n) \in Boot
         /\ takeover[n].owner = <<Target(n), TargetBoot(n)>>
<1> USE DEF ClusterInv, ProcessInv, ProcessTypeOK, MachineTypeOK, ThreadTypeOK
<1>1. proc[n] \in Boot
  BY DEF GoneIsEmpty
<1>2. takeover[n].owner \in Node \X Boot
  BY DEF TakeoverSeesOwner, TakeoverRec, MaybeOwner
<1> QED
  BY <1>1, <1>2 DEF Target, TargetBoot

\* Every request the program puts on the wire and every query it makes is a call
\* that the store's specification allows: the caller is a process that runs or
\* ran, and its epoch one that was handed out.
LEMMA IsStoreStep == ClusterInv /\ [ClusterNext]_clusterVars => [StoreNext]_storeVars
<1> SUFFICES ASSUME ClusterInv, [ClusterNext]_clusterVars PROVE [StoreNext]_storeVars
  OBVIOUS
<1>1. CASE Advance
  <2>1. ttl \in [Key -> 0..LeaseTtl]
    BY DEF ClusterInv, StoreInv, StoreTypeOK
  <2>2. CASE \E k \in Key : ttl[k] > 0
    BY <1>1, <2>2 DEF Advance, StoreTick, StoreNext
  <2>3. CASE ~ \E k \in Key : ttl[k] > 0
    <3>1. \A k \in Key : Earlier(ttl[k]) = ttl[k]
      BY <2>1, <2>3, LeaseTtlAssumption DEF Earlier
    <3>2. ttl' = ttl
      BY <1>1, <2>1, <3>1 DEF Advance
    <3> QED
      BY <1>1, <3>2 DEF Advance, storeVars, leaseVars
  <2> QED
    BY <2>2, <2>3
<1>2. ASSUME NEW r \in wire, Exec(r) \/ RequestFails(r)
      PROVE  StoreNext \/ UNCHANGED storeVars
  <2>1. r.node \in Node /\ r.boot \in Boot /\ r.key \in Key /\ r.epoch \in Nat
    BY DEF ClusterInv, ProcessInv, ProcessTypeOK, MachineTypeOK, Call
  <2>2. CASE ExecRegister(r)
    BY <2>1, <2>2 DEF ExecRegister, StoreNext, ServiceCall
  <2>3. CASE ExecClaim(r)
    BY <2>1, <2>3 DEF ExecClaim, StoreNext, ServiceCall
  <2>4. CASE ExecRenew(r)
    <3>1. r.epoch \in 1..epoch[r.key]
      BY <2>1, <2>4, NoOwnerAssumption
      DEF ExecRenew, Renew, CheckLease, ClusterInv, OwnedHasEpoch
    <3> QED
      BY <2>1, <2>4, <3>1 DEF ExecRenew, StoreNext, ServiceCall
  <2>5. CASE ExecClaimHeld(r) \/ RequestFails(r)
    BY <2>5 DEF ExecClaimHeld, RequestFails
  <2> QED
    BY <1>2, <2>2, <2>3, <2>4, <2>5 DEF Exec
<1>3. ASSUME NEW n \in Node, NEW k \in Session, SaveCreds(n, k) PROVE StoreNext
  <2>1. k \in Key /\ token[n][k] > 0
    BY <1>3 DEF SaveCreds, HasLease, Session
  <2>2. proc[n] \in Boot /\ token[n][k] \in 1..epoch[k]
    BY <2>1, HolderRuns
  <2> QED
    BY <1>3, <2>1, <2>2 DEF SaveCreds, StoreNext, ServiceCall
<1>4. ASSUME NEW n \in Node, NEW k \in Session,
             SaveMeta(n, k) \/ StopSaves(n, k) \/ WebhookSaved(n, k)
      PROVE  StoreNext
  <2>1. k \in Key /\ token[n][k] > 0
    BY <1>4 DEF SaveMeta, StopSaves, WebhookSaved, HasLease, Session
  <2>2. proc[n] \in Boot /\ token[n][k] \in 1..epoch[k]
    BY <2>1, HolderRuns
  <2>3. PICK res \in BOOLEAN, purge \in BOOLEAN :
          PutCatalog(n, proc[n], k, token[n][k], res, purge)
    BY <1>4 DEF SaveMeta, StopSaves, WebhookSaved
  <2> QED
    BY <2>1, <2>2, <2>3 DEF StoreNext, ServiceCall
<1>5. ASSUME NEW n \in Node, BeginTakeover(n) \/ ConfirmTakeover(n) PROVE StoreNext
  <2>1. proc[n] \in Boot /\ Target(n) \in Node /\ TargetBoot(n) \in Boot
    BY <1>5, FencerRuns DEF BeginTakeover, ConfirmTakeover
  <2> QED
    BY <1>5, <2>1 DEF BeginTakeover, ConfirmTakeover, StoreNext, FencerCall
<1>6. ASSUME NEW n \in Node, NEW b \in Boot, OperatorActs(n, b) PROVE StoreNext
  BY <1>6 DEF OperatorActs, StoreNext, OperatorCall
<1>7. ASSUME NEW n \in Node, OwnerDisables(n) PROVE StoreNext
  BY <1>7 DEF OwnerDisables, StoreNext
<1>8. ASSUME NEW n \in Node,
             \/ \E b \in Boot : StartProcess(n, b)
             \/ PowerOn(n) \/ WatchdogKill(n) \/ DeadlineTimer(n) \/ Fault(n)
             \/ TickStep(n) \/ RestoreStep(n) \/ ProviderPowersOff(n) \/ PowerOffObserved(n)
      PROVE  UNCHANGED storeVars
  <2>1. CASE (\E b \in Boot : StartProcess(n, b)) \/ PowerOn(n) \/ WatchdogKill(n)
             \/ DeadlineTimer(n)
    BY <2>1 DEF StartProcess, PowerOn, WatchdogKill, DeadlineTimer, Gone
  <2>2. CASE Fault(n)
    BY <2>2 DEF Fault, ProcessDies, PowerOff, Gone, TickFails, RegisterFails,
                GuardedCallFails, TakeoverFails
  <2>3. CASE TickStep(n) \/ RestoreStep(n)
    BY <2>3 DEF TickStep, TickStart, AliveAnswered, RenewAnswered, ClaimOwned, ClaimHeld,
                RestoreStep, RestoreLists, RestoreDone, RestoreSkips
  <2>4. CASE ProviderPowersOff(n) \/ PowerOffObserved(n)
    BY <2>4 DEF ProviderPowersOff, PowerOffObserved, PowerOff, Gone
  <2> QED
    BY <1>8, <2>1, <2>2, <2>3, <2>4
<1>9. ASSUME NEW n \in Node, NEW k \in Session, SessionStep(n, k)
      PROVE  StoreNext \/ UNCHANGED storeVars
  <2>1. CASE \/ \E work \in {"start", "restore", "stop"} : ChangeBegins(n, k, work)
             \/ ChangeOwned(n, k) \/ RestartCloses(n, k) \/ OpenSocket(n, k)
             \/ StopCloses(n, k) \/ ChangeFails(n, k) \/ SocketEnds(n, k)
    BY <2>1 DEF ChangeBegins, ChangeOwned, RestartCloses, SocketClosed, OpenSocket,
                StopCloses, ChangeFails, SocketEnds
  <2> QED
    BY <1>3, <1>4, <1>9, <2>1 DEF SessionStep
<1>10. UNCHANGED clusterVars => UNCHANGED storeVars
  BY DEF clusterVars
<1> QED
  BY <1>1, <1>2, <1>5, <1>6, <1>7, <1>8, <1>9, <1>10 DEF ClusterNext, TakeoverStep
-----------------------------------------------------------------------------
(***************************************************************************)
(* Ticks.                                                                  *)
(***************************************************************************)
AskClaim(n, r) ==
  /\ r = Request("claim", n, Cluster, 0)
  /\ tick[n].pc \in {"alive", "renewed"} /\ tick'[n].pc = "claim"

\* What a step of tick() does: it asks for a renewal or for the cluster lease,
\* takes over the answer to one of these, or ends.  A claim that is not answered
\* with the lease ends in a fence, or with the lease elsewhere.
TickMoves(n) ==
  /\ UNCHANGED <<storeVars, machineVars, change>>
  /\ HaltTypeOK' /\ LeakedSocketIsFenced'
  /\ \A j \in Node : halted[j] => halted'[j]
  /\ \A j \in Node : sock'[j] \subseteq sock[j]
  /\ tick[n].pc \in {"off", "idle"} => ~halted[n] /\ tick[n].pc = "idle"
  /\ tick' \in [Node -> TickRec]
  /\ tick'[n].owner \in {tick[n].owner, NoOwner}
  /\ tick'[n].pc \in {"off", "idle", "alive", "renew", "claim"}
  /\ tick'[n].pc = "claim" => tick'[n].key = Cluster /\ token[n][Cluster] = 0
                             /\ tick[n].pc \in {"alive", "renewed"}
  /\ tick[n].pc = "claim" => tick'[n].pc = "idle" /\ halted'[n]
  /\ tick[n].pc = "owned" =>
       /\ tick'[n].pc = "idle"
       /\ \/ halted'[n] /\ kill'[n] = kill[n]
          \/ token'[n][Cluster] > 0
  /\ \A j \in Node : j # n =>
       /\ tick'[j] = tick[j] /\ takeover'[j] = takeover[j] /\ kill'[j] = kill[j]
       /\ token'[j] = token[j] /\ left'[j] = left[j]
  /\ wire' \subseteq Call
  /\ \A r \in wire' \ wire :
       AskClaim(n, r) \/ \E k \in Key : r = Request("renew", n, k, token[n][k])
  /\ token' \in [Node -> [Key -> Nat]] /\ left' \in [Node -> [Key -> 0..SelfFence]]
  /\ \A k \in Key :
       \/ token'[n][k] = token[n][k] /\ left'[n][k] = left[n][k]
       \/ /\ tick[n].pc = "renewed" /\ k = tick[n].key
          /\ token'[n][k] = token[n][k] /\ left'[n][k] = tick[n].budget
       \/ /\ tick[n].pc = "owned" /\ k = Cluster
          /\ token'[n][k] = tick[n].epoch /\ left'[n][k] = tick[n].budget
  /\ kill' \in [Node -> 0..SelfFence]
  /\ kill'[n] = kill[n] \/ \A k \in Key : token'[n][k] > 0 => kill'[n] <= left'[n][k]
  /\ takeover' \in [Node -> TakeoverRec]
  /\ \/ takeover'[n] = takeover[n]
     \/ tick[n].pc = "expired" /\ takeover'[n] = [pc |-> "begin", owner |-> tick[n].owner]

LEMMA TickKeeps ==
  ASSUME ClusterInv, NEW n \in Node, TickMoves(n)
  PROVE  ProcessInv'
<1> USE DEF ClusterInv, ProcessInv
<1>0. UNCHANGED <<nodeVars, owner, epoch, ttl, fences, registered, power, proc, drawn, change>>
  BY DEF TickMoves, storeVars, leaseVars, machineVars
<1>1. /\ tick[n].pc # "off" /\ proc[n] # NoBoot
      /\ Running(n) /\ Cluster \in Key /\ Session \subseteq Key
  BY ClusterAssumption DEF TickMoves, GoneIsEmpty, Running, Session
<1>2. ProcessTypeOK'
  BY <1>0 DEF TickMoves, ProcessTypeOK, ThreadTypeOK, MachineTypeOK
<1>2a. \A j \in Node :
         /\ tick'[j].owner \in {tick[j].owner, NoOwner}
         /\ takeover'[j].owner \in {takeover[j].owner, tick[j].owner}
  <2>1. CASE takeover'[n] = takeover[n]
    BY <2>1 DEF TickMoves
  <2>2. CASE takeover'[n] = [pc |-> "begin", owner |-> tick[n].owner]
    <3>1. takeover'[n].owner = tick[n].owner
      BY <2>2
    <3> QED
      BY <3>1 DEF TickMoves
  <2> QED
    BY <2>1, <2>2 DEF TickMoves
<1>2b. \A m \in Node, b \in Boot : NoOwner # <<m, b>>
  BY NoOwnerAssumption
<1>3. GoneIsEmpty'
  <2>1. \A j \in Node : sock'[j] \subseteq sock[j]
    BY DEF TickMoves
  <2>2. \A j \in Node : j # n =>
          /\ tick'[j] = tick[j] /\ takeover'[j] = takeover[j] /\ token'[j] = token[j]
    BY DEF TickMoves
  <2> QED
    BY <1>0, <1>1, <2>1, <2>2 DEF GoneIsEmpty
<1>4. BootsAreDrawn'
  <2>1. \A j, m \in Node, b \in Boot :
          tick'[j].owner = <<m, b>> \/ takeover'[j].owner = <<m, b>> =>
          tick[j].owner = <<m, b>> \/ takeover[j].owner = <<m, b>>
    BY <1>2a, <1>2b, Zenon
  <2>2. \A r \in wire' \ wire : r.boot = proc[n]
    BY DEF TickMoves, AskClaim, Request
  <2>3. \A r \in wire' : r.boot \in drawn
    BY <1>1, <2>2 DEF BootsAreDrawn
  <2> QED
    BY <1>0, <2>1, <2>3 DEF BootsAreDrawn
<1>5. FencedIsGone'
  <2>1. \A j \in Node : takeover'[j].pc = "confirm" => takeover'[j] = takeover[j]
    BY DEF TickMoves
  <2> QED
    BY <1>0, <2>1 DEF FencedIsGone
<1>6. TakeoverSeesOwner'
  <2>1. ASSUME NEW j \in Node, NEW m \in Node, NEW b \in Boot,
               tick'[j].owner = <<m, b>> \/ takeover'[j].owner = <<m, b>>, proc'[m] = b
        PROVE  Mine(m, Cluster)'
    <3>1. tick[j].owner = <<m, b>> \/ takeover[j].owner = <<m, b>>
      BY <1>2a, <1>2b, <2>1, Zenon
    <3> QED
      BY <1>0, <2>1, <3>1 DEF TakeoverSeesOwner, Mine
  <2>2. \A j \in Node : tick'[j].pc = "expired" => tick'[j] = tick[j]
    BY DEF TickMoves
  <2>3. \A j \in Node : takeover'[j].pc # "idle" => takeover'[j].owner # NoOwner
    <3>1. \A j \in Node : j # n => takeover'[j] = takeover[j]
      BY DEF TickMoves
    <3>2. \/ takeover'[n] = takeover[n]
          \/ takeover'[n].owner = tick[n].owner /\ tick[n].pc = "expired"
      BY DEF TickMoves
    <3> QED
      BY <3>1, <3>2 DEF TakeoverSeesOwner
  <2>4. \A j \in Node : tick'[j].pc = "expired" => tick'[j].owner # NoOwner
    BY <2>2 DEF TakeoverSeesOwner
  <2> QED
    BY <2>1, <2>3, <2>4 DEF TakeoverSeesOwner
<1>7. \A k \in Key : token'[n][k] > 0 =>
        Mine(n, k) /\ epoch[k] = token'[n][k] /\ left'[n][k] <= ttl[k]
  <2> SUFFICES ASSUME NEW k \in Key, token'[n][k] > 0
               PROVE  Mine(n, k) /\ epoch[k] = token'[n][k] /\ left'[n][k] <= ttl[k]
    OBVIOUS
  <2>1. CASE token'[n][k] = token[n][k] /\ left'[n][k] = left[n][k]
    BY <2>1 DEF LeasesAreCurrent
  <2>2. CASE /\ tick[n].pc = "renewed" /\ k = tick[n].key
             /\ token'[n][k] = token[n][k] /\ left'[n][k] = tick[n].budget
    BY <2>2 DEF LeasesAreCurrent
  <2>3. CASE /\ tick[n].pc = "owned" /\ k = Cluster
             /\ token'[n][k] = tick[n].epoch /\ left'[n][k] = tick[n].budget
    BY <2>3 DEF LeasesAreCurrent
  <2> QED
    BY <2>1, <2>2, <2>3 DEF TickMoves
<1>8. \A j \in Node : j # n => tick'[j] = tick[j] /\ token'[j] = token[j] /\ left'[j] = left[j]
                              /\ kill'[j] = kill[j]
  BY DEF TickMoves
<1>9. LeasesAreCurrent'
  <2>1. tick'[n].pc # "owned" /\ tick'[n].pc # "renewed"
    BY DEF TickMoves
  <2> QED
    BY <1>0, <1>7, <1>8, <2>1 DEF LeasesAreCurrent, Mine
<1>10. WorkHasLease'
  <2>1. \A k \in Key : token[n][k] > 0 => token'[n][k] > 0
    <3>0. proc[n] \in Boot
      BY <1>1 DEF ProcessTypeOK, MachineTypeOK
    <3>1. tick[n].pc = "owned" => tick[n].epoch > 0
      BY <1>1, <1>2b, <3>0 DEF LeasesAreCurrent, Mine, OwnedHasEpoch
    <3> QED
      BY <3>1 DEF TickMoves
  <2>2. \A j \in Node, k \in Session : k \in sock'[j] => k \in sock[j]
    BY DEF TickMoves
  <2>3. \A j \in Node, k \in Session : token[j][k] > 0 => token'[j][k] > 0
    BY <1>1, <1>8, <2>1
  <2> QED
    BY <1>0, <2>2, <2>3 DEF WorkHasLease
<1>11. ClaimIsOnce'
  <2>1. ~ halted[n] \/ tick[n].pc # "idle"
    BY DEF TickMoves
  <2>2. tick[n].pc \in {"alive", "renewed"} /\ token[n][Cluster] = 0 => ~Mine(n, Cluster)
    BY <1>1 DEF ClaimIsOnce
  <2>3. \A r \in wire' : r.op = "claim" => r.epoch = 0
    BY DEF TickMoves, AskClaim, Request, ClaimIsOnce
  <2>4. \A j \in Node : tick'[j].pc \in {"claim", "owned", "held", "expired"} =>
          tick'[j].key = Cluster /\ token'[j][Cluster] = 0
    <3>1. CASE tick'[n].pc = "claim"
      <4>1. tick'[n].key = Cluster /\ token[n][Cluster] = 0 /\ tick[n].pc \in {"alive", "renewed"}
        BY <3>1 DEF TickMoves
      <4>2. token'[n][Cluster] = 0
        BY <1>1, <4>1 DEF TickMoves
      <4> QED
        BY <1>8, <4>1, <4>2 DEF ClaimIsOnce
    <3>2. CASE tick'[n].pc # "claim"
      BY <1>8, <3>2 DEF ClaimIsOnce, TickMoves
    <3> QED
      BY <3>1, <3>2
  <2>5. Mine(n, Cluster) /\ token'[n][Cluster] = 0 => tick'[n].pc = "idle" /\ halted'[n]
    <3>1. CASE token[n][Cluster] = 0
      BY <1>1, <2>1, <3>1 DEF ClaimIsOnce, TickMoves
    <3>2. CASE token[n][Cluster] # 0
      <4>1. tick[n].pc # "owned"
        BY <3>2 DEF ClaimIsOnce
      <4> QED
        BY <1>1, <3>2, <4>1 DEF TickMoves
    <3> QED
      BY <3>1, <3>2
  <2>6. ASSUME NEW r \in wire', NEW j \in Node, ClusterClaim(r, j)'
        PROVE  /\ ~Mine(j, Cluster)
               /\ tick'[j].pc = "claim" \/ (tick'[j].pc = "idle" /\ halted'[j])
    <3>1. CASE r \in wire
      <4>1. ClusterClaim(r, j)
        BY <1>0, <2>6 DEF ClusterClaim
      <4>2. ~Mine(j, Cluster) /\ (tick[j].pc = "claim" \/ (tick[j].pc = "idle" /\ halted[j]))
        BY <3>1, <4>1 DEF ClaimIsOnce
      <4>3. CASE j = n
        BY <2>1, <4>2, <4>3 DEF TickMoves
      <4>4. CASE j # n
        BY <1>8, <4>2, <4>4 DEF TickMoves
      <4> QED
        BY <4>3, <4>4
    <3>2. CASE r \notin wire
      <4>1. r.op = "claim" /\ r.node = j
        BY <2>6 DEF ClusterClaim
      <4>2. AskClaim(n, r)
        BY <3>2, <4>1 DEF TickMoves, Request
      <4>3. j = n
        BY <4>1, <4>2 DEF AskClaim, Request
      <4> QED
        BY <2>2, <4>2, <4>3 DEF AskClaim, TickMoves
    <3> QED
      BY <3>1, <3>2
  <2>7. \A j \in Node : /\ Running(j)' = Running(j) /\ Mine(j, Cluster)' = Mine(j, Cluster)
    BY <1>0 DEF Running, Mine
  <2>8. ASSUME NEW j \in Node, Running(j), Mine(j, Cluster), token'[j][Cluster] = 0
        PROVE  tick'[j].pc = "owned" \/ (tick'[j].pc = "idle" /\ halted'[j])
    <3>1. CASE j = n
      BY <2>5, <2>8, <3>1
    <3>2. CASE j # n
      BY <1>8, <2>8, <3>2 DEF ClaimIsOnce, TickMoves
    <3> QED
      BY <3>1, <3>2
  <2> QED
    BY <2>3, <2>4, <2>6, <2>7, <2>8 DEF ClaimIsOnce
<1>12. Timely'
  <2>1. ASSUME WatchdogInTime, Watchdog, Mine(n, Cluster)
        PROVE  /\ kill'[n] < ttl[Cluster]
               /\ token'[n][Cluster] > 0 => left'[n][Cluster] < ttl[Cluster]
    <3>0. /\ kill[n] < ttl[Cluster]
          /\ token[n][Cluster] > 0 => left[n][Cluster] < ttl[Cluster]
          /\ tick[n].pc = "owned" => tick[n].budget < ttl[Cluster]
          /\ tick[n].pc = "renewed" /\ tick[n].key = Cluster =>
               tick[n].budget < ttl[Cluster]
      BY <1>1, <2>1 DEF WatchdogInTime
    <3>1. token'[n][Cluster] > 0 => left'[n][Cluster] < ttl[Cluster]
      BY <1>1, <3>0 DEF TickMoves
    <3>2. CASE kill'[n] = kill[n]
      BY <3>0, <3>1, <3>2
    <3>3. CASE token'[n][Cluster] > 0 /\ kill'[n] # kill[n]
      <4>1. kill'[n] <= left'[n][Cluster]
        BY <1>1, <3>3 DEF TickMoves
      <4>2. kill'[n] \in Nat /\ left'[n][Cluster] \in Nat /\ ttl[Cluster] \in Nat
        BY <1>1, <1>2, SelfFenceAssumption
        DEF ProcessTypeOK, MachineTypeOK, StoreInv, StoreTypeOK
      <4> QED
        BY <3>1, <3>3, <4>1, <4>2
    <3>4. CASE ~(token'[n][Cluster] > 0) /\ kill'[n] # kill[n]
      <4>0. token[n][Cluster] \in Nat /\ ~(tick[n].pc = "idle" /\ halted[n]) /\ token'[n][Cluster] \in Nat
        BY <1>1, <1>2, <3>4 DEF TickMoves, ProcessTypeOK, MachineTypeOK
      <4>1. tick[n].pc # "owned"
        BY <3>4 DEF TickMoves
      <4>2. token[n][Cluster] # 0
        BY <1>1, <2>1, <4>0, <4>1 DEF ClaimIsOnce
      <4>3. token'[n][Cluster] = token[n][Cluster]
        BY <1>1, <4>1 DEF TickMoves
      <4>4. FALSE
        BY <3>4, <4>0, <4>2, <4>3
      <4> QED
        BY <4>4
    <3> QED
      BY <3>1, <3>2, <3>3, <3>4
  <2>2. tick'[n].pc # "owned" /\ tick'[n].pc # "renewed"
    BY DEF TickMoves
  <2>3. WatchdogInTime => WatchdogInTime'
    BY <1>0, <1>8, <2>1, <2>2 DEF WatchdogInTime, Mine, Running
  <2>4. FencingFindsProcessDead => FencingFindsProcessDead'
    BY <1>0 DEF FencingFindsProcessDead, nodeVars
  <2> QED
    BY <2>3, <2>4 DEF Timely
<1> QED
  BY <1>2, <1>3, <1>4, <1>5, <1>6, <1>9, <1>10, <1>11, <1>12 DEF TickMoves

LEMMA NewTicks ==
  ASSUME NEW pc \in TickPc
  PROVE  NoTick(pc) \in TickRec /\ NoTick(pc).pc = pc /\ NoTick(pc).owner = NoOwner
BY SelfFenceAssumption, ClusterAssumption DEF NoTick, TickRec, MaybeOwner

\* The request that a tick puts on the wire, or the end of the tick.
LEMMA Proceeds ==
  ASSUME ClusterInv, NEW n \in Node, NEW seen \in SUBSET Key,
         NEW m \in [Key -> 0..SelfFence],
         tick[n].pc \in {"alive", "renewed"}, token' = token, Proceed(n, seen, m)
  PROVE  /\ HaltsKeep
         /\ tick' \in [Node -> TickRec]
         /\ \A j \in Node : j # n => tick'[j] = tick[j] /\ kill'[j] = kill[j]
         /\ tick'[n].owner \in {tick[n].owner, NoOwner}
         /\ tick'[n].pc \in {"idle", "renew", "claim"}
         /\ tick'[n].pc = "claim" => tick'[n].key = Cluster /\ token[n][Cluster] = 0
         /\ wire' \subseteq Call
         /\ \A r \in wire' \ wire :
              AskClaim(n, r) \/ \E k \in Key : r = Request("renew", n, k, token[n][k])
         /\ kill' \in [Node -> 0..SelfFence]
         /\ kill'[n] = kill[n] \/ \A k \in Key : token'[n][k] > 0 => kill'[n] <= m[k]
<1> USE DEF ClusterInv, ProcessInv
<1>1. /\ ProcessTypeOK /\ tick \in [Node -> TickRec] /\ tick[n] \in TickRec
      /\ token[n] \in [Key -> Nat] /\ wire \subseteq Call
      /\ kill \in [Node -> 0..SelfFence] /\ HaltTypeOK
  BY DEF ProcessTypeOK, ThreadTypeOK, MachineTypeOK
<1>2. proc[n] \in Boot
  BY DEF GoneIsEmpty, ProcessTypeOK, MachineTypeOK
<1> DEFINE Ask(op, k) ==
      /\ wire' = wire \cup {Request(op, n, k, token[n][k])}
      /\ tick' = [tick EXCEPT ![n].pc = op, ![n].key = k,
                              ![n].seen = seen, ![n].budget = SelfFence]
      /\ UNCHANGED <<kill, haltVars>>
<1>3. ASSUME NEW op \in {"renew", "claim"}, NEW k \in Key, Ask(op, k)
      PROVE  /\ HaltsKeep /\ tick' \in [Node -> TickRec] /\ wire' \subseteq Call
             /\ \A j \in Node : j # n => tick'[j] = tick[j]
             /\ tick'[n].owner = tick[n].owner /\ tick'[n].pc = op /\ tick'[n].key = k
  <2>1. Request(op, n, k, token[n][k]) \in Call
    BY <1>1, <1>2 DEF Request, Call
  <2>2. HaltsKeep
    BY <1>1, <1>3 DEF HaltsKeep, haltVars, HaltTypeOK, LeakedSocketIsFenced
  <2>3. SelfFence \in 0..SelfFence
    BY SelfFenceAssumption
  <2>4. tick' = [tick EXCEPT ![n] = [tick[n] EXCEPT !.pc = op, !.key = k, !.seen = seen,
                                                    !.budget = SelfFence]]
    BY <1>3
  <2>5. [tick[n] EXCEPT !.pc = op, !.key = k, !.seen = seen, !.budget = SelfFence] \in TickRec
    BY <1>1, <2>3 DEF TickRec, TickPc
  <2>6. tick'[n] = [tick[n] EXCEPT !.pc = op, !.key = k, !.seen = seen, !.budget = SelfFence]
    BY <1>1, <2>4
  <2>7. tick'[n].owner = tick[n].owner /\ tick'[n].pc = op /\ tick'[n].key = k
    BY <1>1, <2>6 DEF TickRec
  <2> QED
    BY <1>1, <1>3, <2>1, <2>2, <2>4, <2>5, <2>7
<1>4. CASE \E k \in Key : Ask("renew", k)
  <2>1. PICK k \in Key : Ask("renew", k)
    BY <1>4
  <2>2. wire' \ wire \subseteq {Request("renew", n, k, token[n][k])} /\ kill' = kill
    BY <2>1
  <2>3. /\ HaltsKeep /\ tick' \in [Node -> TickRec] /\ wire' \subseteq Call
        /\ \A j \in Node : j # n => tick'[j] = tick[j]
        /\ tick'[n].owner = tick[n].owner /\ tick'[n].pc = "renew"
    BY <1>3, <2>1
  <2> HIDE DEF Ask
  <2> QED
    BY <1>1, <2>2, <2>3
<1>5. CASE token[n][Cluster] = 0 /\ Ask("claim", Cluster)
  <2>1. wire' \ wire \subseteq {Request("claim", n, Cluster, 0)} /\ kill' = kill
    BY <1>5
  <2>2. /\ HaltsKeep /\ tick' \in [Node -> TickRec] /\ wire' \subseteq Call
        /\ \A j \in Node : j # n => tick'[j] = tick[j]
        /\ tick'[n].owner = tick[n].owner /\ tick'[n].pc = "claim" /\ tick'[n].key = Cluster
    BY <1>3, <1>5, ClusterAssumption
  <2>3. \A r \in wire' \ wire : AskClaim(n, r)
    BY <2>1, <2>2 DEF AskClaim
  <2> HIDE DEF Ask
  <2> QED
    BY <1>1, <1>5, <2>1, <2>2, <2>3
<1>6. CASE FinishTick(n, token[n], m) /\ UNCHANGED wire
  <2>1. /\ tick' = [tick EXCEPT ![n] = NoTick("idle")]
        /\ HaltsKeep /\ kill' \in [Node -> 0..SelfFence]
        /\ \A j \in Node \ {n} : kill'[j] = kill[j]
        /\ kill'[n] = kill[n] \/ \A k \in Key : token[n][k] > 0 => kill'[n] <= m[k]
    BY <1>1, <1>6, Finishes
  <2>2. NoTick("idle") \in TickRec /\ NoTick("idle").pc = "idle"
        /\ NoTick("idle").owner = NoOwner
    BY NewTicks DEF TickPc
  <2>3. tick'[n] = NoTick("idle") /\ tick' \in [Node -> TickRec]
        /\ \A j \in Node : j # n => tick'[j] = tick[j]
    BY <1>1, <2>1, <2>2
  <2> HIDE DEF Ask
  <2> QED
    BY <1>1, <1>6, <2>1, <2>2, <2>3
<1>7. \/ \E k \in Key : Ask("renew", k)
      \/ token[n][Cluster] = 0 /\ Ask("claim", Cluster)
      \/ FinishTick(n, token[n], m) /\ UNCHANGED wire
  BY DEF Proceed
<1> HIDE DEF Ask
<1> QED
  BY <1>4, <1>5, <1>6, <1>7

LEMMA TicksMove ==
  ASSUME ClusterInv, NEW n \in Node, TickStep(n) \/ TickFails(n) \/ RegisterFails(n)
  PROVE  TickMoves(n)
<1> USE DEF ClusterInv, ProcessInv
<1>1. /\ ProcessTypeOK /\ tick \in [Node -> TickRec] /\ tick[n] \in TickRec
      /\ token \in [Node -> [Key -> Nat]] /\ left \in [Node -> [Key -> 0..SelfFence]]
      /\ token[n] \in [Key -> Nat] /\ left[n] \in [Key -> 0..SelfFence]
      /\ wire \subseteq Call /\ kill \in [Node -> 0..SelfFence] /\ HaltTypeOK
      /\ takeover \in [Node -> TakeoverRec] /\ takeover[n] \in TakeoverRec
      /\ tick[n].budget \in 0..SelfFence /\ tick[n].key \in Key /\ tick[n].epoch \in Nat
      /\ tick[n].seen \in SUBSET Key /\ tick[n].owner \in MaybeOwner
  BY DEF ProcessTypeOK, ThreadTypeOK, MachineTypeOK, TickRec
<1>2. \A pc \in TickPc : tick' = [tick EXCEPT ![n] = NoTick(pc)] =>
        /\ tick' \in [Node -> TickRec] /\ tick'[n].pc = pc
        /\ tick'[n].owner = NoOwner /\ \A j \in Node : j # n => tick'[j] = tick[j]
  BY <1>1, NewTicks
<1>3. CASE TickStart(n)
  <2>1. SelfFence \in 0..SelfFence
    BY SelfFenceAssumption
  <2>2. [tick[n] EXCEPT !.pc = "alive", !.started = SelfFence] \in TickRec
    BY <1>1, <2>1 DEF TickRec, TickPc
  <2>3. tick' = [tick EXCEPT ![n] = [tick[n] EXCEPT !.pc = "alive", !.started = SelfFence]]
    BY <1>3 DEF TickStart
  <2>4. tick'[n] = [tick[n] EXCEPT !.pc = "alive", !.started = SelfFence]
        /\ tick' \in [Node -> TickRec] /\ \A j \in Node : j # n => tick'[j] = tick[j]
    BY <1>1, <2>2, <2>3
  <2>5. tick'[n].pc = "alive" /\ tick'[n].owner = tick[n].owner
    BY <1>1, <2>4 DEF TickRec
  <2> QED
    BY <1>1, <1>3, <2>4, <2>5
    DEF TickStart, TickMoves, haltVars, leaseMapVars, HaltTypeOK, LeakedSocketIsFenced
<1>4. CASE AliveAnswered(n)
  <2>1. tick[n].pc = "alive" /\ Proceed(n, {}, left[n])
        /\ UNCHANGED <<storeVars, machineVars, token, left, change, takeover>>
    BY <1>4 DEF AliveAnswered, leaseMapVars
  <2>2. /\ HaltsKeep
        /\ tick' \in [Node -> TickRec]
        /\ \A j \in Node : j # n => tick'[j] = tick[j] /\ kill'[j] = kill[j]
        /\ tick'[n].owner \in {tick[n].owner, NoOwner}
        /\ tick'[n].pc \in {"idle", "renew", "claim"}
        /\ tick'[n].pc = "claim" => tick'[n].key = Cluster /\ token[n][Cluster] = 0
        /\ wire' \subseteq Call
        /\ \A r \in wire' \ wire :
             AskClaim(n, r) \/ \E k \in Key : r = Request("renew", n, k, token[n][k])
        /\ kill' \in [Node -> 0..SelfFence]
        /\ kill'[n] = kill[n] \/ \A k \in Key : token'[n][k] > 0 => kill'[n] <= left[n][k]
    BY <1>1, <2>1, Proceeds
  <2> QED
    BY <1>1, <2>1, <2>2 DEF TickMoves, HaltsKeep
<1>5. CASE RenewAnswered(n)
  <2> DEFINE m == [left[n] EXCEPT ![tick[n].key] = tick[n].budget]
  <2>1. tick[n].pc = "renewed" /\ Proceed(n, tick[n].seen \cup {tick[n].key}, m)
        /\ left' = [left EXCEPT ![n][tick[n].key] = tick[n].budget]
        /\ UNCHANGED <<storeVars, machineVars, token, change, takeover>>
    BY <1>5 DEF RenewAnswered
  <2>2. m \in [Key -> 0..SelfFence] /\ tick[n].seen \cup {tick[n].key} \in SUBSET Key
    BY <1>1
  <2>3. /\ left' \in [Node -> [Key -> 0..SelfFence]] /\ left'[n] = m
        /\ \A j \in Node : j # n => left'[j] = left[j]
    BY <1>1, <2>1, <2>2
  <2>4. \A k \in Key : left'[n][k] = IF k = tick[n].key THEN tick[n].budget ELSE left[n][k]
    BY <1>1, <2>3
  <2> HIDE DEF m
  <2>5. /\ HaltsKeep
        /\ tick' \in [Node -> TickRec]
        /\ \A j \in Node : j # n => tick'[j] = tick[j] /\ kill'[j] = kill[j]
        /\ tick'[n].owner \in {tick[n].owner, NoOwner}
        /\ tick'[n].pc \in {"idle", "renew", "claim"}
        /\ tick'[n].pc = "claim" => tick'[n].key = Cluster /\ token[n][Cluster] = 0
        /\ wire' \subseteq Call
        /\ \A r \in wire' \ wire :
             AskClaim(n, r) \/ \E k \in Key : r = Request("renew", n, k, token[n][k])
        /\ kill' \in [Node -> 0..SelfFence]
        /\ kill'[n] = kill[n] \/ \A k \in Key : token'[n][k] > 0 => kill'[n] <= m[k]
    BY <2>1, <2>2, Proceeds
  <2> QED
    BY <1>1, <2>1, <2>3, <2>4, <2>5 DEF TickMoves, HaltsKeep
<1>6. CASE ClaimOwned(n)
  <2> DEFINE tok == [token[n] EXCEPT ![Cluster] = tick[n].epoch]
             m == [left[n] EXCEPT ![Cluster] = tick[n].budget]
  <2>1. /\ tick[n].pc = "owned" /\ FinishTick(n, tok, m)
        /\ token' = [token EXCEPT ![n][Cluster] = tick[n].epoch]
        /\ left' = [left EXCEPT ![n][Cluster] = tick[n].budget]
        /\ UNCHANGED <<storeVars, machineVars, wire, change, takeover>>
    BY <1>6 DEF ClaimOwned, Remember
  <2>2. tok \in [Key -> Nat] /\ m \in [Key -> 0..SelfFence]
    BY <1>1
  <2>3. /\ left' \in [Node -> [Key -> 0..SelfFence]] /\ left'[n] = m
        /\ token' \in [Node -> [Key -> Nat]] /\ token'[n] = tok
        /\ \A j \in Node : j # n => left'[j] = left[j] /\ token'[j] = token[j]
    BY <1>1, <2>1, <2>2
  <2>4. \A k \in Key :
          /\ left'[n][k] = IF k = Cluster THEN tick[n].budget ELSE left[n][k]
          /\ token'[n][k] = IF k = Cluster THEN tick[n].epoch ELSE token[n][k]
    BY <1>1, <2>3
  <2>5. tick[n].epoch > 0
    <3>1. Mine(n, Cluster) /\ epoch[Cluster] = tick[n].epoch /\ proc[n] \in Boot
      BY <2>1 DEF LeasesAreCurrent, GoneIsEmpty, ProcessTypeOK, MachineTypeOK
    <3> QED
      BY <3>1, NoOwnerAssumption, ClusterAssumption DEF Mine, OwnedHasEpoch
  <2> HIDE DEF m, tok
  <2>6. /\ tick' = [tick EXCEPT ![n] = NoTick("idle")]
        /\ HaltsKeep /\ kill' \in [Node -> 0..SelfFence]
        /\ \A j \in Node \ {n} : kill'[j] = kill[j]
        /\ kill'[n] = kill[n] \/ \A k \in Key : tok[k] > 0 => kill'[n] <= m[k]
    BY <1>1, <2>1, <2>2, Finishes
  <2>7. /\ tick' \in [Node -> TickRec] /\ tick'[n].pc = "idle" /\ tick'[n].owner = NoOwner
        /\ \A j \in Node : j # n => tick'[j] = tick[j]
    BY <1>2, <2>6 DEF TickPc
  <2>8. token'[n][Cluster] > 0
    BY <2>4, <2>5, ClusterAssumption
  <2>9. \A k \in Key :
          \/ token'[n][k] = token[n][k] /\ left'[n][k] = left[n][k]
          \/ k = Cluster /\ token'[n][k] = tick[n].epoch /\ left'[n][k] = tick[n].budget
    BY <2>4
  <2> QED
    BY <1>1, <2>1, <2>3, <2>6, <2>7, <2>8, <2>9 DEF TickMoves, HaltsKeep
<1>7. CASE ClaimHeld(n)
  <2>1. /\ tick[n].pc \in {"held", "expired"} /\ FinishTick(n, token[n], left[n])
        /\ UNCHANGED <<storeVars, machineVars, wire, token, left, change>>
    BY <1>7 DEF ClaimHeld, leaseMapVars
  <2>2. /\ tick' = [tick EXCEPT ![n] = NoTick("idle")]
        /\ HaltsKeep /\ kill' \in [Node -> 0..SelfFence]
        /\ \A j \in Node \ {n} : kill'[j] = kill[j]
        /\ kill'[n] = kill[n] \/ \A k \in Key : token[n][k] > 0 => kill'[n] <= left[n][k]
    BY <1>1, <2>1, Finishes
  <2>3. /\ tick' \in [Node -> TickRec] /\ tick'[n].pc = "idle" /\ tick'[n].owner = NoOwner
        /\ \A j \in Node : j # n => tick'[j] = tick[j]
    BY <1>2, <2>2 DEF TickPc
  <2>4. /\ takeover' \in [Node -> TakeoverRec]
        /\ \A j \in Node : j # n => takeover'[j] = takeover[j]
        /\ \/ takeover'[n] = takeover[n]
           \/ tick[n].pc = "expired"
              /\ takeover'[n] = [pc |-> "begin", owner |-> tick[n].owner]
    BY <1>1, <1>7 DEF ClaimHeld, TakeoverRec
  <2> QED
    BY <1>1, <2>1, <2>2, <2>3, <2>4 DEF TickMoves, HaltsKeep
<1>8. CASE TickFails(n)
  <2>1. /\ tick' \in [Node -> TickRec] /\ tick'[n].pc = "idle" /\ tick'[n].owner = NoOwner
        /\ \A j \in Node : j # n => tick'[j] = tick[j]
    BY <1>2, <1>8 DEF TickFails, TickPc
  <2>2. HaltsKeep /\ halted'[n]
    BY <1>1, <1>8, FenceKeeps DEF TickFails
  <2> QED
    BY <1>1, <1>8, <2>1, <2>2 DEF TickFails, TickMoves, HaltsKeep, leaseMapVars
<1>9. CASE RegisterFails(n)
  <2>1. /\ tick' \in [Node -> TickRec] /\ tick'[n].pc = "off" /\ tick'[n].owner = NoOwner
        /\ \A j \in Node : j # n => tick'[j] = tick[j]
    BY <1>2, <1>9 DEF RegisterFails, TickPc
  <2> QED
    BY <1>1, <1>9, <2>1
    DEF RegisterFails, TickMoves, haltVars, leaseMapVars, HaltTypeOK, LeakedSocketIsFenced
<1> QED
  BY <1>3, <1>4, <1>5, <1>6, <1>7, <1>8, <1>9 DEF TickStep
-----------------------------------------------------------------------------
(***************************************************************************)
(* Requests that the store executes.                                       *)
(***************************************************************************)
LEMMA Answers ==
  ASSUME ClusterInv, NEW r \in wire, NEW pc \in TickPc, AnswerTick(r, pc)
  PROVE  /\ tick' \in [Node -> TickRec]
         /\ \A j \in Node :
              /\ tick'[j].key = tick[j].key /\ tick'[j].owner = tick[j].owner
              /\ tick'[j].epoch = tick[j].epoch /\ tick'[j].budget = tick[j].budget
              /\ \/ tick'[j].pc = tick[j].pc
                 \/ j = r.node /\ TickWaits(r) /\ tick'[j].pc = pc
<1>1. tick \in [Node -> TickRec] /\ r.node \in Node /\ tick[r.node] \in TickRec
  BY DEF ClusterInv, ProcessInv, ProcessTypeOK, ThreadTypeOK, MachineTypeOK, Call
<1>2. CASE TickWaits(r)
  <2>1. tick' = [tick EXCEPT ![r.node] = [tick[r.node] EXCEPT !.pc = pc]]
    BY <1>2 DEF AnswerTick
  <2>2. [tick[r.node] EXCEPT !.pc = pc] \in TickRec
    BY <1>1 DEF TickRec
  <2>3. /\ tick'[r.node] = [tick[r.node] EXCEPT !.pc = pc] /\ tick' \in [Node -> TickRec]
        /\ \A j \in Node : j # r.node => tick'[j] = tick[j]
    BY <1>1, <2>1, <2>2
  <2> QED
    BY <1>1, <1>2, <2>3 DEF TickRec
<1>3. CASE ~TickWaits(r)
  BY <1>1, <1>3 DEF AnswerTick
<1> QED
  BY <1>2, <1>3

LEMMA RegisterKeeps ==
  ASSUME ClusterInv, NEW r \in wire, ExecRegister(r)
  PROVE  ProcessInv'
<1> USE DEF ClusterInv, ProcessInv
<1>1. /\ r.node \in Node /\ r.boot \in Boot /\ r.boot \in drawn /\ r.boot # NoBoot
      /\ ProcessTypeOK /\ boot \in [Node -> Boot \cup {NoBoot}]
  BY NoBootAssumption
  DEF ProcessTypeOK, MachineTypeOK, Call, BootsAreDrawn, StoreInv, StoreTypeOK
<1>2. /\ UNCHANGED <<owner, epoch, ttl, fences, state, power, proc, drawn, token, left>>
      /\ UNCHANGED <<halted, restore, todo, sock, closer, kill, change, takeover>>
      /\ registered' = registered \cup {r.boot} /\ wire' = wire \ {r} /\ r.op = "register"
      /\ state[r.node] = "ready" /\ \A n \in Node : n # r.node => boot'[n] = boot[n]
  BY <1>1 DEF ExecRegister, RegisterNode, leaseVars, machineVars, leaseMapVars, haltVars
<1>3. /\ tick' \in [Node -> TickRec]
      /\ \A j \in Node :
           /\ tick'[j].key = tick[j].key /\ tick'[j].owner = tick[j].owner
           /\ tick'[j].epoch = tick[j].epoch /\ tick'[j].budget = tick[j].budget
           /\ \/ tick'[j].pc = tick[j].pc
              \/ tick[j].pc = "register" /\ tick'[j].pc = "idle"
  <2>1. AnswerTick(r, "idle") /\ "idle" \in TickPc
    BY DEF ExecRegister, TickPc
  <2>2. TickWaits(r) => tick[r.node].pc = "register"
    BY <1>2 DEF TickWaits
  <2>3. /\ tick' \in [Node -> TickRec]
        /\ \A j \in Node :
             /\ tick'[j].key = tick[j].key /\ tick'[j].owner = tick[j].owner
             /\ tick'[j].epoch = tick[j].epoch /\ tick'[j].budget = tick[j].budget
             /\ \/ tick'[j].pc = tick[j].pc
                \/ j = r.node /\ TickWaits(r) /\ tick'[j].pc = "idle"
    BY <2>1, Answers
  <2> QED
    BY <2>2, <2>3
<1>4. ProcessTypeOK'
  BY <1>1, <1>2, <1>3 DEF ProcessTypeOK, HaltTypeOK, ThreadTypeOK, MachineTypeOK
<1>5. GoneIsEmpty' /\ FencedIsGone'
  BY <1>2, <1>3 DEF GoneIsEmpty, FencedIsGone
<1>6. BootsAreDrawn'
  BY <1>1, <1>2, <1>3 DEF BootsAreDrawn
<1>7. TakeoverSeesOwner'
  BY <1>2, <1>3 DEF TakeoverSeesOwner, Mine
<1>8. LeasesAreCurrent'
  BY <1>2, <1>3 DEF LeasesAreCurrent, Mine
<1>9. WorkHasLease' /\ LeakedSocketIsFenced'
  BY <1>2 DEF WorkHasLease, LeakedSocketIsFenced
<1>10. ClaimIsOnce'
  <2>1. /\ \A n \in Node : Mine(n, Cluster)' = Mine(n, Cluster) /\ Running(n)' = Running(n)
        /\ \A q \in wire, n \in Node : ClusterClaim(q, n)' = ClusterClaim(q, n)
    BY <1>2 DEF Mine, Running, ClusterClaim
  <2>2. \A n \in Node :
          /\ tick'[n].pc \in {"claim", "owned", "held", "expired"} =>
               tick[n].pc = tick'[n].pc
          /\ tick[n].pc \in {"claim", "owned", "idle"} => tick'[n].pc = tick[n].pc
    BY <1>3
  <2> QED
    BY <1>2, <1>3, <2>1, <2>2 DEF ClaimIsOnce
<1>11. Timely'
  <2>1. WatchdogInTime => WatchdogInTime'
    BY <1>2, <1>3 DEF WatchdogInTime, Mine, Running
  <2>2. FencingFindsProcessDead => FencingFindsProcessDead'
    BY <1>2 DEF FencingFindsProcessDead
  <2> QED
    BY <2>1, <2>2 DEF Timely
<1> QED
  BY <1>4, <1>5, <1>6, <1>7, <1>8, <1>9, <1>10, <1>11

LEMMA RenewKeeps ==
  ASSUME ClusterInv, NEW r \in wire, ExecRenew(r)
  PROVE  ProcessInv'
<1> USE DEF ClusterInv, ProcessInv
<1>1. /\ r.node \in Node /\ r.key \in Key /\ ProcessTypeOK /\ SelfFence \in Nat
      /\ SelfFence <= LeaseTtl /\ LeaseTtl \in Nat /\ Cluster \in Key
      /\ ttl \in [Key -> 0..LeaseTtl]
  BY SelfFenceAssumption, LeaseTtlAssumption, ClusterAssumption
  DEF ProcessTypeOK, MachineTypeOK, Call, StoreInv, StoreTypeOK
<1>2. /\ UNCHANGED <<owner, epoch, fences, state, boot, registered, power, proc, drawn>>
      /\ UNCHANGED <<token, left, halted, restore, todo, sock, closer, kill, change>>
      /\ UNCHANGED takeover
      /\ wire' = wire \ {r} /\ r.op = "renew"
      /\ ttl' = [ttl EXCEPT ![r.key] = LeaseTtl]
  BY DEF ExecRenew, Renew, nodeVars, machineVars, leaseMapVars, haltVars
<1>3. /\ tick' \in [Node -> TickRec]
      /\ \A j \in Node :
           /\ tick'[j].key = tick[j].key /\ tick'[j].owner = tick[j].owner
           /\ tick'[j].epoch = tick[j].epoch /\ tick'[j].budget = tick[j].budget
           /\ \/ tick'[j].pc = tick[j].pc
              \/ tick[j].pc = "renew" /\ tick[j].key = r.key /\ tick'[j].pc = "renewed"
  <2>1. AnswerTick(r, "renewed") /\ "renewed" \in TickPc
    BY DEF ExecRenew, TickPc
  <2>2. TickWaits(r) => tick[r.node].pc = "renew" /\ tick[r.node].key = r.key
    BY <1>2 DEF TickWaits
  <2>3. /\ tick' \in [Node -> TickRec]
        /\ \A j \in Node :
             /\ tick'[j].key = tick[j].key /\ tick'[j].owner = tick[j].owner
             /\ tick'[j].epoch = tick[j].epoch /\ tick'[j].budget = tick[j].budget
             /\ \/ tick'[j].pc = tick[j].pc
                \/ j = r.node /\ TickWaits(r) /\ tick'[j].pc = "renewed"
    BY <2>1, Answers
  <2> QED
    BY <2>2, <2>3
<1>4. \A k \in Key : ttl'[k] >= ttl[k] /\ (k = r.key => ttl'[k] = LeaseTtl)
                   /\ ttl'[k] \in Nat /\ ttl[k] \in Nat
  BY <1>1, <1>2
<1>5. \A n \in Node :
        /\ tick[n].budget \in 0..SelfFence /\ kill[n] \in 0..SelfFence
        /\ tick[n].key \in Key
        /\ \A k \in Key : left[n][k] \in 0..SelfFence
        /\ \A k \in Session : change[n][k].budget \in 0..SelfFence
  BY <1>1 DEF ProcessTypeOK, ThreadTypeOK, MachineTypeOK, TickRec, ChangeRec
<1>6. ProcessTypeOK'
  BY <1>1, <1>2, <1>3 DEF ProcessTypeOK, HaltTypeOK, ThreadTypeOK, MachineTypeOK
<1>7. GoneIsEmpty' /\ FencedIsGone'
  BY <1>2, <1>3 DEF GoneIsEmpty, FencedIsGone
<1>8. BootsAreDrawn'
  BY <1>1, <1>2, <1>3 DEF BootsAreDrawn
<1>9. TakeoverSeesOwner'
  BY <1>2, <1>3 DEF TakeoverSeesOwner, Mine
<1>10. LeasesAreCurrent'
  <2>1. \A n \in Node, k \in Key : token[n][k] > 0 => left[n][k] <= ttl'[k]
    BY <1>4, <1>5 DEF LeasesAreCurrent
  <2>2. \A n \in Node : tick'[n].pc = "owned" =>
          tick[n].pc = "owned" /\ tick'[n].budget <= ttl'[Cluster]
    BY <1>1, <1>3, <1>4, <1>5 DEF LeasesAreCurrent
  <2>3. ASSUME NEW n \in Node, tick'[n].pc = "renewed"
        PROVE  tick'[n].budget <= ttl'[tick'[n].key]
    <3>1. tick'[n].key = tick[n].key /\ tick'[n].budget = tick[n].budget
      BY <1>3
    <3>2. CASE tick[n].pc = "renewed"
      <4>1. tick[n].budget <= ttl[tick[n].key]
        BY <3>2 DEF LeasesAreCurrent
      <4>2. tick[n].key \in Key /\ tick[n].budget \in Nat
        BY <1>1, <1>5
      <4>3. ttl[tick[n].key] \in Nat /\ ttl'[tick[n].key] \in Nat
            /\ ttl'[tick[n].key] >= ttl[tick[n].key]
        BY <1>4, <4>2
      <4>4. tick[n].budget <= ttl'[tick[n].key]
        BY <4>1, <4>2, <4>3
      <4> QED
        BY <3>1, <4>4
    <3>3. CASE tick[n].key = r.key
      BY <1>1, <1>4, <1>5, <3>1, <3>3
    <3> QED
      BY <1>3, <2>3, <3>2, <3>3
  <2>4. \A n \in Node, k \in Session :
          change[n][k].pc = "owned" => change[n][k].budget <= ttl'[k]
    BY <1>4, <1>5 DEF LeasesAreCurrent, Session
  <2> QED
    BY <1>2, <1>3, <2>1, <2>2, <2>3, <2>4 DEF LeasesAreCurrent, Mine
<1>11. WorkHasLease' /\ LeakedSocketIsFenced'
  BY <1>2 DEF WorkHasLease, LeakedSocketIsFenced
<1>12. ClaimIsOnce'
  <2>1. /\ \A n \in Node : Mine(n, Cluster)' = Mine(n, Cluster) /\ Running(n)' = Running(n)
        /\ \A q \in wire, n \in Node : ClusterClaim(q, n)' = ClusterClaim(q, n)
    BY <1>2 DEF Mine, Running, ClusterClaim
  <2>2. \A n \in Node :
          /\ tick'[n].pc \in {"claim", "owned", "held", "expired"} =>
               tick[n].pc = tick'[n].pc
          /\ tick[n].pc \in {"claim", "owned", "idle"} => tick'[n].pc = tick[n].pc
    BY <1>3
  <2> QED
    BY <1>2, <1>3, <2>1, <2>2 DEF ClaimIsOnce
<1>13. Timely'
  <2>1. ASSUME SelfFence < LeaseTtl, WatchdogInTime PROVE WatchdogInTime'
    <3>1. ASSUME Watchdog, NEW n \in Node, Running(n), Mine(n, Cluster)
          PROVE  /\ kill[n] < ttl'[Cluster]
                 /\ token[n][Cluster] > 0 => left[n][Cluster] < ttl'[Cluster]
                 /\ tick'[n].pc = "owned" => tick[n].budget < ttl'[Cluster]
                 /\ tick'[n].pc = "renewed" /\ tick[n].key = Cluster =>
                      tick[n].budget < ttl'[Cluster]
      <4>1. /\ kill[n] < ttl[Cluster]
            /\ token[n][Cluster] > 0 => left[n][Cluster] < ttl[Cluster]
            /\ tick[n].pc = "owned" => tick[n].budget < ttl[Cluster]
            /\ tick[n].pc = "renewed" /\ tick[n].key = Cluster =>
                 tick[n].budget < ttl[Cluster]
        BY <2>1, <3>1 DEF WatchdogInTime
      <4> QED
        BY <1>1, <1>3, <1>4, <1>5, <2>1, <4>1
    <3> QED
      BY <1>2, <1>3, <3>1 DEF WatchdogInTime, Running, Mine
  <2>2. FencingFindsProcessDead => FencingFindsProcessDead'
    BY <1>2 DEF FencingFindsProcessDead
  <2> QED
    BY <2>1, <2>2 DEF Timely
<1> QED
  BY <1>6, <1>7, <1>8, <1>9, <1>10, <1>11, <1>12, <1>13

\* A claim of the cluster lease that is awaited, or abandoned, is one of a
\* process that does not own the lease, and the only one.
LEMMA ClaimIsKnown ==
  ASSUME ClusterInv, NEW r \in wire, r.op = "claim"
  PROVE  /\ TickWaits(r) => ClusterClaim(r, r.node) /\ tick[r.node].key = Cluster
         /\ \A n \in Node : ClusterClaim(r, n) =>
              /\ ~Mine(n, Cluster)
              /\ (tick[n].pc = "claim" /\ TickWaits(r)) \/ (tick[n].pc = "idle" /\ halted[n])
         /\ \A q \in wire, n \in Node : ClusterClaim(r, n) /\ ClusterClaim(q, n) => q = r
<1> USE DEF ClusterInv, ProcessInv
<1>1. r.node \in Node /\ wire \subseteq Call /\ r.epoch = 0
  BY DEF ProcessTypeOK, MachineTypeOK, Call, ClaimIsOnce
<1>2. TickWaits(r) => ClusterClaim(r, r.node) /\ tick[r.node].key = Cluster
  BY <1>1 DEF TickWaits, ClusterClaim, ClaimIsOnce
<1>3. ASSUME NEW n \in Node, ClusterClaim(r, n)
      PROVE  /\ ~Mine(n, Cluster)
             /\ (tick[n].pc = "claim" /\ TickWaits(r)) \/ (tick[n].pc = "idle" /\ halted[n])
  BY <1>3 DEF ClaimIsOnce, ClusterClaim, TickWaits
<1>4. ASSUME NEW q \in wire, NEW n \in Node, ClusterClaim(r, n), ClusterClaim(q, n)
      PROVE  q = r
  <2>1. q \in Call /\ r \in Call
    BY <1>1
  <2>2. q.op = r.op /\ q.key = r.key /\ q.node = r.node /\ q.boot = r.boot /\ q.epoch = r.epoch
    BY <1>1, <1>4 DEF ClusterClaim, ClaimIsOnce
  <2> QED
    BY <2>1, <2>2 DEF Call
<1> QED
  BY <1>2, <1>3, <1>4

\* The owner of a key that a claim moves is fenced, and its process is gone; so
\* whatever a process knows of its own leases stays true.
LEMMA ClaimMoves ==
  ASSUME ClusterInv, NEW r \in wire, ExecClaim(r)
  PROVE  /\ owner'[r.key] = <<r.node, r.boot>>
         /\ \A k \in Key : k # r.key =>
              owner'[k] = owner[k] /\ epoch'[k] = epoch[k] /\ ttl'[k] = ttl[k]
         /\ \A n \in Node, k \in Key : proc[n] # NoBoot /\ Mine(n, k) =>
              owner'[k] = owner[k] /\ epoch'[k] = epoch[k] /\ ttl'[k] = ttl[k]
         /\ \A n \in Node : ClusterClaim(r, n) => ttl'[Cluster] = LeaseTtl
         /\ UNCHANGED <<nodeVars, fences, registered>>
         /\ epoch'[r.key] \in Nat /\ ttl'[r.key] \in Nat
<1> USE DEF ClusterInv, ProcessInv
<1>1. /\ r.node \in Node /\ r.boot \in Boot /\ r.key \in Key /\ r.op = "claim"
      /\ StoreTypeOK /\ LeaseTtl \in Nat
      /\ epoch[r.key] \in Nat /\ ttl[r.key] \in Nat
  <2>1. StoreTypeOK /\ LeaseTtl \in Nat
    BY LeaseTtlAssumption DEF StoreInv
  <2>2. r \in Call /\ r.op = "claim"
    BY DEF ProcessTypeOK, MachineTypeOK, ExecClaim
  <2>3. r.node \in Node /\ r.boot \in Boot /\ r.key \in Key
    BY <2>2 DEF Call
  <2>4. epoch[r.key] \in Nat /\ ttl[r.key] \in Nat
    BY <2>1, <2>3 DEF StoreTypeOK
  <2> QED
    BY <2>1, <2>2, <2>3, <2>4
<1>2. CASE OwnsLive(r.node, r.boot, r.key) /\ UNCHANGED storeVars
  <2>1. \A n \in Node : ~ClusterClaim(r, n)
    <3>1. ASSUME NEW n \in Node, ClusterClaim(r, n) PROVE FALSE
      <4>1. ~Mine(n, Cluster)
        BY <1>1, <3>1, ClaimIsKnown
      <4> QED
        BY <1>2, <3>1, <4>1 DEF ClusterClaim, OwnsLive, Mine
    <3> QED
      BY <3>1
  <2> QED
    BY <1>1, <1>2, <2>1 DEF OwnsLive, storeVars, leaseVars
<1>3. CASE TryAcquire(r.node, r.boot, r.key)
  <2>1. /\ owner' = [owner EXCEPT ![r.key] = <<r.node, r.boot>>]
        /\ epoch' = [epoch EXCEPT ![r.key] = @ + 1]
        /\ ttl' = [ttl EXCEPT ![r.key] = LeaseTtl]
        /\ UNCHANGED <<nodeVars, fences, registered>> /\ ~OwnerUnfenced(r.key)
    BY <1>3 DEF TryAcquire
  <2>2. ASSUME NEW n \in Node, proc[n] # NoBoot, Mine(n, r.key) PROVE FALSE
    <3>1. proc[n] \in Boot
      BY <2>2 DEF ProcessTypeOK, MachineTypeOK
    <3>2. <<n, proc[n]>> \in fences
      BY <2>1, <2>2, <3>1, NoOwnerAssumption DEF OwnerUnfenced, Mine
    <3> QED
      BY <3>1, <3>2 DEF FencedIsGone
  <2>3. /\ owner'[r.key] = <<r.node, r.boot>> /\ ttl'[r.key] = LeaseTtl
        /\ epoch'[r.key] = epoch[r.key] + 1
        /\ \A k \in Key : k # r.key =>
             owner'[k] = owner[k] /\ epoch'[k] = epoch[k] /\ ttl'[k] = ttl[k]
    BY <1>1, <2>1 DEF StoreTypeOK
  <2>4. \A n \in Node : ClusterClaim(r, n) => ttl'[Cluster] = LeaseTtl
    BY <2>3 DEF ClusterClaim
  <2> QED
    BY <1>1, <2>1, <2>2, <2>3, <2>4
<1> QED
  BY <1>2, <1>3 DEF ExecClaim

LEMMA ClaimKeeps ==
  ASSUME ClusterInv, NEW r \in wire, ExecClaim(r)
  PROVE  ProcessInv'
<1> USE DEF ClusterInv, ProcessInv
<1>1. /\ r.node \in Node /\ r.boot \in Boot /\ r.boot # NoBoot /\ r.key \in Key
      /\ r.op = "claim" /\ ProcessTypeOK /\ Cluster \in Key /\ Session \subseteq Key
      /\ tick \in [Node -> TickRec] /\ change \in [Node -> [Session -> ChangeRec]]
  BY NoBootAssumption, ClusterAssumption
  DEF ProcessTypeOK, MachineTypeOK, ThreadTypeOK, Call, ExecClaim, Session
<1>2. /\ owner'[r.key] = <<r.node, r.boot>>
      /\ \A k \in Key : k # r.key =>
           owner'[k] = owner[k] /\ epoch'[k] = epoch[k] /\ ttl'[k] = ttl[k]
      /\ \A n \in Node, k \in Key : proc[n] # NoBoot /\ Mine(n, k) =>
           owner'[k] = owner[k] /\ epoch'[k] = epoch[k] /\ ttl'[k] = ttl[k]
      /\ \A n \in Node : ClusterClaim(r, n) => ttl'[Cluster] = LeaseTtl
      /\ UNCHANGED <<nodeVars, fences, registered>>
      /\ epoch'[r.key] \in Nat /\ ttl'[r.key] \in Nat
  BY ClaimMoves
<1>3. /\ UNCHANGED <<power, proc, drawn, token, left>>
      /\ UNCHANGED <<halted, restore, todo, sock, closer, kill, takeover>>
      /\ wire' = wire \ {r}
  BY DEF ExecClaim, machineVars, leaseMapVars, haltVars
<1>4. /\ TickWaits(r) => ClusterClaim(r, r.node) /\ tick[r.node].key = Cluster
      /\ \A n \in Node : ClusterClaim(r, n) =>
           /\ ~Mine(n, Cluster)
           /\ (tick[n].pc = "claim" /\ TickWaits(r)) \/ (tick[n].pc = "idle" /\ halted[n])
      /\ \A q \in wire, n \in Node : ClusterClaim(r, n) /\ ClusterClaim(q, n) => q = r
  BY <1>1, ClaimIsKnown
<1>5. /\ tick' \in [Node -> TickRec]
      /\ \A j \in Node :
           \/ tick'[j] = tick[j] /\ ~(j = r.node /\ TickWaits(r))
           \/ /\ j = r.node /\ TickWaits(r) /\ tick[j].pc = "claim" /\ tick'[j].pc = "owned"
              /\ tick'[j].key = Cluster /\ tick'[j].owner = tick[j].owner
              /\ tick'[j].epoch = epoch'[Cluster] /\ tick'[j].budget <= ttl'[Cluster]
              /\ tick'[j].budget \in 0..SelfFence
  <2>1. CASE ~TickWaits(r)
    BY <1>1, <2>1 DEF ExecClaim
  <2>2. CASE TickWaits(r)
    <3> DEFINE n == r.node
               t == [tick[n] EXCEPT !.pc = "owned", !.epoch = epoch'[r.key],
                                    !.budget = Remaining(tick[n].budget, ttl'[r.key])]
    <3>1. r.key = Cluster /\ tick[n].pc = "claim" /\ tick[n].key = Cluster
      BY <1>1, <1>4, <2>2 DEF ClusterClaim, TickWaits
    <3>2. tick[n] \in TickRec /\ tick[n].budget \in 0..SelfFence
      BY <1>1 DEF TickRec
    <3>3. /\ Remaining(tick[n].budget, ttl'[r.key]) \in 0..SelfFence
          /\ Remaining(tick[n].budget, ttl'[r.key]) <= ttl'[r.key]
      BY <1>2, <3>2, RemainingIsEarlier
    <3>4. tick' = [tick EXCEPT ![n] = t]
      BY <2>2 DEF ExecClaim
    <3>5. t \in TickRec
      BY <1>2, <3>2, <3>3 DEF TickRec, TickPc
    <3>6. /\ t.pc = "owned" /\ t.key = tick[n].key /\ t.owner = tick[n].owner
          /\ t.epoch = epoch'[r.key] /\ t.budget = Remaining(tick[n].budget, ttl'[r.key])
      BY <3>2 DEF TickRec
    <3>7. /\ tick' \in [Node -> TickRec] /\ tick'[n] = t
          /\ \A j \in Node : j # n => tick'[j] = tick[j]
      BY <1>1, <3>4, <3>5
    <3> HIDE DEF t
    <3> QED
      BY <2>2, <3>1, <3>3, <3>6, <3>7
  <2> QED
    BY <2>1, <2>2
<1>6. /\ change' \in [Node -> [Session -> ChangeRec]]
      /\ \A j \in Node, k \in Session :
           \/ change'[j][k] = change[j][k]
           \/ /\ j = r.node /\ k = r.key /\ proc[j] = r.boot /\ change'[j][k].pc = "owned"
              /\ change'[j][k].epoch = epoch'[k] /\ change'[j][k].budget <= ttl'[k]
  <2>1. CASE ~ChangeWaits(r)
    BY <1>1, <2>1 DEF ExecClaim
  <2>2. CASE ChangeWaits(r)
    <3> DEFINE n == r.node
               c == change[n][r.key]
               d == [c EXCEPT !.pc = "owned", !.epoch = epoch'[r.key],
                              !.budget = Remaining(c.budget, ttl'[r.key])]
    <3>1. r.key \in Session /\ proc[n] = r.boot
      BY <2>2 DEF ChangeWaits
    <3>2. c \in ChangeRec /\ c.budget \in 0..SelfFence
      BY <1>1, <3>1 DEF ChangeRec
    <3>3. /\ Remaining(c.budget, ttl'[r.key]) \in 0..SelfFence
          /\ Remaining(c.budget, ttl'[r.key]) <= ttl'[r.key]
      BY <1>2, <3>2, RemainingIsEarlier
    <3>4. change' = [change EXCEPT ![n][r.key] = d]
      BY <2>2 DEF ExecClaim
    <3>5. d \in ChangeRec
      BY <1>2, <3>2, <3>3 DEF ChangeRec, ChangePc
    <3>6. /\ d.pc = "owned" /\ d.epoch = epoch'[r.key]
          /\ d.budget = Remaining(c.budget, ttl'[r.key])
      BY <3>2 DEF ChangeRec
    <3> HIDE DEF d, c
    <3>7. /\ change' \in [Node -> [Session -> ChangeRec]] /\ change'[n][r.key] = d
          /\ \A j \in Node, k \in Session :
               j # n \/ k # r.key => change'[j][k] = change[j][k]
      BY <1>1, <3>1, <3>4, <3>5
    <3> QED
      BY <3>1, <3>3, <3>6, <3>7
  <2> QED
    BY <2>1, <2>2
<1>7. \A n \in Node, k \in Key : proc[n] # NoBoot /\ Mine(n, k) => Mine(n, k)'
  BY <1>2, <1>3 DEF Mine
<1>8. ProcessTypeOK'
  BY <1>1, <1>3, <1>5, <1>6 DEF ProcessTypeOK, HaltTypeOK, ThreadTypeOK, MachineTypeOK
<1>9. GoneIsEmpty'
  <2>1. \A n \in Node : proc[n] = NoBoot => tick'[n] = tick[n]
    BY <1>1, <1>5 DEF TickWaits
  <2>2. \A n \in Node, k \in Session : proc[n] = NoBoot => change'[n][k] = change[n][k]
    BY <1>1, <1>6
  <2> QED
    BY <1>3, <2>1, <2>2 DEF GoneIsEmpty
<1>10. BootsAreDrawn' /\ FencedIsGone'
  <2>1. \A n \in Node : tick'[n].owner = tick[n].owner
    BY <1>5
  <2> QED
    BY <1>2, <1>3, <2>1 DEF BootsAreDrawn, FencedIsGone
<1>11. TakeoverSeesOwner'
  <2>1. \A n \in Node : /\ tick'[n].owner = tick[n].owner
                        /\ tick'[n].pc = "expired" => tick[n].pc = "expired"
    BY <1>5
  <2>2. ASSUME NEW n \in Node, NEW m \in Node, NEW b \in Boot,
               tick'[n].owner = <<m, b>> \/ takeover'[n].owner = <<m, b>>, proc'[m] = b
        PROVE  Mine(m, Cluster)'
    <3>1. Mine(m, Cluster) /\ proc[m] # NoBoot
      BY <1>3, <2>1, <2>2, NoBootAssumption DEF TakeoverSeesOwner
    <3> QED
      BY <1>1, <1>7, <3>1
  <2> QED
    BY <1>3, <2>1, <2>2 DEF TakeoverSeesOwner
<1>12. LeasesAreCurrent'
  <2>1. ASSUME NEW n \in Node, NEW k \in Key, token[n][k] > 0
        PROVE  Mine(n, k)' /\ epoch'[k] = token[n][k] /\ left[n][k] <= ttl'[k]
    <3>1. Mine(n, k) /\ proc[n] # NoBoot /\ epoch[k] = token[n][k] /\ left[n][k] <= ttl[k]
      BY <2>1 DEF LeasesAreCurrent, GoneIsEmpty
    <3> QED
      BY <1>2, <1>7, <3>1
  <2>2. ASSUME NEW n \in Node, tick'[n].pc = "owned"
        PROVE  Mine(n, Cluster)' /\ epoch'[Cluster] = tick'[n].epoch
                 /\ tick'[n].budget <= ttl'[Cluster]
    <3>1. CASE tick'[n] = tick[n]
      <4>1. /\ Mine(n, Cluster) /\ epoch[Cluster] = tick[n].epoch
            /\ tick[n].budget <= ttl[Cluster] /\ proc[n] # NoBoot
        BY <2>2, <3>1 DEF LeasesAreCurrent, GoneIsEmpty
      <4> QED
        BY <1>1, <1>2, <1>7, <3>1, <4>1
    <3>2. CASE n = r.node /\ TickWaits(r) /\ tick'[n] # tick[n]
      <4>1. r.key = Cluster /\ r.boot = proc[n]
        BY <1>4, <3>2 DEF ClusterClaim
      <4> QED
        BY <1>2, <1>3, <1>5, <3>2, <4>1 DEF Mine
    <3> QED
      BY <1>5, <3>1, <3>2
  <2>3. ASSUME NEW n \in Node, tick'[n].pc = "renewed"
        PROVE  tick'[n].budget <= ttl'[tick'[n].key]
    <3>1. tick'[n] = tick[n] /\ tick[n].key \in Key
      BY <1>1, <1>5, <2>3 DEF TickRec
    <3>2. tick[n].budget <= ttl[tick[n].key]
      BY <2>3, <3>1 DEF LeasesAreCurrent
    <3>3. CASE tick[n].key # r.key
      BY <1>2, <3>1, <3>2, <3>3
    <3>4. CASE tick[n].key = r.key
      <4>1. ttl'[r.key] = ttl[r.key] \/ ttl'[r.key] = LeaseTtl
        BY <1>1 DEF ExecClaim, TryAcquire, storeVars, leaseVars, StoreInv, StoreTypeOK
      <4>2. /\ tick[n].budget \in 0..SelfFence /\ SelfFence \in Nat /\ LeaseTtl \in Nat
            /\ SelfFence <= LeaseTtl
        BY <1>1, SelfFenceAssumption, LeaseTtlAssumption DEF TickRec
      <4> QED
        BY <3>1, <3>2, <3>4, <4>1, <4>2
    <3> QED
      BY <3>3, <3>4
  <2>4. ASSUME NEW n \in Node, NEW k \in Session, change'[n][k].pc = "owned"
        PROVE  Mine(n, k)' /\ epoch'[k] = change'[n][k].epoch
                 /\ change'[n][k].budget <= ttl'[k]
    <3>1. CASE change'[n][k] = change[n][k]
      <4>1. /\ Mine(n, k) /\ epoch[k] = change[n][k].epoch
            /\ change[n][k].budget <= ttl[k] /\ proc[n] # NoBoot /\ k \in Key
        BY <1>1, <2>4, <3>1 DEF LeasesAreCurrent, GoneIsEmpty
      <4> QED
        BY <1>2, <1>7, <3>1, <4>1
    <3>2. CASE change'[n][k] # change[n][k]
      BY <1>2, <1>3, <1>6, <3>2 DEF Mine
    <3> QED
      BY <3>1, <3>2
  <2> QED
    BY <1>3, <2>1, <2>2, <2>3, <2>4 DEF LeasesAreCurrent
<1>13. WorkHasLease' /\ LeakedSocketIsFenced'
  <2>1. \A n \in Node, k \in Session :
          change'[n][k].pc \in {"leased", "closed", "listed", "saved"} =>
          change[n][k].pc \in {"leased", "closed", "listed", "saved"}
    BY <1>6
  <2> QED
    BY <1>3, <2>1 DEF WorkHasLease, LeakedSocketIsFenced
<1>14. \A n \in Node : proc[n] # NoBoot /\ Mine(n, Cluster)' =>
         Mine(n, Cluster) \/ ClusterClaim(r, n)
  <2>1. ASSUME NEW n \in Node, Mine(n, Cluster)', ~Mine(n, Cluster)
        PROVE  ClusterClaim(r, n)
    <3>1. Cluster = r.key
      BY <1>1, <1>2, <1>3, <2>1 DEF Mine
    <3>2. <<n, proc[n]>> = <<r.node, r.boot>>
      BY <1>2, <1>3, <2>1, <3>1 DEF Mine
    <3> QED
      BY <1>1, <3>1, <3>2 DEF ClusterClaim
  <2> QED
    BY <2>1
<1>15. ClaimIsOnce'
  <2>1. \A n \in Node : tick'[n].pc \in {"claim", "owned", "held", "expired"} =>
          tick'[n].key = Cluster /\ token[n][Cluster] = 0
    BY <1>5 DEF ClaimIsOnce
  <2>2. ASSUME NEW n \in Node, Running(n), Mine(n, Cluster)', token[n][Cluster] = 0
        PROVE  tick'[n].pc = "owned" \/ (tick'[n].pc = "idle" /\ halted[n])
    <3>1. CASE Mine(n, Cluster)
      BY <1>5, <2>2, <3>1 DEF ClaimIsOnce
    <3>2. CASE ClusterClaim(r, n)
      <4>1. n = r.node
        BY <3>2 DEF ClusterClaim
      <4> QED
        BY <1>4, <1>5, <3>2, <4>1
    <3> QED
      BY <1>14, <2>2, <3>1, <3>2 DEF Running
  <2>3. ASSUME NEW q \in wire', NEW n \in Node, ClusterClaim(q, n)
        PROVE  /\ ~Mine(n, Cluster)'
               /\ tick'[n].pc = "claim" \/ (tick'[n].pc = "idle" /\ halted[n])
    <3>1. q \in wire /\ q # r /\ q.boot # NoBoot
      BY <1>3, NoBootAssumption DEF ProcessTypeOK, MachineTypeOK, Call
    <3>2. ~ClusterClaim(r, n)
      BY <1>4, <2>3, <3>1
    <3>3. ~Mine(n, Cluster) /\ proc[n] # NoBoot
          /\ (tick[n].pc = "claim" \/ (tick[n].pc = "idle" /\ halted[n]))
      BY <2>3, <3>1 DEF ClaimIsOnce, ClusterClaim
    <3>4. tick'[n] = tick[n]
      BY <1>4, <1>5, <3>2
    <3> QED
      BY <1>14, <3>2, <3>3, <3>4
  <2>4. \A q \in wire' : q.op = "claim" => q.epoch = 0
    BY <1>3 DEF ClaimIsOnce
  <2>5. \A n \in Node : Running(n)' = Running(n)
    BY <1>3 DEF Running
  <2>6. \A q \in wire, n \in Node : ClusterClaim(q, n)' = ClusterClaim(q, n)
    BY <1>3 DEF ClusterClaim
  <2>7. \A q \in wire' : q \in wire
    BY <1>3
  <2> QED
    BY <1>3, <2>1, <2>2, <2>3, <2>4, <2>5, <2>6, <2>7 DEF ClaimIsOnce
<1>16. Timely'
  <2>1. ASSUME SelfFence < LeaseTtl, WatchdogInTime, Watchdog,
               NEW n \in Node, Running(n), Mine(n, Cluster)'
        PROVE  /\ kill[n] < ttl'[Cluster]
               /\ token[n][Cluster] > 0 => left[n][Cluster] < ttl'[Cluster]
               /\ tick'[n].pc = "owned" => tick'[n].budget < ttl'[Cluster]
               /\ tick'[n].pc = "renewed" /\ tick'[n].key = Cluster =>
                    tick'[n].budget < ttl'[Cluster]
    <3>1. CASE Mine(n, Cluster)
      <4>1. tick'[n] = tick[n]
        BY <1>4, <1>5, <3>1
      <4>2. ttl'[Cluster] = ttl[Cluster]
        BY <1>1, <1>2, <2>1, <3>1 DEF Running
      <4> QED
        BY <2>1, <3>1, <4>1, <4>2 DEF WatchdogInTime
    <3>2. CASE ClusterClaim(r, n) /\ ~Mine(n, Cluster)
      <4>1. ttl'[Cluster] = LeaseTtl /\ token[n][Cluster] = 0
        BY <1>1, <1>2, <3>2 DEF LeasesAreCurrent, ProcessTypeOK, MachineTypeOK
      <4>2. /\ kill[n] \in 0..SelfFence /\ tick'[n].budget \in 0..SelfFence
            /\ SelfFence \in Nat /\ LeaseTtl \in Nat
        BY <1>5, SelfFenceAssumption, LeaseTtlAssumption
        DEF ProcessTypeOK, MachineTypeOK, TickRec
      <4> QED
        BY <2>1, <4>1, <4>2
    <3> QED
      BY <1>14, <2>1, <3>1, <3>2 DEF Running
  <2>2. SelfFence < LeaseTtl /\ WatchdogInTime => WatchdogInTime'
    BY <1>3, <2>1 DEF WatchdogInTime, Running
  <2>3. FencingFindsProcessDead => FencingFindsProcessDead'
    BY <1>2, <1>3 DEF FencingFindsProcessDead, nodeVars
  <2> QED
    BY <2>2, <2>3 DEF Timely
<1> QED
  BY <1>8, <1>9, <1>10, <1>11, <1>12, <1>13, <1>15, <1>16

LEMMA ClaimHeldKeeps ==
  ASSUME ClusterInv, NEW r \in wire, ExecClaimHeld(r)
  PROVE  ProcessInv'
<1> USE DEF ClusterInv, ProcessInv
<1>1. /\ r.node \in Node /\ r.key \in Key /\ r.op = "claim" /\ ProcessTypeOK
      /\ tick \in [Node -> TickRec] /\ Cluster \in Key
      /\ owner \in [Key -> MaybeOwner]
  BY ClusterAssumption
  DEF ProcessTypeOK, MachineTypeOK, ThreadTypeOK, Call, ExecClaimHeld, StoreInv,
      StoreTypeOK, MaybeOwner
<1>2. /\ UNCHANGED <<owner, epoch, ttl, fences, state, boot, registered>>
      /\ UNCHANGED <<power, proc, drawn, token, left>>
      /\ UNCHANGED <<halted, restore, todo, sock, closer, kill, change, takeover>>
      /\ wire' = wire \ {r}
  BY DEF ExecClaimHeld, storeVars, nodeVars, leaseVars, machineVars, leaseMapVars, haltVars
<1>3. /\ TickWaits(r) => ClusterClaim(r, r.node) /\ tick[r.node].key = Cluster
      /\ \A n \in Node : ClusterClaim(r, n) =>
           /\ ~Mine(n, Cluster)
           /\ (tick[n].pc = "claim" /\ TickWaits(r)) \/ (tick[n].pc = "idle" /\ halted[n])
      /\ \A q \in wire, n \in Node : ClusterClaim(r, n) /\ ClusterClaim(q, n) => q = r
  BY <1>1, ClaimIsKnown
<1>4. /\ tick' \in [Node -> TickRec]
      /\ \A j \in Node :
           \/ tick'[j] = tick[j]
           \/ /\ j = r.node /\ TickWaits(r) /\ ClusterClaim(r, j) /\ tick[j].pc = "claim"
              /\ tick'[j].pc \in {"held", "expired"}
              /\ tick'[j].key = Cluster /\ tick'[j].owner = owner[Cluster]
              /\ tick'[j].pc = "expired" => owner[Cluster] # NoOwner
  <2>1. CASE ~TickWaits(r)
    BY <1>1, <2>1 DEF ExecClaimHeld
  <2>2. CASE TickWaits(r)
    <3> DEFINE n == r.node
               pc == IF LeaseLive(r.key) THEN "held" ELSE "expired"
               t == [tick[n] EXCEPT !.owner = owner[r.key], !.pc = pc]
    <3>1. r.key = Cluster /\ tick[n].pc = "claim" /\ tick[n].key = Cluster
      BY <1>1, <1>3, <2>2 DEF ClusterClaim, TickWaits
    <3>2. pc \in {"held", "expired"} /\ (pc = "expired" => owner[r.key] # NoOwner)
      BY DEF ExecClaimHeld, OwnerUnfenced
    <3>3. tick' = [tick EXCEPT ![n] = t]
      BY <2>2 DEF ExecClaimHeld
    <3> HIDE DEF pc
    <3>4. t \in TickRec
      <4>1. tick[n] \in TickRec /\ owner[r.key] \in MaybeOwner /\ pc \in TickPc
        BY <1>1, <3>2 DEF TickPc
      <4> QED
        BY <4>1 DEF TickRec
    <3>5. t.pc = pc /\ t.key = tick[n].key /\ t.owner = owner[r.key]
      BY <1>1 DEF TickRec
    <3>6. /\ tick' \in [Node -> TickRec] /\ tick'[n] = t
          /\ \A j \in Node : j # n => tick'[j] = tick[j]
      BY <1>1, <3>3, <3>4
    <3> HIDE DEF t
    <3> QED
      BY <1>3, <2>2, <3>1, <3>2, <3>5, <3>6
  <2> QED
    BY <2>1, <2>2
<1>5. ProcessTypeOK'
  BY <1>1, <1>2, <1>4 DEF ProcessTypeOK, HaltTypeOK, ThreadTypeOK, MachineTypeOK
<1>6. GoneIsEmpty'
  BY <1>2, <1>4 DEF GoneIsEmpty
<1>7. BootsAreDrawn'
  <2>1. \A m \in Node, b \in Boot : owner[Cluster] = <<m, b>> => b \in registered
    BY <1>1, NoBootAssumption DEF StoreInv, NoOrphanedLease, BootsAreRegistered
  <2> QED
    BY <1>2, <1>4, <2>1 DEF BootsAreDrawn
<1>8. TakeoverSeesOwner'
  <2>1. ASSUME NEW n \in Node, NEW m \in Node, NEW b \in Boot,
               tick'[n].owner = <<m, b>> \/ takeover'[n].owner = <<m, b>>, proc'[m] = b
        PROVE  Mine(m, Cluster)'
    <3>1. CASE tick'[n] = tick[n]
      BY <1>2, <2>1, <3>1 DEF TakeoverSeesOwner, Mine
    <3>2. CASE tick'[n].owner = owner[Cluster]
      BY <1>2, <2>1, <3>2 DEF TakeoverSeesOwner, Mine
    <3> QED
      BY <1>4, <3>1, <3>2
  <2> QED
    BY <1>2, <1>4, <2>1 DEF TakeoverSeesOwner
<1>9. LeasesAreCurrent' /\ FencedIsGone'
  <2>1. \A n \in Node : tick'[n].pc \in {"owned", "renewed"} => tick'[n] = tick[n]
    BY <1>4
  <2> QED
    BY <1>2, <2>1 DEF LeasesAreCurrent, FencedIsGone, Mine
<1>10. WorkHasLease' /\ LeakedSocketIsFenced'
  BY <1>2 DEF WorkHasLease, LeakedSocketIsFenced
<1>11. ClaimIsOnce'
  <2>1. /\ \A n \in Node : Mine(n, Cluster)' = Mine(n, Cluster) /\ Running(n)' = Running(n)
        /\ \A q \in wire, n \in Node : ClusterClaim(q, n)' = ClusterClaim(q, n)
    BY <1>2 DEF Mine, Running, ClusterClaim
  <2>2. \A n \in Node : Mine(n, Cluster) => tick'[n] = tick[n]
    BY <1>3, <1>4
  <2>3. \A q \in wire', n \in Node : ClusterClaim(q, n) => tick'[n] = tick[n] /\ q \in wire
    BY <1>2, <1>3, <1>4
  <2>4. \A n \in Node : tick'[n].pc \in {"claim", "owned", "held", "expired"} =>
          tick'[n].key = Cluster /\ token[n][Cluster] = 0
    BY <1>4 DEF ClaimIsOnce
  <2> QED
    BY <1>2, <2>1, <2>2, <2>3, <2>4 DEF ClaimIsOnce
<1>12. Timely'
  <2>1. \A n \in Node : tick'[n].pc \in {"owned", "renewed"} => tick'[n] = tick[n]
    BY <1>4
  <2>2. WatchdogInTime => WatchdogInTime'
    BY <1>2, <2>1 DEF WatchdogInTime, Mine, Running
  <2>3. FencingFindsProcessDead => FencingFindsProcessDead'
    BY <1>2 DEF FencingFindsProcessDead
  <2> QED
    BY <2>2, <2>3 DEF Timely
<1> QED
  BY <1>5, <1>6, <1>7, <1>8, <1>9, <1>10, <1>11, <1>12
-----------------------------------------------------------------------------
(***************************************************************************)
(* Time, fencing and operators.                                            *)
(***************************************************************************)
\* Time passes for a process as it does for the store; with a watchdog, no
\* process outlives its supervisor's deadline.
LEMMA AdvanceKeeps ==
  ASSUME ClusterInv, Advance
  PROVE  ProcessInv'
<1> USE DEF ClusterInv, ProcessInv
<1>1. /\ ProcessTypeOK /\ SelfFence \in Nat /\ LeaseTtl \in Nat
      /\ Cluster \in Key /\ Session \subseteq Key
      /\ tick \in [Node -> TickRec] /\ change \in [Node -> [Session -> ChangeRec]]
      /\ ttl \in [Key -> 0..LeaseTtl] /\ kill \in [Node -> 0..SelfFence]
      /\ left \in [Node -> [Key -> 0..SelfFence]]
  BY SelfFenceAssumption, LeaseTtlAssumption, ClusterAssumption
  DEF ProcessTypeOK, MachineTypeOK, ThreadTypeOK, StoreInv, StoreTypeOK, Session
<1>2. /\ UNCHANGED <<owner, epoch, fences, state, boot, registered, power, proc, drawn>>
      /\ UNCHANGED <<token, wire, halted, restore, todo, sock, closer, takeover>>
      /\ Watchdog => \A n \in Node : Running(n) => kill[n] > 0
  BY DEF Advance, nodeVars, machineVars, haltVars
<1>3. /\ \A k \in Key : ttl'[k] = Earlier(ttl[k])
      /\ \A n \in Node, k \in Key : left'[n][k] = Earlier(left[n][k])
      /\ \A n \in Node : kill'[n] = Earlier(kill[n])
  BY DEF Advance
<1>4. \A t \in 0..SelfFence : Earlier(t) \in 0..SelfFence
  BY <1>1, EarlierIsEarlier
<1>5. \A s, t \in Nat : s <= t => Earlier(s) <= Earlier(t)
  BY DEF Earlier
<1>6. /\ tick' \in [Node -> TickRec]
      /\ \A n \in Node :
           /\ tick'[n].pc = tick[n].pc /\ tick'[n].key = tick[n].key
           /\ tick'[n].owner = tick[n].owner /\ tick'[n].epoch = tick[n].epoch
           /\ tick'[n].budget = Earlier(tick[n].budget)
           /\ tick[n].budget \in 0..SelfFence /\ tick[n].key \in Key
  <2> DEFINE t(n) == [tick[n] EXCEPT !.started = Earlier(@), !.budget = Earlier(@)]
  <2>1. \A n \in Node : tick[n] \in TickRec
    BY <1>1
  <2>2. \A n \in Node :
          /\ t(n) \in TickRec /\ t(n).pc = tick[n].pc /\ t(n).key = tick[n].key
          /\ t(n).owner = tick[n].owner /\ t(n).epoch = tick[n].epoch
          /\ t(n).budget = Earlier(tick[n].budget)
    BY <1>4, <2>1 DEF TickRec
  <2>3. tick' = [n \in Node |-> t(n)]
    BY DEF Advance
  <2> HIDE DEF t
  <2> QED
    BY <2>1, <2>2, <2>3 DEF TickRec
<1>7. /\ change' \in [Node -> [Session -> ChangeRec]]
      /\ \A n \in Node, k \in Session :
           /\ change'[n][k].pc = change[n][k].pc /\ change'[n][k].epoch = change[n][k].epoch
           /\ change'[n][k].budget = Earlier(change[n][k].budget)
           /\ change[n][k].budget \in 0..SelfFence
  <2> DEFINE c(n, k) == [change[n][k] EXCEPT !.budget = Earlier(@)]
  <2>1. \A n \in Node, k \in Session : change[n][k] \in ChangeRec
    BY <1>1
  <2>2. \A n \in Node, k \in Session :
          /\ c(n, k) \in ChangeRec /\ c(n, k).pc = change[n][k].pc
          /\ c(n, k).epoch = change[n][k].epoch
          /\ c(n, k).budget = Earlier(change[n][k].budget)
    BY <1>4, <2>1 DEF ChangeRec
  <2>3. change' = [n \in Node |-> [k \in Session |-> c(n, k)]]
    BY DEF Advance
  <2> HIDE DEF c
  <2> QED
    BY <2>1, <2>2, <2>3 DEF ChangeRec
<1>8. ProcessTypeOK'
  <2>1. left' \in [Node -> [Key -> 0..SelfFence]] /\ kill' \in [Node -> 0..SelfFence]
    BY <1>1, <1>4 DEF Advance
  <2> QED
    BY <1>2, <1>6, <1>7, <2>1 DEF ProcessTypeOK, HaltTypeOK, ThreadTypeOK, MachineTypeOK
<1>8a. /\ \A n \in Node : tick'[n].pc = tick[n].pc /\ tick'[n].key = tick[n].key
       /\ \A n \in Node : tick'[n].owner = tick[n].owner /\ tick'[n].epoch = tick[n].epoch
       /\ \A n \in Node, k \in Session :
            change'[n][k].pc = change[n][k].pc /\ change'[n][k].epoch = change[n][k].epoch
  BY <1>6, <1>7
<1>9. GoneIsEmpty'
  <2>1. ASSUME NEW n \in Node, proc[n] = NoBoot
        PROVE  /\ tick'[n].pc = "off" /\ takeover'[n].pc = "idle" /\ sock'[n] = {}
               /\ \A k \in Key : token'[n][k] = 0
               /\ \A k \in Session : change'[n][k].pc = "idle"
    BY <1>2, <1>8a, <2>1 DEF GoneIsEmpty
  <2> QED
    BY <1>2, <2>1 DEF GoneIsEmpty
<1>10. BootsAreDrawn' /\ FencedIsGone'
  BY <1>2, <1>6 DEF BootsAreDrawn, FencedIsGone
<1>11. TakeoverSeesOwner'
  BY <1>2, <1>6 DEF TakeoverSeesOwner, Mine
<1>12. LeasesAreCurrent'
  <2>0. /\ \A k \in Key : ttl[k] \in Nat
        /\ \A n \in Node, k \in Key : left[n][k] \in Nat
        /\ \A n \in Node : tick[n].budget \in Nat
        /\ \A n \in Node, k \in Session : change[n][k].budget \in Nat
    BY <1>1, <1>6, <1>7
  <2>1. ASSUME NEW n \in Node, NEW k \in Key, token[n][k] > 0
        PROVE  Mine(n, k) /\ epoch[k] = token[n][k] /\ left'[n][k] <= ttl'[k]
    BY <1>3, <1>5, <2>0, <2>1 DEF LeasesAreCurrent
  <2>2. ASSUME NEW n \in Node, tick[n].pc = "owned"
        PROVE  Mine(n, Cluster) /\ epoch[Cluster] = tick[n].epoch
               /\ tick'[n].budget <= ttl'[Cluster]
    BY <1>1, <1>3, <1>5, <1>6, <2>0, <2>2 DEF LeasesAreCurrent
  <2>3. ASSUME NEW n \in Node, tick[n].pc = "renewed"
        PROVE  tick'[n].budget <= ttl'[tick[n].key]
    <3>1. tick[n].budget <= ttl[tick[n].key] /\ tick[n].key \in Key
      BY <1>6, <2>3 DEF LeasesAreCurrent
    <3> QED
      BY <1>3, <1>5, <1>6, <2>0, <3>1
  <2>4. ASSUME NEW n \in Node, NEW k \in Session, change[n][k].pc = "owned"
        PROVE  Mine(n, k) /\ epoch[k] = change[n][k].epoch
               /\ change'[n][k].budget <= ttl'[k]
    BY <1>1, <1>3, <1>5, <1>7, <2>0, <2>4 DEF LeasesAreCurrent
  <2>5. \A n \in Node, k \in Key : Mine(n, k)' = Mine(n, k)
    BY <1>2 DEF Mine
  <2>6. \A n \in Node, k \in Key : token'[n][k] > 0 =>
          Mine(n, k)' /\ epoch'[k] = token'[n][k] /\ left'[n][k] <= ttl'[k]
    BY <1>2, <2>1, <2>5
  <2>7. \A n \in Node : tick'[n].pc = "owned" =>
          Mine(n, Cluster)' /\ epoch'[Cluster] = tick'[n].epoch
            /\ tick'[n].budget <= ttl'[Cluster]
    BY <1>1, <1>2, <1>8a, <2>2, <2>5
  <2>8. \A n \in Node : tick'[n].pc = "renewed" => tick'[n].budget <= ttl'[tick'[n].key]
    BY <1>8a, <2>3
  <2>9. \A n \in Node, k \in Session : change'[n][k].pc = "owned" =>
          Mine(n, k)' /\ epoch'[k] = change'[n][k].epoch /\ change'[n][k].budget <= ttl'[k]
    <3>1. SUFFICES ASSUME NEW n \in Node, NEW k \in Session, change'[n][k].pc = "owned"
                   PROVE  Mine(n, k)' /\ epoch'[k] = change'[n][k].epoch
                          /\ change'[n][k].budget <= ttl'[k]
      OBVIOUS
    <3>2. k \in Key
      BY <1>1
    <3>3. change[n][k].pc = "owned" /\ change'[n][k].epoch = change[n][k].epoch
      BY <1>8a, <3>1
    <3>4. Mine(n, k) /\ epoch[k] = change[n][k].epoch /\ change'[n][k].budget <= ttl'[k]
      BY <2>4, <3>3
    <3> QED
      BY <1>2, <2>5, <3>2, <3>3, <3>4
  <2> QED
    BY <2>6, <2>7, <2>8, <2>9 DEF LeasesAreCurrent
<1>13. WorkHasLease' /\ LeakedSocketIsFenced'
  BY <1>2, <1>7 DEF WorkHasLease, LeakedSocketIsFenced
<1>14. ClaimIsOnce'
  BY <1>2, <1>6 DEF ClaimIsOnce, ClusterClaim, Mine, Running
<1>15. Timely'
  <2>1. ASSUME WatchdogInTime, Watchdog, NEW n \in Node, Running(n), Mine(n, Cluster)
        PROVE  /\ kill'[n] < ttl'[Cluster]
               /\ token[n][Cluster] > 0 => left'[n][Cluster] < ttl'[Cluster]
               /\ tick[n].pc = "owned" => tick'[n].budget < ttl'[Cluster]
               /\ tick[n].pc = "renewed" /\ tick[n].key = Cluster =>
                    tick'[n].budget < ttl'[Cluster]
    <3>1. /\ kill[n] < ttl[Cluster]
          /\ token[n][Cluster] > 0 => left[n][Cluster] < ttl[Cluster]
          /\ tick[n].pc = "owned" => tick[n].budget < ttl[Cluster]
          /\ tick[n].pc = "renewed" /\ tick[n].key = Cluster =>
               tick[n].budget < ttl[Cluster]
      BY <2>1 DEF WatchdogInTime
    <3>2. kill[n] \in Nat /\ kill[n] > 0 /\ ttl[Cluster] \in Nat /\ ttl[Cluster] > 1
      BY <1>1, <1>2, <2>1, <3>1
    <3>3. \A t \in Nat : t < ttl[Cluster] => Earlier(t) < Earlier(ttl[Cluster])
      BY <3>2 DEF Earlier
    <3>4. left[n][Cluster] \in Nat /\ tick[n].budget \in Nat
      BY <1>1, <1>6
    <3> QED
      BY <1>1, <1>3, <1>6, <3>1, <3>2, <3>3, <3>4
  <2>2. WatchdogInTime => WatchdogInTime'
    BY <1>2, <1>6, <2>1 DEF WatchdogInTime, Running, Mine
  <2>3. FencingFindsProcessDead => FencingFindsProcessDead'
    BY <1>2 DEF FencingFindsProcessDead
  <2> QED
    BY <2>2, <2>3 DEF Timely
<1> QED
  BY <1>8, <1>9, <1>10, <1>11, <1>12, <1>13, <1>14, <1>15

\* Whoever fences a boot leaves the leases alone, and has seen its process gone.
LEMMA FencingKeeps ==
  ASSUME ClusterInv,
         UNCHANGED <<leaseVars, registered, proc, drawn, wire, leaseMapVars, haltVars,
                     kill, tick, change>>,
         power' \in [Node -> BOOLEAN],
         \A n \in Node : ~power'[n] => proc[n] = NoBoot,
         takeover' \in [Node -> TakeoverRec],
         \A n \in Node : \/ takeover'[n] \in {takeover[n], NoTakeover}
                         \/ /\ takeover'[n].owner = takeover[n].owner
                            /\ takeover[n].pc # "idle",
         \A n, m \in Node, b \in Boot :
           takeover'[n] = [pc |-> "confirm", owner |-> <<m, b>>] => proc[m] # b,
         \A n \in Node, b \in Boot : <<n, b>> \in fences' => proc[n] # b,
         SelfFence < LeaseTtl => FencingFindsProcessDead'
  PROVE  ProcessInv'
<1> USE DEF ClusterInv, ProcessInv, leaseVars, leaseMapVars, haltVars
<1>1. ProcessTypeOK'
  BY DEF ProcessTypeOK, HaltTypeOK, ThreadTypeOK, MachineTypeOK
<1>2. NoTakeover.pc = "idle" /\ NoTakeover.owner = NoOwner
      /\ \A m \in Node, b \in Boot : NoOwner # <<m, b>>
  BY NoOwnerAssumption DEF NoTakeover
<1>3. GoneIsEmpty'
  BY <1>2 DEF GoneIsEmpty
<1>4. BootsAreDrawn'
  BY <1>2 DEF BootsAreDrawn
<1>5. FencedIsGone'
  BY DEF FencedIsGone
<1>6. TakeoverSeesOwner'
  <2>1. ASSUME NEW n \in Node, NEW m \in Node, NEW b \in Boot,
               tick'[n].owner = <<m, b>> \/ takeover'[n].owner = <<m, b>>, proc'[m] = b
        PROVE  Mine(m, Cluster)'
    <3>1. tick[n].owner = <<m, b>> \/ takeover[n].owner = <<m, b>>
      BY <1>2, <2>1
    <3> QED
      BY <2>1, <3>1 DEF TakeoverSeesOwner, Mine
  <2>2. \A n \in Node : /\ tick'[n].pc = "expired" => tick'[n].owner # NoOwner
                        /\ takeover'[n].pc # "idle" => takeover'[n].owner # NoOwner
    BY <1>2 DEF TakeoverSeesOwner
  <2> QED
    BY <2>1, <2>2 DEF TakeoverSeesOwner
<1>7. LeasesAreCurrent' /\ WorkHasLease' /\ LeakedSocketIsFenced' /\ ClaimIsOnce'
  BY DEF LeasesAreCurrent, WorkHasLease, LeakedSocketIsFenced, ClaimIsOnce, ClusterClaim,
         Mine, Running
<1>8. Timely'
  BY DEF Timely, WatchdogInTime, Mine, Running
<1> QED
  BY <1>1, <1>3, <1>4, <1>5, <1>6, <1>7, <1>8

\* The steps of takeover() but for the poweroff itself.
LEMMA TakeoverKeeps ==
  ASSUME ClusterInv, NEW n \in Node,
         \/ BeginTakeover(n) \/ PowerOffObserved(n) \/ ConfirmTakeover(n) \/ TakeoverFails(n)
  PROVE  ProcessInv'
<1> USE DEF ClusterInv, ProcessInv
<1>1. /\ takeover \in [Node -> TakeoverRec] /\ takeover[n] \in TakeoverRec
      /\ takeover[n].pc # "idle" /\ NoTakeover \in TakeoverRec
      /\ power \in [Node -> BOOLEAN]
  BY DEF ProcessTypeOK, ThreadTypeOK, MachineTypeOK, BeginTakeover, PowerOffObserved,
         ConfirmTakeover, TakeoverFails, NoTakeover, TakeoverRec, MaybeOwner
<1>2. /\ UNCHANGED <<leaseVars, registered, power, proc, drawn, wire, leaseMapVars>>
      /\ UNCHANGED <<haltVars, kill, tick, change>>
  BY DEF BeginTakeover, PowerOffObserved, ConfirmTakeover, TakeoverFails, BeginFence,
         ConfirmFence, machineVars, storeVars
<1>3. /\ proc[n] \in Boot /\ Target(n) \in Node /\ TargetBoot(n) \in Boot
      /\ takeover[n].owner = <<Target(n), TargetBoot(n)>>
  BY <1>1, FencerRuns
<1>4. \A m \in Node : ~power'[m] => proc[m] = NoBoot
  BY <1>2 DEF GoneIsEmpty
<1>5. ASSUME NEW pc \in {"poweroff", "confirm"}, takeover' = [takeover EXCEPT ![n].pc = pc]
      PROVE  /\ takeover' \in [Node -> TakeoverRec]
             /\ takeover'[n].pc = pc /\ takeover'[n].owner = takeover[n].owner
             /\ \A j \in Node : j # n => takeover'[j] = takeover[j]
  <2>1. takeover' = [takeover EXCEPT ![n] = [takeover[n] EXCEPT !.pc = pc]]
    BY <1>5
  <2>2. [takeover[n] EXCEPT !.pc = pc] \in TakeoverRec
    BY <1>1 DEF TakeoverRec
  <2> QED
    BY <1>1, <2>1, <2>2 DEF TakeoverRec
<1>6. takeover' = [takeover EXCEPT ![n] = NoTakeover] =>
        /\ takeover' \in [Node -> TakeoverRec] /\ takeover'[n] = NoTakeover
        /\ \A j \in Node : j # n => takeover'[j] = takeover[j]
  BY <1>1
<1>7. NoTakeover.pc = "idle"
  BY DEF NoTakeover
<1>8. /\ \A m \in Node, b \in Boot : <<m, b>> \in fences => proc[m] # b
      /\ \A j, m \in Node, b \in Boot :
           takeover[j] = [pc |-> "confirm", owner |-> <<m, b>>] => proc[m] # b
  BY DEF FencedIsGone
<1>9. CASE BeginTakeover(n)
  <2>1. takeover' = [takeover EXCEPT ![n].pc = "poweroff"]
        /\ BeginFence(n, proc[n], Target(n), TargetBoot(n))
    BY <1>9 DEF BeginTakeover
  <2>2. /\ takeover' \in [Node -> TakeoverRec]
        /\ takeover'[n].pc = "poweroff" /\ takeover'[n].owner = takeover[n].owner
        /\ \A j \in Node : j # n => takeover'[j] = takeover[j]
    BY <1>5, <2>1
  <2>3. fences' = fences /\ boot' = boot
        /\ \A m \in Node : m # Target(n) => state'[m] = state[m]
    BY <2>1 DEF BeginFence, StoreInv, StoreTypeOK
  <2>4. ASSUME SelfFence < LeaseTtl, Watchdog PROVE proc[Target(n)] # boot[Target(n)]
    <3>1. SUFFICES ASSUME proc[Target(n)] = boot[Target(n)] PROVE FALSE
      OBVIOUS
    <3>2. proc[Target(n)] = TargetBoot(n)
      BY <2>1, <3>1 DEF BeginFence
    <3>3. Mine(Target(n), Cluster)
      BY <1>3, <3>2 DEF TakeoverSeesOwner
    <3>4. Running(Target(n))
      BY <1>3, <3>2, NoBootAssumption DEF Running
    <3>5. kill[Target(n)] < ttl[Cluster]
      BY <1>3, <2>4, <3>3, <3>4 DEF Timely, WatchdogInTime
    <3>6. ttl[Cluster] > 0
      BY <1>3, <3>5, ClusterAssumption, LeaseTtlAssumption, SelfFenceAssumption
      DEF ProcessTypeOK, MachineTypeOK, StoreInv, StoreTypeOK
    <3> QED
      BY <2>1, <3>2, <3>3, <3>6, ClusterAssumption DEF BeginFence, OwnsLive, Mine
  <2>5. SelfFence < LeaseTtl => FencingFindsProcessDead'
    BY <1>2, <2>3, <2>4 DEF Timely, FencingFindsProcessDead
  <2>6. \A j, m \in Node, b \in Boot :
          takeover'[j] = [pc |-> "confirm", owner |-> <<m, b>>] => proc[m] # b
    <3>1. \A j \in Node : takeover'[j].pc = "confirm" => takeover'[j] = takeover[j]
      BY <2>2
    <3> QED
      BY <1>8, <3>1
  <2>7. \A j \in Node : \/ takeover'[j] \in {takeover[j], NoTakeover}
                        \/ takeover'[j].owner = takeover[j].owner /\ takeover[j].pc # "idle"
    BY <1>1, <2>2
  <2>8. \A m \in Node, b \in Boot : <<m, b>> \in fences' => proc[m] # b
    BY <1>8, <2>3
  <2> HIDE DEF ClusterInv, ProcessInv
  <2> QED
    BY <1>1, <1>2, <1>4, <2>2, <2>5, <2>6, <2>7, <2>8, FencingKeeps DEF machineVars
<1>10. CASE PowerOffObserved(n)
  <2>1. takeover' = [takeover EXCEPT ![n].pc = "confirm"] /\ UNCHANGED storeVars
        /\ ~power[Target(n)]
    BY <1>10 DEF PowerOffObserved
  <2>2. /\ takeover' \in [Node -> TakeoverRec]
        /\ takeover'[n].pc = "confirm" /\ takeover'[n].owner = takeover[n].owner
        /\ \A j \in Node : j # n => takeover'[j] = takeover[j]
    BY <1>5, <2>1
  <2>3. proc[Target(n)] = NoBoot
    BY <1>3, <2>1 DEF GoneIsEmpty
  <2>4. ASSUME NEW j \in Node, NEW m \in Node, NEW b \in Boot,
               takeover'[j] = [pc |-> "confirm", owner |-> <<m, b>>]
        PROVE  proc[m] # b
    <3>1. CASE j = n
      BY <1>3, <2>2, <2>3, <2>4, <3>1, NoBootAssumption
    <3>2. CASE j # n
      BY <2>2, <2>4, <3>2 DEF FencedIsGone
    <3> QED
      BY <3>1, <3>2
  <2>5. SelfFence < LeaseTtl => FencingFindsProcessDead'
    BY <1>2, <2>1 DEF Timely, FencingFindsProcessDead, storeVars, nodeVars
  <2>6. \A j \in Node : \/ takeover'[j] \in {takeover[j], NoTakeover}
                        \/ takeover'[j].owner = takeover[j].owner /\ takeover[j].pc # "idle"
    BY <1>1, <2>2
  <2>7. \A m \in Node, b \in Boot : <<m, b>> \in fences' => proc[m] # b
    BY <1>8, <2>1 DEF storeVars
  <2> HIDE DEF ClusterInv, ProcessInv
  <2> QED
    BY <1>1, <1>2, <1>4, <2>2, <2>4, <2>5, <2>6, <2>7, FencingKeeps
<1>11. CASE ConfirmTakeover(n)
  <2>1. takeover' = [takeover EXCEPT ![n] = NoTakeover] /\ takeover[n].pc = "confirm"
        /\ ConfirmFence(n, proc[n], Target(n), TargetBoot(n))
    BY <1>11 DEF ConfirmTakeover
  <2>2. proc[Target(n)] # TargetBoot(n)
    <3>1. takeover[n] = [pc |-> "confirm", owner |-> <<Target(n), TargetBoot(n)>>]
      BY <1>1, <1>3, <2>1 DEF TakeoverRec
    <3> QED
      BY <1>3, <3>1 DEF FencedIsGone
  <2>3. \A m \in Node, b \in Boot : <<m, b>> \in fences' => proc[m] # b
    BY <2>1, <2>2 DEF ConfirmFence, FencedIsGone
  <2>4. boot' = boot /\ \A m \in Node : state'[m] = "fencing" => state[m] = "fencing"
    BY <2>1 DEF ConfirmFence, StoreInv, StoreTypeOK
  <2>5. SelfFence < LeaseTtl => FencingFindsProcessDead'
    BY <1>2, <2>4 DEF Timely, FencingFindsProcessDead
  <2>6. \A j, m \in Node, b \in Boot :
          takeover'[j] = [pc |-> "confirm", owner |-> <<m, b>>] => proc[m] # b
    BY <1>6, <1>7, <1>8, <2>1
  <2>7. \A j \in Node : takeover'[j] \in {takeover[j], NoTakeover}
    BY <1>6, <2>1
  <2> HIDE DEF ClusterInv, ProcessInv
  <2> QED
    BY <1>1, <1>2, <1>4, <1>6, <2>1, <2>3, <2>5, <2>6, <2>7, FencingKeeps
<1>12. CASE TakeoverFails(n)
  <2>1. takeover' = [takeover EXCEPT ![n] = NoTakeover] /\ UNCHANGED storeVars
    BY <1>12 DEF TakeoverFails
  <2>2. SelfFence < LeaseTtl => FencingFindsProcessDead'
    BY <1>2, <2>1 DEF Timely, FencingFindsProcessDead, storeVars, nodeVars
  <2>3. \A j, m \in Node, b \in Boot :
          takeover'[j] = [pc |-> "confirm", owner |-> <<m, b>>] => proc[m] # b
    BY <1>6, <1>7, <1>8, <2>1
  <2>4. \A j \in Node : takeover'[j] \in {takeover[j], NoTakeover}
    BY <1>6, <2>1
  <2>5. \A m \in Node, b \in Boot : <<m, b>> \in fences' => proc[m] # b
    BY <1>8, <2>1 DEF storeVars
  <2> HIDE DEF ClusterInv, ProcessInv
  <2> QED
    BY <1>1, <1>2, <1>4, <1>6, <2>1, <2>2, <2>3, <2>4, <2>5, FencingKeeps
<1> QED
  BY <1>9, <1>10, <1>11, <1>12

\* An operator fences a boot by hand only when its process is gone; and a
\* machine that is switched on runs nothing yet.
LEMMA OperatorKeeps ==
  ASSUME ClusterInv, NEW n \in Node,
         (\E b \in Boot : OperatorActs(n, b)) \/ OwnerDisables(n) \/ PowerOn(n)
  PROVE  ProcessInv'
<1> USE DEF ClusterInv, ProcessInv
<1>1. /\ takeover \in [Node -> TakeoverRec] /\ power \in [Node -> BOOLEAN] /\ StoreTypeOK
      /\ proc[n] \in Boot \cup {NoBoot}
  BY DEF ProcessTypeOK, ThreadTypeOK, MachineTypeOK, StoreInv
<1>2. /\ UNCHANGED <<leaseVars, registered, proc, drawn, wire, leaseMapVars>>
      /\ UNCHANGED <<haltVars, kill, tick, change, takeover>>
  BY DEF OperatorActs, OwnerDisables, PowerOn, ManualFence, Rejoin, ActivateFencing,
         DisableNode, machineVars, storeVars, threadVars
<1>3. /\ power' \in [Node -> BOOLEAN]
      /\ \A m \in Node : ~power'[m] => proc[m] = NoBoot
  <2>1. power' = power \/ power' = [power EXCEPT ![n] = TRUE]
    BY DEF OperatorActs, OwnerDisables, PowerOn, machineVars
  <2>2. \A m \in Node : ~power[m] => proc[m] = NoBoot
    BY DEF GoneIsEmpty
  <2> QED
    BY <1>1, <2>1, <2>2
<1>4. \A j, m \in Node, b \in Boot :
        takeover[j] = [pc |-> "confirm", owner |-> <<m, b>>] => proc[m] # b
  BY DEF FencedIsGone
<1>5. /\ \A m \in Node, b \in Boot : <<m, b>> \in fences' => proc[m] # b
      /\ \A m \in Node : state'[m] = "fencing" => state[m] = "fencing" /\ boot'[m] = boot[m]
  <2>1. ASSUME NEW b \in Boot, OperatorActs(n, b)
        PROVE  /\ \A m \in Node, c \in Boot : <<m, c>> \in fences' => proc[m] # c
               /\ \A m \in Node : state'[m] = "fencing" =>
                    state[m] = "fencing" /\ boot'[m] = boot[m]
    <3>1. CASE proc[n] # b /\ ManualFence(n, b)
      BY <1>1, <3>1 DEF ManualFence, FencedIsGone, StoreTypeOK
    <3>2. CASE Rejoin(n, b)
      BY <1>1, <3>2 DEF Rejoin, FencedIsGone, StoreTypeOK
    <3>3. CASE ActivateFencing(n, b)
      BY <3>3 DEF ActivateFencing, FencedIsGone
    <3> QED
      BY <2>1, <3>1, <3>2, <3>3 DEF OperatorActs
  <2>2. CASE OwnerDisables(n) \/ PowerOn(n)
    BY <2>2 DEF OwnerDisables, DisableNode, PowerOn, FencedIsGone, storeVars, nodeVars
  <2> QED
    BY <2>1, <2>2
<1>6. SelfFence < LeaseTtl => FencingFindsProcessDead'
  BY <1>2, <1>5 DEF Timely, FencingFindsProcessDead
<1> HIDE DEF ClusterInv, ProcessInv
<1> QED
  BY <1>1, <1>2, <1>3, <1>4, <1>5, <1>6, FencingKeeps
-----------------------------------------------------------------------------
(***************************************************************************)
(* Starting, stopping and restoring sessions.                              *)
(***************************************************************************)
\* acquireSession() remembers the lease that the store has granted it.
LEMMA ChangeOwnedKeeps ==
  ASSUME ClusterInv, NEW n \in Node, NEW k \in Session, ChangeOwned(n, k)
  PROVE  ProcessInv'
<1> USE DEF ClusterInv, ProcessInv
<1> DEFINE c == change[n][k]
           d == [NoChange EXCEPT !.pc = "leased", !.work = c.work]
<1>1. /\ ProcessTypeOK /\ k \in Key /\ k # Cluster /\ Cluster \in Key /\ Session \subseteq Key
      /\ c \in ChangeRec /\ c.epoch \in Nat /\ c.budget \in 0..SelfFence
      /\ change \in [Node -> [Session -> ChangeRec]]
      /\ token \in [Node -> [Key -> Nat]] /\ left \in [Node -> [Key -> 0..SelfFence]]
      /\ c.pc = "owned"
  BY ClusterAssumption
  DEF ProcessTypeOK, ThreadTypeOK, MachineTypeOK, Session, ChangeRec, ChangeOwned
<1>2. /\ UNCHANGED storeVars /\ UNCHANGED <<power, proc, drawn, wire, kill, tick, takeover>>
      /\ UNCHANGED <<halted, restore, todo, sock, closer>>
      /\ token' = [token EXCEPT ![n][k] = c.epoch]
      /\ left' = [left EXCEPT ![n][k] = c.budget]
      /\ change' = [change EXCEPT ![n][k] = d]
  BY DEF ChangeOwned, Remember, machineVars, haltVars
<1>3. d \in ChangeRec /\ d.pc = "leased"
  <2>1. NoChange \in ChangeRec
    BY SelfFenceAssumption DEF NoChange, ChangeRec, ChangePc
  <2>2. c.work \in {"start", "restore", "stop"}
    BY <1>1 DEF ChangeRec
  <2> HIDE DEF c
  <2> QED
    BY <2>1, <2>2 DEF ChangeRec, ChangePc
<1>4. /\ proc[n] # NoBoot /\ Mine(n, k) /\ epoch[k] = c.epoch /\ c.budget <= ttl[k]
      /\ c.epoch > 0
  <2>1. proc[n] # NoBoot /\ Mine(n, k) /\ epoch[k] = c.epoch /\ c.budget <= ttl[k]
    BY <1>1 DEF GoneIsEmpty, LeasesAreCurrent
  <2>2. proc[n] \in Boot
    BY <1>1, <2>1 DEF ProcessTypeOK, MachineTypeOK
  <2> QED
    <3>1. owner[k] # NoOwner
      BY <2>1, <2>2, NoOwnerAssumption DEF Mine
    <3>2. epoch[k] > 0
      BY <1>1, <3>1 DEF OwnedHasEpoch
    <3> QED
      BY <2>1, <3>2
<1> HIDE DEF c, d
<1>5. /\ token' \in [Node -> [Key -> Nat]] /\ left' \in [Node -> [Key -> 0..SelfFence]]
      /\ token'[n][k] = c.epoch /\ left'[n][k] = c.budget
      /\ \A m \in Node, j \in Key : m # n \/ j # k =>
           token'[m][j] = token[m][j] /\ left'[m][j] = left[m][j]
  BY <1>1, <1>2
<1>6. /\ change' \in [Node -> [Session -> ChangeRec]] /\ change'[n][k] = d
      /\ \A m \in Node, j \in Session : m # n \/ j # k => change'[m][j] = change[m][j]
  BY <1>1, <1>2, <1>3
<1>7. ProcessTypeOK'
  BY <1>1, <1>2, <1>5, <1>6 DEF ProcessTypeOK, HaltTypeOK, ThreadTypeOK, MachineTypeOK
<1>8. GoneIsEmpty'
  BY <1>2, <1>4, <1>5, <1>6 DEF GoneIsEmpty
<1>9. BootsAreDrawn' /\ FencedIsGone' /\ TakeoverSeesOwner'
  BY <1>2 DEF BootsAreDrawn, FencedIsGone, TakeoverSeesOwner, Mine, storeVars, leaseVars
<1>10. \A m \in Node : token'[m][Cluster] = token[m][Cluster]
                       /\ left'[m][Cluster] = left[m][Cluster]
  BY <1>1, <1>5
<1>11. LeasesAreCurrent'
  <2>1. ASSUME NEW m \in Node, NEW j \in Key, token'[m][j] > 0
        PROVE  Mine(m, j)' /\ epoch'[j] = token'[m][j] /\ left'[m][j] <= ttl'[j]
    <3>1. CASE m = n /\ j = k
      BY <1>2, <1>4, <1>5, <3>1 DEF Mine, storeVars, leaseVars
    <3>2. CASE m # n \/ j # k
      BY <1>2, <1>5, <2>1, <3>2 DEF LeasesAreCurrent, Mine, storeVars, leaseVars
    <3> QED
      BY <3>1, <3>2
  <2>2. ASSUME NEW m \in Node, NEW j \in Session, change'[m][j].pc = "owned"
        PROVE  Mine(m, j)' /\ epoch'[j] = change'[m][j].epoch
               /\ change'[m][j].budget <= ttl'[j]
    BY <1>2, <1>3, <1>6, <2>2 DEF LeasesAreCurrent, Mine, storeVars, leaseVars
  <2>3. \A m \in Node :
          /\ tick'[m].pc = "owned" => Mine(m, Cluster)' /\ epoch'[Cluster] = tick'[m].epoch
                                        /\ tick'[m].budget <= ttl'[Cluster]
          /\ tick'[m].pc = "renewed" => tick'[m].budget <= ttl'[tick'[m].key]
    BY <1>2 DEF LeasesAreCurrent, Mine, storeVars, leaseVars
  <2> QED
    BY <2>1, <2>2, <2>3 DEF LeasesAreCurrent
<1>12. WorkHasLease' /\ LeakedSocketIsFenced'
  <2>1. ASSUME NEW m \in Node, NEW j \in Session,
               \/ j \in sock[m]
               \/ change'[m][j].pc \in {"leased", "closed", "listed", "saved"}
        PROVE  token'[m][j] > 0
    <3>1. CASE m = n /\ j = k
      BY <1>4, <1>5, <3>1
    <3>2. CASE m # n \/ j # k
      BY <1>1, <1>5, <1>6, <2>1, <3>2 DEF WorkHasLease
    <3> QED
      BY <3>1, <3>2
  <2> QED
    BY <1>2, <2>1 DEF WorkHasLease, LeakedSocketIsFenced
<1>13. ClaimIsOnce'
  BY <1>2, <1>10 DEF ClaimIsOnce, ClusterClaim, Mine, Running, storeVars, leaseVars
<1>14. Timely'
  BY <1>2, <1>10
  DEF Timely, WatchdogInTime, FencingFindsProcessDead, Mine, Running, storeVars,
      leaseVars, nodeVars
<1> QED
  BY <1>7, <1>8, <1>9, <1>11, <1>12, <1>13, <1>14

LEMMA OneChange ==
  ASSUME ClusterInv, NEW n \in Node, NEW k \in Session
  PROVE  /\ \A d \in ChangeRec : change' = [change EXCEPT ![n][k] = d] =>
              /\ change' \in [Node -> [Session -> ChangeRec]] /\ change'[n][k] = d
              /\ \A m \in Node, j \in Session : m # n \/ j # k => change'[m][j] = change[m][j]
         /\ \A pc \in ChangePc : Reach(n, k, pc) =>
              /\ change' \in [Node -> [Session -> ChangeRec]] /\ change'[n][k].pc = pc
              /\ \A m \in Node, j \in Session : m # n \/ j # k => change'[m][j] = change[m][j]
<1>1. change \in [Node -> [Session -> ChangeRec]] /\ change[n][k] \in ChangeRec
  BY DEF ClusterInv, ProcessInv, ProcessTypeOK, ThreadTypeOK
<1>2. \A d \in ChangeRec : change' = [change EXCEPT ![n][k] = d] =>
        /\ change' \in [Node -> [Session -> ChangeRec]] /\ change'[n][k] = d
        /\ \A m \in Node, j \in Session : m # n \/ j # k => change'[m][j] = change[m][j]
  BY <1>1
<1>3. ASSUME NEW pc \in ChangePc, Reach(n, k, pc)
      PROVE  /\ change' \in [Node -> [Session -> ChangeRec]] /\ change'[n][k].pc = pc
             /\ \A m \in Node, j \in Session : m # n \/ j # k => change'[m][j] = change[m][j]
  <2> DEFINE d == [change[n][k] EXCEPT !.pc = pc]
  <2>1. d \in ChangeRec /\ d.pc = pc
    BY <1>1 DEF ChangeRec
  <2>2. change' = [change EXCEPT ![n][k] = d]
    BY <1>3 DEF Reach
  <2> HIDE DEF d
  <2> QED
    BY <1>2, <2>1, <2>2
<1> QED
  BY <1>2, <1>3

\* Every step of a start or a stop but the answer to its claim.
LEMMA SessionKeeps ==
  ASSUME ClusterInv, NEW n \in Node, NEW k \in Session, SessionStep(n, k),
         ~ChangeOwned(n, k)
  PROVE  ProcessInv'
<1> USE DEF ClusterInv, ProcessInv
<1>0. /\ ProcessTypeOK /\ HaltTypeOK /\ k \in Key /\ change[n][k] \in ChangeRec
      /\ change \in [Node -> [Session -> ChangeRec]] /\ wire \subseteq Call
      /\ proc[n] \in Boot \cup {NoBoot} /\ proc[n] \in drawn \cup {NoBoot}
      /\ sock \in [Node -> SUBSET Session] /\ closer \in [Node -> SUBSET Session]
      /\ token \in [Node -> [Key -> Nat]]
  BY DEF ProcessTypeOK, ThreadTypeOK, MachineTypeOK, HaltTypeOK, Session, BootsAreDrawn
<1>0a. /\ change[n][k].pc # "idle" => proc[n] # NoBoot
       /\ token[n][k] > 0 => proc[n] # NoBoot
       /\ token[n][Cluster] > 0 => proc[n] # NoBoot
       /\ change[n][k].pc \in Work => token[n][k] > 0
  BY ClusterAssumption, <1>0 DEF GoneIsEmpty, WorkHasLease, Work
<1>0b. /\ \A d \in ChangeRec : change' = [change EXCEPT ![n][k] = d] =>
            /\ change' \in [Node -> [Session -> ChangeRec]] /\ change'[n][k] = d
            /\ \A m \in Node, j \in Session : m # n \/ j # k => change'[m][j] = change[m][j]
       /\ \A pc \in ChangePc : Reach(n, k, pc) =>
            /\ change' \in [Node -> [Session -> ChangeRec]] /\ change'[n][k].pc = pc
            /\ \A m \in Node, j \in Session : m # n \/ j # k => change'[m][j] = change[m][j]
  BY OneChange
<1>0c. NoChange \in ChangeRec /\ NoChange.pc = "idle" /\ NoChange.work = "start"
  BY SelfFenceAssumption DEF NoChange, ChangeRec, ChangePc
<1> DEFINE Calm == UNCHANGED <<nodeVars, leaseVars, fences, registered, machineVars,
                               leaseMapVars, kill, tick, takeover>>
           Halts == /\ HaltTypeOK' /\ LeakedSocketIsFenced'
                    /\ \A m \in Node : halted[m] => halted'[m]
                    /\ \A m \in Node : \A j \in sock'[m] \ sock[m] : token[m][j] > 0
           Changes == /\ change' \in [Node -> [Session -> ChangeRec]]
                      /\ \A m \in Node, j \in Session :
                           \/ change'[m][j] = change[m][j]
                           \/ /\ proc[m] # NoBoot /\ change'[m][j].pc # "owned"
                              /\ change'[m][j].pc \in Work => token[m][j] > 0
           Wires == /\ wire' \subseteq Call
                    /\ \A r \in wire' \ wire : /\ r.op = "claim" /\ r.key \in Session
                                               /\ r.epoch = 0 /\ r.boot \in drawn
<1>1. Calm /\ Halts /\ Changes /\ Wires => ProcessInv'
  BY WorkKeeps
<1>2. UNCHANGED haltVars => Halts
  BY <1>0 DEF haltVars, HaltTypeOK, LeakedSocketIsFenced
<1>3. Fence(n) => Halts
  BY <1>0, FenceKeeps DEF HaltsKeep
<1>4. UNCHANGED wire => Wires
  BY <1>0
<1>5. UNCHANGED change => Changes
  BY <1>0
<1>6. SocketClosed(n, k) => Calm /\ Halts /\ Wires
  BY <1>0 DEF SocketClosed, storeVars, HaltTypeOK, LeakedSocketIsFenced
<1>7. ASSUME change' = [change EXCEPT ![n][k] = NoChange], proc[n] # NoBoot PROVE Changes
  BY <1>0, <1>0b, <1>0c, <1>7 DEF Work
<1>8. ASSUME NEW pc \in Work, Reach(n, k, pc), token[n][k] > 0 PROVE Changes
  BY <1>0a, <1>0b, <1>8 DEF Work, ChangePc
<1>9. \A res, purge \in BOOLEAN : \A e :
        PutCatalog(n, proc[n], k, e, res, purge) =>
        UNCHANGED <<nodeVars, leaseVars, fences, registered>>
  BY DEF PutCatalog
<1>10. ASSUME NEW work \in {"start", "restore", "stop"}, ChangeBegins(n, k, work)
       PROVE  ProcessInv'
  <2> DEFINE leased == HasLease(n, k)
             d == [NoChange EXCEPT !.pc = IF leased THEN "leased" ELSE "claim",
                                   !.work = work,
                                   !.budget = IF leased THEN 0 ELSE SelfFence]
  <2>1. /\ change' = [change EXCEPT ![n][k] = d]
        /\ wire' = IF leased THEN wire ELSE wire \cup {Request("claim", n, k, 0)}
        /\ UNCHANGED <<storeVars, machineVars, leaseMapVars, haltVars, kill, tick, takeover>>
        /\ IsActive(n)
    BY <1>10 DEF ChangeBegins
  <2>2. proc[n] # NoBoot /\ proc[n] \in Boot /\ proc[n] \in drawn
    BY <1>0, <1>0a, <2>1 DEF IsActive
  <2>3. leased => token[n][k] > 0
    BY DEF HasLease
  <2> HIDE DEF leased
  <2>4. d \in ChangeRec /\ d.pc = IF leased THEN "leased" ELSE "claim"
    <3>1. 0 \in 0..SelfFence /\ SelfFence \in 0..SelfFence
      BY SelfFenceAssumption
    <3>2. \A pc \in ChangePc, budget \in 0..SelfFence :
            LET x == [NoChange EXCEPT !.pc = pc, !.work = work, !.budget = budget]
            IN  x \in ChangeRec /\ x.pc = pc
      BY <1>0c DEF ChangeRec
    <3>3. "leased" \in ChangePc /\ "claim" \in ChangePc
      BY DEF ChangePc
    <3> QED
      BY <3>1, <3>2, <3>3
  <2> HIDE DEF d
  <2>5. Changes
    BY <1>0b, <2>1, <2>2, <2>3, <2>4 DEF Work
  <2>6. Wires
    BY <1>0, <2>1, <2>2 DEF Request, Call
  <2>7. Calm /\ Halts
    BY <1>2, <2>1 DEF storeVars
  <2> QED
    BY <1>1, <2>5, <2>6, <2>7
<1>11. CASE RestartCloses(n, k)
  <2>1. SocketClosed(n, k) /\ Reach(n, k, "closed") /\ token[n][k] > 0
    BY <1>0a, <1>11 DEF RestartCloses, Work
  <2>2. Changes
    BY <1>8, <2>1 DEF Work
  <2> QED
    BY <1>1, <1>6, <2>1, <2>2
<1>12. CASE SaveMeta(n, k) \/ StopSaves(n, k)
  <2>1. /\ Reach(n, k, "listed") /\ token[n][k] > 0
        /\ \E res, purge \in BOOLEAN : PutCatalog(n, proc[n], k, token[n][k], res, purge)
        /\ UNCHANGED <<machineVars, wire, leaseMapVars, haltVars, kill, tick, takeover>>
    BY <1>0a, <1>12 DEF SaveMeta, StopSaves, HasLease
  <2>2. Changes
    BY <1>8, <2>1 DEF Work
  <2> QED
    BY <1>1, <1>2, <1>4, <1>9, <2>1, <2>2
<1>13. CASE SaveCreds(n, k)
  <2>1. /\ Reach(n, k, "saved") /\ token[n][k] > 0
        /\ UNCHANGED <<nodeVars, leaseVars, fences, registered>>
        /\ UNCHANGED <<machineVars, wire, leaseMapVars, haltVars, kill, tick, takeover>>
    BY <1>0a, <1>13 DEF SaveCreds, HasLease, WriteAuth
  <2>2. Changes
    BY <1>8, <2>1 DEF Work
  <2> QED
    BY <1>1, <1>2, <1>4, <2>1, <2>2
<1>14. CASE OpenSocket(n, k)
  <2>1. /\ change' = [change EXCEPT ![n][k] = NoChange] /\ token[n][k] > 0
        /\ UNCHANGED <<storeVars, machineVars, wire, leaseMapVars, kill, tick, takeover>>
    BY <1>0a, <1>14 DEF OpenSocket, Work
  <2>2. Halts
    <3>1. CASE HasLease(n, k)
      <4>1. /\ sock' = [sock EXCEPT ![n] = @ \cup {k}]
            /\ closer' = [closer EXCEPT ![n] = @ \cup {k}]
            /\ todo' = [todo EXCEPT ![n] = IF change[n][k].work = "restore"
                                           THEN @ \ {k} ELSE @]
            /\ UNCHANGED <<halted, restore>>
        BY <1>14, <3>1 DEF OpenSocket
      <4>2. HaltTypeOK' /\ LeakedSocketIsFenced'
        BY <1>0, <4>1 DEF HaltTypeOK, LeakedSocketIsFenced
      <4> QED
        BY <1>0, <2>1, <4>1, <4>2
    <3>2. CASE ~HasLease(n, k)
      <4>1. FenceLeaking(n, {k}) /\ {k} \in SUBSET Session
        BY <1>14, <3>2 DEF OpenSocket
      <4>2. /\ HaltTypeOK' /\ halted'[n]
            /\ \A m \in Node : halted[m] => halted'[m]
            /\ sock'[n] \subseteq sock[n] \cup {k}
            /\ \A m \in Node \ {n} : sock'[m] = sock[m] /\ closer'[m] = closer[m]
            /\ LeakedSocketIsFenced => LeakedSocketIsFenced'
        BY <1>0, <4>1, FenceLeaks
      <4>3. \A m \in Node : \A j \in sock'[m] \ sock[m] : m = n /\ j = k
        BY <4>2
      <4> QED
        BY <2>1, <4>2, <4>3
    <3> QED
      BY <3>1, <3>2
  <2> QED
    BY <1>0a, <1>1, <1>4, <1>7, <1>14, <2>1, <2>2 DEF storeVars
<1>15. CASE StopCloses(n, k)
  <2>1. change' = [change EXCEPT ![n][k] = NoChange] /\ proc[n] # NoBoot
    BY <1>0a, <1>15 DEF StopCloses, Work
  <2>2. Changes
    BY <1>7, <2>1
  <2>3. CASE SocketClosed(n, k)
    BY <1>1, <1>6, <2>2, <2>3
  <2>4. CASE UNCHANGED <<storeVars, machineVars, wire, leaseMapVars, haltVars, kill, tick,
                         takeover>>
    BY <1>1, <1>2, <1>4, <2>2, <2>4 DEF storeVars
  <2> QED
    BY <1>15, <2>3, <2>4 DEF StopCloses
<1>16. CASE WebhookSaved(n, k)
  <2>1. /\ PutCatalog(n, proc[n], k, token[n][k], TRUE, FALSE)
        /\ UNCHANGED <<machineVars, wire, leaseMapVars, haltVars, kill, threadVars>>
    BY <1>16 DEF WebhookSaved
  <2> QED
    BY <1>1, <1>2, <1>4, <1>5, <1>9, <2>1 DEF threadVars
<1>17. CASE ChangeFails(n, k)
  <2>1. /\ change' = [change EXCEPT ![n][k] = NoChange] /\ proc[n] # NoBoot
        /\ UNCHANGED <<storeVars, machineVars, wire, leaseMapVars, kill, tick, takeover>>
        /\ Fence(n) \/ UNCHANGED haltVars
    BY <1>0a, <1>17 DEF ChangeFails
  <2>2. Changes
    BY <1>7, <2>1
  <2> QED
    BY <1>1, <1>2, <1>3, <1>4, <2>1, <2>2 DEF storeVars
<1>18. CASE SocketEnds(n, k)
  <2>1. /\ sock' = [sock EXCEPT ![n] = @ \ {k}]
        /\ UNCHANGED <<storeVars, machineVars, wire, leaseMapVars, halted, restore, todo,
                       closer, kill, threadVars>>
    BY <1>18 DEF SocketEnds
  <2>2. Halts
    BY <1>0, <2>1 DEF HaltTypeOK, LeakedSocketIsFenced
  <2> QED
    BY <1>1, <1>4, <1>5, <2>1, <2>2 DEF storeVars, threadVars
<1> HIDE DEF ClusterInv, ProcessInv
<1> QED
  BY <1>10, <1>11, <1>12, <1>13, <1>14, <1>15, <1>16, <1>17, <1>18 DEF SessionStep

\* A restore that goes on, a fence from outside a tick, and a request that is lost.
LEMMA QuietKeeps ==
  ASSUME ClusterInv,
         \/ \E n \in Node : RestoreStep(n) \/ DeadlineTimer(n) \/ GuardedCallFails(n)
         \/ \E r \in wire : RequestFails(r)
         \/ UNCHANGED clusterVars
  PROVE  ProcessInv'
<1> USE DEF ClusterInv, ProcessInv
<1>1. /\ HaltTypeOK /\ change \in [Node -> [Session -> ChangeRec]] /\ wire \subseteq Call
      /\ LeakedSocketIsFenced
  BY DEF ProcessTypeOK, ThreadTypeOK, MachineTypeOK
<1> DEFINE Calm == UNCHANGED <<nodeVars, leaseVars, fences, registered, machineVars,
                               leaseMapVars, kill, tick, takeover, change>>
<1>2. Calm /\ HaltsKeep /\ wire' \subseteq wire => ProcessInv'
  <2> SUFFICES ASSUME Calm, HaltsKeep, wire' \subseteq wire PROVE ProcessInv'
    OBVIOUS
  <2>1. HaltTypeOK' /\ LeakedSocketIsFenced' /\ \A n \in Node : halted[n] => halted'[n]
    BY <1>1 DEF HaltsKeep
  <2>2. wire' \subseteq Call /\ \A r \in wire' \ wire : FALSE
    BY <1>1
  <2>3. \A n \in Node : \A k \in sock'[n] \ sock[n] : FALSE
    BY DEF HaltsKeep
  <2>4. change' = change /\ change' \in [Node -> [Session -> ChangeRec]]
    BY <1>1
  <2> HIDE DEF ClusterInv, ProcessInv
  <2> QED
    BY <2>1, <2>2, <2>3, <2>4, WorkKeeps
<1>3. ASSUME NEW n \in Node, RestoreStep(n) PROVE Calm /\ HaltsKeep /\ wire' \subseteq wire
  <2>1. CASE RestoreLists(n)
    <3>1. HaltsKeep
      BY <1>1, <2>1 DEF RestoreLists, HaltsKeep, HaltTypeOK, LeakedSocketIsFenced
    <3> QED
      BY <2>1, <3>1 DEF RestoreLists, storeVars, threadVars
  <2>2. CASE RestoreDone(n)
    <3>1. HaltsKeep
      BY <1>1, <2>2 DEF RestoreDone, HaltsKeep, HaltTypeOK, LeakedSocketIsFenced
    <3> QED
      BY <2>2, <3>1 DEF RestoreDone, storeVars, threadVars
  <2>3. CASE \E k \in Session : RestoreSkips(n, k)
    <3>1. HaltsKeep
      BY <1>1, <2>3 DEF RestoreSkips, HaltsKeep, HaltTypeOK, LeakedSocketIsFenced
    <3> QED
      BY <2>3, <3>1 DEF RestoreSkips, storeVars, threadVars
  <2> QED
    BY <1>3, <2>1, <2>2, <2>3 DEF RestoreStep
<1>4. ASSUME NEW n \in Node, DeadlineTimer(n) \/ GuardedCallFails(n)
      PROVE  Calm /\ HaltsKeep /\ wire' \subseteq wire
  <2>1. HaltsKeep
    BY <1>1, <1>4, FenceKeeps DEF DeadlineTimer, GuardedCallFails
  <2> QED
    BY <1>4, <2>1 DEF DeadlineTimer, GuardedCallFails, storeVars, threadVars
<1>5. UNCHANGED haltVars => HaltsKeep
  BY <1>1 DEF haltVars, HaltsKeep, HaltTypeOK, LeakedSocketIsFenced
<1>6. ASSUME NEW r \in wire, RequestFails(r) PROVE Calm /\ HaltsKeep /\ wire' \subseteq wire
  BY <1>5, <1>6 DEF RequestFails, storeVars, threadVars
<1>7. UNCHANGED clusterVars => Calm /\ HaltsKeep /\ wire' \subseteq wire
  BY <1>5 DEF clusterVars, storeVars, threadVars
<1> HIDE DEF ClusterInv, ProcessInv, Calm
<1> QED
  BY <1>2, <1>3, <1>4, <1>6, <1>7
-----------------------------------------------------------------------------
(***************************************************************************)
(* The invariant, and what it says.                                        *)
(***************************************************************************)
LEMMA ClusterInvStep == ClusterInv /\ [ClusterNext]_clusterVars => ClusterInv'
<1> SUFFICES ASSUME ClusterInv, [ClusterNext]_clusterVars PROVE ClusterInv'
  OBVIOUS
<1>1. StoreInv' /\ OwnedHasEpoch'
  <2>1. [StoreNext]_storeVars
    BY IsStoreStep
  <2>2. StoreTypeOK
    BY DEF ClusterInv, StoreInv
  <2> QED
    BY <2>1, <2>2, StoreInvStep, StoreFactsStep DEF ClusterInv
<1>2. ASSUME NEW r \in wire, Exec(r) PROVE ProcessInv'
  BY <1>2, RegisterKeeps, ClaimKeeps, ClaimHeldKeeps, RenewKeeps DEF Exec
<1>3. ASSUME NEW n \in Node, TickStep(n) \/ TickFails(n) \/ RegisterFails(n)
      PROVE  ProcessInv'
  BY <1>3, TicksMove, TickKeeps
<1>4. ASSUME NEW n \in Node, NEW k \in Session, SessionStep(n, k) PROVE ProcessInv'
  BY <1>4, SessionKeeps, ChangeOwnedKeeps
<1>5. ASSUME NEW n \in Node, NEW m \in Node, Gone(m),
             power' = power \/ power' = [power EXCEPT ![m] = FALSE]
      PROVE  ProcessInv'
  <2>1. power \in [Node -> BOOLEAN]
    BY DEF ClusterInv, ProcessInv, ProcessTypeOK, MachineTypeOK
  <2> QED
    BY <1>5, <2>1, GoneKeeps
<1>6. ASSUME NEW n \in Node, WatchdogKill(n) \/ ProcessDies(n) \/ PowerOff(n)
      PROVE  ProcessInv'
  BY <1>5, <1>6 DEF WatchdogKill, ProcessDies, PowerOff
<1>7. ASSUME NEW n \in Node, ProviderPowersOff(n) PROVE ProcessInv'
  <2>1. Target(n) \in Node
    BY <1>7, FencerRuns DEF ProviderPowersOff
  <2> QED
    BY <1>5, <1>7, <2>1 DEF ProviderPowersOff, PowerOff
<1>8. ASSUME NEW n \in Node, TakeoverStep(n) \/ TakeoverFails(n) PROVE ProcessInv'
  BY <1>7, <1>8, TakeoverKeeps DEF TakeoverStep
<1>9. ASSUME NEW n \in Node, Fault(n) PROVE ProcessInv'
  BY <1>3, <1>6, <1>8, <1>9, QuietKeeps DEF Fault
<1>10. ASSUME NEW n \in Node, NEW b \in Boot, StartProcess(n, b) \/ OperatorActs(n, b)
       PROVE  ProcessInv'
  BY <1>10, StartKeeps, OperatorKeeps
<1>11. ASSUME NEW n \in Node,
              PowerOn(n) \/ OwnerDisables(n) \/ DeadlineTimer(n) \/ RestoreStep(n)
       PROVE  ProcessInv'
  BY <1>11, OperatorKeeps, QuietKeeps
<1>12. ProcessInv'
  BY <1>2, <1>3, <1>4, <1>6, <1>8, <1>9, <1>10, <1>11, AdvanceKeeps, QuietKeeps
  DEF ClusterNext
<1> QED
  BY <1>1, <1>12 DEF ClusterInv

\* Every reachable state of the cluster satisfies the invariant.
LEMMA ClusterInvariant == ClusterSpec => []ClusterInv
BY ClusterInitially, ClusterInvStep, PTL DEF ClusterSpec

\* The processes, their timers, the requests on the wire and the tables keep
\* their types, for every number of nodes and sessions.
THEOREM ClusterTypeCorrect == ClusterSpec => []ClusterTypeOK
<1>1. ClusterInv => ClusterTypeOK
  BY TypeParts DEF ClusterInv, StoreInv, ProcessInv
<1> QED
  BY <1>1, ClusterInvariant, PTL

\* Whatever is late, lost or dead, the processes only ever make calls that the
\* store's specification allows: all that is proved of the store holds of the
\* tables of a running cluster.
THEOREM ClusterImplementsStore == ClusterSpec => StoreSpec
<1>1. ClusterInit => StoreInit
  BY DEF ClusterInit
<1> QED
  BY <1>1, IsStoreStep, ClusterInvariant, PTL DEF ClusterSpec, StoreSpec

\* A process stops believing in a lease before the database may give it away,
\* however slow the answers to its claims and renewals are.
THEOREM LocalDeadlinesAreEarlier == ClusterSpec => []LocalDeadlineIsEarlier
<1>1. ClusterInv => LocalDeadlineIsEarlier
  BY DEF ClusterInv, ProcessInv, LeasesAreCurrent, LocalDeadlineIsEarlier, Mine
<1> QED
  BY <1>1, ClusterInvariant, PTL

\* Two processes never both answer customers: each would have to own the cluster
\* lease, which has one owner.
THEOREM OnlyOneNodeServes == ClusterSpec => []OneNodeServes
<1>1. ClusterInv => OneNodeServes
  <2> SUFFICES ASSUME ClusterInv, NEW m \in Node, NEW n \in Node, CanServe(m), CanServe(n)
               PROVE  m = n
    BY DEF OneNodeServes
  <2>1. owner[Cluster] = <<m, proc[m]>> /\ owner[Cluster] = <<n, proc[n]>>
    BY ClusterAssumption
    DEF CanServe, IsActive, ClusterInv, ProcessInv, LeasesAreCurrent, Mine
  <2> QED
    BY <2>1
<1> QED
  BY <1>1, ClusterInvariant, PTL

\* A raw WhatsApp socket is open only in the process that owns its session's
\* lease, with or without an unexpired lease, and beyond the reach of fence()
\* only in a process that has fenced itself.
THEOREM EverySocketIsOwned == ClusterSpec => []SocketsAreOwned
<1>1. ClusterInv => SocketsAreOwned
  <2> SUFFICES ASSUME ClusterInv PROVE SocketsAreOwned
    OBVIOUS
  <2>1. ASSUME NEW n \in Node, NEW k \in sock[n]
        PROVE  owner[k] = <<n, proc[n]>> /\ epoch[k] = token[n][k]
    <3>1. k \in Session /\ k \in Key
      BY DEF ClusterInv, ProcessInv, ProcessTypeOK, HaltTypeOK, Session
    <3> QED
      BY <3>1 DEF ClusterInv, ProcessInv, WorkHasLease, LeasesAreCurrent, Mine
  <2> QED
    BY <2>1 DEF ClusterInv, ProcessInv, SocketsAreOwned, SocketBelongsToOwner
<1> QED
  BY <1>1, ClusterInvariant, PTL

\* When the supervisors work and a process's own deadline is shorter than the
\* lease, as SELF_FENCE_MS is, begin_fence never cuts off a node whose process
\* still runs: the standby finds the lease run out only after the kill.
THEOREM FencingFindsEveryProcessDead ==
  ASSUME SelfFence < LeaseTtl
  PROVE  ClusterSpec => []FencingFindsProcessDead
<1>1. ClusterInv => FencingFindsProcessDead
  BY DEF ClusterInv, ProcessInv, Timely
<1> QED
  BY <1>1, ClusterInvariant, PTL
=============================================================================
