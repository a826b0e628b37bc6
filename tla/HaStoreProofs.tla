--------------------------- MODULE HaStoreProofs ---------------------------
(***************************************************************************)
(* The lease store keeps its promises for every set of nodes, boots, keys  *)
(* and items and every lease length.                                       *)
(***************************************************************************)
EXTENDS HaStore, TLAPS

\* Only answered boots appear in the tables.  It is what makes a fresh boot
\* harmless: it cannot already be fenced.
BootsAreRegistered ==
  /\ \A n \in Node : boot[n] \in registered \cup {NoBoot}
  /\ \A n \in Node, b \in Boot : <<n, b>> \in fences => b \in registered

StoreInv ==
  /\ StoreTypeOK
  /\ BootsAreRegistered
  /\ FencedBootIsPowerless
  /\ FencingIsQuiesced
  /\ PermitHolderUndisturbed
  /\ NoOrphanedLease

\* The empty tables of a new schema satisfy the invariant.
LEMMA StoreInitially == StoreInit => StoreInv
<1> SUFFICES ASSUME StoreInit PROVE StoreInv
  OBVIOUS
<1> USE LeaseTtlAssumption, NoOwnerAssumption, NoBootAssumption DEF StoreInit
<1>1. StoreTypeOK
  BY DEF StoreTypeOK, NodeState, CatalogEntry
<1>2. BootsAreRegistered /\ FencedBootIsPowerless
  BY DEF BootsAreRegistered, FencedBootIsPowerless
<1>3. FencingIsQuiesced
  BY DEF FencingIsQuiesced
<1>4. NoOrphanedLease /\ PermitHolderUndisturbed
  BY DEF NoOrphanedLease, PermitHolderUndisturbed
<1> QED
  BY <1>1, <1>2, <1>3, <1>4 DEF StoreInv

\* No function of wa_ha writes anything but a value of its column.
LEMMA StoreTypeStep == StoreTypeOK /\ [StoreNext]_storeVars => StoreTypeOK'
<1> SUFFICES ASSUME StoreTypeOK, [StoreNext]_storeVars PROVE StoreTypeOK'
  OBVIOUS
<1> USE LeaseTtlAssumption
    DEF StoreTypeOK, NodeState, CatalogEntry, nodeVars, leaseVars, dataVars
<1>1. ASSUME NEW n \in Node, NEW b \in Boot, RegisterNode(n, b)
      PROVE  StoreTypeOK'
  BY <1>1 DEF RegisterNode
<1>2. ASSUME NEW n \in Node, NEW b \in Boot, NEW k \in Key, TryAcquire(n, b, k)
      PROVE  StoreTypeOK'
  BY <1>2 DEF TryAcquire
<1>3. ASSUME NEW n \in Node, NEW b \in Boot, NEW k \in Key, NEW e \in 1..epoch[k],
             Renew(n, b, k, e)
      PROVE  StoreTypeOK'
  BY <1>3 DEF Renew
<1>3a. ASSUME NEW n \in Node, NEW b \in Boot, NEW k \in Key, NEW e \in 1..epoch[k],
              OpenSend(n, b, k, e)
       PROVE  StoreTypeOK'
  BY <1>3a DEF OpenSend
<1>3b. ASSUME NEW n \in Node, NEW b \in Boot, NEW k \in Key, CloseSend(n, b, k)
       PROVE  StoreTypeOK'
  BY <1>3b DEF CloseSend
<1>4. ASSUME NEW n \in Node, NEW b \in Boot, NEW k \in Key, NEW e \in 1..epoch[k],
             NEW put \in SUBSET Item, NEW del \in SUBSET Item,
             WriteAuth(n, b, k, e, put, del)
      PROVE  StoreTypeOK'
  <2>1. e \in Nat
    OBVIOUS
  <2>2. auth' \in [Key -> [Item -> Nat]]
    BY <1>4, <2>1 DEF WriteAuth
  <2> QED
    BY <1>4, <2>2 DEF WriteAuth
<1>5. ASSUME NEW n \in Node, NEW b \in Boot, NEW k \in Key, NEW e \in 1..epoch[k],
             NEW restore \in BOOLEAN, NEW purge \in BOOLEAN,
             PutCatalog(n, b, k, e, restore, purge)
      PROVE  StoreTypeOK'
  <2>1. auth' \in [Key -> [Item -> Nat]]
    BY <1>5 DEF PutCatalog
  <2>2. catalog' \in [Key -> CatalogEntry]
    BY <1>5 DEF PutCatalog
  <2> QED
    BY <1>5, <2>1, <2>2 DEF PutCatalog
<1>6. ASSUME NEW n \in Node, NEW b \in Boot, OperatorCall(n, b)
      PROVE  StoreTypeOK'
  <2>1. CASE ManualFence(n, b)
    BY <2>1 DEF ManualFence
  <2>2. CASE Rejoin(n, b)
    BY <2>2 DEF Rejoin
  <2>3. CASE ActivateFencing(n, b)
    BY <2>3 DEF ActivateFencing
  <2> QED
    BY <1>6, <2>1, <2>2, <2>3 DEF OperatorCall
<1>7. ASSUME NEW a \in Node, NEW n \in Node, NEW ab \in Boot, NEW b \in Boot,
             FencerCall(a, ab, n, b)
      PROVE  StoreTypeOK'
  <2>1. CASE BeginFence(a, ab, n, b)
    BY <2>1 DEF BeginFence
  <2>2. CASE ConfirmFence(a, ab, n, b)
    BY <2>2 DEF ConfirmFence
  <2> QED
    BY <1>7, <2>1, <2>2 DEF FencerCall
<1>8. ASSUME NEW n \in Node, DisableNode(n)
      PROVE  StoreTypeOK'
  BY <1>8 DEF DisableNode
<1>8a. CASE BootlessFence
  BY <1>8a DEF BootlessFence, BeginFence
<1>9. CASE StoreTick
  <2>1. \A t \in 0..LeaseTtl : Earlier(t) \in 0..LeaseTtl
    BY DEF Earlier
  <2>2. ttl' \in [Key -> 0..LeaseTtl]
    BY <1>9, <2>1 DEF StoreTick
  <2> QED
    BY <1>9, <2>2 DEF StoreTick
<1>10. CASE UNCHANGED storeVars
  BY <1>10 DEF storeVars
<1> HIDE DEF StoreTypeOK
<1> QED
  BY <1>1, <1>2, <1>3, <1>3a, <1>3b, <1>4, <1>5, <1>6, <1>7, <1>8, <1>8a, <1>9,
     <1>10
  DEF StoreNext, ServiceCall

\* StoreInv without the types.
StoreCore ==
  /\ BootsAreRegistered
  /\ FencedBootIsPowerless
  /\ FencingIsQuiesced
  /\ PermitHolderUndisturbed
  /\ NoOrphanedLease

\* Every function, operator action and passage of time keeps the invariant.
LEMMA StoreInvStep == StoreInv /\ [StoreNext]_storeVars => StoreInv'
<1> SUFFICES ASSUME StoreInv, [StoreNext]_storeVars PROVE StoreInv'
  OBVIOUS
<1>0. StoreTypeOK'
  BY StoreTypeStep DEF StoreInv
<1> USE LeaseTtlAssumption, NoOwnerAssumption, NoBootAssumption
    DEF StoreInv, StoreCore, StoreTypeOK, BootsAreRegistered, FencedBootIsPowerless,
        FencingIsQuiesced, NoOrphanedLease, PermitHolderUndisturbed,
        Identity, OwnsLive, NodeRowFree, KeyFree,
        nodeVars, leaseVars, dataVars
<1>1. ASSUME NEW n \in Node, NEW b \in Boot, RegisterNode(n, b) PROVE StoreCore'
  <2>1. boot[n] = NoBoot /\ b \notin registered
    BY <1>1 DEF RegisterNode
  <2> QED
    BY <1>1, <2>1 DEF RegisterNode
<1>2. ASSUME NEW n \in Node, NEW b \in Boot, NEW k \in Key, TryAcquire(n, b, k)
      PROVE  StoreCore'
  <2>1. BootsAreRegistered' /\ FencedBootIsPowerless'
    BY <1>2 DEF TryAcquire
  <2>0. ASSUME NEW j \in Key, NEW m \in Node, NEW c \in Boot, owner'[j] = <<m, c>>
        PROVE  <<m, c>> \in fences' \/ boot'[m] = c
    <3>1. CASE j = k
      <4>1. owner'[j] = <<n, b>> /\ boot'[n] = b
        BY <1>2, <3>1 DEF TryAcquire
      <4>2. m = n /\ c = b
        BY <2>0, <4>1
      <4> QED
        BY <4>1, <4>2
    <3>2. CASE j # k
      <4>1. owner'[j] = owner[j] /\ fences' = fences /\ boot' = boot
        BY <1>2, <3>2 DEF TryAcquire
      <4> QED
        BY <2>0, <4>1
    <3> QED
      BY <3>1, <3>2
  <2>2. ASSUME NEW m \in Node, NEW j \in Key, state[m] = "fencing"
        PROVE  ~OwnsLive(m, boot[m], j)'
    <3>1. m # n
      BY <1>2, <2>2 DEF TryAcquire
    <3>2. j # k => ~OwnsLive(m, boot[m], j)'
      BY <1>2, <2>2 DEF TryAcquire
    <3>3. j = k => ~OwnsLive(m, boot[m], j)'
      BY <1>2, <3>1 DEF TryAcquire
    <3> QED
      BY <3>2, <3>3
  <2>3. FencingIsQuiesced'
    BY <1>2, <2>2 DEF TryAcquire
  <2>4. PermitHolderUndisturbed'
    BY <1>2 DEF TryAcquire
  <2> QED
    BY <2>0, <2>1, <2>3, <2>4 DEF NoOrphanedLease
<1>3. ASSUME NEW n \in Node, NEW b \in Boot, NEW k \in Key, NEW e \in 1..epoch[k],
             Renew(n, b, k, e)
      PROVE  StoreCore'
  BY <1>3 DEF Renew, CheckLease
<1>3a. ASSUME NEW n \in Node, NEW b \in Boot, NEW k \in Key, NEW e \in 1..epoch[k],
              OpenSend(n, b, k, e)
       PROVE  StoreCore'
  BY <1>3a DEF OpenSend, CheckLease
<1>3b. ASSUME NEW n \in Node, NEW b \in Boot, NEW k \in Key, CloseSend(n, b, k)
       PROVE  StoreCore'
  BY <1>3b DEF CloseSend
<1>4. ASSUME NEW n \in Node, NEW b \in Boot, NEW k \in Key, NEW e \in 1..epoch[k],
             NEW put \in SUBSET Item, NEW del \in SUBSET Item,
             WriteAuth(n, b, k, e, put, del)
      PROVE  StoreCore'
  BY <1>4 DEF WriteAuth
<1>5. ASSUME NEW n \in Node, NEW b \in Boot, NEW k \in Key, NEW e \in 1..epoch[k],
             NEW restore \in BOOLEAN, NEW purge \in BOOLEAN,
             PutCatalog(n, b, k, e, restore, purge)
      PROVE  StoreCore'
  BY <1>5 DEF PutCatalog
<1>6. ASSUME NEW n \in Node, NEW b \in Boot, ManualFence(n, b) PROVE StoreCore'
  <2>1. BootsAreRegistered' /\ FencedBootIsPowerless'
    BY <1>6 DEF ManualFence
  <2>2. FencingIsQuiesced' /\ NoOrphanedLease'
    BY <1>6 DEF ManualFence
  <2>3. PermitHolderUndisturbed'
    BY <1>6 DEF ManualFence
  <2> QED
    BY <2>1, <2>2, <2>3
<1>7. ASSUME NEW n \in Node, NEW b \in Boot, Rejoin(n, b) PROVE StoreCore'
  <2>1. BootsAreRegistered' /\ FencedBootIsPowerless'
    BY <1>7 DEF Rejoin
  <2>2. FencingIsQuiesced'
    BY <1>7 DEF Rejoin
  <2>3. ASSUME NEW j \in Key, NEW m \in Node, NEW c \in Boot, owner[j] = <<m, c>>
        PROVE  <<m, c>> \in fences' \/ boot'[m] = c
    <3>1. fences' = fences /\ <<n, b>> \in fences /\ boot[n] = b
      BY <1>7 DEF Rejoin
    <3>2. m # n => boot'[m] = boot[m]
      BY <1>7 DEF Rejoin
    <3>3. <<m, c>> \in fences \/ boot[m] = c
      BY <2>3
    <3> QED
      BY <3>1, <3>2, <3>3
  <2>5. NoOrphanedLease'
    BY <1>7, <2>3 DEF Rejoin
  <2>4. PermitHolderUndisturbed'
    BY <1>7 DEF Rejoin
  <2> QED
    BY <2>1, <2>2, <2>4, <2>5
<1>8. ASSUME NEW n \in Node, NEW b \in Boot, ActivateFencing(n, b) PROVE StoreCore'
  BY <1>8 DEF ActivateFencing
<1>9. ASSUME NEW a \in Node, NEW n \in Node, NEW ab \in Boot,
             NEW b \in Boot \cup {NoBoot}, BeginFence(a, ab, n, b)
      PROVE  StoreCore'
  <2>1. BootsAreRegistered' /\ FencedBootIsPowerless'
    BY <1>9 DEF BeginFence
  <2>2. FencingIsQuiesced'
    BY <1>9 DEF BeginFence
  <2>3. PermitHolderUndisturbed'
    BY <1>9 DEF BeginFence
  <2>4. NoOrphanedLease'
    BY <1>9 DEF BeginFence
  <2> QED
    BY <2>1, <2>2, <2>3, <2>4
<1>10. ASSUME NEW a \in Node, NEW n \in Node, NEW ab \in Boot, NEW b \in Boot,
              ConfirmFence(a, ab, n, b)
       PROVE  StoreCore'
  BY <1>10 DEF ConfirmFence
<1>11. ASSUME NEW n \in Node, DisableNode(n) PROVE StoreCore'
  BY <1>11 DEF DisableNode
<1>12. ASSUME StoreTick PROVE StoreCore'
  <2>1. \A k \in Key : ttl'[k] > 0 => ttl[k] > 0
    BY <1>12 DEF StoreTick, Earlier
  <2>2. FencingIsQuiesced'
    BY <1>12, <2>1 DEF StoreTick
  <2> QED
    BY <1>12, <2>2 DEF StoreTick
<1>13. ASSUME UNCHANGED storeVars PROVE StoreCore'
  BY <1>13 DEF storeVars
<1> HIDE DEF StoreInv, StoreCore, StoreTypeOK, Identity, OwnsLive, NodeRowFree, KeyFree
<1>14. ASSUME NEW n \in Node, NEW b \in Boot, ServiceCall(n, b)
       PROVE  StoreCore'
  BY <1>1, <1>2, <1>3, <1>3a, <1>3b, <1>4, <1>5, <1>14 DEF ServiceCall
<1>15. ASSUME NEW n \in Node, NEW b \in Boot, OperatorCall(n, b)
       PROVE  StoreCore'
  BY <1>6, <1>7, <1>8, <1>15 DEF OperatorCall
<1>16. ASSUME NEW a \in Node, NEW n \in Node, NEW ab \in Boot, NEW b \in Boot,
              FencerCall(a, ab, n, b)
       PROVE  StoreCore'
  BY <1>9, <1>10, <1>16 DEF FencerCall
<1>16a. ASSUME BootlessFence PROVE StoreCore'
  BY <1>9, <1>16a DEF BootlessFence
<1>17. StoreCore'
  BY <1>11, <1>12, <1>13, <1>14, <1>15, <1>16, <1>16a
  DEF StoreNext
<1> QED
  BY <1>0, <1>17 DEF StoreInv, StoreCore

\* Every reachable state of the store is well typed, for every set of nodes,
\* boots, keys and items: wa_ha's tables as the functions leave them.
THEOREM StoreTypeCorrect == StoreSpec => []StoreTypeOK
<1>1. StoreInit => StoreTypeOK
  BY StoreInitially DEF StoreInv
<1> QED
  BY <1>1, StoreTypeStep, PTL DEF StoreSpec

\* The invariant the theorems about the store rest on.
LEMMA StoreInvariant == StoreSpec => []StoreInv
  BY StoreInitially, StoreInvStep, PTL DEF StoreSpec

\* identity() refuses a fenced boot for ever, whatever the operators do.
THEOREM FencedBootsStayPowerless == StoreSpec => []FencedBootIsPowerless
<1>1. StoreInv => FencedBootIsPowerless
  BY DEF StoreInv
<1> QED
  BY <1>1, StoreInvariant, PTL

\* begin_fence leaves nothing a late renewal or claim could revive before
\* confirm_fence.
THEOREM FencingStaysQuiesced == StoreSpec => []FencingIsQuiesced
<1>1. StoreInv => FencingIsQuiesced
  BY DEF StoreInv
<1> QED
  BY <1>1, StoreInvariant, PTL

\* A transmission under a permit is never overtaken by a fence or a new owner.
THEOREM PermitHoldersStayUndisturbed == StoreSpec => []PermitHolderUndisturbed
<1>1. StoreInv => PermitHolderUndisturbed
  BY DEF StoreInv
<1> QED
  BY <1>1, StoreInvariant, PTL

\* Every unfenced owner of a key can still be fenced under the boot its node
\* row records.
THEOREM NoLeaseIsOrphaned == StoreSpec => []NoOrphanedLease
<1>1. StoreInv => NoOrphanedLease
  BY DEF StoreInv
<1> QED
  BY <1>1, StoreInvariant, PTL
-----------------------------------------------------------------------------
(***************************************************************************)
(* Refinement: the store implements ExclusiveOwner with owner, epoch,      *)
(* fences and the writers' epochs as holder, token, retired and stamp.     *)
(***************************************************************************)
\* Nobody owns a key in a new schema.
LEMMA ExclusiveInitially == StoreInit => Exclusive!Init
  BY DEF StoreInit, Exclusive!Init

\* A function of wa_ha grants one key, retires one boot, writes the values of
\* one key, or changes nothing that ExclusiveOwner sees.
LEMMA ExclusiveStep ==
  StoreInv /\ [StoreNext]_storeVars => [Exclusive!Next]_(Exclusive!vars)
<1> SUFFICES ASSUME StoreInv, [StoreNext]_storeVars
             PROVE  [Exclusive!Next]_(Exclusive!vars)
  OBVIOUS
<1> USE DEF Exclusive!vars, nodeVars, leaseVars, dataVars
<1>1. ASSUME NEW n \in Node, NEW b \in Boot, NEW k \in Key, TryAcquire(n, b, k)
      PROVE  Exclusive!Next
  <2>1. <<n, b>> \notin fences
    BY <1>1 DEF StoreInv, FencedBootIsPowerless, TryAcquire
  <2>2. Exclusive!Grant(k, <<n, b>>)
    BY <1>1, <2>1 DEF Exclusive!Grant, TryAcquire, OwnerUnfenced
  <2> QED
    BY <2>2 DEF Exclusive!Next
<1>2. ASSUME NEW n \in Node, NEW b \in Boot, NEW k \in Key, NEW e \in 1..epoch[k],
             NEW put \in SUBSET Item, NEW del \in SUBSET Item,
             WriteAuth(n, b, k, e, put, del)
      PROVE  Exclusive!Next
  <2>1. /\ owner[k] = <<n, b>>
        /\ owner[k] # NoOwner
        /\ owner[k] \notin fences
        /\ epoch[k] = e
    BY <1>2, NoOwnerAssumption
    DEF WriteAuth, CheckLease, StoreInv, FencedBootIsPowerless
  <2>2. Exclusive!Write(k, put, del)
    BY <1>2, <2>1 DEF Exclusive!Write, WriteAuth
  <2> QED
    BY <2>2 DEF Exclusive!Next
<1>3. ASSUME NEW n \in Node, NEW b \in Boot, NEW k \in Key, NEW e \in 1..epoch[k],
             NEW restore \in BOOLEAN, NEW purge \in BOOLEAN,
             PutCatalog(n, b, k, e, restore, purge)
      PROVE  Exclusive!Next \/ UNCHANGED Exclusive!vars
  <2>1. CASE purge
    <3>1. /\ owner[k] # NoOwner
          /\ owner[k] \notin fences
      BY <1>3, NoOwnerAssumption
      DEF PutCatalog, CheckLease, StoreInv, FencedBootIsPowerless
    <3>2. Exclusive!Write(k, {}, Item)
      BY <1>3, <2>1, <3>1 DEF Exclusive!Write, PutCatalog
    <3> QED
      BY <3>2 DEF Exclusive!Next
  <2>2. CASE ~purge
    BY <1>3, <2>2 DEF PutCatalog
  <2> QED
    BY <2>1, <2>2
<1>4. ASSUME NEW n \in Node, NEW b \in Boot, fences' = fences \cup {<<n, b>>},
             UNCHANGED <<leaseVars, dataVars>>
      PROVE  Exclusive!Next
  <2>1. Exclusive!Retire(<<n, b>>)
    BY <1>4 DEF Exclusive!Retire
  <2> QED
    BY <2>1 DEF Exclusive!Next
<1>5. ASSUME NEW n \in Node, NEW b \in Boot, ManualFence(n, b)
      PROVE  Exclusive!Next
  BY <1>4, <1>5 DEF ManualFence
<1>6. ASSUME NEW a \in Node, NEW n \in Node, NEW ab \in Boot, NEW b \in Boot,
             ConfirmFence(a, ab, n, b)
      PROVE  Exclusive!Next
  BY <1>4, <1>6 DEF ConfirmFence
<1>7. ASSUME NEW n \in Node, NEW b \in Boot,
             \/ RegisterNode(n, b)
             \/ \E k \in Key, e \in Nat : Renew(n, b, k, e) \/ OpenSend(n, b, k, e)
             \/ \E k \in Key : CloseSend(n, b, k)
             \/ Rejoin(n, b)
             \/ ActivateFencing(n, b)
             \/ \E a \in Node, ab \in Boot : BeginFence(a, ab, n, b)
      PROVE  UNCHANGED Exclusive!vars
  BY <1>7 DEF RegisterNode, Renew, OpenSend, CloseSend, Rejoin, ActivateFencing,
              BeginFence
<1>8. ASSUME (\E n \in Node : DisableNode(n)) \/ StoreTick \/ UNCHANGED storeVars
      PROVE  UNCHANGED Exclusive!vars
  BY <1>8 DEF DisableNode, StoreTick, storeVars
<1>9. BootlessFence => UNCHANGED Exclusive!vars
  BY DEF BootlessFence, BeginFence
<1> QED
  BY <1>1, <1>2, <1>3, <1>5, <1>6, <1>7, <1>8, <1>9
  DEF StoreNext, ServiceCall, FencerCall, OperatorCall

\* The whole lease store, fencing and operator actions included, behaves as
\* one exclusive holder per key: time alone never hands a key over.
THEOREM StoreImplementsExclusiveOwner == StoreSpec => ImplementsExclusiveOwner
  BY ExclusiveInitially, ExclusiveStep, StoreInvariant, PTL
  DEF StoreSpec, ImplementsExclusiveOwner, Exclusive!Spec
=============================================================================
