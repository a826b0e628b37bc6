-------------------------- MODULE HaEffectProofs --------------------------
(***************************************************************************)
(* What a node does outside the database is done once and under the lease: *)
(* a send that was acknowledged was shielded, for every set of nodes, keys *)
(* and sends and every lease length, and an approval is spent once, for    *)
(* every number of approvals, callers and nodes, however often operators   *)
(* ask and however late the provider is.  Both stand on the store's        *)
(* invariant of HaStoreProofs, carried through the steps of HaSend and of  *)
(* HaApprovals.                                                            *)
(***************************************************************************)
EXTENDS HaSend, HaApprovals, HaStoreProofs, FiniteSetTheorems

(***************************************************************************)
(* The sends: the store's invariant, and the bookkeeping of the chain.     *)
(***************************************************************************)
Busy == {"granted", "operating", "committing", "rolling"}

\* Only the first of the chain is past its begin.
FirstIsBusy ==
  \A s \in Transmission : at[s] \in Busy => line # <<>> /\ Head(line) = s

\* An operation nobody waits for any more runs in a fenced process.
AbandonedIsFenced ==
  \A s \in going :
    /\ at[s] \notin {"uncalled", "queued", "granted", "committing"}
    /\ at[s] # "operating" => down # "no"

\* A send that lost the key meanwhile has no transaction left to commit.
CrossedCannotCommit ==
  \A s \in crossed : held # s /\ at[s] \notin {"uncalled", "queued", "granted"}

\* What was acknowledged is over, and was never without the key.
AckedIsOver ==
  \A s \in Transmission :
    told[s] = "ok" => at[s] = "done" /\ s \notin going /\ s \notin crossed

ChainInv == FirstIsBusy /\ AbandonedIsFenced /\ CrossedCannotCommit /\ AckedIsOver

SendInv == StoreInv /\ epoch[Chat] > 0 /\ SendTypeOK /\ ChainInv

-----------------------------------------------------------------------------
\* The claimed key, with nothing sent yet.
LEMMA SendInitially == ClaimedInit /\ SendInit => SendInv
<1> SUFFICES ASSUME ClaimedInit, SendInit PROVE SendInv
  OBVIOUS
<1> USE LeaseTtlAssumption, NoOwnerAssumption, NoBootAssumption, SenderAssumption
<1>1. StoreTypeOK
  BY DEF ClaimedInit, StoreTypeOK, NodeState, CatalogEntry
<1>2. BootsAreRegistered
  BY DEF ClaimedInit, BootsAreRegistered
<1>3. FencedBootIsPowerless /\ FencingIsQuiesced /\ PermitHolderUndisturbed
  BY DEF ClaimedInit, FencedBootIsPowerless, FencingIsQuiesced,
         PermitHolderUndisturbed
<1>4. NoOrphanedLease
  BY DEF ClaimedInit, NoOrphanedLease
<1>5. epoch[Chat] > 0
  BY DEF ClaimedInit
<1>6. SendTypeOK
  <2>1. <<Sender, Mine, Chat>> \notin permits /\ held = NoSend
    BY DEF ClaimedInit, SendInit
  <2>2. line \in Seq(Transmission)
    BY DEF SendInit
  <2>3. at \in [Transmission -> SendStep]
        /\ told \in [Transmission -> {"nothing", "ok", "error"}]
    BY DEF SendInit, SendStep
  <2> QED
    BY <2>1, <2>2, <2>3 DEF SendInit, SendTypeOK
<1>7. ChainInv
  BY DEF SendInit, ChainInv, FirstIsBusy, AbandonedIsFenced,
         CrossedCannotCommit, AckedIsOver, Busy
<1> QED
  BY <1>1, <1>2, <1>3, <1>4, <1>5, <1>6, <1>7 DEF SendInv, StoreInv

\* Whatever the process and everybody else do to the store is a step of it.
LEMMA SendIsStoreStep ==
  ASSUME SendInv, [SendNext]_<<storeVars, sendVars>>
  PROVE  [StoreNext]_storeVars /\ epoch'[Chat] > 0
<1>0. epoch \in [Key -> Nat] /\ epoch[Chat] \in 1..epoch[Chat]
      /\ Sender \in Node /\ Mine \in Boot /\ Chat \in Key
  BY SenderAssumption DEF SendInv, StoreInv, StoreTypeOK
<1>1. CASE UNCHANGED storeVars
  BY <1>1 DEF SendInv, storeVars, leaseVars
<1>2. CASE OpenSend(Sender, Mine, Chat, epoch[Chat])
  <2>1. ServiceCall(Sender, Mine)
    BY <1>0, <1>2 DEF ServiceCall
  <2> QED
    BY <1>0, <1>2, <2>1 DEF StoreNext, SendInv, OpenSend, leaseVars
<1>3. CASE CloseSend(Sender, Mine, Chat)
  <2>1. ServiceCall(Sender, Mine)
    BY <1>0, <1>3 DEF ServiceCall
  <2> QED
    BY <1>0, <1>3, <2>1 DEF StoreNext, SendInv, CloseSend, leaseVars
<1>4. CASE OthersCall
  <2>1. ASSUME NEW n \in Node, NEW b \in Boot, TryAcquire(n, b, Chat)
        PROVE  StoreNext /\ epoch'[Chat] > 0
    <3>1. ServiceCall(n, b)
      BY <1>0, <2>1 DEF ServiceCall
    <3>2. epoch'[Chat] = epoch[Chat] + 1
      BY <1>0, <2>1 DEF TryAcquire
    <3> QED
      BY <1>0, <3>1, <3>2 DEF StoreNext
  <2>2. ASSUME NEW n \in Node, NEW b \in Boot, Renew(n, b, Chat, epoch[Chat])
        PROVE  StoreNext /\ epoch'[Chat] > 0
    <3>1. ServiceCall(n, b)
      BY <1>0, <2>2 DEF ServiceCall
    <3> QED
      BY <2>2, <3>1 DEF StoreNext, Renew, SendInv
  <2>3. ASSUME NEW n \in Node, NEW b \in Boot, ManualFence(n, b)
        PROVE  StoreNext /\ epoch'[Chat] > 0
    BY <2>3 DEF StoreNext, OperatorCall, ManualFence, SendInv, leaseVars
  <2>4. ASSUME NEW a \in Node, NEW n \in Node, NEW ab \in Boot, NEW b \in Boot,
               FencerCall(a, ab, n, b)
        PROVE  StoreNext /\ epoch'[Chat] > 0
    BY <2>4 DEF StoreNext, FencerCall, BeginFence, ConfirmFence, SendInv, leaseVars
  <2>5. ASSUME NEW n \in Node, DisableNode(n)
        PROVE  StoreNext /\ epoch'[Chat] > 0
    BY <2>5 DEF StoreNext, DisableNode, SendInv, leaseVars
  <2>6. CASE StoreTick
    BY <2>6 DEF StoreNext, StoreTick, SendInv
  <2>7. BootlessFence => StoreNext /\ epoch'[Chat] > 0
    BY DEF StoreNext, BootlessFence, BeginFence, SendInv, leaseVars
  <2> QED
    BY <1>4, <2>1, <2>2, <2>3, <2>4, <2>5, <2>6, <2>7 DEF OthersCall
<1>5. CASE UNCHANGED <<storeVars, sendVars>>
  BY <1>1, <1>5
<1>6. ASSUME NEW s \in Transmission, Called(s) \/ Sends(s) \/ Settles(s)
      PROVE  \/ UNCHANGED storeVars
             \/ OpenSend(Sender, Mine, Chat, epoch[Chat])
             \/ CloseSend(Sender, Mine, Chat)
  BY <1>6 DEF Called, Sends, Settles, Granted, Denied, Operates, TimesOut,
              Commits, CommitFails, RollsBack
<1>7. ASSUME Torn \/ DeadlinePasses \/ FencesItself
      PROVE  UNCHANGED storeVars \/ CloseSend(Sender, Mine, Chat)
  BY <1>7 DEF Torn, DeadlinePasses, FencesItself
<1> QED
  BY <1>1, <1>2, <1>3, <1>4, <1>5, <1>6, <1>7 DEF SendNext

LEMMA StoreInvHolds ==
  ASSUME SendInv, [SendNext]_<<storeVars, sendVars>>
  PROVE  StoreInv' /\ epoch'[Chat] > 0
BY SendIsStoreStep, StoreInvStep DEF SendInv

\* No step leaves the program's own bookkeeping ill-typed, and the transaction
\* the program thinks it holds is the one the database has open.
LEMMA SendTypeStep ==
  ASSUME SendInv, [SendNext]_<<storeVars, sendVars>>
  PROVE  SendTypeOK'
<1> USE SenderAssumption DEF SendTypeOK, SendStep, sendVars
<1>0. SendTypeOK
  BY DEF SendInv
<1>1. ASSUME NEW s \in Transmission, Called(s) PROVE SendTypeOK'
  <2>1. Append(line, s) \in Seq(Transmission)
    BY <1>0
  <2> QED
    BY <1>0, <1>1, <2>1 DEF Called, Goes, Ends, FenceNow, storeVars
<1>2. ASSUME NEW s \in Transmission, Granted(s) PROVE SendTypeOK'
  BY <1>0, <1>2 DEF Granted, Goes, OpenSend
<1>3. ASSUME NEW s \in Transmission, Denied(s) \/ TimesOut(s) PROVE SendTypeOK'
  BY <1>0, <1>3 DEF Denied, TimesOut, Goes, FenceNow, storeVars
<1>4. ASSUME NEW s \in Transmission, Operates(s) PROVE SendTypeOK'
  BY <1>0, <1>4 DEF Operates, Goes, FenceNow, storeVars
<1>5. ASSUME NEW s \in Transmission, Settles(s) PROVE SendTypeOK'
  BY <1>0, <1>5 DEF Settles, Goes, storeVars
<1>6. ASSUME NEW s \in Transmission, CommitFails(s) PROVE SendTypeOK'
  BY <1>0, <1>6 DEF CommitFails, Goes, FenceNow, CloseSend, storeVars
<1>7. ASSUME NEW s \in Transmission, Commits(s) \/ RollsBack(s) PROVE SendTypeOK'
  <2>1. line # <<>>
    BY <1>7 DEF Commits, RollsBack, SendInv, ChainInv, FirstIsBusy, Busy
  <2>2. Tail(line) \in Seq(Transmission)
    BY <1>0, <2>1
  <2> QED
    BY <1>0, <1>7, <2>2
    DEF Commits, RollsBack, Goes, Ends, Leaves, CloseSend, storeVars
<1>8. CASE Torn
  BY <1>0, <1>8 DEF Torn, CloseSend
<1>9. CASE DeadlinePasses \/ FencesItself
  BY <1>0, <1>9 DEF DeadlinePasses, FencesItself, FenceNow, storeVars
<1>10. CASE OthersCall
  <2>1. UNCHANGED permits
    BY <1>10 DEF OthersCall, ManualFence, TryAcquire, Renew, FencerCall,
                 BootlessFence, BeginFence, ConfirmFence, DisableNode, StoreTick
  <2>2. crossed' \subseteq Transmission
    BY <1>0, <1>10 DEF OthersCall
  <2> QED
    BY <1>0, <1>10, <2>1, <2>2 DEF OthersCall
<1>11. CASE UNCHANGED <<storeVars, sendVars>>
  BY <1>0, <1>11 DEF storeVars
<1> HIDE DEF SendTypeOK
<1> QED
  BY <1>1, <1>2, <1>3, <1>4, <1>5, <1>6, <1>7, <1>8, <1>9, <1>10, <1>11
  DEF SendNext, Sends

\* As long as a send has the permit the key is not taken from it, so only sends
\* without one can be crossed; and the chain lets nobody past its first.
LEMMA ChainStep ==
  ASSUME SendInv, [SendNext]_<<storeVars, sendVars>>
  PROVE  ChainInv'
<1> USE SenderAssumption
    DEF ChainInv, FirstIsBusy, AbandonedIsFenced, CrossedCannotCommit,
        AckedIsOver, Busy
<1>0. SendTypeOK /\ ChainInv
  BY DEF SendInv
<1> USE <1>0 DEF SendTypeOK, SendStep
<1>1. ASSUME NEW s \in Transmission, Called(s) PROVE ChainInv'
  <2>1. line # <<>> => Append(line, s) # <<>> /\ Head(Append(line, s)) = Head(line)
    OBVIOUS
  <2>2. s \notin going /\ s \notin crossed
    BY <1>1 DEF Called
  <2>3. FirstIsBusy'
    BY <1>1, <2>1 DEF Called, Goes, Ends
  <2>4. AbandonedIsFenced' /\ CrossedCannotCommit' /\ AckedIsOver'
    BY <1>1, <2>2 DEF Called, Goes, Ends, FenceNow
  <2> QED
    BY <2>3, <2>4
<1>2. ASSUME NEW s \in Transmission, Granted(s) PROVE ChainInv'
  BY <1>2 DEF Granted, First, Goes
<1>3. ASSUME NEW s \in Transmission, Denied(s) \/ TimesOut(s) PROVE ChainInv'
  BY <1>3 DEF Denied, TimesOut, First, Goes, FenceNow
<1>4. ASSUME NEW s \in Transmission, Operates(s) PROVE ChainInv'
  BY <1>4 DEF Operates, Goes, FenceNow
<1>5. ASSUME NEW s \in Transmission, Settles(s) PROVE ChainInv'
  BY <1>5 DEF Settles, Goes
<1>6. ASSUME NEW s \in Transmission, CommitFails(s) PROVE ChainInv'
  BY <1>6 DEF CommitFails, Goes, FenceNow
<1>7. ASSUME NEW s \in Transmission, Commits(s) \/ RollsBack(s) PROVE ChainInv'
  BY <1>7 DEF Commits, RollsBack, Goes, Ends, Leaves
<1>8. CASE Torn
  BY <1>8 DEF Torn
<1>9. CASE DeadlinePasses \/ FencesItself
  BY <1>9 DEF DeadlinePasses, FencesItself, FenceNow
<1>10. CASE OthersCall
  <2>1. UNCHANGED permits
    BY <1>10 DEF OthersCall, ManualFence, TryAcquire, Renew, FencerCall,
                 BootlessFence, BeginFence, ConfirmFence, DisableNode, StoreTick
  <2>2. PermitHolderUndisturbed'
    BY StoreInvHolds DEF StoreInv
  <2>3. held # NoSend => MineStill'
    BY <2>1, <2>2 DEF PermitHolderUndisturbed, MineStill
  <2>4. held # NoSend => crossed' = crossed
    BY <1>10, <2>3 DEF OthersCall
  <2>5. crossed' = crossed \/ crossed' = crossed \cup going
    BY <1>10 DEF OthersCall
  <2>6. UNCHANGED <<at, line, held, going, told, down>>
    BY <1>10 DEF OthersCall
  <2> QED
    BY <2>4, <2>5, <2>6
<1>11. CASE UNCHANGED <<storeVars, sendVars>>
  BY <1>11 DEF sendVars
<1> HIDE DEF ChainInv, SendTypeOK
<1> QED
  BY <1>1, <1>2, <1>3, <1>4, <1>5, <1>6, <1>7, <1>8, <1>9, <1>10, <1>11
  DEF SendNext, Sends

\* The types of the lane of protected sends, and of the store below it.
THEOREM SendTypeCorrect == SendSpec => [](StoreTypeOK /\ SendTypeOK)
<1>1. SendInv /\ [SendNext]_<<storeVars, sendVars>> => SendInv'
  BY StoreInvHolds, SendTypeStep, ChainStep DEF SendInv
<1>2. SendInv => StoreTypeOK /\ SendTypeOK
  BY DEF SendInv, StoreInv
<1> QED
  BY SendInitially, <1>1, <1>2, PTL DEF SendSpec

\* store.ts:50-77: no two operations overlap in a process that is not fenced,
\* and no send is acknowledged that ran while the key was not its process's.
THEOREM SendsStayShielded == SendSpec => []SendsAreShielded
<1>1. SendInv /\ [SendNext]_<<storeVars, sendVars>> => SendInv'
  BY StoreInvHolds, SendTypeStep, ChainStep DEF SendInv
<1>2. ASSUME SendInv PROVE SendsAreShielded
  <2>1. AckedWasShielded
    BY <1>2 DEF SendInv, SendTypeOK, ChainInv, AckedIsOver, AckedWasShielded
  <2>2. ASSUME down = "no" PROVE going \subseteq {Head(line)}
    BY <1>2, <2>2 DEF SendInv, SendTypeOK, ChainInv, FirstIsBusy,
                      AbandonedIsFenced, Busy
  <2>3. ASSUME down = "no" PROVE Cardinality(going) \in {0, 1}
    <3>1. going = {} \/ going = {Head(line)}
      BY <2>2, <2>3
    <3> QED
      BY <3>1, FS_EmptySet, FS_Singleton
  <2>4. OneAtATime
    BY <2>3 DEF OneAtATime
  <2> QED
    BY <2>1, <2>4 DEF SendsAreShielded
<1> QED
  BY SendInitially, <1>1, <1>2, PTL DEF SendSpec

-----------------------------------------------------------------------------
(***************************************************************************)
(* The approvals.                                                          *)
(***************************************************************************)
\* What has been done, or is on its way, under an approval.
Done(a) == posted[a] + servers[a] + acts[a]

\* DoneAtMostOnce without the cardinality.
OneUse ==
  \A a \in Approval :
    /\ Done(a) \in {0, 1}
    /\ \A c \in Caller : caller[c] = a => a \in consumed /\ Done(a) = 0
    /\ \A c, d \in Caller : caller[c] = a /\ caller[d] = a => c = d
    /\ a \notin consumed => Done(a) = 0

\* A row is there before it is spent, and then stays as it is.
SpentIsApproved == \A a \in consumed : approval[a] # NoAction

ApprovalInv ==
  /\ StoreTypeOK
  /\ ApprovalTypeOK
  /\ OneUse
  /\ SpentIsApproved
  /\ SpentWithItsEffect

LEMMA ApprovalInitially == StoreInit /\ ApprovalInit => ApprovalInv
<1> SUFFICES ASSUME StoreInit, ApprovalInit PROVE ApprovalInv
  OBVIOUS
<1> USE NoActionAssumption DEF ApprovalInit
<1>1. StoreTypeOK
  BY StoreInitially DEF StoreInv
<1>2. ApprovalTypeOK
  BY DEF ApprovalTypeOK
<1>3. OneUse
  BY DEF OneUse, Done
<1>4. SpentIsApproved /\ SpentWithItsEffect
  BY DEF SpentIsApproved, SpentWithItsEffect
<1> QED
  BY <1>1, <1>2, <1>3, <1>4 DEF ApprovalInv

\* What operators and new processes do to the store are steps of it.
LEMMA ApprovalIsStoreStep ==
  ASSUME [ApprovalNext]_<<storeVars, approvalVars>>
  PROVE  [StoreNext]_storeVars
<1>1. ASSUME NEW a \in Approval, NEW kind \in NodeAction, NEW n \in Node, NEW b \in Boot,
             OperatorNodeAction(a, kind, n, b)
      PROVE  OperatorCall(n, b) \/ UNCHANGED storeVars
  BY <1>1 DEF OperatorNodeAction, NodeActs, OperatorCall, FencesAlready
<1>2. ASSUME NEW n \in Node, NEW b \in Boot, Registers(n, b) PROVE ServiceCall(n, b)
  BY <1>2 DEF Registers, ServiceCall
<1>3. ASSUME NEW a \in Approval,
             \/ \E subject \in Subject : Approves(a, subject)
             \/ Lapses(a) \/ ProviderActs(a)
             \/ \E c \in Caller : Provision(c, a)
      PROVE  UNCHANGED storeVars
  BY <1>3 DEF Approves, Lapses, ProviderActs, Provision
<1>4. ASSUME NEW c \in Caller, Posts(c) \/ CallerEnds(c) PROVE UNCHANGED storeVars
  BY <1>4 DEF Posts, CallerEnds
<1> QED
  BY <1>1, <1>2, <1>3, <1>4 DEF ApprovalNext, StoreNext

\* No function of the store, of those operators and new processes call, takes
\* back a fence or a node's right to fence.
LEMMA EffectsLast ==
  ASSUME StoreTypeOK, [ApprovalNext]_<<storeVars, approvalVars>>
  PROVE  /\ fences \subseteq fences'
         /\ \A n \in Node : mayFence[n] => mayFence'[n]
<1> USE DEF StoreTypeOK, storeVars, nodeVars
<1>1. ASSUME NEW a \in Approval, NEW kind \in NodeAction, NEW n \in Node, NEW b \in Boot,
             OperatorNodeAction(a, kind, n, b)
      PROVE  fences \subseteq fences' /\ \A m \in Node : mayFence[m] => mayFence'[m]
  BY <1>1 DEF OperatorNodeAction, NodeActs, FencesAlready, ManualFence, Rejoin,
              ActivateFencing
<1>2. ASSUME NEW n \in Node, NEW b \in Boot, Registers(n, b)
      PROVE  UNCHANGED <<fences, mayFence>>
  BY <1>2 DEF Registers, RegisterNode
<1>3. ASSUME NEW a \in Approval,
             \/ \E subject \in Subject : Approves(a, subject)
             \/ Lapses(a) \/ ProviderActs(a)
             \/ \E c \in Caller : Provision(c, a)
      PROVE  UNCHANGED <<fences, mayFence>>
  BY <1>3 DEF Approves, Lapses, ProviderActs, Provision
<1>4. ASSUME NEW c \in Caller, Posts(c) \/ CallerEnds(c)
      PROVE  UNCHANGED <<fences, mayFence>>
  BY <1>4 DEF Posts, CallerEnds
<1> HIDE DEF StoreTypeOK
<1> QED
  BY <1>1, <1>2, <1>3, <1>4 DEF ApprovalNext

\* What an approval of an action was spent on: SpentWithItsEffect, for one.
HadEffect(a) ==
  /\ acts[a] = 1
  /\ approval[a].kind = "activate-fencing" => mayFence[approval[a].node]
  /\ approval[a].kind # "activate-fencing" =>
       <<approval[a].node, approval[a].boot>> \in fences

LEMMA EffectIsKept ==
  ASSUME ApprovalInv, [ApprovalNext]_<<storeVars, approvalVars>>,
         NEW a \in consumed, approval'[a] = approval[a], acts'[a] = acts[a],
         approval[a].kind \in NodeAction
  PROVE  HadEffect(a)'
<1>1. approval[a] \in Subject
  BY DEF ApprovalInv, ApprovalTypeOK, SpentIsApproved
<1>2. approval[a].node \in Node
  BY <1>1 DEF Subject, NodeAction
<1>3. HadEffect(a)
  BY DEF ApprovalInv, SpentWithItsEffect, HadEffect
<1>4. mayFence[approval[a].node] => mayFence'[approval[a].node]
  BY <1>2, EffectsLast DEF ApprovalInv
<1>5. fences \subseteq fences'
  BY EffectsLast DEF ApprovalInv
<1> QED
  BY <1>3, <1>4, <1>5, Zenon DEF HadEffect

LEMMA EffectsSuffice ==
  ASSUME \A a \in consumed' : approval'[a].kind \in NodeAction => HadEffect(a)'
  PROVE  SpentWithItsEffect'
BY DEF HadEffect, SpentWithItsEffect

LEMMA ApprovalInvStep ==
  ASSUME ApprovalInv, [ApprovalNext]_<<storeVars, approvalVars>>
  PROVE  ApprovalInv'
<1> DEFINE Core == ApprovalTypeOK /\ OneUse /\ SpentIsApproved
           Kept == \A x \in consumed : approval'[x] = approval[x] /\ acts'[x] = acts[x]
<1>0. StoreTypeOK'
  BY ApprovalIsStoreStep, StoreTypeStep DEF ApprovalInv
<1> USE NoActionAssumption DEF ApprovalInv, ApprovalTypeOK, OneUse, Done,
        SpentIsApproved, approvalVars
<1>1. ASSUME NEW a \in Approval, NEW subject \in Subject, Approves(a, subject)
      PROVE  Core' /\ Kept /\ consumed' = consumed
  BY <1>1 DEF Approves
<1>2. ASSUME NEW a \in Approval, Lapses(a) PROVE Core' /\ Kept /\ consumed' = consumed
  BY <1>2 DEF Lapses
<1>3. ASSUME NEW a \in Approval, ProviderActs(a) PROVE Core' /\ Kept /\ consumed' = consumed
  BY <1>3 DEF ProviderActs
<1>4. ASSUME NEW c \in Caller, Posts(c) PROVE Core' /\ Kept /\ consumed' = consumed
  BY <1>4 DEF Posts
<1>5. ASSUME NEW c \in Caller, CallerEnds(c) PROVE Core' /\ Kept /\ consumed' = consumed
  BY <1>5 DEF CallerEnds
<1>6. ASSUME NEW n \in Node, NEW b \in Boot, Registers(n, b) PROVE Core' /\ Kept /\ consumed' = consumed
  BY <1>6 DEF Registers
<1>7. ASSUME UNCHANGED <<storeVars, approvalVars>>
      PROVE  Core' /\ Kept /\ consumed' = consumed
  BY <1>7
<1>8. ASSUME NEW c \in Caller, NEW a \in Approval, Provision(c, a)
      PROVE  Core' /\ SpentWithItsEffect'
  <2>1. Core'
    BY <1>8 DEF Provision, ConsumeApproval
  <2>2. approval[a].kind \notin NodeAction
    BY <1>8 DEF Provision, ConsumeApproval, NodeAction
  <2>3. consumed' = consumed \cup {a} /\ UNCHANGED <<approval, acts>>
    BY <1>8 DEF Provision, ConsumeApproval
  <2>4. SpentWithItsEffect'
    BY <2>2, <2>3, EffectIsKept, EffectsSuffice
  <2> QED
    BY <2>1, <2>4
<1>9. ASSUME NEW a \in Approval, NEW kind \in NodeAction, NEW n \in Node, NEW b \in Boot,
             OperatorNodeAction(a, kind, n, b)
      PROVE  Core' /\ SpentWithItsEffect'
  <2>1. /\ a \notin consumed /\ approval[a] # NoAction
        /\ consumed' = consumed \cup {a}
        /\ acts' = [acts EXCEPT ![a] = acts[a] + 1]
        /\ UNCHANGED <<approval, lapsed, caller, posted, servers>>
    BY <1>9 DEF OperatorNodeAction, ConsumeApproval
  <2>2. acts[a] = 0 /\ posted[a] = 0 /\ servers[a] = 0
    <3>1. acts[a] \in Nat /\ posted[a] \in Nat /\ servers[a] \in Nat
      OBVIOUS
    <3>2. posted[a] + servers[a] + acts[a] = 0
      BY <2>1
    <3> QED
      BY <3>1, <3>2
  <2>3. Core'
    <3>1. ApprovalTypeOK'
      BY <2>1
    <3>2. /\ \A c \in Caller : caller[c] # a
          /\ posted[a] + servers[a] + acts'[a] = 1
      BY <2>1, <2>2
    <3>3. ASSUME NEW x \in Approval, x # a PROVE acts'[x] = acts[x]
      BY <2>1, <3>3
    <3>4. OneUse'
      BY <2>1, <3>2, <3>3
    <3>5. SpentIsApproved'
      BY <2>1
    <3> QED
      BY <3>1, <3>4, <3>5
  <2>4. approval[a].kind = kind /\ approval[a].node = n /\ approval[a].boot = b
    BY <1>9 DEF OperatorNodeAction, ConsumeApproval
  <2>5. kind = "activate-fencing" => mayFence'[n]
    BY <1>9 DEF OperatorNodeAction, NodeActs, NodeAction, ActivateFencing,
                FencesAlready, StoreTypeOK, storeVars, nodeVars
  <2>6. kind # "activate-fencing" => <<n, b>> \in fences'
    BY <1>9 DEF OperatorNodeAction, NodeActs, NodeAction, ManualFence, Rejoin
  <2>7. acts'[a] = 1 /\ approval' = approval
    BY <2>1, <2>2
  <2>8. HadEffect(a)'
    BY <2>4, <2>5, <2>6, <2>7 DEF HadEffect
  <2>9. SpentWithItsEffect'
    BY <2>1, <2>8, EffectIsKept, EffectsSuffice
  <2> QED
    BY <2>3, <2>9
<1>10. ASSUME Kept, consumed' = consumed PROVE SpentWithItsEffect'
  BY <1>10, EffectIsKept, EffectsSuffice
<1> HIDE DEF ApprovalInv, ApprovalTypeOK, OneUse, SpentIsApproved
<1>11. Core' /\ SpentWithItsEffect'
  BY <1>1, <1>2, <1>3, <1>4, <1>5, <1>6, <1>7, <1>8, <1>9, <1>10
  DEF ApprovalNext
<1> QED
  BY <1>0, <1>11 DEF ApprovalInv

\* test-local.cjs:143 "approved provisioning is one-shot", and an action on a node
\* spends its approval only together with its effect.
THEOREM ApprovalsAreSpentOnce == ApprovalSpec => []ApprovalIsSpentOnce
<1>1. ASSUME ApprovalInv PROVE DoneAtMostOnce
  <2> SUFFICES ASSUME NEW a \in Approval
               PROVE  LET spenders == {c \in Caller : caller[c] = a} IN
                      /\ Cardinality(spenders) + posted[a] + servers[a] + acts[a] <= 1
                      /\ a \notin consumed =>
                           /\ \A c \in Caller : caller[c] # a
                           /\ posted[a] + servers[a] + acts[a] = 0
    BY DEF DoneAtMostOnce
  <2> DEFINE spenders == {c \in Caller : caller[c] = a}
  <2>1. posted[a] \in Nat /\ servers[a] \in Nat /\ acts[a] \in Nat
    BY <1>1 DEF ApprovalInv, ApprovalTypeOK
  <2>2. CASE spenders = {}
    <3>1. Cardinality(spenders) = 0
      BY <2>2, FS_EmptySet
    <3>2. Done(a) <= 1 /\ (a \notin consumed => Done(a) = 0)
      BY <1>1, <2>1 DEF ApprovalInv, OneUse
    <3> QED
      BY <2>1, <2>2, <3>1, <3>2 DEF Done
  <2>3. ASSUME NEW c \in spenders PROVE spenders = {c} /\ Done(a) = 0 /\ a \in consumed
    BY <1>1, <2>3 DEF ApprovalInv, OneUse
  <2>4. CASE spenders # {}
    <3>1. PICK c \in spenders : TRUE
      BY <2>4
    <3>2. Cardinality(spenders) = 1
      BY <2>3, <3>1, FS_Singleton
    <3> QED
      BY <2>1, <2>3, <3>1, <3>2 DEF Done
  <2> QED
    BY <2>2, <2>4
<1>2. ApprovalInv => ApprovalIsSpentOnce
  BY <1>1 DEF ApprovalIsSpentOnce, ApprovalInv
<1> QED
  BY ApprovalInitially, ApprovalInvStep, <1>2, PTL DEF ApprovalSpec
=============================================================================
