---------------------------- MODULE HaApprovals ----------------------------
(***************************************************************************)
(* What an operator has approved, and what is done with it: the table      *)
(* operator_approvals with consume_approval() and operator_node_action()   *)
(* of wa_ha, and provision() of src/src/ha/providers.ts, which spends an   *)
(* approval before it asks the provider for a machine that costs money.    *)
(* Operators repeat what they hear nothing of, answers are lost, and the   *)
(* provider may carry out a request long after its caller gave up.         *)
(***************************************************************************)
EXTENDS HaStore, FiniteSets

CONSTANTS
  Approval, \* operator_approvals.action_id
  Caller,   \* runs of scripts/ha/operator.cjs provision, side by side
  NoAction  \* no row with that action_id, or nothing spent

ASSUME NoActionAssumption == NoAction \notin Approval

VARIABLES
  approval, \* the row: kind and target, with the boot its hash stands for
  consumed, \* consumed_at is set
  lapsed,   \* expires_at is past
  caller,   \* the approval a call of provision() has spent, before its request
  posted,   \* requests on their way to the provider, by the approval's label
  servers,  \* machines the provider has made, by the approval's label
  acts      \* history: actions on nodes done under each approval

approvalVars == <<approval, consumed, lapsed, caller, posted, servers, acts>>

NodeAction == {"manual-fence", "rejoin", "activate-fencing"}

Subject ==
  [kind : NodeAction, node : Node, boot : Boot] \cup [kind : {"provision"}]

ApprovalTypeOK ==
  /\ approval \in [Approval -> Subject \cup {NoAction}]
  /\ consumed \subseteq Approval /\ lapsed \subseteq Approval
  /\ caller \in [Caller -> Approval \cup {NoAction}]
  /\ {posted, servers, acts} \subseteq [Approval -> Nat]

ApprovalInit ==
  /\ approval = [a \in Approval |-> NoAction]
  /\ consumed = {} /\ lapsed = {}
  /\ caller = [c \in Caller |-> NoAction]
  /\ posted = [a \in Approval |-> 0]
  /\ servers = [a \in Approval |-> 0]
  /\ acts = [a \in Approval |-> 0]

(* The schema's owner writes the row; external to the functions.           *)
Approves(a, subject) ==
  /\ approval[a] = NoAction
  /\ approval' = [approval EXCEPT ![a] = subject]
  /\ UNCHANGED <<storeVars, consumed, lapsed, caller, posted, servers, acts>>

Lapses(a) ==
  /\ approval[a] # NoAction /\ a \notin consumed \cup lapsed
  /\ lapsed' = lapsed \cup {a}
  /\ UNCHANGED <<storeVars, approval, consumed, caller, posted, servers, acts>>

\* mutant: the row is marked without a look at consumed_at
ConsumeAgain(a, kind) ==
  /\ approval[a] # NoAction /\ approval[a].kind = kind /\ a \notin lapsed
  /\ consumed' = consumed \cup {a}

(* consume_approval(): one UPDATE, which waits for another of the same row *)
(* and then looks at it again.  Of the callers in this repository only     *)
(* provision() calls it by itself; an operator who does so by hand can     *)
(* spend an approval of any kind without its effect.                       *)
ConsumeApproval(a, kind) ==
  /\ approval[a] # NoAction /\ approval[a].kind = kind
  /\ a \notin consumed /\ a \notin lapsed
  /\ consumed' = consumed \cup {a}

(* activate-fencing on a node that may fence already changes nothing.      *)
FencesAlready(n, b) ==
  mayFence[n] /\ NodeRowFree(n) /\ boot[n] = b /\ UNCHANGED storeVars

NodeActs(kind, n, b) ==
  \/ kind = "manual-fence" /\ ManualFence(n, b)
  \/ kind = "rejoin" /\ Rejoin(n, b)
  \/ kind = "activate-fencing" /\ (ActivateFencing(n, b) \/ FencesAlready(n, b))

(* operator_node_action(): one transaction, so an action that raises does  *)
(* not spend the approval either.  The hash binds kind, node and boot.     *)
OperatorNodeAction(a, kind, n, b) ==
  /\ ConsumeApproval(a, kind)
  /\ approval[a].node = n /\ approval[a].boot = b
  /\ NodeActs(kind, n, b)
  /\ acts' = [acts EXCEPT ![a] = @ + 1]
  /\ UNCHANGED <<approval, lapsed, caller, posted, servers>>

(* provision() up to its request.  Without the answer of the database it   *)
(* throws, whether the approval is spent or not.                           *)
Provision(c, a) ==
  /\ caller[c] = NoAction
  /\ ConsumeApproval(a, "provision")
  /\ caller' \in {caller, [caller EXCEPT ![c] = a]}
  /\ UNCHANGED <<storeVars, approval, lapsed, posted, servers, acts>>

(* The one attempt.  What comes back, or does not in 10 seconds, is only   *)
(* reported, so the call needs no further state.                           *)
Posts(c) ==
  /\ caller[c] # NoAction
  /\ posted' = [posted EXCEPT ![caller[c]] = @ + 1]
  /\ caller' = [caller EXCEPT ![c] = NoAction]
  /\ UNCHANGED <<storeVars, approval, consumed, lapsed, servers, acts>>

CallerEnds(c) ==
  /\ caller[c] # NoAction
  /\ caller' = [caller EXCEPT ![c] = NoAction]
  /\ UNCHANGED <<storeVars, approval, consumed, lapsed, posted, servers, acts>>

(* The provider; external.  A request is lost, refused or carried out,     *)
(* however late.                                                           *)
ProviderActs(a) ==
  /\ posted[a] > 0
  /\ posted' = [posted EXCEPT ![a] = @ - 1]
  /\ servers' \in {servers, [servers EXCEPT ![a] = @ + 1]}
  /\ UNCHANGED <<storeVars, approval, consumed, lapsed, caller, acts>>

(* Processes come and go meanwhile.                                        *)
Registers(n, b) == RegisterNode(n, b) /\ UNCHANGED approvalVars

ApprovalNext ==
  \/ \E a \in Approval :
       \/ \E subject \in Subject : Approves(a, subject)
       \/ Lapses(a) \/ ProviderActs(a)
       \/ \E c \in Caller : Provision(c, a)
       \/ \E kind \in NodeAction, n \in Node, b \in Boot :
            OperatorNodeAction(a, kind, n, b)
  \/ \E c \in Caller : Posts(c) \/ CallerEnds(c)
  \/ \E n \in Node, b \in Boot : Registers(n, b)

ApprovalSpec ==
  StoreInit /\ ApprovalInit /\ [][ApprovalNext]_<<storeVars, approvalVars>>

-----------------------------------------------------------------------------
(* Properties.                                                             *)

(* test-local.cjs:143 "approved provisioning is one-shot": whoever repeats *)
(* what, and however late the provider is, there is at most one machine,   *)
(* request or call under way per approval, and at most one action.         *)
DoneAtMostOnce ==
  \A a \in Approval :
    /\ Cardinality({c \in Caller : caller[c] = a}) + posted[a] + servers[a]
         + acts[a] <= 1
    /\ a \notin consumed =>
         /\ \A c \in Caller : caller[c] # a
         /\ posted[a] + servers[a] + acts[a] = 0

(* operator_node_action() is all or nothing: an approval of it is spent    *)
(* only with its effect, on the very boot it was given for.                *)
SpentWithItsEffect ==
  \A a \in consumed : approval[a].kind \in NodeAction =>
    /\ acts[a] = 1
    /\ IF approval[a].kind = "activate-fencing" THEN mayFence[approval[a].node]
       ELSE <<approval[a].node, approval[a].boot>> \in fences

ApprovalIsSpentOnce == DoneAtMostOnce /\ SpentWithItsEffect
=============================================================================
