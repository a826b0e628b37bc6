------------------------------ MODULE HaStore ------------------------------
(***************************************************************************)
(* The shared database of the active/standby deployment: the tables of     *)
(* schema wa_ha and one action per SECURITY DEFINER function that changes  *)
(* them (src/supabase/migrations/20261014073436_wa_ha_phase1.sql).  The    *)
(* functions are the only way a runtime login changes the tables, so this  *)
(* module lets any node call any of them, with any arguments, old ones     *)
(* included, at any time; HaCluster restricts the callers to the program.  *)
(*                                                                         *)
(* A function is one step: identity() takes the caller's node row FOR      *)
(* SHARE, whatever changes a node row takes it FOR UPDATE, and a lease is  *)
(* read FOR UPDATE, or under the key's transaction advisory lock.  The     *)
(* exception is check_send, whose transaction stays open, with both locks, *)
(* while a message is being transmitted: permits holds those transactions. *)
(*                                                                         *)
(* expires_at is kept as ttl, the time left until it, so that              *)
(* expires_at > clock_timestamp() is ttl > 0 and -infinity is 0.  A lease  *)
(* row that does not exist yet reads as never owned, with epoch 0.         *)
(***************************************************************************)
EXTENDS Naturals

CONSTANTS
  Node,      \* nodes.node_id, one service login and one fencer login each
  Boot,      \* boot UUIDs: each process draws a fresh one (randomUUID)
  Key,       \* leases.session_key, the cluster lease among them
  Item,      \* auth_state.item_key
  NoBoot,    \* nodes.boot_id IS NULL
  NoOwner,   \* leases.owner_node IS NULL
  LeaseTtl   \* the 60 seconds of a grant or a renewal, in clock units

ASSUME NoBootAssumption == NoBoot \notin Boot
ASSUME NoOwnerAssumption == NoOwner \notin (Node \X Boot)
ASSUME LeaseTtlAssumption == LeaseTtl \in Nat \ {0}

VARIABLES
  enabled,     \* nodes.enabled
  state,       \* nodes.state
  boot,        \* nodes.boot_id
  mayFence,    \* nodes.fencing_enabled
  owner,       \* leases.(owner_node, owner_boot)
  epoch,       \* leases.epoch
  ttl,         \* leases.expires_at - clock_timestamp(), 0 when past
  fences,      \* table fences
  auth,        \* auth_state: the items, as the epoch of their writer, 0: no row
  catalog,     \* table catalog
  registered,  \* boots whose one call of register_node has been answered
  permits      \* open send transactions: <<node, boot, key>>

nodeVars == <<enabled, state, boot, mayFence>>
leaseVars == <<owner, epoch, ttl>>
dataVars == <<auth, catalog>>
storeVars == <<nodeVars, leaseVars, fences, dataVars, registered, permits>>

NodeState == {"ready", "fencing", "fenced"}
CatalogEntry == {"none", "restore", "stopped"}

StoreTypeOK ==
  /\ enabled \in [Node -> BOOLEAN]
  /\ state \in [Node -> NodeState]
  /\ boot \in [Node -> Boot \cup {NoBoot}]
  /\ mayFence \in [Node -> BOOLEAN]
  /\ owner \in [Key -> (Node \X Boot) \cup {NoOwner}]
  /\ epoch \in [Key -> Nat]
  /\ ttl \in [Key -> 0..LeaseTtl]
  /\ fences \subseteq Node \X Boot
  /\ auth \in [Key -> [Item -> Nat]]
  /\ catalog \in [Key -> CatalogEntry]
  /\ registered \subseteq Boot
  /\ permits \subseteq Node \X Boot \X Key

StoreInit ==
  /\ enabled = [n \in Node |-> TRUE]
  /\ state = [n \in Node |-> "ready"]
  /\ boot = [n \in Node |-> NoBoot]
  /\ mayFence = [n \in Node |-> FALSE]
  /\ owner = [k \in Key |-> NoOwner]
  /\ epoch = [k \in Key |-> 0]
  /\ ttl = [k \in Key |-> 0]
  /\ fences = {}
  /\ auth = [k \in Key |-> [i \in Item |-> 0]]
  /\ catalog = [k \in Key |-> "none"]
  /\ registered = {}
  /\ permits = {}
-----------------------------------------------------------------------------
\* identity(): the calling login's node is enabled, ready and on this boot.
Identity(n, b) ==
  /\ enabled[n]
  /\ state[n] = "ready"
  /\ boot[n] = b

\* check_lease() and check_send(): identity, and an unexpired lease of this
\* node, boot and epoch.
CheckLease(n, b, k, e) ==
  /\ Identity(n, b)
  /\ owner[k] = <<n, b>>
  /\ epoch[k] = e
  /\ ttl[k] > 0

\* The three refusals and the two grants of try_acquire(), in its order.
AnyLive(n, b, k) == ttl[k] > 0  \* mutant: whose lease it is is not compared
OwnsLive(n, b, k) == owner[k] = <<n, b>> /\ ttl[k] > 0
LeaseLive(k) == ttl[k] > 0
NeverUnfenced(k) == FALSE  \* mutant: an expired lease is up for grabs
OwnerUnfenced(k) == owner[k] # NoOwner /\ owner[k] \notin fences

\* A send transaction of n holds its node row FOR SHARE, and one for k holds
\* the advisory lock of k.
RowAlwaysFree(n) == TRUE  \* mutant: a send transaction takes no row lock
NodeRowFree(n) == \A b \in Boot, k \in Key : <<n, b, k>> \notin permits
KeyFree(k) == \A n \in Node, b \in Boot : <<n, b, k>> \notin permits

\* register_node().  A process calls it once, with the boot it drew.
RegisterNode(n, b) ==
  /\ b \notin registered
  /\ NodeRowFree(n)
  /\ enabled[n]
  /\ state[n] = "ready"
  /\ boot[n] = NoBoot \/ boot[n] = b
  /\ boot' = [boot EXCEPT ![n] = b]
  /\ registered' = registered \cup {b}
  /\ UNCHANGED <<enabled, state, mayFence, leaseVars, fences, dataVars, permits>>

\* try_acquire() that hands the key over.
TryAcquire(n, b, k) ==
  /\ Identity(n, b)
  /\ KeyFree(k)
  /\ ~OwnsLive(n, b, k)
  /\ ~LeaseLive(k)
  /\ ~OwnerUnfenced(k)
  /\ owner' = [owner EXCEPT ![k] = <<n, b>>]
  /\ epoch' = [epoch EXCEPT ![k] = @ + 1]
  /\ ttl' = [ttl EXCEPT ![k] = LeaseTtl]
  /\ UNCHANGED <<nodeVars, fences, dataVars, registered, permits>>

\* mutant: a renewal adds its 60 seconds to the expiry it finds
RenewAdds(n, b, k, e) ==
  /\ CheckLease(n, b, k, e)
  /\ ttl' = [ttl EXCEPT ![k] = @ + LeaseTtl]
  /\ UNCHANGED <<nodeVars, owner, epoch, fences, dataVars, registered, permits>>

\* mutant: a renewal checks the lease and extends nothing
RenewForgets(n, b, k, e) ==
  /\ CheckLease(n, b, k, e)
  /\ UNCHANGED storeVars

\* renew()
Renew(n, b, k, e) ==
  /\ CheckLease(n, b, k, e)
  /\ ttl' = [ttl EXCEPT ![k] = LeaseTtl]
  /\ UNCHANGED <<nodeVars, owner, epoch, fences, dataVars, registered, permits>>

\* write_auth(): put upserts, del deletes.
WriteAuth(n, b, k, e, put, del) ==
  /\ CheckLease(n, b, k, e)
  /\ auth' = [auth EXCEPT ![k] = [i \in Item |->
                IF i \in del THEN 0 ELSE IF i \in put THEN e ELSE @[i]]]
  /\ UNCHANGED <<nodeVars, leaseVars, fences, catalog, registered, permits>>

\* put_catalog(): the entry, and with it the purge of the key's auth rows.
PutCatalog(n, b, k, e, restore, purge) ==
  /\ CheckLease(n, b, k, e)
  /\ catalog' = [catalog EXCEPT ![k] = IF restore THEN "restore" ELSE "stopped"]
  /\ auth' = IF purge THEN [auth EXCEPT ![k] = [i \in Item |-> 0]] ELSE auth
  /\ UNCHANGED <<nodeVars, leaseVars, fences, registered, permits>>

\* check_send() inside the transaction of sendWithPermit, which stays open.
OpenSend(n, b, k, e) ==
  /\ KeyFree(k)
  /\ CheckLease(n, b, k, e)
  /\ permits' = permits \cup {<<n, b, k>>}
  /\ UNCHANGED <<nodeVars, leaseVars, fences, dataVars, registered>>

\* COMMIT or ROLLBACK, by the client, by idle_in_transaction_session_timeout
\* or because the connection was lost.
CloseSend(n, b, k) ==
  /\ <<n, b, k>> \in permits
  /\ permits' = permits \ {<<n, b, k>>}
  /\ UNCHANGED <<nodeVars, leaseVars, fences, dataVars, registered>>

\* fencer_identity()
FencerIdentity(a, ab) == Identity(a, ab) /\ mayFence[a]

\* mutant: the node to fence may still hold a lease
BeginFenceEarly(a, ab, n, b) ==
  /\ FencerIdentity(a, ab)
  /\ a # n
  /\ NodeRowFree(n)
  /\ boot[n] = b
  /\ enabled' = [enabled EXCEPT ![n] = FALSE]
  /\ state' = [state EXCEPT ![n] = "fencing"]
  /\ UNCHANGED <<boot, mayFence, leaseVars, fences, dataVars, registered, permits>>

\* begin_fence(): node a, on boot ab, starts fencing boot b of node n, which
\* may have none: a boot that is NULL is not distinct from another.
BeginFence(a, ab, n, b) ==
  /\ FencerIdentity(a, ab)
  /\ a # n
  /\ NodeRowFree(n)
  /\ boot[n] = b
  /\ \A k \in Key : ~OwnsLive(n, b, k)
  /\ enabled' = [enabled EXCEPT ![n] = FALSE]
  /\ state' = [state EXCEPT ![n] = "fencing"]
  /\ UNCHANGED <<boot, mayFence, leaseVars, fences, dataVars, registered, permits>>

\* mutant: the confirmation leaves no fence record
ConfirmFenceForgets(a, ab, n, b) ==
  /\ FencerIdentity(a, ab)
  /\ NodeRowFree(n)
  /\ boot[n] = b
  /\ state[n] = "fencing"
  /\ enabled' = [enabled EXCEPT ![n] = FALSE]
  /\ state' = [state EXCEPT ![n] = "fenced"]
  /\ UNCHANGED <<boot, mayFence, leaseVars, fences, dataVars, registered, permits>>

\* confirm_fence(): the provider's evidence that n is off has arrived.
ConfirmFence(a, ab, n, b) ==
  /\ FencerIdentity(a, ab)
  /\ NodeRowFree(n)
  /\ boot[n] = b
  /\ state[n] = "fencing"
  /\ fences' = fences \cup {<<n, b>>}
  /\ enabled' = [enabled EXCEPT ![n] = FALSE]
  /\ state' = [state EXCEPT ![n] = "fenced"]
  /\ UNCHANGED <<boot, mayFence, leaseVars, dataVars, registered, permits>>

\* operator_node_action('manual-fence'): no lease is looked at.
ManualFence(n, b) ==
  /\ NodeRowFree(n)
  /\ boot[n] = b
  /\ enabled' = [enabled EXCEPT ![n] = FALSE]
  /\ state' = [state EXCEPT ![n] = "fenced"]
  /\ fences' = fences \cup {<<n, b>>}
  /\ UNCHANGED <<boot, mayFence, leaseVars, dataVars, registered, permits>>

\* mutant: a node rejoins with the boot that was fenced
RejoinKeepsBoot(n, b) ==
  /\ NodeRowFree(n)
  /\ boot[n] = b
  /\ <<n, b>> \in fences
  /\ enabled' = [enabled EXCEPT ![n] = TRUE]
  /\ state' = [state EXCEPT ![n] = "ready"]
  /\ UNCHANGED <<boot, mayFence, leaseVars, fences, dataVars, registered, permits>>

\* mutant: a node rejoins without a fence record of its boot
RejoinUnfenced(n, b) ==
  /\ NodeRowFree(n)
  /\ boot[n] = b
  /\ enabled' = [enabled EXCEPT ![n] = TRUE]
  /\ state' = [state EXCEPT ![n] = "ready"]
  /\ boot' = [boot EXCEPT ![n] = NoBoot]
  /\ UNCHANGED <<mayFence, leaseVars, fences, dataVars, registered, permits>>

\* operator_node_action('rejoin')
Rejoin(n, b) ==
  /\ NodeRowFree(n)
  /\ boot[n] = b
  /\ <<n, b>> \in fences
  /\ enabled' = [enabled EXCEPT ![n] = TRUE]
  /\ state' = [state EXCEPT ![n] = "ready"]
  /\ boot' = [boot EXCEPT ![n] = NoBoot]
  /\ UNCHANGED <<mayFence, leaseVars, fences, dataVars, registered, permits>>

\* operator_node_action('activate-fencing')
ActivateFencing(n, b) ==
  /\ NodeRowFree(n)
  /\ boot[n] = b
  /\ ~mayFence[n]
  /\ mayFence' = [mayFence EXCEPT ![n] = TRUE]
  /\ UNCHANGED <<enabled, state, boot, leaseVars, fences, dataVars, registered, permits>>

\* The schema's owner disables a node by hand ("DB disable" in the runbook
\* and in the HA drill); external to the SQL functions.
DisableNode(n) ==
  /\ NodeRowFree(n)
  /\ enabled[n]
  /\ enabled' = [enabled EXCEPT ![n] = FALSE]
  /\ UNCHANGED <<state, boot, mayFence, leaseVars, fences, dataVars, registered, permits>>

Earlier(t) == IF t = 0 THEN 0 ELSE t - 1

\* clock_timestamp() advances: every expiry comes one unit nearer.
StoreTick ==
  /\ \E k \in Key : ttl[k] > 0
  /\ ttl' = [k \in Key |-> Earlier(ttl[k])]
  /\ UNCHANGED <<nodeVars, owner, epoch, fences, dataVars, registered, permits>>
-----------------------------------------------------------------------------
\* Calls by the service login of n, with any boot and, for a key, any epoch
\* ever handed out.
ServiceCall(n, b) ==
  \/ RegisterNode(n, b)
  \/ \E k \in Key :
       \/ TryAcquire(n, b, k)
       \/ CloseSend(n, b, k)
       \/ \E e \in 1..epoch[k] :
            \/ Renew(n, b, k, e)
            \/ OpenSend(n, b, k, e)
            \/ \E put, del \in SUBSET Item : WriteAuth(n, b, k, e, put, del)
            \/ \E restore, purge \in BOOLEAN :
                 PutCatalog(n, b, k, e, restore, purge)

FencerCall(a, ab, n, b) == BeginFence(a, ab, n, b) \/ ConfirmFence(a, ab, n, b)

OperatorCall(n, b) ==
  ManualFence(n, b) \/ Rejoin(n, b) \/ ActivateFencing(n, b)

(* A node without a boot can be begun to be fenced, though not fenced: the *)
(* boot_id of a fence is not null.  No process asks for it.                *)
BootlessFence == \E a, n \in Node, ab \in Boot : BeginFence(a, ab, n, NoBoot)

StoreNext ==
  \/ \E n \in Node, b \in Boot : ServiceCall(n, b) \/ OperatorCall(n, b)
  \/ \E a, n \in Node, ab, b \in Boot : FencerCall(a, ab, n, b)
  \/ \E n \in Node : DisableNode(n)
  \/ BootlessFence
  \/ StoreTick

StoreSpec == StoreInit /\ [][StoreNext]_storeVars
-----------------------------------------------------------------------------
(***************************************************************************)
(* Properties.                                                             *)
(***************************************************************************)
\* A boot recorded as fenced never passes identity() again: no rejoin, no
\* activation, no second fencing gives its process any right back.
FencedBootIsPowerless ==
  \A n \in Node, b \in Boot : <<n, b>> \in fences => ~Identity(n, b)

\* From begin_fence on, and until somebody rejoins the node, the boot being
\* fenced holds no unexpired lease: neither a renewal that was already on its
\* way nor a new claim brings one back while the provider is powering it off.
FencingIsQuiesced ==
  \A n \in Node, k \in Key :
    state[n] = "fencing" => ~OwnsLive(n, boot[n], k)

\* While a message is being transmitted under a permit, its node is neither
\* disabled nor fenced and its key does not change hands, even when the
\* lease runs out in the meantime; so no key has two permits either.
PermitHolderUndisturbed ==
  \A n \in Node, b \in Boot, k \in Key : <<n, b, k>> \in permits =>
    /\ Identity(n, b)
    /\ <<n, b>> \notin fences
    /\ owner[k] = <<n, b>>

\* No orphaned lease: whoever owns a key is fenced already, or is still the
\* boot its node is registered with.  confirm_fence and manual-fence both
\* insist on that boot, so a node row that forgot an unfenced owner's boot
\* would leave the key locked for ever.
NoOrphanedLease ==
  \A k \in Key, n \in Node, b \in Boot :
    owner[k] = <<n, b>> => <<n, b>> \in fences \/ boot[n] = b

\* The store implements exclusive ownership with retirement by fencing: elapsed
\* time alone never moves a key, a retired owner never gets or writes a key
\* again, and every stored value carries the epoch of the owner that wrote it.
Exclusive == INSTANCE ExclusiveOwner WITH
  Holder <- Node \X Boot, Nobody <- NoOwner,
  holder <- owner, token <- epoch, retired <- fences, stamp <- auth

ImplementsExclusiveOwner == Exclusive!Spec
=============================================================================
