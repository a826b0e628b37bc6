--------------------------- MODULE OutgoingStore ---------------------------
(***************************************************************************)
(* The messages a session has sent, kept on disk for the retries WhatsApp  *)
(* may ask for (src/src/lib/outgoingMessageStore.ts).  Nobody waits for a  *)
(* store, so stores overlap; every Every-th of a process sweeps the        *)
(* directory before it ends, beside other stores and other sweeps.  A      *)
(* sweep asks for the time of each file on its own and deletes one by one. *)
(* A process may end anywhere; its successor counts from zero.             *)
(***************************************************************************)
EXTENDS Naturals, FiniteSets

CONSTANTS
  MaxSent,   \* bound of the messages sent
  Kept,      \* OUTGOING_MSG_MAX_PER_SESSION
  Every,     \* OUTGOING_MSG_ENFORCE_EVERY
  Ttl,       \* OUTGOING_MSG_TTL_MS
  OrphanAge, \* OUTGOING_TMP_ORPHAN_MAX_AGE_MS
  LastTime   \* bound of the clock

(* The messages, numbered as they are sent.                                *)
Outgoing == 1..MaxSent

ASSUME OutgoingAssumption ==
  {MaxSent, Kept, Every, Ttl, OrphanAge, LastTime} \subseteq Nat \ {0}

VARIABLES
  time,      \* Date.now(), and the clock of the file system
  json,      \* mtime of each message's file, 0: there is none
  draft,     \* mtime of the temporary file of a store under way, else 0
  storing,   \* storeOutgoingMessage() of each message
  count,     \* storeCounts of the session
  sweep,     \* enforceBound() of the store that started it
  storedAt,  \* history: when each message's file was complete, 0: never
  restarted  \* history: the process has ended once

outgoingVars ==
  <<time, json, draft, storing, count, sweep, storedAt, restarted>>

NoSweep == [pc |-> "none", now |-> 0, left |-> {}, metas |-> {}]

OutgoingTypeOK ==
  /\ time \in 1..LastTime
  /\ json \in [Outgoing -> 0..LastTime] /\ draft \in [Outgoing -> 0..LastTime]
  /\ storedAt \in [Outgoing -> 0..LastTime]
  /\ storing \in [Outgoing -> {"no", "writing", "sweeping", "ended"}]
  /\ count \in 0..MaxSent /\ restarted \in BOOLEAN
  /\ sweep \in [Outgoing -> [pc : {"none", "stat", "cut"}, now : 0..LastTime,
                             left : SUBSET Outgoing, metas : SUBSET Outgoing]]

OutgoingInit ==
  /\ time = 1 /\ count = 0 /\ restarted = FALSE
  /\ json = [m \in Outgoing |-> 0] /\ draft = [m \in Outgoing |-> 0]
  /\ storing = [m \in Outgoing |-> "no"]
  /\ sweep = [m \in Outgoing |-> NoSweep]
  /\ storedAt = [m \in Outgoing |-> 0]

IsExpired(t, now) == now - t > Ttl

OnDisk == {m \in Outgoing : json[m] # 0}

Without(m) == json' = [json EXCEPT ![m] = 0]

(* sendMessage() does not wait for it.                                     *)
Writes(m) ==
  /\ storing[m] = "no" /\ \A k \in 1..(m - 1) : storing[k] # "no"
  /\ storing' = [storing EXCEPT ![m] = "writing"]
  /\ draft' = [draft EXCEPT ![m] = time]
  /\ UNCHANGED <<time, json, count, sweep, storedAt, restarted>>

(* The file has the time of its writing.                                   *)
Renames(m) ==
  /\ storing[m] = "writing" /\ draft[m] # 0
  /\ json' = [json EXCEPT ![m] = draft[m]] /\ draft' = [draft EXCEPT ![m] = 0]
  /\ storedAt' = [storedAt EXCEPT ![m] = draft[m]]
  /\ count' = count + 1
  /\ IF count' % Every = 0
     THEN /\ storing' = [storing EXCEPT ![m] = "sweeping"]
          /\ sweep' = [sweep EXCEPT ![m] = [NoSweep EXCEPT
                        !.pc = "stat", !.now = time, !.left = OnDisk']]
     ELSE storing' = [storing EXCEPT ![m] = "ended"] /\ UNCHANGED sweep
  /\ UNCHANGED <<time, restarted>>

(* The temporary file was swept away or the disk refuses: that is logged.  *)
(* The temporary file of a store that has ended is in nobody's way; that a *)
(* sweep deletes it one day is left out.                                   *)
StoreFails(m) ==
  /\ storing[m] = "writing"
  /\ storing' = [storing EXCEPT ![m] = "ended"]
  /\ draft' = [draft EXCEPT ![m] = 0]
  /\ UNCHANGED <<time, json, count, sweep, storedAt, restarted>>

(* The sweep takes a slow store for one that its process left behind.      *)
SweepsDraft(s, m) ==
  /\ sweep[s].pc = "stat" /\ draft[m] # 0 /\ sweep[s].now - draft[m] > OrphanAge
  /\ draft' = [draft EXCEPT ![m] = 0]
  /\ UNCHANGED <<time, json, storing, count, sweep, storedAt, restarted>>

(* One file of the listing: deleted by another sweep, expired, or counted. *)
Stats(s, m) ==
  /\ sweep[s].pc = "stat" /\ m \in sweep[s].left
  /\ LET counted == json[m] # 0 /\ ~IsExpired(json[m], sweep[s].now) IN
       /\ IF counted THEN UNCHANGED json ELSE Without(m)
       /\ sweep' = [sweep EXCEPT ![s].left = @ \ {m},
                      ![s].metas = IF counted THEN @ \cup {m} ELSE @]
  /\ UNCHANGED <<time, draft, storing, count, storedAt, restarted>>

SweepEnds(s) ==
  /\ storing' = [storing EXCEPT ![s] = "ended"]
  /\ sweep' = [sweep EXCEPT ![s] = NoSweep]

\* mutant: the newest come first
NewestOf(metas, n) ==
  {d \in SUBSET metas :
     /\ Cardinality(d) = n
     /\ \A m \in d, k \in metas \ d : storedAt[m] >= storedAt[k]}

(* The sorted list's first n; equal times come in any order.               *)
OldestOf(metas, n) ==
  {d \in SUBSET metas :
     /\ Cardinality(d) = n
     /\ \A m \in d, k \in metas \ d : storedAt[m] <= storedAt[k]}

Cuts(s) ==
  /\ sweep[s].pc = "stat" /\ sweep[s].left = {}
  /\ LET n == Cardinality(sweep[s].metas) IN
       IF n <= Kept THEN SweepEnds(s)
       ELSE /\ \E doomed \in OldestOf(sweep[s].metas, n - Kept) :
                 sweep' = [sweep EXCEPT ![s].pc = "cut", ![s].left = doomed]
            /\ UNCHANGED storing
  /\ UNCHANGED <<time, json, draft, count, storedAt, restarted>>

Unlinks(s, m) ==
  /\ sweep[s].pc = "cut" /\ m \in sweep[s].left
  /\ Without(m)
  /\ IF sweep[s].left = {m} THEN SweepEnds(s)
     ELSE sweep' = [sweep EXCEPT ![s].left = @ \ {m}] /\ UNCHANGED storing
  /\ UNCHANGED <<time, draft, count, storedAt, restarted>>

(* getOutgoingMessage() deletes what it finds expired.                     *)
FoundExpired(m) ==
  /\ json[m] # 0 /\ IsExpired(json[m], time)
  /\ Without(m)
  /\ UNCHANGED <<time, draft, storing, count, sweep, storedAt, restarted>>

Passes ==
  /\ time < LastTime /\ time' = time + 1
  /\ UNCHANGED <<json, draft, storing, count, sweep, storedAt, restarted>>

(* The process ends; bound: once.                                          *)
Restarts ==
  /\ ~restarted /\ restarted' = TRUE
  /\ storing' = [m \in Outgoing |-> IF storing[m] = "no" THEN "no" ELSE "ended"]
  /\ sweep' = [m \in Outgoing |-> NoSweep] /\ count' = 0
  /\ draft' = [m \in Outgoing |-> 0]
  /\ UNCHANGED <<time, json, storedAt>>

OutgoingNext ==
  \/ \E m \in Outgoing : Writes(m) \/ Renames(m) \/ StoreFails(m) \/ FoundExpired(m)
  \/ \E s, m \in Outgoing : SweepsDraft(s, m) \/ Stats(s, m) \/ Unlinks(s, m)
  \/ \E s \in Outgoing : Cuts(s)
  \/ Passes \/ Restarts

OutgoingSpec == OutgoingInit /\ [][OutgoingNext]_outgoingVars

-----------------------------------------------------------------------------
(* Properties.                                                             *)

(* outgoingMessageStore.ts:13-16: a message that was stored is there for a *)
(* retry until it expires or as many as the cap were stored no earlier,    *)
(* whatever sweeps run beside each other or are cut short.                 *)
NewestAreKept ==
  \A m \in Outgoing :
    storedAt[m] # 0 /\ ~IsExpired(storedAt[m], time) /\ json[m] = 0 =>
      Cardinality({k \in Outgoing \ {m} : storedAt[k] >= storedAt[m]}) >= Kept

(* outgoingMessageStore.ts:18-22: with no sweep at work, the directory is  *)
(* above its cap by less than the stores between two sweeps, as long as    *)
(* the process has not been started again.                                 *)
OvershootIsBounded ==
  ~restarted /\ (\A s \in Outgoing : sweep[s] = NoSweep) =>
    Cardinality(OnDisk) < Kept + Every

RetriesAreKept == NewestAreKept /\ OvershootIsBounded
=============================================================================
