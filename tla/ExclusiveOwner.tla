--------------------------- MODULE ExclusiveOwner ---------------------------
(***************************************************************************)
(* What the shared lease store promises, with clocks, nodes, provider and  *)
(* operator left out: every key has at most one holder, the holder of a    *)
(* key changes only after the previous holder has been retired for good,   *)
(* every change raises the key's token, and only the present, unretired    *)
(* holder of a key changes what is stored under it, stamping it with the   *)
(* present token.                                                          *)
(***************************************************************************)
EXTENDS Naturals

CONSTANTS
  Key,      \* leased keys
  Holder,   \* everything that may hold a key
  Item,     \* names of the values stored under a key
  Nobody    \* the holder, not one of Holder, of a key that was never held

VARIABLES
  holder,   \* who holds each key
  token,    \* how often each key has changed hands
  retired,  \* holders that will never act again
  stamp     \* token under which each stored value was written, 0: no value

vars == <<holder, token, retired, stamp>>

Init ==
  /\ holder = [k \in Key |-> Nobody]
  /\ token = [k \in Key |-> 0]
  /\ retired = {}
  /\ stamp = [k \in Key |-> [i \in Item |-> 0]]

Grant(k, h) ==
  /\ holder[k] = Nobody \/ holder[k] \in retired
  /\ h \notin retired
  /\ holder' = [holder EXCEPT ![k] = h]
  /\ token' = [token EXCEPT ![k] = @ + 1]
  /\ UNCHANGED <<retired, stamp>>

Retire(h) ==
  /\ retired' = retired \cup {h}
  /\ UNCHANGED <<holder, token, stamp>>

Write(k, put, del) ==
  /\ holder[k] # Nobody
  /\ holder[k] \notin retired
  /\ stamp' = [stamp EXCEPT ![k] = [i \in Item |->
                 IF i \in del THEN 0 ELSE IF i \in put THEN token[k] ELSE @[i]]]
  /\ UNCHANGED <<holder, token, retired>>

Next ==
  \/ \E k \in Key, h \in Holder : Grant(k, h)
  \/ \E h \in Holder : Retire(h)
  \/ \E k \in Key, put, del \in SUBSET Item : Write(k, put, del)

Spec == Init /\ [][Next]_vars
=============================================================================
