---------------------------- MODULE EventProofs ----------------------------
(***************************************************************************)
(* What leaves the service about a session.  Of its webhooks no event      *)
(* vanishes without a trace or is overtaken, for any number of handlers    *)
(* and events, retries and places in the log; of its observations the      *)
(* slot that silences them is the reservation that counts, for any number  *)
(* of handlers and any Window.                                             *)
(***************************************************************************)
EXTENDS DeviceStatus, Webhooks, TLAPS

Events == UNION {EventsOf(b) : b \in Batch}

\* Where an event is accounted for.
Accounted == arrived \cup ToSet(failureLog) \cup excused

PlacesOK ==
  /\ phase \in [Batch -> {"ready", "post", "pause", "done"}]
  /\ index \in [Batch -> Nat]
  /\ \A b \in Batch : index[b] \in 1..Len(Body[b])
  /\ failureLog \in Seq(Events)

\* What a handler has left behind.
Behind(b) ==
  {Body[b][i] : i \in {j \in DOMAIN Body[b] :
                        j < index[b] \/ (j = index[b] /\ phase[b] = "done")}}

BehindIsAccounted == \A b \in Batch : Behind(b) \subseteq Accounted

\* Nothing arrives that its handler has not come to.
NothingAhead ==
  \A b \in Batch : \A k \in DOMAIN Body[b] : Body[b][k] \in arrived => k <= index[b]

WebhookInv == PlacesOK /\ BehindIsAccounted /\ NothingAhead

-----------------------------------------------------------------------------
LEMMA Bodies ==
  \A b \in Batch : /\ Len(Body[b]) \in Nat \ {0} /\ DOMAIN Body[b] = 1..Len(Body[b])
                   /\ \A i \in DOMAIN Body[b] : Body[b][i] \in EventsOf(b)
                   /\ EventsOf(b) \subseteq Events
<1> SUFFICES ASSUME NEW b \in Batch
             PROVE  /\ Len(Body[b]) \in Nat \ {0} /\ DOMAIN Body[b] = 1..Len(Body[b])
                    /\ \A i \in DOMAIN Body[b] : Body[b][i] \in EventsOf(b)
                    /\ EventsOf(b) \subseteq Events
  OBVIOUS
<1>1. Body[b] \in Seq(EventsOf(b)) /\ Body[b] # <<>>
  BY WebhookConstants DEF EventsOf
<1>2. \A i \in DOMAIN Body[b] : Body[b][i] \in EventsOf(b)
  BY DEF EventsOf, ToSet
<1>3. EventsOf(b) \subseteq Events
  BY DEF Events
<1>4. Len(Body[b]) \in Nat \ {0} /\ DOMAIN Body[b] = 1..Len(Body[b])
  BY <1>1
<1> QED
  BY <1>2, <1>3, <1>4

LEMMA WebhooksInitially == WebhooksInit => WebhookInv
<1> SUFFICES ASSUME WebhooksInit PROVE WebhookInv
  OBVIOUS
<1>1. PlacesOK
  BY Bodies DEF WebhooksInit, PlacesOK
<1>2. BehindIsAccounted
  BY Bodies DEF WebhooksInit, BehindIsAccounted, Behind
<1>3. NothingAhead
  BY DEF WebhooksInit, NothingAhead
<1> QED
  BY <1>1, <1>2, <1>3 DEF WebhookInv

\* The log takes an event in, and lets go of none that is not excused.
LEMMA LogAccounts ==
  ASSUME failureLog \in Seq(Events), NEW e \in Events, Log(e)
  PROVE  /\ failureLog' \in Seq(Events)
         /\ ToSet(failureLog) \cup {e} \cup excused \subseteq ToSet(failureLog') \cup excused'
<1> DEFINE log == Append(failureLog, e)
<1>1. /\ log \in Seq(Events) /\ log # <<>> /\ Len(log) = Len(failureLog) + 1
      /\ log[Len(log)] = e
      /\ \A i \in 1..Len(failureLog) : log[i] = failureLog[i]
  OBVIOUS
<1>2. ToSet(failureLog) \cup {e} \subseteq ToSet(log)
  <2>1. ASSUME NEW i \in DOMAIN failureLog PROVE failureLog[i] \in ToSet(log)
    <3>1. i \in DOMAIN log /\ log[i] = failureLog[i]
      BY <1>1
    <3> QED
      BY <3>1 DEF ToSet
  <2>2. e \in ToSet(log)
    <3>1. Len(log) \in DOMAIN log
      BY <1>1
    <3> QED
      BY <1>1, <3>1 DEF ToSet
  <2> QED
    BY <2>1, <2>2 DEF ToSet
<1>3. Tail(log) \in Seq(Events) /\ ToSet(log) \subseteq ToSet(Tail(log)) \cup {Head(log)}
  <2> HIDE DEF log
  <2>1. Tail(log) \in Seq(Events) /\ Len(Tail(log)) = Len(log) - 1
        /\ \A i \in 1..(Len(log) - 1) : Tail(log)[i] = log[i + 1]
    BY <1>1
  <2>2. ASSUME NEW i \in DOMAIN log, i # 1 PROVE log[i] \in ToSet(Tail(log))
    <3>1. i - 1 \in DOMAIN Tail(log) /\ Tail(log)[i - 1] = log[i]
      BY <1>1, <2>1, <2>2
    <3> QED
      BY <3>1 DEF ToSet
  <2>3. Head(log) = log[1]
    BY <1>1
  <2> QED
    BY <2>1, <2>2, <2>3 DEF ToSet
<1>4. CASE Len(log) > MaxFailuresStored
  <2>1. failureLog' = Tail(log) /\ excused' = excused \cup {Head(log)}
    BY <1>4 DEF Log
  <2> HIDE DEF log
  <2> QED
    BY <1>2, <1>3, <2>1
<1>5. CASE ~(Len(log) > MaxFailuresStored)
  <2>1. failureLog' = log /\ excused' = excused
    BY <1>5 DEF Log
  <2> HIDE DEF log
  <2> QED
    BY <1>1, <1>2, <2>1
<1> QED
  BY <1>4, <1>5

LEMMA SettledPlaces ==
  ASSUME PlacesOK, NEW b \in Batch, Settled(b), failureLog' \in Seq(Events)
  PROVE  PlacesOK'
<1>1. index[b] \in 1..Len(Body[b]) /\ Len(Body[b]) \in Nat
  BY Bodies DEF PlacesOK
<1>2. CASE index[b] < Len(Body[b])
  <2>1. index' = [index EXCEPT ![b] = index[b] + 1] /\ phase' = [phase EXCEPT ![b] = "ready"]
    BY <1>2 DEF Settled
  <2>2. index[b] + 1 \in Nat /\ index[b] + 1 \in 1..Len(Body[b])
    BY <1>1, <1>2
  <2> QED
    BY <2>1, <2>2 DEF PlacesOK
<1>3. CASE ~(index[b] < Len(Body[b]))
  BY <1>3 DEF PlacesOK, Settled
<1> QED
  BY <1>2, <1>3

\* The handler goes on only from an event that is accounted for.
LEMMA SettledKeeps ==
  ASSUME WebhookInv, NEW b \in Batch, Settled(b), PlacesOK',
         Accounted \subseteq Accounted', Event(b) \in Accounted',
         arrived' \subseteq arrived \cup {Event(b)}
  PROVE  WebhookInv'
<1>1. /\ index[b] \in DOMAIN Body[b] /\ Event(b) = Body[b][index[b]]
      /\ DOMAIN Body[b] = 1..Len(Body[b]) /\ Len(Body[b]) \in Nat
  BY Bodies DEF WebhookInv, PlacesOK, Event
<1>2. /\ \A c \in Batch \ {b} : index'[c] = index[c] /\ phase'[c] = phase[c]
      /\ \/ index'[b] = index[b] + 1 /\ phase'[b] # "done"
         \/ index'[b] = index[b]
      /\ index[b] \in Nat
  BY DEF Settled, WebhookInv, PlacesOK
<1>3. BehindIsAccounted'
  <2>1. ASSUME NEW c \in Batch, c # b PROVE Behind(c)' \subseteq Accounted'
    BY <1>2, <2>1 DEF Behind, WebhookInv, BehindIsAccounted
  <2>2. ASSUME NEW j \in DOMAIN Body[b],
               j < index'[b] \/ (j = index'[b] /\ phase'[b] = "done")
        PROVE  Body[b][j] \in Accounted'
    <3>1. j < index[b] \/ j = index[b]
      BY <1>1, <1>2, <2>2
    <3>2. j < index[b] => Body[b][j] \in Accounted
      BY DEF Behind, WebhookInv, BehindIsAccounted
    <3> QED
      BY <1>1, <3>1, <3>2
  <2>3. Behind(b)' \subseteq Accounted'
    BY <2>2 DEF Behind
  <2> QED
    BY <2>1, <2>3 DEF BehindIsAccounted
<1>4. NothingAhead'
  <2>1. ASSUME NEW c \in Batch, NEW k \in DOMAIN Body[c], Body[c][k] \in arrived'
        PROVE  k <= index'[c]
    <3>0. index[c] \in Nat /\ index'[c] \in Nat /\ k \in Nat
      BY Bodies DEF WebhookInv, PlacesOK
    <3>1. index[c] \in Nat /\ index'[c] \in Nat /\ index[c] <= index'[c] /\ k \in Nat
      BY <1>2, <3>0
    <3>2. CASE Body[c][k] \in arrived
      BY <3>1, <3>2 DEF WebhookInv, NothingAhead
    <3>3. CASE Body[c][k] = Event(b)
      <4>1. c = b /\ k = index[b]
        BY <1>1, <3>3, EventAssumption
      <4> QED
        BY <3>1, <4>1
    <3> QED
      BY <2>1, <3>2, <3>3
  <2> QED
    BY <2>1 DEF NothingAhead
<1> QED
  BY <1>3, <1>4 DEF WebhookInv

\* A handler that stays where it is, or whose log or receiver changes.
LEMMA StayingKeeps ==
  ASSUME WebhookInv, PlacesOK', Accounted \subseteq Accounted', index' = index,
         \A b \in Batch : phase'[b] = "done" => phase[b] = "done",
         \A b \in Batch : \A k \in DOMAIN Body[b] :
           Body[b][k] \in arrived' => k <= index[b]
  PROVE  WebhookInv'
<1>1. ASSUME NEW b \in Batch PROVE Behind(b)' \subseteq Behind(b)
  BY DEF Behind
<1>2. BehindIsAccounted'
  BY <1>1 DEF WebhookInv, BehindIsAccounted
<1> QED
  BY <1>2 DEF WebhookInv, NothingAhead

\* With the process go the handlers that have begun, and the log: all excused.
LEMMA EndingKeeps ==
  ASSUME WebhookInv, NEW begun \in SUBSET Batch, ProcessEnds(begun)
  PROVE  WebhookInv'
<1>1. /\ UNCHANGED <<index, arrived>> /\ failureLog' = <<>>
      /\ \A b \in Batch : phase'[b] = IF b \in begun THEN "done" ELSE phase[b]
      /\ excused' = excused \cup ToSet(failureLog) \cup UNION {EventsOf(b) : b \in begun}
  BY DEF ProcessEnds
<1>2. Accounted \subseteq Accounted'
  BY <1>1 DEF Accounted
<1>3. PlacesOK'
  BY <1>1 DEF WebhookInv, PlacesOK, ProcessEnds
<1>4. ASSUME NEW b \in Batch PROVE Behind(b)' \subseteq Accounted'
  <2>1. CASE b \in begun
    <3>1. Behind(b)' \subseteq EventsOf(b)
      BY Bodies DEF Behind
    <3>2. EventsOf(b) \subseteq excused'
      BY <1>1, <2>1
    <3> QED
      BY <3>1, <3>2 DEF Accounted
  <2>2. CASE b \notin begun
    <3>1. Behind(b)' = Behind(b)
      BY <1>1, <2>2 DEF Behind
    <3> QED
      BY <1>2, <3>1 DEF WebhookInv, BehindIsAccounted
  <2> QED
    BY <2>1, <2>2
<1>5. NothingAhead'
  BY <1>1 DEF WebhookInv, NothingAhead
<1> QED
  BY <1>3, <1>4, <1>5 DEF WebhookInv, BehindIsAccounted

LEMMA WebhookInvStep ==
  ASSUME WebhookInv, [WebhooksNext]_webhookVars
  PROVE  WebhookInv'
<1>0. /\ PlacesOK /\ \A b \in Batch : Event(b) \in Events
      /\ \A b \in Batch : index[b] \in DOMAIN Body[b] /\ Event(b) = Body[b][index[b]]
  BY Bodies DEF WebhookInv, PlacesOK, Event
\* What is posted is not ahead of its handler.
<1>a. ASSUME NEW b \in Batch, arrived' \subseteq arrived \cup {Event(b)}
      PROVE  \A c \in Batch : \A k \in DOMAIN Body[c] :
               Body[c][k] \in arrived' => k <= index[c]
  <2> SUFFICES ASSUME NEW c \in Batch, NEW k \in DOMAIN Body[c], Body[c][k] \in arrived'
               PROVE  k <= index[c]
    OBVIOUS
  <2>1. CASE Body[c][k] \in arrived
    BY <2>1 DEF WebhookInv, NothingAhead
  <2>2. CASE Body[c][k] = Event(b)
    <3>1. c = b /\ k = index[b]
      BY <1>0, <2>2, EventAssumption
    <3> QED
      BY <3>1, <1>0 DEF PlacesOK
  <2> QED
    BY <1>a, <2>1, <2>2
<1>1. ASSUME NEW b \in Batch, PostBegins(b) PROVE WebhookInv'
  <2>1. CASE safe
    <3>1. UNCHANGED <<index, failureLog, arrived, excused>>
          /\ phase' = [phase EXCEPT ![b] = "post"]
      BY <1>1, <2>1 DEF PostBegins
    <3>2. PlacesOK' /\ Accounted' = Accounted
      BY <1>0, <3>1 DEF PlacesOK, Accounted
    <3> QED
      BY <1>0, <3>1, <3>2, StayingKeeps DEF PlacesOK, WebhookInv, NothingAhead
  <2>2. CASE ~safe
    <3>1. ProcessEnds({x \in Batch : Begun(x)} \cup {b})
      BY <1>1, <2>2 DEF PostBegins
    <3> QED
      BY <3>1, EndingKeeps
  <2> QED
    BY <2>1, <2>2
<1>2. ASSUME NEW b \in Batch, Delivered(b) PROVE WebhookInv'
  <2>1. /\ Settled(b) /\ arrived' = arrived \cup {Event(b)}
        /\ UNCHANGED <<failureLog, excused>>
    BY <1>2 DEF Delivered, Arrives
  <2>2. PlacesOK'
    BY <1>0, <2>1, SettledPlaces DEF PlacesOK
  <2>3. Accounted \subseteq Accounted' /\ Event(b) \in Accounted'
    BY <2>1 DEF Accounted
  <2> QED
    BY <2>1, <2>2, <2>3, SettledKeeps
<1>3. ASSUME NEW b \in Batch, NEW taken \in BOOLEAN, AttemptFails(b, taken)
      PROVE  WebhookInv'
  <2>1. arrived \subseteq arrived' /\ arrived' \subseteq arrived \cup {Event(b)}
    BY <1>3 DEF AttemptFails, Arrives
  <2>2. CASE attempt[b] < MaxRetries
    <3>1. UNCHANGED <<index, failureLog, excused>>
          /\ phase' = [phase EXCEPT ![b] = "pause"]
      BY <1>3, <2>2 DEF AttemptFails
    <3>2. PlacesOK' /\ Accounted \subseteq Accounted'
      BY <1>0, <2>1, <3>1 DEF PlacesOK, Accounted
    <3> QED
      BY <1>0, <1>a, <2>1, <3>1, <3>2, StayingKeeps DEF PlacesOK
  <2>3. CASE ~(attempt[b] < MaxRetries)
    <3>1. Settled(b) /\ Log(Event(b))
      BY <1>3, <2>3 DEF AttemptFails
    <3>2. /\ failureLog' \in Seq(Events)
          /\ ToSet(failureLog) \cup {Event(b)} \cup excused
               \subseteq ToSet(failureLog') \cup excused'
      BY <1>0, <3>1, LogAccounts DEF PlacesOK
    <3>3. PlacesOK'
      BY <1>0, <3>1, <3>2, SettledPlaces
    <3>4. Accounted' = arrived' \cup ToSet(failureLog') \cup excused'
      BY DEF Accounted
    <3>5. Accounted \subseteq Accounted' /\ Event(b) \in Accounted'
      BY <2>1, <3>2, <3>4 DEF Accounted
    <3> QED
      BY <2>1, <3>1, <3>3, <3>5, SettledKeeps
  <2> QED
    BY <2>2, <2>3
<1>4. ASSUME NEW b \in Batch, PauseEnds(b) PROVE WebhookInv'
  <2>1. UNCHANGED <<index, failureLog, arrived, excused>>
        /\ phase' = [phase EXCEPT ![b] = "post"]
    BY <1>4 DEF PauseEnds
  <2>2. PlacesOK' /\ Accounted' = Accounted
    BY <1>0, <2>1 DEF PlacesOK, Accounted
  <2> QED
    BY <1>0, <2>1, <2>2, StayingKeeps DEF PlacesOK, WebhookInv, NothingAhead
<1>5. ASSUME UrlUpdated \/ UNCHANGED webhookVars PROVE WebhookInv'
  <2>1. UNCHANGED <<phase, index, failureLog, arrived, excused>>
    BY <1>5 DEF UrlUpdated, webhookVars
  <2>2. PlacesOK' /\ Accounted' = Accounted
    BY <1>0, <2>1 DEF PlacesOK, Accounted
  <2> QED
    BY <2>1, <2>2, StayingKeeps DEF WebhookInv, NothingAhead
<1>6. CASE FailuresCleared
  <2>1. /\ failureLog' = <<>> /\ excused' = excused \cup ToSet(failureLog)
        /\ UNCHANGED <<phase, index, arrived>>
    BY <1>6 DEF FailuresCleared
  <2>2. PlacesOK' /\ Accounted \subseteq Accounted'
    BY <1>0, <2>1 DEF PlacesOK, Accounted
  <2> QED
    BY <2>1, <2>2, StayingKeeps DEF WebhookInv, NothingAhead
<1>7. CASE Crash
  BY <1>7, EndingKeeps DEF Crash
<1> QED
  BY <1>1, <1>2, <1>3, <1>4, <1>5, <1>6, <1>7 DEF WebhooksNext, Steps

\* webhookDispatcher.ts:259-279, baileysProvider.ts:370-535: what is behind a
\* handler, or behind what its receiver got, arrived or is in the log, unless it
\* was pushed out, cleared or lost with the process.
THEOREM EventsAreNotPassedBy == WebhooksSpec => []NoEventIsPassedBy
<1>1. ASSUME WebhookInv, NEW b \in Batch PROVE Passed(b) \subseteq Accounted
  <2> SUFFICES ASSUME NEW j \in DOMAIN Body[b],
                      \/ j < index[b] \/ (j = index[b] /\ phase[b] = "done")
                      \/ \E k \in DOMAIN Body[b] : j < k /\ Body[b][k] \in arrived
               PROVE  Body[b][j] \in Accounted
    BY DEF Passed
  <2>1. CASE j < index[b] \/ (j = index[b] /\ phase[b] = "done")
    BY <1>1, <2>1 DEF WebhookInv, BehindIsAccounted, Behind
  <2>2. ASSUME NEW k \in DOMAIN Body[b], j < k, Body[b][k] \in arrived
        PROVE  Body[b][j] \in Accounted
    <3>1. k <= index[b]
      BY <1>1, <2>2 DEF WebhookInv, NothingAhead
    <3>2. j < index[b]
      BY <1>1, <2>2, <3>1, Bodies DEF WebhookInv, PlacesOK
    <3> QED
      BY <1>1, <3>2 DEF WebhookInv, BehindIsAccounted, Behind
  <2> QED
    BY <2>1, <2>2
<1>2. WebhookInv => NoEventIsPassedBy
  BY <1>1 DEF NoEventIsPassedBy, Accounted
<1> QED
  BY WebhooksInitially, WebhookInvStep, <1>2, PTL DEF WebhooksSpec

-----------------------------------------------------------------------------
(* The observations (DeviceStatus).                                        *)

\* The session, the rows, and where each handler and heartbeat stands.
StatusPlacesOK ==
  /\ live \in [held : BOOLEAN, open : BOOLEAN,
               status : {"connecting", "connected", "qr", "disconnected"}]
  /\ row \in [status : {"connected", "pending", "disconnected"}, error : BOOLEAN]
  /\ hub \in BOOLEAN
  /\ handler \in [Handler -> [at : {"idle", "hub", "observe"},
                              status : {"none", "qr", "connected", "disconnected"}]]
  /\ \A h \in Handler : handler[h].at # "idle" => handler[h].status # "none"
  /\ beat \in [Beat -> {"none", "connected", "pending", "disconnected"}]

\* A call that holds the slot is under way.
StatusInv ==
  /\ StatusPlacesOK
  /\ slot \in [by : Caller \cup {Nobody}, age : 0..Window]
  /\ slot.by \in Handler => handler[slot.by].at = "observe"
  /\ slot.by = "audit" => audit = "observe"
  /\ SlotIsReservation

LEMMA StatusInitially == StatusInit => StatusInv
<1> SUFFICES ASSUME StatusInit PROVE StatusInv
  OBVIOUS
<1>1. slot = NoSlot /\ reserved = {} /\ Window \in Nat \ {0} /\ Nobody \notin Caller
  BY StatusConstants DEF StatusInit, Caller
<1>2. SlotIsReservation
  BY <1>1 DEF SlotIsReservation, Due, NoSlot
<1>3. slot \in [by : Caller \cup {Nobody}, age : 0..Window] /\ slot.by = Nobody
  BY <1>1 DEF NoSlot
<1>4. StatusPlacesOK
  BY DEF StatusInit, StatusPlacesOK, LiveInit, NotHeld, Idle
<1> QED
  BY <1>1, <1>2, <1>3, <1>4 DEF StatusInv, Caller


\* A request that ends keeps the slot and the reservation the same.
LEMMA ReleaseKeeps ==
  ASSUME slot \in [by : Caller \cup {Nobody}, age : 0..Window], SlotIsReservation,
         NEW c \in Caller, NEW o \in Outcome, Release(c, o)
  PROVE  /\ slot' \in [by : Caller \cup {Nobody}, age : 0..Window]
         /\ slot'.by \in {slot.by, Nobody} \ {c}
         /\ SlotIsReservation'
<1> DEFINE Freed == [slot EXCEPT !.by = Nobody]
<1>0. Window \in Nat \ {0} /\ Nobody \notin Caller
  BY StatusConstants DEF Caller
<1>1. Freed \in [by : Caller \cup {Nobody}, age : 0..Window]
      /\ Freed.by = Nobody /\ Freed.age = slot.age
  BY <1>0
<1>2. CASE o = "applied"
  <2>1. slot' = Finished(c, slot) /\ reserved' = {Finished(c, r) : r \in reserved}
    BY <1>2 DEF Release
  <2>2. slot' = IF slot.by = c THEN Freed ELSE slot
    BY <2>1 DEF Finished
  <2>3. slot'.age = slot.age /\ Due' = Due
    BY <1>1, <2>2 DEF Due
  <2>4. reserved' = IF Due THEN {} ELSE {slot'}
    BY <2>1 DEF SlotIsReservation
  <2> QED
    BY <1>0, <1>1, <2>2, <2>3, <2>4 DEF SlotIsReservation
<1>3. CASE o # "applied"
  <2>1. /\ slot' = IF slot.by = c THEN NoSlot ELSE slot
        /\ reserved' = {r \in reserved : r.by # c}
    BY <1>3 DEF Release
  <2>2. NoSlot \in [by : Caller \cup {Nobody}, age : 0..Window]
        /\ NoSlot.by = Nobody /\ NoSlot.age >= Window
    BY <1>0 DEF NoSlot
  <2>3. CASE slot.by = c
    <3>1. slot' = NoSlot /\ reserved' = {}
      BY <2>1, <2>3 DEF SlotIsReservation
    <3> QED
      BY <1>0, <2>2, <3>1 DEF SlotIsReservation, Due
  <2>4. CASE slot.by # c
    <3>1. slot' = slot /\ reserved' = reserved
      BY <2>1, <2>4 DEF SlotIsReservation
    <3> QED
      BY <2>4, <3>1 DEF SlotIsReservation, Due
  <2> QED
    BY <2>3, <2>4
<1> QED
  BY <1>2, <1>3

\* A slot that is due is reserved by the call that asks for it.
LEMMA ReserveKeeps ==
  ASSUME slot \in [by : Caller \cup {Nobody}, age : 0..Window], SlotIsReservation,
         NEW c \in Caller, Reserve(c)
  PROVE  /\ slot' \in [by : Caller \cup {Nobody}, age : 0..Window]
         /\ slot'.by \in {slot.by, c}
         /\ SlotIsReservation'
<1>0. Window \in Nat \ {0}
  BY StatusConstants
<1>1. CASE Due
  <2>1. slot' = [by |-> c, age |-> 0] /\ reserved' = {[by |-> c, age |-> 0]}
    BY <1>1 DEF Reserve, SlotIsReservation
  <2> QED
    BY <1>0, <2>1 DEF SlotIsReservation, Due
<1>2. CASE ~Due
  BY <1>2 DEF Reserve, SlotIsReservation, Due
<1> QED
  BY <1>1, <1>2

\* The slot grows old, and counts until it has the age of the window.
LEMMA AgeKeeps ==
  ASSUME slot \in [by : Caller \cup {Nobody}, age : 0..Window], SlotIsReservation,
         TimePasses
  PROVE  /\ slot' \in [by : Caller \cup {Nobody}, age : 0..Window]
         /\ slot'.by = slot.by
         /\ SlotIsReservation'
<1> DEFINE Older == [slot EXCEPT !.age = slot.age + 1]
<1>0. Window \in Nat \ {0} /\ slot.age \in Nat /\ slot.age < Window
  BY StatusConstants DEF TimePasses, Due
<1>1. reserved = {slot}
  BY DEF TimePasses, SlotIsReservation
<1>2. CASE slot.age + 1 < Window
  <2>1. slot' = Older /\ reserved' = {Older}
    BY <1>1, <1>2 DEF TimePasses
  <2>2. Older \in [by : Caller \cup {Nobody}, age : 0..Window]
        /\ Older.by = slot.by /\ Older.age = slot.age + 1
    BY <1>0, <1>2
  <2> QED
    BY <1>0, <1>2, <2>1, <2>2 DEF SlotIsReservation, Due
<1>3. CASE ~(slot.age + 1 < Window)
  <2>1. slot' = [slot EXCEPT !.age = Window] /\ reserved' = {}
    BY <1>1, <1>3 DEF TimePasses
  <2> QED
    BY <1>0, <2>1 DEF SlotIsReservation, Due
<1> QED
  BY <1>2, <1>3

\* The session moves, and the rows, handlers and heartbeats keep their types.
LEMMA PlacesStep == StatusPlacesOK /\ [StatusNext]_statusVars => StatusPlacesOK'
<1> SUFFICES ASSUME StatusPlacesOK, [StatusNext]_statusVars PROVE StatusPlacesOK'
  OBVIOUS
<1> DEFINE Live == [held : BOOLEAN, open : BOOLEAN,
                    status : {"connecting", "connected", "qr", "disconnected"}]
<1>1. ASSUME Starts \/ SocketDied \/ QrShown \/ Opened \/ Closed \/ Stopped
      PROVE  live' \in Live
  <2>0. live \in Live
    BY DEF StatusPlacesOK
  <2>1. CASE Starts
    BY <2>0, <2>1 DEF Starts
  <2>2. CASE SocketDied
    BY <2>0, <2>2 DEF SocketDied
  <2>3. CASE QrShown
    BY <2>0, <2>3 DEF QrShown
  <2>4. CASE Opened
    BY <2>0, <2>4 DEF Opened
  <2>5. CASE Closed
    BY <2>0, <2>5 DEF Closed
  <2>6. CASE Stopped
    BY <2>6 DEF Stopped, NotHeld
  <2> QED
    BY <1>1, <2>1, <2>2, <2>3, <2>4, <2>5, <2>6
<1>2. ASSUME NEW h \in Handler, ConnectionEvent(h) PROVE StatusPlacesOK'
  <2>1. live' \in Live /\ UNCHANGED <<beat, row, hub>>
    BY <1>1, <1>2 DEF ConnectionEvent
  <2>2. PICK s \in {"qr", "connected", "disconnected"} :
          handler' = [handler EXCEPT ![h] = [at |-> "hub", status |-> s]]
    BY <1>2 DEF ConnectionEvent, Handles
  <2> QED
    BY <2>1, <2>2 DEF StatusPlacesOK
<1>3. ASSUME NEW h \in Handler, NEW o \in Outcome, HubWritten(h, o) PROVE StatusPlacesOK'
  <2>1. /\ handler' = [handler EXCEPT ![h].at = "observe"]
        /\ handler[h].at = "hub" /\ UNCHANGED <<live, beat, row>>
        /\ hub' \in BOOLEAN
    BY <1>3 DEF HubWritten, StatusPlacesOK
  <2> QED
    BY <2>1 DEF StatusPlacesOK
<1>4. ASSUME NEW h \in Handler, NEW o \in Outcome, StatusObserved(h, o)
      PROVE  StatusPlacesOK'
  <2>1. /\ handler' = [handler EXCEPT ![h] = Idle] /\ handler[h].at = "observe"
        /\ row' = IF o = "lost" THEN row ELSE RowOf(handler[h].status)
        /\ UNCHANGED <<live, beat, hub>>
    BY <1>4 DEF StatusObserved
  <2>2. handler[h].status \in {"qr", "connected", "disconnected"}
    BY <2>1 DEF StatusPlacesOK
  <2>3. row' \in [status : {"connected", "pending", "disconnected"}, error : BOOLEAN]
    BY <2>1, <2>2 DEF StatusPlacesOK, RowOf
  <2> QED
    BY <2>1, <2>3 DEF StatusPlacesOK, Idle
<1>5. ASSUME NEW b \in Beat, HeartbeatLeaves(b) PROVE StatusPlacesOK'
  <2>1. HeartbeatUpdate \in {"connected", "pending", "disconnected"}
    BY DEF HeartbeatUpdate
  <2> QED
    BY <1>5, <2>1 DEF HeartbeatLeaves, StatusPlacesOK
<1>6. ASSUME NEW b \in Beat, NEW o \in Outcome, HeartbeatEnds(b, o) PROVE StatusPlacesOK'
  <2>1. beat[b] \in {"connected", "pending", "disconnected"}
    BY <1>6 DEF HeartbeatEnds, StatusPlacesOK
  <2> QED
    BY <1>6, <2>1 DEF HeartbeatEnds, StatusPlacesOK
<1>7. CASE \/ AuditObserves \/ (\E o \in Outcome : AuditObserved(o)) \/ Evicted
           \/ TimePasses \/ UNCHANGED statusVars
  <2>1. UNCHANGED <<live, handler, beat, row, hub>>
    BY <1>7 DEF AuditObserves, AuditObserved, Evicted, TimePasses, statusVars
  <2> QED
    BY <2>1 DEF StatusPlacesOK
<1>8. CASE QuietMove
  BY <1>1, <1>8 DEF QuietMove, StatusPlacesOK
<1> QED
  BY <1>2, <1>3, <1>4, <1>5, <1>6, <1>7, <1>8 DEF StatusNext

LEMMA StatusStep == StatusInv /\ [StatusNext]_statusVars => StatusInv'
<1> SUFFICES ASSUME StatusInv, [StatusNext]_statusVars PROVE StatusInv'
  OBVIOUS
<1> DEFINE Slots == [by : Caller \cup {Nobody}, age : 0..Window]
<1>0. /\ slot \in Slots /\ SlotIsReservation /\ StatusPlacesOK /\ StatusPlacesOK'
      /\ handler \in [Handler -> [at : {"idle", "hub", "observe"},
                                  status : {"none", "qr", "connected", "disconnected"}]]
      /\ slot.by \in Handler => handler[slot.by].at = "observe"
      /\ slot.by = "audit" => audit = "observe"
  BY PlacesStep DEF StatusInv, StatusPlacesOK
<1>a. Nobody \notin Handler /\ Nobody # "audit" /\ "audit" \notin Handler
  BY StatusConstants
\* A step that leaves the slot alone, and its holder where it is.
<1>1. ASSUME UNCHANGED <<slot, reserved>>, slot.by = "audit" => audit' = audit,
             slot.by \in Handler => handler'[slot.by].at = "observe"
      PROVE  StatusInv'
  BY <1>0, <1>1 DEF StatusInv, SlotIsReservation, Due
<1>2. ASSUME NEW h \in Handler, ConnectionEvent(h) PROVE StatusInv'
  <2>1. /\ handler[h] = Idle /\ UNCHANGED <<slot, reserved, audit>>
        /\ \E s : handler' = [handler EXCEPT ![h] = [at |-> "hub", status |-> s]]
    BY <1>2 DEF ConnectionEvent, Handles
  <2>2. slot.by \in Handler => slot.by # h
    BY <1>0, <2>1 DEF Idle
  <2>3. slot.by \in Handler => handler'[slot.by].at = "observe"
    BY <1>0, <2>1, <2>2
  <2> QED
    BY <1>1, <2>1, <2>3
<1>3. ASSUME NEW h \in Handler, NEW o \in Outcome, HubWritten(h, o) PROVE StatusInv'
  <2>1. /\ handler' = [handler EXCEPT ![h].at = "observe"] /\ Reserve(h)
        /\ audit' = audit
    BY <1>3 DEF HubWritten
  <2>2. h \in Caller
    BY DEF Caller
  <2>3. slot' \in Slots /\ slot'.by \in {slot.by, h} /\ SlotIsReservation'
    BY <1>0, <2>1, <2>2, ReserveKeeps
  <2>4. \A g \in Handler : handler[g].at = "observe" \/ g = h => handler'[g].at = "observe"
    BY <1>0, <2>1
  <2> QED
    BY <1>0, <1>a, <2>1, <2>3, <2>4 DEF StatusInv
<1>4. ASSUME NEW h \in Handler, NEW o \in Outcome, StatusObserved(h, o) PROVE StatusInv'
  <2>1. handler' = [handler EXCEPT ![h] = Idle] /\ Release(h, o) /\ audit' = audit
    BY <1>4 DEF StatusObserved
  <2>2. h \in Caller
    BY DEF Caller
  <2>3. slot' \in Slots /\ slot'.by \in {slot.by, Nobody} \ {h} /\ SlotIsReservation'
    BY <1>0, <2>1, <2>2, ReleaseKeeps
  <2>4. \A g \in Handler \ {h} : handler'[g] = handler[g]
    BY <1>0, <2>1
  <2> QED
    BY <1>0, <1>a, <2>1, <2>3, <2>4 DEF StatusInv
<1>5. CASE AuditObserves
  <2>1. Reserve("audit") /\ audit' = "observe" /\ handler' = handler /\ "audit" \in Caller
    BY <1>5 DEF AuditObserves, Caller
  <2>2. slot' \in Slots /\ slot'.by \in {slot.by, "audit"} /\ SlotIsReservation'
    BY <1>0, <2>1, ReserveKeeps
  <2> QED
    BY <1>0, <1>a, <2>1, <2>2 DEF StatusInv
<1>6. ASSUME NEW o \in Outcome, AuditObserved(o) PROVE StatusInv'
  <2>1. Release("audit", o) /\ handler' = handler /\ "audit" \in Caller
    BY <1>6 DEF AuditObserved, Caller
  <2>2. slot' \in Slots /\ slot'.by \in {slot.by, Nobody} \ {"audit"} /\ SlotIsReservation'
    BY <1>0, <2>1, ReleaseKeeps
  <2> QED
    BY <1>0, <1>a, <2>1, <2>2 DEF StatusInv
<1>7. CASE TimePasses
  <2>1. slot' \in Slots /\ slot'.by = slot.by /\ SlotIsReservation'
    BY <1>0, <1>7, AgeKeeps
  <2> QED
    BY <1>0, <1>7, <2>1 DEF StatusInv, TimePasses
<1>8. CASE Evicted
  <2>1. slot' = NoSlot /\ reserved' = {} /\ Window \in Nat
    BY <1>8, StatusConstants DEF Evicted
  <2>2. slot' \in Slots /\ slot'.by = Nobody /\ SlotIsReservation'
    BY <2>1 DEF NoSlot, SlotIsReservation, Due
  <2> QED
    BY <1>0, <1>a, <2>2 DEF StatusInv
<1>9. CASE (\E b \in Beat : HeartbeatLeaves(b)) \/ QuietMove \/ UNCHANGED statusVars
           \/ (\E b \in Beat, o \in Outcome : HeartbeatEnds(b, o))
  BY <1>0, <1>1, <1>9 DEF HeartbeatLeaves, HeartbeatEnds, QuietMove, statusVars
<1> QED
  BY <1>2, <1>3, <1>4, <1>5, <1>6, <1>7, <1>8, <1>9 DEF StatusNext

\* waDeviceObservation.ts:20-43: the slot that silences a session's observations is
\* the one reservation of the last Window that did not fail, and a slot that is
\* held is a running call's, whatever is lost, late or evicted.
THEOREM OneReservationCounts == StatusSpec => [](StatusTypeOK /\ SlotIsReservation)
<1>1. StatusInv => StatusTypeOK /\ SlotIsReservation
  BY DEF StatusInv, StatusPlacesOK, StatusTypeOK
<1> QED
  BY StatusInitially, StatusStep, <1>1, PTL DEF StatusSpec
=============================================================================
