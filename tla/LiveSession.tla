---------------------------- MODULE LiveSession ----------------------------
(***************************************************************************)
(* A Baileys session as the code that reports on it sees it: its Session   *)
(* object in the provider's map and whether its socket's WebSocket is open *)
(* (providers/baileys/baileysProvider.ts).  BaileysSession models how the  *)
(* provider gets there; here the session just moves.                       *)
(***************************************************************************)
EXTENDS Naturals

VARIABLE live

NotHeld == [held |-> FALSE, status |-> "disconnected", open |-> FALSE]

LiveInit == live = NotHeld

Connected == live.status = "connected" /\ live.open

(* start(), by a request or the reconnect timer.                           *)
Starts ==
  /\ live.status = "disconnected"
  /\ live' = [live EXCEPT !.held = TRUE, !.status = "connecting"]

QrShown ==
  /\ live.held /\ ~live.open /\ live.status \in {"connecting", "qr"}
  /\ live' = [live EXCEPT !.status = "qr"]

Opened ==
  /\ live.held /\ ~live.open /\ live.status \in {"connecting", "qr"}
  /\ live' = [live EXCEPT !.status = "connected", !.open = TRUE]

(* The WebSocket is gone and its close event is yet to come.               *)
SocketDied ==
  /\ live.open
  /\ live' = [live EXCEPT !.open = FALSE]

Closed ==
  /\ live.held /\ live.status # "disconnected"
  /\ live' = [live EXCEPT !.status = "disconnected", !.open = FALSE]

(* stop() ends the socket, whose close event follows at once.              *)
Stopped == live.held /\ live' = NotHeld
=============================================================================
