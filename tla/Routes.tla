------------------------------- MODULE Routes -------------------------------
(***************************************************************************)
(* The handlers that drive a socket and those that send through the pool,  *)
(* at once.  They share the device and nothing else: a step that changes   *)
(* it, be it a send's that tears the socket down, is one both kinds see.   *)
(***************************************************************************)
EXTENDS SocketRoutes, SendRoutes

RoutesSpec == SocketRoutesSpec /\ SendRoutesSpec

-----------------------------------------------------------------------------
(* Whatever way a request takes to WhatsApp, the device's policy is kept   *)
(* (SocketRoutes, SendRoutes).                                             *)
PolicyIsKept == OnlyOpenDevicesAct /\ SentWhileOpen

(* contacts.ts:21-49, senderPool.ts:113-120: no contact request and no     *)
(* request that sends waits for ever (SocketRoutes, SendRoutes).           *)
RequestsAnswered == ContactAnswered /\ SendIsAnswered
=============================================================================
