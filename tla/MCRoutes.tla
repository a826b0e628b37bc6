------------------------------ MODULE MCRoutes ------------------------------
(***************************************************************************)
(* The HTTP routes for TLC.  The socket routes and the send routes share   *)
(* the device of WaDevice and nothing else: each behaviour runs one of the *)
(* two parts, chosen at the start, while the other stays where it began.   *)
(* The socket routes meet every route and the send routes a bulk request   *)
(* and a single message, with rows that cover each policy.                 *)
(***************************************************************************)
EXTENDS Routes, TLC

CONSTANTS q1, q2, m1, m2, m3

VARIABLE part

routesVars == <<deviceVars, reqVars, sendVars, part>>

MCPath == q1 :> "bulk" @@ q2 :> "send"
MCBody == q1 :> <<m1, m2>> @@ q2 :> <<m3>>

Plain(names) == [name : names, opts : {{}}]

MCRoutes ==
  Plain((WrittenRoutes \cup ReadRoutes))
    \cup [name : {"create"}, opts : {{"description", "icon"}}]
    \cup [name : {"add"}, opts : {{"rejected"}}]
    \cup [name : {"profile"}, opts : {{"known"}}]

Tables(readable, rows, hub, owned) ==
  [readable |-> readable, rows |-> rows, hub |-> hub, owned |-> owned]

WithRow  == Tables(TRUE, {"open"}, "other", FALSE)
External == Tables(TRUE, {}, "external", FALSE)
NoAnswer == Tables(FALSE, {"open"}, "other", FALSE)

MCDevices ==
  {WithRow, External,
   Tables(TRUE, {"listen"}, "external", FALSE),
   Tables(TRUE, {"open", "listen"}, "external", FALSE),
   Tables(TRUE, {}, "other", FALSE),
   Tables(TRUE, {}, "external", TRUE),
   Tables(FALSE, {"listen"}, "external", FALSE)}

(* The rows alone, for the requests whose sends go through the pool.       *)
MCSendDevices ==
  {WithRow, External,
   Tables(TRUE, {"listen"}, "external", FALSE),
   Tables(TRUE, {}, "external", TRUE),
   NoAnswer}

(* bounds: requests that share a cache run at once and one after another;  *)
(* each other request runs alone and first, for it has nothing in common   *)
(* with them but the environment.  The device's rows stay as they are for  *)
(* the requests that do not read them.                                     *)
Together(r, rt) ==
  /\ IF rt.name \in {"profile", "participating"}
     THEN \A q \in Req : route[q] \in {rt, NoRoute}
     ELSE now = 1 /\ \A q \in Req : route[q] = NoRoute
  /\ rt.name \in ReadRoutes => flips = 0

RowsMatter ==
  \A r \in Req : route[r] # NoRoute => route[r].name \in WrittenRoutes

(* bound: the rows change under one request that sends, which may have two *)
(* messages on their way; two such requests find rows that stay.           *)
AloneWithChanges ==
  flips' <= 1 /\ (flips' = 1 => Cardinality({q \in Sending : step'[q] # "idle"}) = 1)

Bounded ==
  /\ \A r \in Req : at[r] = 0 /\ at'[r] # 0 => Together(r, route'[r])
  /\ RowsMatter \/ device' = device

MCRoutesInit ==
  /\ part \in {"sockets", "sends"}
  /\ SocketRoutesInit /\ SendRoutesInit
  /\ device \in IF part = "sends" THEN MCSendDevices
                ELSE {WithRow, External, NoAnswer}

MCRoutesNext ==
  /\ UNCHANGED part
  /\ \/ /\ part = "sockets"
        /\ SocketRoutesNext(MCRoutes, MCDevices) /\ Bounded
        /\ UNCHANGED sendVars
     \/ /\ part = "sends"
        /\ SendRoutesNext(MCSendDevices) /\ AloneWithChanges /\ UNCHANGED reqVars

MCRoutesSpec ==
  /\ MCRoutesInit
  /\ [][MCRoutesNext]_routesVars
  /\ SocketRoutesFairness
  /\ SendRoutesFairness

=============================================================================
