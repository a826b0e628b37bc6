------------------------------ MODULE WaDevice ------------------------------
(***************************************************************************)
(* What the HTTP handlers see of one WhatsApp session: the rows of the two *)
(* databases that say whether the device may send                          *)
(* (lib/deviceSendPolicy.ts), the status the session manager reports and   *)
(* the Baileys socket it hands out (sessionManager.ts).  The rows and the  *)
(* socket change at any time; a handler reads them between its awaits.     *)
(***************************************************************************)
EXTENDS Naturals, FiniteSets

CONSTANTS
  MaxSock,  \* bound: sockets the session makes
  MaxFlip   \* bound: changes of the device's rows

ASSUME DeviceBounds == MaxSock \in Nat /\ MaxFlip \in Nat

VARIABLES
  device,   \* the rows the policy is read from
  flips,    \* changes of device so far
  status,   \* what getStatus() reports
  sock,     \* the socket in the map: its generation, 0 for none
  open      \* its WebSocket is open

deviceVars == <<device, flips, status, sock, open>>

(* The rows of wa_devices with the session key, each by its listen_only;   *)
(* readable is whether the JumpStart project answers.  hub is what its     *)
(* whatsapp_devices say of the key, "external" if that passes every test   *)
(* of lines 20-30; owned, whether JumpStart has that row's organization.   *)
Device == [readable : BOOLEAN, rows : SUBSET {"open", "listen"},
           hub : {"external", "other", "error"}, owned : BOOLEAN]

(* How far a reading of the policy is: the table it has asked, or the      *)
(* verdict it came to.                                                     *)
Table   == {"rows", "hub", "owner"}
Verdict == {"may_send", "listen_only", "unavailable"}

(* readDeviceListenOnly(): up to three reads, each awaited, of tables that *)
(* change in between; what the answer of one leads to.                     *)
ReadDeviceListenOnly(table, d) ==
  CASE table = "rows" /\ d.readable /\ d.rows = {}         -> "hub"
    [] table = "rows" /\ d.readable /\ d.rows = {"open"}   -> "may_send"
    [] table = "rows" /\ d.readable /\ d.rows = {"listen"} -> "listen_only"
    [] table = "hub" /\ d.hub = "external"                 -> "owner"
    [] table = "owner" /\ d.readable /\ ~d.owned           -> "may_send"
    [] OTHER                                              -> "unavailable"

(* What a person who looks at the tables can tell of the device, and what  *)
(* it takes for the owner of the number to have it open for sending.       *)
Fact == {"open", "no row", "external", "not owned"}

Holds(fact, d) ==
  CASE fact = "open"      -> d.readable /\ d.rows = {"open"}
    [] fact = "no row"    -> d.readable /\ d.rows = {}
    [] fact = "external"  -> d.hub = "external"
    [] fact = "not owned" -> d.readable /\ ~d.owned

Facts(d) == {fact \in Fact : Holds(fact, d)}

MaySend(facts) ==
  "open" \in facts \/ {"no row", "external", "not owned"} \subseteq facts

-----------------------------------------------------------------------------
DeviceInit ==
  /\ device \in Device
  /\ flips = 0
  /\ \/ status = "connected" /\ sock = 1 /\ open = TRUE
     \/ status = "disconnected" /\ sock = 0 /\ open = FALSE
     \/ status = "connected" /\ sock = 0 /\ open = FALSE  \* Meta Cloud session

(* An administrator changes the rows, or a project stops answering.        *)
DeviceChanges(d) ==
  /\ flips < MaxFlip /\ d # device
  /\ device' = d /\ flips' = flips + 1
  /\ UNCHANGED <<status, sock, open>>

(* The WebSocket dies; the status says connected until the close event.    *)
SocketDies ==
  /\ open
  /\ open' = FALSE
  /\ UNCHANGED <<device, flips, status, sock>>

CloseEvent ==
  /\ sock # 0 /\ ~open /\ status = "connected"
  /\ status' = "disconnected"
  /\ UNCHANGED <<device, flips, sock, open>>

(* A reconnect or a new pairing puts another socket into the map.          *)
Reconnected ==
  /\ status = "disconnected" /\ sock < MaxSock
  /\ sock' = sock + 1 /\ open' = TRUE /\ status' = "connected"
  /\ UNCHANGED <<device, flips>>

(* A socket found dead or silent: status off connected, then a reconnect.  *)
TornDown ==
  IF sock > 0
  THEN open' = FALSE /\ status' = "disconnected" /\ UNCHANGED <<device, flips, sock>>
  ELSE UNCHANGED deviceVars

DeviceStep(devices) ==
  \/ \E d \in devices : DeviceChanges(d)
  \/ SocketDies
  \/ CloseEvent
  \/ open /\ TornDown
  \/ Reconnected
=============================================================================
