---------------------------- MODULE OutageAlerts ----------------------------
(***************************************************************************)
(* The outage alerts of lib/waDeviceMonitor.ts: every minute a heartbeat   *)
(* is sent, and if it was answered the sessions that have been down for    *)
(* ten minutes are reported to the staff, by WhatsApp over the Otomator    *)
(* session if lib/otomatorAlertPolicy.ts lets it and else by email; the    *)
(* row's alerted_at remembers that it was, and is cleared with another     *)
(* message when the session is back.  A pass may outlast the minute, so    *)
(* passes overlap.  The session is one of those the loop goes through; the *)
(* others only delay it.                                                   *)
(***************************************************************************)
EXTENDS LiveSession, FiniteSets

CONSTANTS
  Pass,       \* bound: passes under way at once
  OutageAlert \* the ten minutes before an alert, in units of TimeGoesOn
              \* (at least one)

VARIABLES
  since,    \* how long the session was not connected, as far as passes saw
  pass,     \* what each pass is at, whether an outage is due to be told, the
            \* alerted_at it has read, and whether the database and the mail
            \* server serve this pass well
  alerted   \* alerted_at of the row is set

alertVars == <<live, since, pass, alerted>>

Never == OutageAlert + 1  \* since without an entry
Resting == [at |-> "idle", due |-> FALSE, row |-> FALSE, goal |-> "none",
            served |-> FALSE]

AlertsInit ==
  /\ LiveInit
  /\ since = Never
  /\ pass = [p \in Pass |-> Resting]
  /\ alerted = FALSE

Goes(p, to) == pass' = [pass EXCEPT ![p].at = to]

Rests(p) == pass' = [pass EXCEPT ![p] = Resting]

-----------------------------------------------------------------------------
(* runHeartbeatTick(), with the sessions of that moment.                   *)
PassStarts(p, served) ==
  /\ pass[p] = Resting /\ live.held
  /\ pass' = [pass EXCEPT ![p].at = "heartbeat", ![p].served = served]
  /\ UNCHANGED <<live, since, alerted>>

PassFails(p) ==
  /\ pass[p].at \in {"heartbeat", "rows"} /\ ~pass[p].served
  /\ Rests(p)
  /\ UNCHANGED <<live, since, alerted>>

\* mutant: a session that is still down counts as down from now on
TracksAnew(p) ==
  /\ pass[p].at = "heartbeat"
  /\ since' = IF Connected \/ ~live.held THEN Never ELSE 0
  /\ pass' = [pass EXCEPT ![p].at = "rows", ![p].due = FALSE]
  /\ UNCHANGED <<live, alerted>>

(* processOutageAlerts() up to its query: since is kept for the sessions   *)
(* that are held and not connected.  A pass that waits for its rows finds  *)
(* no outage due once since starts anew, for it compares with its own now. *)
Tracks(p) ==
  /\ pass[p].at = "heartbeat"
  /\ IF Connected \/ ~live.held
     THEN /\ since' = Never
          /\ pass' = [q \in Pass |-> IF q = p
                                     THEN [pass[q] EXCEPT !.at = "rows"]
                                     ELSE [pass[q] EXCEPT !.due = FALSE]]
     ELSE /\ since' = IF since = Never THEN 0 ELSE since
          /\ pass' = [pass EXCEPT ![p].at = "rows",
                                  ![p].due = since = OutageAlert]
  /\ UNCHANGED <<live, alerted>>

(* fetchDeviceRows().                                                      *)
RowRead(p) ==
  /\ pass[p].at = "rows"
  /\ pass' = [pass EXCEPT ![p].at = "loop", ![p].row = alerted]
  /\ UNCHANGED <<live, since, alerted>>

Tells(p, goal) ==
  pass' = [pass EXCEPT ![p].at = "sender", ![p].row = FALSE, ![p].goal = goal]

(* The loop comes to this session, after however many others it waited     *)
(* for: the row is the one that was read, the session is looked at now.    *)
Decides(p) ==
  /\ pass[p].at = "loop"
  /\ IF (Connected /\ pass[p].row) \/ (~Connected /\ ~pass[p].row /\ pass[p].due)
     THEN Tells(p, IF Connected THEN "up" ELSE "down") ELSE Rests(p)
  /\ UNCHANGED <<live, since, alerted>>

(* gateOtomatorAlert(): the rows of the session that would send, of which  *)
(* GateRows are an example for each of its answers.                        *)
GateRow(otomator, listen, connected) ==
  [otomator |-> otomator, listen |-> listen, connected |-> connected]

GateRows ==
  LET fit == GateRow(TRUE, FALSE, TRUE) IN
  {{fit}, {}, {fit, GateRow(FALSE, FALSE, TRUE)}, {GateRow(FALSE, FALSE, TRUE)},
   {GateRow(TRUE, TRUE, TRUE)}, {GateRow(TRUE, FALSE, FALSE)}}

Gate(rows) ==
  /\ Cardinality(rows) = 1
  /\ \A r \in rows : r.otomator /\ ~r.listen /\ r.connected

(* resolveAlertSender(): the rows are read first, then the session that    *)
(* would send is looked at, which is never the one that is down.           *)
ResolvesSender(p, rows, up) ==
  /\ pass[p].at = "sender"
  /\ Goes(p, IF Gate(rows) /\ up THEN "whatsapp" ELSE "email")
  /\ UNCHANGED <<live, since, alerted>>

(* sendWhatsAppMessage(), which may throw after the message went out.      *)
WhatsAppEnds(p, ok) ==
  /\ pass[p].at = "whatsapp"
  /\ Goes(p, IF ok THEN "mark" ELSE "email")
  /\ UNCHANGED <<live, since, alerted>>

(* sendAlertEmail(): without it an outage stays to be told, while a        *)
(* recovery is done with.                                                  *)
EmailEnds(p, ok) ==
  /\ pass[p].at = "email" /\ (pass[p].served => ok)
  /\ IF ok \/ pass[p].goal = "up" THEN Goes(p, "mark") ELSE Rests(p)
  /\ UNCHANGED <<live, since, alerted>>

(* The update of alerted_at, of which an error goes unnoticed.             *)
Marks(p, applied) ==
  /\ pass[p].at = "mark" /\ (pass[p].served => applied)
  /\ alerted' = IF applied THEN pass[p].goal = "down" ELSE alerted
  /\ Rests(p)
  /\ UNCHANGED <<live, since>>

-----------------------------------------------------------------------------
SessionMoves ==
  /\ Starts \/ QrShown \/ Opened \/ SocketDied \/ Closed \/ Stopped
  /\ UNCHANGED <<since, pass, alerted>>

(* A pass may take any time, for it waits for the sessions before this one. *)
TimeGoesOn ==
  /\ since < OutageAlert /\ since' = since + 1
  /\ UNCHANGED <<live, pass, alerted>>

PassSteps(p) ==
  \/ Tracks(p) \/ RowRead(p) \/ Decides(p) \/ PassFails(p)
  \/ \E rows \in GateRows, up \in BOOLEAN : ResolvesSender(p, rows, up)
  \/ \E ok \in BOOLEAN : WhatsAppEnds(p, ok) \/ EmailEnds(p, ok)
  \/ \E applied \in BOOLEAN : Marks(p, applied)

AlertsNext ==
  \/ \E p \in Pass : PassSteps(p) \/ \E served \in BOOLEAN : PassStarts(p, served)
  \/ SessionMoves \/ TimeGoesOn

(* The interval timer starts passes and they go on.  Of the passes that    *)
(* are started for ever, some are served well.                             *)
AlertsFairness ==
  /\ WF_alertVars(TimeGoesOn)
  /\ \A p \in Pass :
       /\ WF_alertVars(\E served \in BOOLEAN : PassStarts(p, served))
       /\ WF_alertVars(PassSteps(p))

PassIsServed == \E p \in Pass : PassStarts(p, TRUE)

AlertsSpec ==
  AlertsInit /\ [][AlertsNext]_alertVars /\ AlertsFairness
    /\ SF_alertVars(PassIsServed)

-----------------------------------------------------------------------------
(* Properties.                                                             *)

(* Each variable has its type, and only a pass with something to tell      *)
(* sends and marks.                                                        *)
AlertsTypeOK ==
  /\ since \in 0..Never
  /\ \A p \in Pass :
       /\ pass[p].row \in BOOLEAN
       /\ pass[p].goal # "none"
            <=> pass[p].at \in {"sender", "whatsapp", "email", "mark"}
  /\ alerted \in BOOLEAN

(* waDeviceMonitor.ts:157-166,242: a session that stays down ends up with   *)
(* an alert, and one that stays connected ends up without, so that its     *)
(* next outage can be told, whatever heartbeats, queries, messages and     *)
(* updates are lost.                                                       *)
AlertFollows ==
  /\ <>[](live.held /\ ~Connected) => <>[]alerted
  /\ <>[](live.held /\ Connected) => <>[]~alerted
=============================================================================
