--------------------------- MODULE BaileysSession ---------------------------
(***************************************************************************)
(* One WhatsApp session of a BaileysProvider without HA                    *)
(* (src/src/providers/baileys/baileysProvider.ts): its starts and stops,   *)
(* the handlers of its sockets' events, reconnects, the keepalive probe,   *)
(* the recovery pass and the restore at boot, in one process that may      *)
(* exit and be restarted.                                                  *)
(*                                                                         *)
(* A step is what runs from one await to the next.  A start is named by    *)
(* the session object and the socket it creates; a name is used again when *)
(* nothing refers to it any more.  The sockets are Baileys': they open,    *)
(* are lost and close when they like, and close some time after end().     *)
(***************************************************************************)
EXTENDS Naturals, FiniteSets

CONSTANTS
  Start,   \* starts, with the session object and the socket of each
  None,
  Throws   \* TRUE: disk, auth state and makeWASocket may throw in a start

ASSUME NoneAssumption == None \notin Start
ASSUME ThrowsAssumption == Throws \in BOOLEAN

VARIABLES
  starting,   \* the starts that await the auth state, and who called them
  conn,       \* the connection of each socket
  session,    \* sessions: the latest session object
  status,     \* its status; 'qr' is "connecting", and "skipped" a
              \* "disconnected" without webhookUrl
  mapped,     \* sockets: the socket in use
  suppressed, \* suppressReconnectSockets
  stopped,    \* intentionallyStoppedOrgIds has the session
  timer,      \* reconnectTimers, and whether the start will have a webhookUrl
  keepalive,  \* keepaliveTimers and keepaliveMisses
  opening,    \* 'open' handlers that await their writes
  closing,    \* 'close' handlers that await their writes and the webhook
  loggedOut,  \* sockets closed with DisconnectReason.loggedOut
  sending,    \* a send of the pool
  pass,       \* restoreSessions() at boot, recoverDisconnectedSessions() later
  meta,       \* meta.json: its autoRestore; "stopped" has no webhookUrl
  paired,     \* creds.json has a login identity
  lock,       \* this process holds the session lock
  writes,     \* the write queue of a directory that is gone has a login
  overlapped, \* history: something came between the steps of a start
  asked       \* history: what was last asked of the session; "none" if that
              \* came between the steps of a start

socketVars == <<conn, status, opening, closing, loggedOut>>
mapVars == <<session, mapped, suppressed, stopped>>
timerVars == <<timer, keepalive>>
taskVars == <<sending, pass>>
diskVars == <<meta, paired, writes, lock>>
historyVars == <<overlapped, asked>>
vars == <<starting, socketVars, mapVars, timerVars, taskVars, diskVars, historyVars>>

Live == {"connecting", "open", "lost"}

TypeOK ==
  /\ starting \in [Start -> {"no", "route", "timer", "restore", "recovery"}]
  /\ conn \in [Start -> Live \cup {"none", "ended", "closed"}]
  /\ session \in Start \cup {None}
  /\ status \in {"none", "connecting", "connected", "disconnected", "skipped"}
  /\ mapped \in Start \cup {None}
  /\ suppressed \subseteq Start
  /\ stopped \in BOOLEAN
  /\ timer \in {"off", "url", "nourl"}
  /\ keepalive \in {"off", "ok", "missed"}
  /\ opening \subseteq Start
  /\ closing \subseteq Start
  /\ loggedOut \subseteq Start
  /\ sending \in {"no", "checked", "sent"}
  /\ pass \in {"boot", "listed", "restoring", "idle", "resolving", "starting"}
  /\ meta \in {"none", "restore", "optedOut", "stopped"}
  /\ paired \in BOOLEAN
  /\ writes \in BOOLEAN
  /\ lock \in BOOLEAN
  /\ overlapped \in BOOLEAN
  /\ asked \in {"none", "start", "stop", "purge"}

Init ==
  /\ starting = [i \in Start |-> "no"]
  /\ conn = [i \in Start |-> "none"]
  /\ session = None /\ status = "none"
  /\ mapped = None
  /\ suppressed = {}
  /\ stopped = FALSE
  /\ timer = "off"
  /\ keepalive = "off"
  /\ opening = {}
  /\ closing = {}
  /\ loggedOut = {}
  /\ sending = "no"
  /\ pass = "boot"
  /\ meta = "none"
  /\ paired = FALSE
  /\ writes = FALSE
  /\ lock = FALSE
  /\ overlapped = FALSE
  /\ asked = "none"
-----------------------------------------------------------------------------
InUse(i) ==
  \/ i \in {session, mapped} \cup opening \cup closing
  \/ starting[i] # "no" \/ conn[i] \in Live \cup {"ended"}

\* end(): a socket that has not closed yet will.
End(c, i) == IF i # None /\ c[i] \in Live THEN [c EXCEPT ![i] = "ended"] ELSE c

Suppress(i) == suppressed' = suppressed \cup ({i} \ {None})

Passes == {"restore", "recovery"}
Loading == \E i \in Start : starting[i] # "no"
Overlap(b) == overlapped' = (overlapped \/ b)

\* An unhandled rejection, a crash or a shutdown: Docker starts the process
\* again, which finds the lock stale.
ExitWith(m) ==
  /\ starting' = [i \in Start |-> "no"]
  /\ conn' = [i \in Start |-> "none"]
  /\ session' = None /\ status' = "none" /\ mapped' = None
  /\ suppressed' = {}
  /\ stopped' = FALSE
  /\ timer' = "off" /\ keepalive' = "off"
  /\ opening' = {} /\ closing' = {} /\ loggedOut' = {}
  /\ sending' = "no" /\ pass' = "boot"
  /\ lock' = FALSE
  /\ meta' = m
  /\ writes' = FALSE
  /\ overlapped' = FALSE
  /\ UNCHANGED <<paired, asked>>

Exit == ExitWith(meta)

\* acquireSessionLock(), as far as the start has come.
Acquire(s) == lock' = (lock \/ s = "loading")

\* startOwned() up to its first await.  s is where it has come to by then:
\* "loading", "locked out" by another process, or failed at the disk with "no
\* meta" or "no lock" written.
StartBegins(i, who, s) ==
  /\ ~InUse(i)
  /\ starting' = [starting EXCEPT ![i] = IF s = "loading" THEN who ELSE "no"]
  /\ timer' = "off" /\ keepalive' = "off"
  /\ stopped' = (mapped # None)
  /\ suppressed' = (suppressed \ {i}) \cup ({mapped} \ {None})
  /\ conn' = [End(conn, mapped) EXCEPT ![i] = "none"]
  /\ loggedOut' = loggedOut \ {i}
  /\ mapped' = None
  /\ session' = i
  /\ status' = IF s = "locked out" THEN "disconnected" ELSE "connecting"
  /\ meta' = IF s = "no meta" THEN meta ELSE "restore"
  /\ Acquire(s)
  /\ Overlap(Loading \/ (pass = "restoring" /\ who = "route"))
  /\ asked' = IF who = "route" THEN "start" ELSE asked
  /\ UNCHANGED <<opening, closing, sending, paired, writes>>

\* start() and its fate: the caller catches what it throws, except the
\* reconnect timer, whose unhandled rejection ends the process.
Begin(i, who) ==
  \/ StartBegins(i, who, "loading")
     /\ pass' = IF who \in Passes THEN "starting" ELSE pass
  \/ \E s \in {"locked out", "no meta", "no lock"} :
       /\ IF s = "locked out" THEN ~lock ELSE Throws
       /\ IF who = "timer" THEN ExitWith(IF s = "no meta" THEN meta ELSE "restore")
          ELSE StartBegins(i, who, s) /\ pass' = IF who \in Passes THEN "idle" ELSE pass

RouteStart(i) == Begin(i, "route")

\* The auth state and the version are read: makeWASocket() and its handlers.
SocketMade(i) ==
  /\ starting[i] # "no"
  /\ starting' = [starting EXCEPT ![i] = "no"]
  /\ conn' = [conn EXCEPT ![i] = "connecting"]
  /\ mapped' = i
  /\ pass' = IF starting[i] \in Passes THEN "idle" ELSE pass
  /\ UNCHANGED <<status, opening, closing, loggedOut, session, suppressed, stopped,
                 timerVars, sending, diskVars, historyVars>>

StartThrows(i) ==
  /\ Throws /\ starting[i] # "no"
  /\ IF starting[i] = "timer" THEN Exit
     ELSE /\ starting' = [starting EXCEPT ![i] = "no"]
          /\ pass' = IF starting[i] \in Passes THEN "idle" ELSE pass
          /\ UNCHANGED <<socketVars, mapVars, timerVars, sending, diskVars, historyVars>>

\* stop().  "keep" is a migration that fails then; one that does not takes the
\* directory away, as "purge" does, while the write queue may hold its login.
Stop(how) ==
  /\ timer' = "off" /\ keepalive' = "off"
  /\ stopped' = TRUE
  /\ Suppress(mapped)
  /\ conn' = End(conn, mapped)
  /\ mapped' = None /\ session' = None /\ status' = "none"
  /\ lock' = FALSE
  /\ meta' = [keep |-> meta, stop |-> "stopped", purge |-> "none"][how]
  /\ paired' = (paired /\ how # "purge")
  /\ writes' = (writes \/ (how = "purge" /\ (paired \/ mapped # None)))
  /\ Overlap(Loading \/ pass \in {"listed", "restoring"})
  /\ asked' = IF overlapped' THEN "none" ELSE IF how = "keep" THEN asked ELSE how
  /\ UNCHANGED <<starting, opening, closing, loggedOut, taskVars>>

\* updateWebhookUrl() of a session object.
UpdateWebhookUrl ==
  /\ session # None
  /\ status' = IF status = "skipped" THEN "disconnected" ELSE status
  /\ meta' = [none |-> "restore", stopped |-> "optedOut",
              restore |-> meta, optedOut |-> meta][meta]
  /\ UNCHANGED <<starting, conn, opening, closing, loggedOut, mapVars, timerVars,
                 taskVars, paired, writes, lock, historyVars>>

\* The login comes to creds.json before the socket opens; or after a purge,
\* from its queue, where the directory is there again.
CredsWritten ==
  /\ ~paired
  /\ writes \/ \E i \in Start : conn[i] = "connecting"
  /\ paired' = TRUE
  /\ writes' = FALSE
  /\ UNCHANGED <<starting, socketVars, mapVars, timerVars, taskVars, meta, lock, historyVars>>
-----------------------------------------------------------------------------
(***************************************************************************)
(* The handler of connection.update.                                       *)
(***************************************************************************)
\* The session object of a handler; nobody reads those no longer in the map.
SetStatus(i, s) == status' = IF i = session THEN s ELSE status

Opens(i) ==
  /\ conn[i] = "connecting"
  /\ conn' = [conn EXCEPT ![i] = "open"]
  /\ stopped' = FALSE
  /\ SetStatus(i, "connected")
  /\ opening' = opening \cup {i}
  /\ paired' = TRUE
  /\ writes' = FALSE
  /\ UNCHANGED <<starting, closing, loggedOut, session, mapped, suppressed, timerVars,
                 taskVars, meta, lock, historyVars>>

OpenHandled(i) ==
  /\ i \in opening
  /\ opening' = opening \ {i}
  /\ keepalive' = "ok"
  /\ UNCHANGED <<starting, conn, status, closing, loggedOut, mapVars, timer, taskVars, diskVars, historyVars>>

\* The connection is half open: no event tells.
Lost(i) ==
  /\ conn[i] = "open"
  /\ conn' = [conn EXCEPT ![i] = "lost"]
  /\ UNCHANGED <<starting, status, opening, closing, loggedOut, mapVars, timerVars,
                 taskVars, diskVars, historyVars>>

Closes(i, out) ==
  /\ conn[i] \in Live \/ (conn[i] = "ended" /\ ~out)
  /\ conn' = [conn EXCEPT ![i] = "closed"]
  /\ SetStatus(i, "disconnected")
  /\ closing' = closing \cup {i}
  /\ loggedOut' = IF out THEN loggedOut \cup {i} ELSE loggedOut
  /\ keepalive' = "off"
  /\ UNCHANGED <<starting, opening, mapVars, timer, taskVars, diskVars, historyVars>>

\* Mutant: the entry goes although another socket has it.
DropAny(i) == None

DropOwn(i) == IF mapped = i THEN None ELSE mapped

\* Mutant: only the flag, which the next close finds cleared.
MeantByFlag(i) == stopped

Meant(i) == i \in suppressed \/ stopped

\* After the writes and the webhook: reconnect, unless the close was meant or
\* another socket is in use.
CloseHandled(i) ==
  /\ i \in closing
  /\ closing' = closing \ {i}
  /\ mapped' = DropOwn(i)
  /\ stopped' = (stopped /\ ~Meant(i))
  /\ timer' = IF ~Meant(i) /\ i \notin loggedOut /\ DropOwn(i) = None THEN "url" ELSE timer
  /\ meta' = IF ~Meant(i) /\ i \in loggedOut /\ meta = "restore" THEN "optedOut" ELSE meta
  /\ suppressed' = suppressed \ {i} /\ loggedOut' = loggedOut \ {i}
  /\ UNCHANGED <<starting, conn, status, opening, session, keepalive, taskVars,
                 paired, writes, lock, historyVars>>
-----------------------------------------------------------------------------
(***************************************************************************)
(* Reconnects, the keepalive probe and sends that find the socket dead.    *)
(***************************************************************************)
HasUrl == status \notin {"none", "skipped"}

\* forceTeardownAndReconnect()
Teardown ==
  /\ status' = IF HasUrl THEN "disconnected" ELSE status
  /\ keepalive' = "off"
  /\ mapped' = None
  /\ Suppress(mapped)
  /\ conn' = End(conn, mapped)
  /\ stopped' = FALSE
  /\ timer' = IF HasUrl \/ meta \in {"restore", "optedOut"} THEN "url" ELSE "nourl"
  /\ Overlap(Loading)
  /\ UNCHANGED <<starting, opening, closing, loggedOut, session, diskVars, asked>>

\* The reconnect timer; without a webhookUrl start() throws at once.
TimerFires(i) ==
  /\ timer # "off"
  /\ \/ /\ mapped # None
        /\ timer' = "off"
        /\ UNCHANGED <<starting, socketVars, mapVars, keepalive, taskVars, diskVars, historyVars>>
     \/ mapped = None /\ timer = "url" /\ Begin(i, "timer")
     \/ mapped = None /\ timer = "nourl" /\ Exit

Connected == status = "connected"

Probe ==
  /\ keepalive # "off" /\ Connected
  /\ IF mapped # None /\ (conn[mapped] = "open" \/ keepalive = "ok")
     THEN /\ keepalive' = IF conn[mapped] = "open" THEN "ok" ELSE "missed"
          /\ UNCHANGED <<starting, socketVars, mapVars, timer, taskVars, diskVars, historyVars>>
     ELSE Teardown /\ UNCHANGED taskVars

\* sendWhatsAppMessageDirect() has seen the session connected.
SendChecked ==
  /\ sending = "no" /\ Connected
  /\ sending' = "checked"
  /\ UNCHANGED <<starting, socketVars, mapVars, timerVars, pass, diskVars, historyVars>>

\* sendMessage() after the policy was read.
SendBegins ==
  /\ sending = "checked"
  /\ UNCHANGED pass
  /\ IF mapped # None /\ conn[mapped] # "open"
     THEN Teardown /\ sending' = "no"
     ELSE /\ sending' = IF mapped = None THEN "no" ELSE "sent"
          /\ UNCHANGED <<starting, socketVars, mapVars, timerVars, diskVars, historyVars>>

SendReturns ==
  /\ sending # "no"
  /\ sending' = "no"
  /\ UNCHANGED <<starting, socketVars, mapVars, timerVars, pass, diskVars, historyVars>>

\* send_timeout: the pool looks for the provider of the session again, and a
\* send that still waits for the policy goes on.
SendTimesOut ==
  /\ sending # "no" /\ session # None
  /\ sending' = IF sending = "sent" THEN "no" ELSE sending
  /\ Teardown
  /\ UNCHANGED pass
-----------------------------------------------------------------------------
(***************************************************************************)
(* restoreSessions() and recoverDisconnectedSessions().                    *)
(***************************************************************************)
AutoRestore == meta \in {"none", "restore"}

\* listStoredSessions(), and later this session's turn.
RestoreLists ==
  /\ pass = "boot"
  /\ pass' = IF paired \/ meta # "none" THEN "listed" ELSE "idle"
  /\ UNCHANGED <<starting, socketVars, mapVars, timerVars, sending, diskVars, historyVars>>

RestoreLooks ==
  /\ pass = "listed"
  /\ pass' = IF AutoRestore THEN "restoring" ELSE "idle"
  /\ UNCHANGED <<starting, socketVars, mapVars, timerVars, sending, diskVars, historyVars>>

RestoreStarts(i) == pass = "restoring" /\ Begin(i, "restore")

\* The registry cannot be asked: the restore is over, for all sessions.
RestoreFails ==
  /\ pass = "restoring"
  /\ pass' = "idle"
  /\ UNCHANGED <<starting, socketVars, mapVars, timerVars, sending, diskVars, historyVars>>

\* No usable webhookUrl: a session object that only says so.
RestoreSkips(i) ==
  /\ pass = "restoring"
  /\ ~InUse(i)
  /\ session' = i
  /\ status' = "skipped"
  /\ pass' = "idle"
  /\ Overlap(Loading)
  /\ UNCHANGED <<starting, conn, opening, closing, loggedOut, mapped, suppressed, stopped,
                 timerVars, sending, diskVars, asked>>

\* Mutant: only sessions the provider has an object of.
EligibleKnown ==
  /\ AutoRestore /\ paired
  /\ ~stopped /\ mapped = None /\ timer = "off"
  /\ status \in {"disconnected", "skipped"}

Eligible ==
  /\ AutoRestore /\ paired
  /\ ~stopped /\ mapped = None /\ timer = "off"
  /\ status \in {"none", "disconnected", "skipped"}

RecoveryLooks ==
  /\ pass = "idle" /\ Eligible
  /\ pass' = "resolving"
  /\ UNCHANGED <<starting, socketVars, mapVars, timerVars, sending, diskVars, historyVars>>

\* Mutant: what was eligible before the registry answered is started.
RecoveryStartsBlindly(i) ==
  pass = "resolving" /\ Begin(i, "recovery")

RecoveryStarts(i) ==
  pass = "resolving" /\ Eligible /\ Begin(i, "recovery")

RecoverySkips ==
  /\ pass = "resolving"
  /\ pass' = "idle"
  /\ UNCHANGED <<starting, socketVars, mapVars, timerVars, sending, diskVars, historyVars>>
-----------------------------------------------------------------------------
Next ==
  \/ \E i \in Start :
       \/ RouteStart(i) \/ SocketMade(i) \/ StartThrows(i)
       \/ Opens(i) \/ OpenHandled(i) \/ Lost(i)
       \/ \E out \in BOOLEAN : Closes(i, out)
       \/ CloseHandled(i) \/ TimerFires(i)
       \/ RestoreStarts(i) \/ RestoreSkips(i) \/ RecoveryStarts(i)
  \/ \E how \in {"stop", "purge", "keep"} : Stop(how)
  \/ UpdateWebhookUrl \/ CredsWritten
  \/ Probe \/ SendChecked \/ SendBegins \/ SendReturns \/ SendTimesOut
  \/ RestoreLists \/ RestoreLooks \/ RestoreFails \/ RecoveryLooks \/ RecoverySkips
  \/ Exit

Spec == Init /\ [][Next]_vars

\* Awaits end, timers fire and a socket that was ended closes.  A restore or a
\* recovery pass that is tried for ever finds a webhookUrl and the lock free.
FairSpec ==
  /\ Spec
  /\ \A i \in Start :
       /\ WF_vars(SocketMade(i) \/ StartThrows(i))
       /\ WF_vars(conn[i] = "ended" /\ Closes(i, FALSE))
       /\ WF_vars(OpenHandled(i)) /\ WF_vars(CloseHandled(i))
  /\ WF_vars(\E i \in Start : TimerFires(i))
  /\ WF_vars(RestoreLists) /\ SF_vars(RestoreLooks)
  /\ WF_vars(RestoreFails \/ \E i \in Start : RestoreStarts(i) \/ RestoreSkips(i))
  /\ WF_vars(RecoveryLooks) /\ WF_vars(RecoverySkips)
  /\ SF_vars(\E i \in Start :
       (RestoreStarts(i) \/ RecoveryStarts(i)) /\ starting'[i] \in Passes)
-----------------------------------------------------------------------------
(***************************************************************************)
(* Properties.  Nothing keeps two starts, or a start and a stop, of one    *)
(* session apart: `overlapped' says that it happened in this process.      *)
(***************************************************************************)
LiveSockets == {i \in Start : conn[i] \in Live}

\* A session has at most one socket that is connecting or connected, as long
\* as its starts and stops do not come between each other's steps: the
\* handlers, timers, probes, sends and recovery passes never open a second.
OneSocket == overlapped \/ Cardinality(LiveSockets) <= 1

\* A socket is only open under the session lock, which keeps other processes
\* from the credentials it writes.
SocketIsLocked == overlapped \/ (LiveSockets # {} => lock)

\* One socket, and a locked one.
OneLockedSocket == OneSocket /\ SocketIsLocked

\* What was last asked of the session is to stop, and of a purged one no login
\* has come back.
Gone == asked = "stop" \/ (asked = "purge" /\ ~paired)

\* A session that was stopped or purged has no socket, start or reconnect until
\* it is asked for again: no late handler, timer, probe, send, recovery pass or
\* restore of this or a later process brings it back.
StoppedIsQuiet ==
  Gone => mapped = None /\ timer = "off" /\ LiveSockets = {} /\ ~Loading

\* "Recover lost sessions without replacing healthy sockets or QR pairing
\* flows": a recovery pass starts a session only where no socket lives and no
\* other start is on its way.
RecoveryIsAlone ==
  [][pass = "resolving" /\ pass' = "starting" /\ ~overlapped
       => ~Loading /\ LiveSockets = {}]_vars

\* A paired session that should be restored gets a socket, a reconnect or a
\* start again and again: no order of events makes all of them forget it.
SessionRetried ==
  meta = "restore" /\ paired ~>
    \/ mapped # None \/ timer # "off" \/ Loading
    \/ ~(meta = "restore" /\ paired) \/ stopped \/ overlapped

\* "Periodic session recovery failed; retry next interval": a session whose
\* recovery failed is one that the next pass looks at.  (Violated: a start that
\* throws leaves the session connecting, and the pass skips it for good.)
RetryNextInterval ==
  [][\A i \in Start :
       starting[i] = "recovery" /\ pass' = "idle" /\ conn'[i] = "none" /\ session' = i
         => status' = "disconnected"]_vars
=============================================================================
