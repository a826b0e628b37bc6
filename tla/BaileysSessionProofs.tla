------------------------ MODULE BaileysSessionProofs ------------------------
(***************************************************************************)
(* One session has one socket, and a locked one; what was stopped stays    *)
(* quiet; and a recovery pass starts alone: for any number of starts.      *)
(***************************************************************************)
EXTENDS BaileysSession, FiniteSetTheorems, TLAPS

\* A start has no socket yet, and a close that is being handled is over.
NamesAreFree ==
  \A i \in Start :
    /\ starting[i] # "no" => conn[i] = "none" /\ i \notin closing
    /\ i \in closing => conn[i] = "closed"

\* The socket in use is the only one alive; whoever else is still to close, or
\* to be handled, has been told that this was meant.
OthersAreSuppressed ==
  \A i \in Start :
    /\ conn[i] \in Live => mapped = i
    /\ conn[i] = "ended" \/ i \in closing => mapped = i \/ i \in suppressed

\* The start under way is the latest session object's, under the lock.
StartIsTheSession ==
  \A i \in Start :
    starting[i] # "no" =>
      session = i /\ status = "connecting" /\ mapped = None /\ lock

SocketHasSession == mapped # None => lock /\ session # None

GoneIsQuiet == session = None => timer = "off" /\ status = "none"

Orderly ==
  OthersAreSuppressed /\ StartIsTheSession /\ SocketHasSession /\ GoneIsQuiet

SessionInv == TypeOK /\ NamesAreFree /\ (overlapped \/ Orderly)

\* A session that is gone is out of memory, and nothing on disk or under way
\* makes a pass start it.
NothingWaits ==
  Gone =>
    /\ ~overlapped /\ session = None /\ pass # "restoring"
    /\ asked = "stop" => meta = "stopped"
    /\ asked = "purge" => meta = "none" /\ pass # "listed"

Metas == {"none", "restore", "optedOut", "stopped"}
PassAt == {"boot", "listed", "restoring", "idle", "resolving", "starting"}

-----------------------------------------------------------------------------
LEMMA SessionInitially == Init => SessionInv
BY NoneAssumption
DEF Init, SessionInv, TypeOK, NamesAreFree, Orderly, OthersAreSuppressed,
    StartIsTheSession, SocketHasSession, GoneIsQuiet, Live

\* A new process finds nothing in memory to disagree about.
LEMMA ExitKeeps ==
  ASSUME SessionInv, NEW m \in Metas, ExitWith(m)
  PROVE  SessionInv'
BY NoneAssumption
DEF ExitWith, Metas, SessionInv, TypeOK, NamesAreFree, Orderly, OthersAreSuppressed,
    StartIsTheSession, SocketHasSession, GoneIsQuiet, Live

\* Ended are those that were alive and are told to end.
LEMMA Ended ==
  ASSUME TypeOK, NEW j \in Start \cup {None}
  PROVE  /\ End(conn, j) \in [Start -> Live \cup {"none", "ended", "closed"}]
         /\ \A i \in Start : i # j => End(conn, j)[i] = conn[i]
         /\ \A i \in Start : End(conn, j)[i] = conn[i] \/ End(conn, j)[i] = "ended"
         /\ \A i \in Start : i = j => End(conn, j)[i] \notin Live
         /\ \A i \in Start : conn[i] \notin Live => End(conn, j)[i] = conn[i]
BY NoneAssumption DEF End, TypeOK, Live

\* A start tells the socket in use to end before it becomes the session.
LEMMA StartKeeps ==
  ASSUME SessionInv, NEW i \in Start, NEW who \in {"route", "timer", "restore", "recovery"},
         NEW s \in {"loading", "locked out", "no meta", "no lock"},
         StartBegins(i, who, s), pass' \in PassAt
  PROVE  SessionInv'
<1> USE NoneAssumption DEF SessionInv
<1> DEFINE c == End(conn, mapped)
<1>0. /\ TypeOK /\ NamesAreFree /\ mapped \in Start \cup {None}
      /\ c \in [Start -> Live \cup {"none", "ended", "closed"}]
      /\ conn' = [c EXCEPT ![i] = "none"]
      /\ starting[i] = "no" /\ i \notin closing /\ i # mapped
      /\ conn[i] \notin Live /\ conn[i] # "ended"
  BY Ended DEF StartBegins, InUse, TypeOK
<1>1. /\ \A j \in Start : j # i /\ j # mapped => conn'[j] = conn[j]
      /\ \A j \in Start : j # i => conn'[j] = conn[j] \/ (conn'[j] = "ended" /\ j = mapped)
      /\ \A j \in Start : j # i /\ j = mapped => conn'[j] \notin Live
      /\ \A j \in Start : j # i /\ conn[j] \notin Live => conn'[j] = conn[j]
      /\ conn'[i] = "none"
  <2> HIDE DEF c
  <2>1. \A j \in Start : j # i => conn'[j] = c[j]
    BY <1>0
  <2>2. conn'[i] = "none"
    BY <1>0
  <2>3. /\ \A j \in Start : j # mapped => c[j] = conn[j]
        /\ \A j \in Start : c[j] = conn[j] \/ c[j] = "ended"
        /\ \A j \in Start : j = mapped => c[j] \notin Live
        /\ \A j \in Start : conn[j] \notin Live => c[j] = conn[j]
    BY <1>0, Ended DEF c
  <2> QED
    BY <2>1, <2>2, <2>3
<1> HIDE DEF c
<1>2. TypeOK'
  <2>1. stopped' \in BOOLEAN /\ lock' \in BOOLEAN /\ overlapped' \in BOOLEAN
    BY Zenon DEF StartBegins, Acquire, Overlap
  <2>2. /\ starting' \in [Start -> {"no", "route", "timer", "restore", "recovery"}]
        /\ session' \in Start \cup {None} /\ mapped' \in Start \cup {None}
        /\ status' \in {"none", "connecting", "connected", "disconnected", "skipped"}
    BY <1>0 DEF StartBegins, TypeOK
  <2>3. conn' \in [Start -> Live \cup {"none", "ended", "closed"}]
    BY <1>0
  <2>4. suppressed' \subseteq Start /\ loggedOut' \subseteq Start
    BY <1>0 DEF StartBegins, TypeOK
  <2> QED
    BY <1>0, <2>1, <2>2, <2>3, <2>4 DEF StartBegins, TypeOK, PassAt
<1>3. NamesAreFree'
  <2>1. \A j \in Start : j # i => starting'[j] = starting[j]
    BY <1>0 DEF StartBegins, TypeOK
  <2>2. closing' = closing
    BY DEF StartBegins
  <2> QED
    BY <1>0, <1>1, <2>1, <2>2 DEF NamesAreFree, Live
<1>4. ASSUME ~overlapped' PROVE Orderly'
  <2>1. ~overlapped /\ ~Loading
    BY <1>4, Zenon DEF StartBegins, Overlap
  <2>2. OthersAreSuppressed'
    <3>1. OthersAreSuppressed
      BY <2>1 DEF Orderly
    <3>2. suppressed' = (suppressed \ {i}) \cup ({mapped} \ {None}) /\ closing' = closing
      BY DEF StartBegins
    <3> QED
      BY <1>0, <1>1, <3>1, <3>2 DEF OthersAreSuppressed, Live
  <2>3. StartIsTheSession'
    <3>1. \A j \in Start : j # i => starting'[j] = "no"
      BY <1>0, <2>1 DEF StartBegins, Loading, TypeOK
    <3>2. starting'[i] # "no" => s = "loading"
      BY <1>0 DEF StartBegins, TypeOK
    <3>3. s = "loading" => lock'
      BY Zenon DEF StartBegins, Acquire
    <3>4. session' = i /\ mapped' = None /\ (s = "loading" => status' = "connecting")
      BY DEF StartBegins
    <3> QED
      BY <3>1, <3>2, <3>3, <3>4 DEF StartIsTheSession
  <2>4. SocketHasSession' /\ GoneIsQuiet'
    BY DEF StartBegins, SocketHasSession, GoneIsQuiet
  <2> QED
    BY <2>2, <2>3, <2>4 DEF Orderly
<1> QED
  BY <1>2, <1>3, <1>4

\* start() as its callers see it.
LEMMA BeginKeeps ==
  ASSUME SessionInv, NEW i \in Start, NEW who \in {"route", "timer", "restore", "recovery"},
         Begin(i, who)
  PROVE  SessionInv'
<1>1. pass \in PassAt /\ meta \in Metas /\ "restore" \in Metas
  BY DEF SessionInv, TypeOK, PassAt, Metas
<1>2. CASE /\ StartBegins(i, who, "loading")
           /\ pass' = IF who \in Passes THEN "starting" ELSE pass
  BY <1>1, <1>2, StartKeeps DEF PassAt
<1>3. ASSUME NEW s \in {"locked out", "no meta", "no lock"},
             IF who = "timer" THEN ExitWith(IF s = "no meta" THEN meta ELSE "restore")
             ELSE StartBegins(i, who, s) /\ pass' = IF who \in Passes THEN "idle" ELSE pass
      PROVE  SessionInv'
  <2>1. CASE who = "timer"
    <3>1. ExitWith(meta) \/ ExitWith("restore")
      BY <1>3, <2>1
    <3> QED
      BY <1>1, <3>1, ExitKeeps
  <2>2. CASE who # "timer"
    <3>1. StartBegins(i, who, s) /\ pass' \in PassAt
      BY <1>1, <1>3, <2>2 DEF PassAt
    <3> QED
      BY <3>1, StartKeeps
  <2> QED
    BY <2>1, <2>2
<1> QED
  BY <1>2, <1>3 DEF Begin

\* Teardown and stop() tell the socket in use to end, and no one is in its place.
LEMMA Unmapped ==
  ASSUME SessionInv, ~overlapped, ~Loading, Suppress(mapped),
         conn' = End(conn, mapped), mapped' = None, UNCHANGED <<starting, closing>>
  PROVE  OthersAreSuppressed' /\ StartIsTheSession' /\ SocketHasSession'
<1> USE NoneAssumption
<1>0. mapped \in Start \cup {None} /\ TypeOK /\ OthersAreSuppressed
  BY DEF SessionInv, TypeOK, Orderly
<1>1. /\ \A j \in Start : j # mapped => conn'[j] = conn[j]
      /\ \A j \in Start : j = mapped => conn'[j] \notin Live
  BY <1>0, Ended
<1>2. OthersAreSuppressed'
  <2>1. suppressed' = suppressed \cup ({mapped} \ {None})
    BY DEF Suppress
  <2> QED
    BY <1>0, <1>1, <2>1 DEF OthersAreSuppressed
<1>3. StartIsTheSession'
  BY DEF StartIsTheSession, Loading
<1>4. SocketHasSession'
  BY DEF SocketHasSession
<1> QED
  BY <1>2, <1>3, <1>4

LEMMA UnmappedNames ==
  ASSUME SessionInv, conn' = End(conn, mapped), UNCHANGED <<starting, closing>>
  PROVE  NamesAreFree' /\ conn' \in [Start -> Live \cup {"none", "ended", "closed"}]
<1>0. mapped \in Start \cup {None} /\ TypeOK /\ NamesAreFree
  BY DEF SessionInv, TypeOK
<1>1. /\ \A j \in Start : conn[j] \notin Live => conn'[j] = conn[j]
      /\ conn' \in [Start -> Live \cup {"none", "ended", "closed"}]
  BY <1>0, Ended
<1> QED
  BY <1>0, <1>1 DEF NamesAreFree, Live

LEMMA TeardownKeeps ==
  ASSUME SessionInv, Teardown, overlapped \/ session # None,
         sending' \in {"no", "checked", "sent"}, pass' = pass
  PROVE  SessionInv'
<1> USE NoneAssumption
<1>1. NamesAreFree' /\ conn' \in [Start -> Live \cup {"none", "ended", "closed"}]
  BY UnmappedNames DEF Teardown
<1>2. overlapped' \in BOOLEAN
  BY Zenon DEF Teardown, Overlap
<1>3. TypeOK'
  <2>0. TypeOK
    BY DEF SessionInv
  <2>1. suppressed' \subseteq Start
    BY <2>0 DEF Teardown, Suppress, TypeOK
  <2>2. /\ status' \in {"none", "connecting", "connected", "disconnected", "skipped"}
        /\ timer' \in {"url", "nourl"}
    BY <2>0 DEF Teardown, TypeOK
  <2>3. /\ mapped' = None /\ stopped' = FALSE /\ keepalive' = "off"
        /\ starting' = starting /\ opening' = opening /\ closing' = closing
        /\ loggedOut' = loggedOut /\ session' = session /\ asked' = asked
        /\ meta' = meta /\ paired' = paired /\ writes' = writes /\ lock' = lock
    BY DEF Teardown, diskVars
  <2>4. /\ starting' \in [Start -> {"no", "route", "timer", "restore", "recovery"}]
        /\ session' \in Start \cup {None} /\ mapped' \in Start \cup {None}
        /\ opening' \subseteq Start /\ closing' \subseteq Start /\ loggedOut' \subseteq Start
    BY <2>0, <2>3 DEF TypeOK
  <2>5. /\ meta' \in {"none", "restore", "optedOut", "stopped"}
        /\ paired' \in BOOLEAN /\ writes' \in BOOLEAN /\ lock' \in BOOLEAN
        /\ stopped' \in BOOLEAN /\ asked' \in {"none", "start", "stop", "purge"}
        /\ pass' \in {"boot", "listed", "restoring", "idle", "resolving", "starting"}
        /\ timer' \in {"off", "url", "nourl"} /\ keepalive' \in {"off", "ok", "missed"}
    BY <2>0, <2>2, <2>3 DEF TypeOK
  <2> QED
    BY <1>1, <1>2, <2>1, <2>2, <2>4, <2>5 DEF TypeOK
<1>4. ASSUME ~overlapped' PROVE Orderly'
  <2>1. ~overlapped /\ ~Loading
    BY <1>4, Zenon DEF Teardown, Overlap
  <2>2. OthersAreSuppressed' /\ StartIsTheSession' /\ SocketHasSession'
    BY <2>1, Unmapped DEF Teardown
  <2>3. session' # None
    BY <2>1 DEF Teardown
  <2> QED
    BY <2>2, <2>3 DEF Orderly, GoneIsQuiet
<1> QED
  BY <1>1, <1>3, <1>4 DEF SessionInv

LEMMA StopKeeps ==
  ASSUME SessionInv, NEW how \in {"stop", "purge", "keep"}, Stop(how)
  PROVE  SessionInv'
<1> USE NoneAssumption
<1>1. NamesAreFree' /\ conn' \in [Start -> Live \cup {"none", "ended", "closed"}]
  BY UnmappedNames DEF Stop
<1>2. overlapped' \in BOOLEAN /\ paired' \in BOOLEAN /\ writes' \in BOOLEAN
  BY Zenon DEF Stop, Overlap
<1>3. meta' \in Metas
  BY DEF Stop, SessionInv, TypeOK, Metas
<1>4. TypeOK'
  BY <1>1, <1>2, <1>3 DEF Stop, Suppress, SessionInv, TypeOK, Metas, taskVars
<1>5. ASSUME ~overlapped' PROVE Orderly'
  <2>1. ~overlapped /\ ~Loading
    BY <1>5, Zenon DEF Stop, Overlap
  <2>2. OthersAreSuppressed' /\ StartIsTheSession' /\ SocketHasSession'
    BY <2>1, Unmapped DEF Stop
  <2> QED
    BY <2>2 DEF Orderly, GoneIsQuiet, Stop
<1> QED
  BY <1>1, <1>4, <1>5 DEF SessionInv

\* The steps of one start's socket and of its handlers.
LEMMA SocketKeeps ==
  ASSUME SessionInv, NEW i \in Start,
         \/ SocketMade(i) \/ Opens(i) \/ OpenHandled(i) \/ Lost(i) \/ CloseHandled(i)
         \/ \E out \in BOOLEAN : Closes(i, out)
  PROVE  SessionInv'
<1> USE NoneAssumption
<1>0. TypeOK /\ NamesAreFree
  BY DEF SessionInv
<1>1. overlapped' = overlapped
  BY DEF SocketMade, Opens, OpenHandled, Lost, CloseHandled, Closes, historyVars
<1>2. CASE SocketMade(i)
  <2>1. TypeOK' /\ NamesAreFree'
    BY <1>0, <1>2 DEF SocketMade, TypeOK, NamesAreFree, timerVars, diskVars, historyVars, Live
  <2>2. ASSUME Orderly PROVE Orderly'
    <3>1. /\ session = i /\ mapped = None /\ lock
          /\ \A j \in Start : conn[j] \notin Live /\ (j # i => starting[j] = "no")
      BY <1>2, <2>2 DEF SocketMade, Orderly, StartIsTheSession, OthersAreSuppressed
    <3>2. /\ conn' = [conn EXCEPT ![i] = "connecting"] /\ mapped' = i
          /\ starting' = [starting EXCEPT ![i] = "no"]
          /\ UNCHANGED <<closing, suppressed, session, lock, status, timer>>
      BY <1>2 DEF SocketMade, timerVars, diskVars, historyVars
    <3>3. OthersAreSuppressed'
      BY <1>0, <2>2, <3>1, <3>2 DEF Orderly, OthersAreSuppressed, TypeOK
    <3>4. StartIsTheSession'
      BY <1>0, <3>1, <3>2 DEF StartIsTheSession, TypeOK
    <3>5. SocketHasSession' /\ GoneIsQuiet'
      BY <3>1, <3>2 DEF SocketHasSession, GoneIsQuiet
    <3> QED
      BY <3>3, <3>4, <3>5 DEF Orderly
  <2> QED
    BY <1>1, <2>1, <2>2 DEF SessionInv
<1>3. CASE Opens(i)
  <2>1. TypeOK' /\ NamesAreFree'
    <3>1. /\ conn[i] = "connecting" /\ conn' = [conn EXCEPT ![i] = "open"]
          /\ UNCHANGED <<starting, closing>>
      BY <1>3 DEF Opens
    <3>2. NamesAreFree'
      BY <1>0, <3>1 DEF TypeOK, NamesAreFree
    <3>3. conn' \in [Start -> Live \cup {"none", "ended", "closed"}]
      BY <1>0, <3>1 DEF TypeOK, Live
    <3>4. status' \in {"none", "connecting", "connected", "disconnected", "skipped"}
      BY <1>0, <1>3 DEF Opens, SetStatus, TypeOK
    <3>5. /\ opening' \subseteq Start /\ stopped' \in BOOLEAN /\ paired' \in BOOLEAN /\ writes' \in BOOLEAN
          /\ UNCHANGED <<starting, closing, loggedOut, session, mapped, suppressed,
                        timerVars, taskVars, meta, lock, historyVars>>
      BY <1>0, <1>3 DEF Opens, TypeOK
    <3> QED
      BY <1>0, <3>2, <3>3, <3>4, <3>5 DEF TypeOK, timerVars, taskVars, historyVars
  <2>2. Orderly => Orderly'
    BY <1>0, <1>3 DEF Opens, SetStatus, TypeOK, NamesAreFree, Orderly, OthersAreSuppressed,
         StartIsTheSession, SocketHasSession, GoneIsQuiet, timerVars, taskVars, Live
  <2> QED
    BY <1>1, <2>1, <2>2 DEF SessionInv
<1>4. CASE OpenHandled(i)
  BY <1>0, <1>4 DEF OpenHandled, SessionInv, TypeOK, NamesAreFree, Orderly,
       OthersAreSuppressed, StartIsTheSession, SocketHasSession, GoneIsQuiet,
       mapVars, taskVars, diskVars, historyVars
<1>5. CASE Lost(i)
  <2>1. TypeOK' /\ NamesAreFree'
    BY <1>0, <1>5 DEF Lost, TypeOK, NamesAreFree, mapVars, timerVars, taskVars, diskVars, historyVars, Live
  <2>2. Orderly => Orderly'
    BY <1>0, <1>5 DEF Lost, TypeOK, Orderly, OthersAreSuppressed, StartIsTheSession,
         SocketHasSession, GoneIsQuiet, mapVars, timerVars, diskVars, historyVars, Live
  <2> QED
    BY <1>1, <2>1, <2>2 DEF SessionInv
<1>6. ASSUME NEW out \in BOOLEAN, Closes(i, out) PROVE SessionInv'
  <2>1. TypeOK' /\ NamesAreFree'
    BY <1>0, <1>6 DEF Closes, SetStatus, TypeOK, NamesAreFree, mapVars, taskVars, diskVars, historyVars, Live
  <2>2. Orderly => Orderly'
    BY <1>0, <1>6 DEF Closes, SetStatus, TypeOK, NamesAreFree, Orderly, OthersAreSuppressed,
         StartIsTheSession, SocketHasSession, GoneIsQuiet, mapVars, diskVars, historyVars, Live
  <2> QED
    BY <1>1, <2>1, <2>2 DEF SessionInv
<1>7. CASE CloseHandled(i)
  <2>0. stopped' \in BOOLEAN
    BY <1>7, Zenon DEF CloseHandled
  <2>1. TypeOK' /\ NamesAreFree'
    BY <1>0, <1>7, <2>0 DEF CloseHandled, DropOwn, TypeOK, NamesAreFree, taskVars, historyVars
  <2>2. Orderly => Orderly'
    BY <1>0, <1>7 DEF CloseHandled, DropOwn, Meant, TypeOK, NamesAreFree, Orderly,
         OthersAreSuppressed, StartIsTheSession, SocketHasSession, GoneIsQuiet, Live
  <2> QED
    BY <1>1, <2>1, <2>2 DEF SessionInv
<1> QED
  BY <1>2, <1>3, <1>4, <1>5, <1>6, <1>7

\* What the passes and sends look at, and what they leave alone.
LEMMA QuietKeeps ==
  ASSUME SessionInv, TypeOK', UNCHANGED <<starting, socketVars, mapVars, lock, historyVars>>,
         timer' \in {timer, "off"}
  PROVE  SessionInv'
BY DEF SessionInv, NamesAreFree, Orderly, OthersAreSuppressed, StartIsTheSession,
       SocketHasSession, GoneIsQuiet, socketVars, mapVars, historyVars

\* A probe and a send end a socket only of a session that is there.
LEMMA ProbeKeeps ==
  ASSUME SessionInv, Probe \/ SendBegins \/ SendTimesOut
  PROVE  SessionInv'
<1> USE NoneAssumption
<1>0. TypeOK
  BY DEF SessionInv
<1>1. ASSUME Orderly, Connected \/ mapped # None PROVE session # None
  BY <1>1 DEF Orderly, Connected, SocketHasSession, GoneIsQuiet
<1>2. CASE Probe
  <2>1. CASE mapped # None /\ (conn[mapped] = "open" \/ keepalive = "ok")
    <3>1. /\ keepalive' \in {"ok", "missed"}
          /\ UNCHANGED <<starting, socketVars, mapVars, timer, taskVars, diskVars, historyVars>>
      BY <1>2, <2>1 DEF Probe
    <3>2. TypeOK' /\ lock' = lock
      BY <1>0, <3>1 DEF TypeOK, socketVars, mapVars, taskVars, diskVars, historyVars
    <3> QED
      BY <3>1, <3>2, QuietKeeps
  <2>2. CASE ~(mapped # None /\ (conn[mapped] = "open" \/ keepalive = "ok"))
    <3>1. Teardown /\ UNCHANGED taskVars /\ Connected
      BY <1>2, <2>2 DEF Probe
    <3>2. sending' \in {"no", "checked", "sent"} /\ pass' = pass
      BY <1>0, <3>1 DEF TypeOK, taskVars
    <3> QED
      BY <1>1, <3>1, <3>2, TeardownKeeps DEF SessionInv
  <2> QED
    BY <2>1, <2>2
<1>3. CASE SendBegins
  <2>1. CASE mapped # None /\ conn[mapped] # "open"
    <3>1. Teardown /\ sending' = "no" /\ pass' = pass
      BY <1>3, <2>1 DEF SendBegins
    <3> QED
      BY <1>1, <2>1, <3>1, TeardownKeeps DEF SessionInv
  <2>2. CASE ~(mapped # None /\ conn[mapped] # "open")
    <3>1. /\ sending' \in {"no", "sent"} /\ pass' = pass
          /\ UNCHANGED <<starting, socketVars, mapVars, timerVars, diskVars, historyVars>>
      BY <1>3, <2>2 DEF SendBegins
    <3>2. TypeOK' /\ lock' = lock /\ timer' = timer
      BY <1>0, <3>1 DEF TypeOK, socketVars, mapVars, timerVars, diskVars, historyVars
    <3> QED
      BY <3>1, <3>2, QuietKeeps
  <2> QED
    BY <2>1, <2>2
<1>4. CASE SendTimesOut
  <2>1. Teardown /\ session # None /\ pass' = pass
        /\ sending' \in {"no", "checked", "sent"}
    BY <1>0, <1>4 DEF SendTimesOut, TypeOK
  <2> QED
    BY <2>1, TeardownKeeps
<1> QED
  BY <1>2, <1>3, <1>4

LEMMA SessionStep == SessionInv /\ [Next]_vars => SessionInv'
<1> SUFFICES ASSUME SessionInv, [Next]_vars PROVE SessionInv'
  OBVIOUS
<1> USE NoneAssumption
<1>0. TypeOK
  BY DEF SessionInv
<1>1. ASSUME NEW i \in Start, RouteStart(i) PROVE SessionInv'
  BY <1>1, BeginKeeps DEF RouteStart
<1>2. ASSUME NEW i \in Start, RestoreStarts(i) \/ RecoveryStarts(i) PROVE SessionInv'
  BY <1>2, BeginKeeps DEF RestoreStarts, RecoveryStarts
<1>3. ASSUME Exit PROVE SessionInv'
  BY <1>0, <1>3, ExitKeeps DEF Exit, TypeOK, Metas
<1>4. ASSUME NEW i \in Start, TimerFires(i) PROVE SessionInv'
  <2>1. CASE Begin(i, "timer")
    BY <2>1, BeginKeeps
  <2>2. CASE /\ timer' = "off"
             /\ UNCHANGED <<starting, socketVars, mapVars, keepalive, taskVars, diskVars,
                           historyVars>>
    <3>1. TypeOK' /\ lock' = lock
      BY <1>0, <2>2 DEF TypeOK, socketVars, mapVars, taskVars, diskVars, historyVars
    <3> QED
      BY <2>2, <3>1, QuietKeeps
  <2> QED
    BY <1>3, <1>4, <2>1, <2>2 DEF TimerFires
<1>5. ASSUME NEW i \in Start, StartThrows(i) PROVE SessionInv'
  <2>1. CASE starting[i] # "timer"
    <3>1. /\ starting' = [starting EXCEPT ![i] = "no"]
          /\ pass' \in {"idle", pass}
          /\ UNCHANGED <<socketVars, mapVars, timerVars, sending, diskVars, historyVars>>
      BY <1>5, <2>1 DEF StartThrows
    <3>2. TypeOK'
      BY <1>0, <3>1 DEF TypeOK, socketVars, mapVars, timerVars, diskVars, historyVars
    <3>3. \A j \in Start : starting'[j] # "no" => starting'[j] = starting[j]
      BY <1>0, <3>1 DEF TypeOK
    <3> QED
      BY <3>1, <3>2, <3>3 DEF SessionInv, NamesAreFree, Orderly, OthersAreSuppressed,
           StartIsTheSession, SocketHasSession, GoneIsQuiet, socketVars, mapVars,
           timerVars, diskVars, historyVars
  <2> QED
    BY <1>3, <1>5, <2>1 DEF StartThrows
<1>6. ASSUME NEW i \in Start, RestoreSkips(i) PROVE SessionInv'
  <2>0. overlapped' \in BOOLEAN
    BY <1>6, Zenon DEF RestoreSkips, Overlap
  <2>1. TypeOK' /\ NamesAreFree'
    BY <1>0, <1>6, <2>0 DEF RestoreSkips, SessionInv, TypeOK, NamesAreFree, timerVars, diskVars, historyVars
  <2>2. ASSUME ~overlapped' PROVE Orderly'
    <3>1. ~overlapped /\ ~Loading
      BY <1>6, <2>2, Zenon DEF RestoreSkips, Overlap
    <3> QED
      BY <1>6, <3>1 DEF RestoreSkips, SessionInv, Orderly, OthersAreSuppressed,
           StartIsTheSession, SocketHasSession, GoneIsQuiet, Loading, diskVars, historyVars
  <2> QED
    BY <2>1, <2>2 DEF SessionInv
<1>7. ASSUME NEW how \in {"stop", "purge", "keep"}, Stop(how) PROVE SessionInv'
  BY <1>7, StopKeeps
<1>8. CASE UpdateWebhookUrl
  <2>1. /\ meta' \in Metas /\ session # None
        /\ status' = IF status = "skipped" THEN "disconnected" ELSE status
        /\ UNCHANGED <<starting, conn, opening, closing, loggedOut, mapVars, timerVars,
                      taskVars, paired, writes, lock, historyVars>>
    BY <1>0, <1>8 DEF UpdateWebhookUrl, TypeOK, Metas
  <2>2. TypeOK'
    BY <1>0, <2>1 DEF TypeOK, Metas, mapVars, timerVars, taskVars, historyVars
  <2> QED
    BY <2>1, <2>2 DEF SessionInv, NamesAreFree, Orderly, OthersAreSuppressed,
         StartIsTheSession, SocketHasSession, GoneIsQuiet, mapVars, timerVars, historyVars
<1>9. ASSUME \/ SendChecked \/ SendReturns
             \/ RestoreLists \/ RestoreLooks \/ RestoreFails
             \/ RecoveryLooks \/ RecoverySkips \/ CredsWritten \/ UNCHANGED vars
      PROVE  SessionInv'
  <2>1. UNCHANGED <<starting, socketVars, mapVars, timerVars, meta, lock, historyVars>>
    BY <1>9 DEF SendChecked, SendReturns, RestoreLists, RestoreLooks, RestoreFails,
         RecoveryLooks, RecoverySkips, CredsWritten, vars, diskVars
  <2>2. sending' \in {"no", "checked", "sent"} /\ pass' \in PassAt
    BY <1>0, <1>9 DEF SendChecked, SendReturns, RestoreLists, RestoreLooks, RestoreFails,
         RecoveryLooks, RecoverySkips, CredsWritten, vars, taskVars, TypeOK, PassAt
  <2>0. paired' \in BOOLEAN /\ writes' \in BOOLEAN
    BY <1>0, <1>9 DEF SendChecked, SendReturns, RestoreLists, RestoreLooks, RestoreFails,
         RecoveryLooks, RecoverySkips, CredsWritten, vars, diskVars, TypeOK
  <2>3. TypeOK' /\ lock' = lock /\ timer' = timer
    BY <1>0, <2>0, <2>1, <2>2 DEF TypeOK, PassAt, socketVars, mapVars, timerVars, historyVars
  <2> QED
    BY <2>1, <2>3, QuietKeeps
<1> QED
  BY <1>1, <1>2, <1>3, <1>4, <1>5, <1>6, <1>7, <1>8, <1>9, SocketKeeps, ProbeKeeps
  DEF Next

LEMMA SessionInvariant == Spec => []SessionInv
BY SessionInitially, SessionStep, PTL DEF Spec

\* The types of the session's variables.
THEOREM SessionTypeCorrect == Spec => []TypeOK
BY SessionInvariant, PTL DEF SessionInv

\* baileysProvider.ts: at most one socket of a session is connecting or open, and
\* only under the session lock, while its starts and stops do not overlap.
THEOREM OneLockedSocketAtATime == Spec => []OneLockedSocket
<1>1. ASSUME SessionInv, ~overlapped
      PROVE  Cardinality(LiveSockets) <= 1 /\ (LiveSockets # {} => lock)
  <2>1. LiveSockets = {} \/ (LiveSockets = {mapped} /\ mapped # None)
    BY <1>1, NoneAssumption DEF SessionInv, Orderly, OthersAreSuppressed, LiveSockets
  <2>2. Cardinality(LiveSockets) <= 1
    <3>1. CASE LiveSockets = {}
      BY <3>1, FS_EmptySet
    <3>2. CASE LiveSockets = {mapped}
      <4>1. Cardinality({mapped}) = 1
        BY FS_Singleton
      <4> QED
        BY <3>2, <4>1
    <3> QED
      BY <2>1, <3>1, <3>2
  <2>3. LiveSockets # {} => lock
    BY <1>1, <2>1 DEF SessionInv, Orderly, SocketHasSession
  <2> QED
    BY <2>2, <2>3
<1>2. SessionInv => OneLockedSocket
  BY <1>1 DEF OneLockedSocket, OneSocket, SocketIsLocked
<1> QED
  BY SessionInvariant, <1>2, PTL

\* In memory nothing is left of a session that is gone.
LEMMA GoneIsOut ==
  ASSUME SessionInv, NothingWaits, Gone
  PROVE  /\ session = None /\ mapped = None /\ timer = "off" /\ status = "none"
         /\ \A i \in Start : starting[i] = "no" /\ conn[i] \notin Live
         /\ \A i \in closing : i \in suppressed
         /\ pass # "restoring" /\ ~(AutoRestore /\ paired)
<1>1. /\ Orderly /\ TypeOK /\ session = None /\ pass # "restoring"
      /\ asked = "stop" => meta = "stopped"
  BY DEF SessionInv, NothingWaits
<1>2. mapped = None /\ timer = "off" /\ status = "none"
  BY <1>1 DEF Orderly, SocketHasSession, GoneIsQuiet
<1>3. \A i \in Start : starting[i] = "no" /\ conn[i] \notin Live
  BY <1>1, <1>2, NoneAssumption DEF Orderly, OthersAreSuppressed, StartIsTheSession
<1>4. \A i \in closing : i \in suppressed
  BY <1>1, <1>2, NoneAssumption DEF Orderly, OthersAreSuppressed, TypeOK
<1>5. ~(AutoRestore /\ paired)
  BY <1>1 DEF Gone, AutoRestore
<1> QED
  BY <1>1, <1>2, <1>3, <1>4, <1>5

\* Only a stop makes a session gone.
LEMMA GoneByStop ==
  ASSUME TypeOK, [Next]_vars, Gone', \A how \in {"stop", "purge", "keep"} : ~Stop(how)
  PROVE  Gone
<1> SUFFICES asked' = asked /\ (paired => paired')
  BY DEF Gone
<1>1. ASSUME NEW i \in Start, NEW who \in {"route", "timer", "restore", "recovery"},
             Begin(i, who)
      PROVE  asked' = asked /\ (paired => paired')
  <2>1. asked' # "start"
    BY DEF Gone
  <2> QED
    BY <1>1, <2>1 DEF Begin, StartBegins, ExitWith
<1>2. ASSUME NEW i \in Start,
             RouteStart(i) \/ RestoreStarts(i) \/ RecoveryStarts(i) \/ TimerFires(i)
      PROVE  asked' = asked /\ (paired => paired')
  BY <1>1, <1>2 DEF RouteStart, RestoreStarts, RecoveryStarts, TimerFires, Exit, ExitWith,
     historyVars, diskVars
<1>3. ASSUME NEW i \in Start,
             \/ SocketMade(i) \/ StartThrows(i) \/ Opens(i) \/ OpenHandled(i) \/ Lost(i)
             \/ \E out \in BOOLEAN : Closes(i, out)
             \/ CloseHandled(i) \/ RestoreSkips(i)
      PROVE  asked' = asked /\ (paired => paired')
  BY <1>3 DEF SocketMade, StartThrows, Opens, OpenHandled, Lost, Closes, CloseHandled,
     RestoreSkips, Exit, ExitWith, historyVars, diskVars
<1>4. ASSUME \/ UpdateWebhookUrl \/ CredsWritten
             \/ Probe \/ SendChecked \/ SendBegins \/ SendReturns \/ SendTimesOut
             \/ RestoreLists \/ RestoreLooks \/ RestoreFails \/ RecoveryLooks
             \/ RecoverySkips \/ Exit \/ UNCHANGED vars
      PROVE  asked' = asked /\ (paired => paired')
  BY <1>4 DEF UpdateWebhookUrl, CredsWritten, Probe, SendChecked, SendBegins, SendReturns,
     SendTimesOut, Teardown, RestoreLists, RestoreLooks, RestoreFails, RecoveryLooks,
     RecoverySkips, Exit, ExitWith, historyVars, diskVars, vars
<1> QED
  BY <1>2, <1>3, <1>4 DEF Next

LEMMA WaitingKeeps ==
  ASSUME SessionInv, NothingWaits, [Next]_vars
  PROVE  NothingWaits'
<1> DEFINE Waits == /\ ~overlapped /\ session = None /\ pass # "restoring"
                    /\ asked = "stop" => meta = "stopped"
                    /\ asked = "purge" => meta = "none" /\ pass # "listed"
<1> SUFFICES ASSUME Gone' PROVE Waits'
  BY DEF NothingWaits
<1>0. TypeOK /\ (Gone => Waits)
  BY DEF SessionInv, NothingWaits
<1>1. ASSUME NEW how \in {"stop", "purge", "keep"}, Stop(how) PROVE Waits'
  <2>1. ~overlapped' /\ asked' = IF how = "keep" THEN asked ELSE how
    BY <1>1 DEF Stop, Gone
  <2>2. pass \notin {"listed", "restoring"}
    BY <1>1, <2>1, Zenon DEF Stop, Overlap
  <2>3. /\ session' = None /\ pass' = pass
        /\ meta' = IF how = "keep" THEN meta ELSE IF how = "stop" THEN "stopped" ELSE "none"
        /\ how # "purge" => paired' = paired
    BY <1>0, <1>1 DEF Stop, taskVars, TypeOK
  <2>4. CASE how = "keep"
    BY <1>0, <2>1, <2>2, <2>3, <2>4 DEF Gone
  <2>5. CASE how # "keep"
    BY <2>1, <2>2, <2>3, <2>5
  <2> QED
    BY <2>4, <2>5
<1>2. ASSUME \A how \in {"stop", "purge", "keep"} : ~Stop(how) PROVE Waits'
  <2>1. Gone /\ Waits
    BY <1>0, <1>2, GoneByStop
  <2>2. /\ session = None /\ mapped = None /\ timer = "off" /\ status = "none"
        /\ \A i \in Start : starting[i] = "no" /\ conn[i] \notin Live
        /\ \A i \in closing : i \in suppressed
        /\ pass # "restoring" /\ ~(AutoRestore /\ paired)
    BY <2>1, GoneIsOut
  <2> HIDE DEF Waits
  <2>3. ASSUME Exit PROVE Waits'
    BY <1>0, <2>1, <2>3 DEF Exit, ExitWith, Gone, Waits
  <2>4. ASSUME NEW i \in Start PROVE ~(TimerFires(i) \/ RestoreStarts(i) \/ RestoreSkips(i)
                 \/ RecoveryStarts(i) \/ SocketMade(i) \/ StartThrows(i) \/ Lost(i) \/ Opens(i))
    BY <2>2 DEF TimerFires, RestoreStarts, RestoreSkips, RecoveryStarts, Eligible,
       SocketMade, StartThrows, Lost, Opens, Live
  <2>5. ASSUME NEW i \in Start PROVE ~RouteStart(i)
    BY DEF RouteStart, Begin, StartBegins, Gone
  <2>6. ~UpdateWebhookUrl /\ ~Probe /\ ~SendTimesOut
    BY <2>2 DEF UpdateWebhookUrl, Probe, Connected, SendTimesOut
  <2>7. ASSUME NEW i \in Start,
               OpenHandled(i) \/ CloseHandled(i) \/ \E out \in BOOLEAN : Closes(i, out)
        PROVE  Waits'
    BY <2>1, <2>2, <2>7 DEF OpenHandled, CloseHandled, Meant, Closes, mapVars, taskVars,
       diskVars, historyVars, Gone, Waits
  <2>8. ASSUME SendChecked \/ SendBegins \/ SendReturns PROVE Waits'
    BY <2>1, <2>2, <2>8 DEF SendChecked, SendBegins, SendReturns, mapVars, diskVars,
       historyVars, Gone, Waits
  <2>9. ASSUME \/ RestoreLists \/ RestoreLooks \/ RestoreFails \/ RecoveryLooks
               \/ RecoverySkips
        PROVE  Waits'
    BY <2>1, <2>2, <2>9 DEF RestoreLists, RestoreLooks, RestoreFails, RecoveryLooks,
       RecoverySkips, AutoRestore, mapVars, diskVars, historyVars, Gone, Waits
  <2>10. ASSUME CredsWritten \/ UNCHANGED vars PROVE Waits'
    BY <2>1, <2>10 DEF CredsWritten, vars, mapVars, taskVars, diskVars, historyVars, Gone,
       Waits
  <2> QED
    BY <1>2, <2>3, <2>4, <2>5, <2>6, <2>7, <2>8, <2>9, <2>10 DEF Next
<1> QED
  BY <1>1, <1>2

\* baileysProvider.ts:607-635: nothing but a start that is asked for brings a
\* session back that was stopped, in this process or a later one.
THEOREM StoppedStaysQuiet == Spec => []StoppedIsQuiet
<1>1. Init => NothingWaits
  BY DEF Init, NothingWaits, Gone
<1>2. SessionInv /\ NothingWaits /\ [Next]_vars => NothingWaits'
  BY WaitingKeeps
<1>3. SessionInv /\ NothingWaits => StoppedIsQuiet
  BY GoneIsOut DEF StoppedIsQuiet, LiveSockets, Loading
<1> QED
  BY SessionInvariant, <1>1, <1>2, <1>3, PTL DEF Spec

\* baileysProvider.ts:722-760: a recovery pass starts a session only where no
\* socket lives and no other start is on its way.
THEOREM RecoveryStartsAlone == Spec => RecoveryIsAlone
<1> DEFINE A == pass = "resolving" /\ pass' = "starting" /\ ~overlapped
                  => ~Loading /\ LiveSockets = {}
<1>1. ASSUME SessionInv, [Next]_vars PROVE [A]_vars
  <2> SUFFICES ASSUME pass = "resolving", pass' = "starting", ~overlapped
               PROVE  ~Loading /\ LiveSockets = {}
    OBVIOUS
  <2>1. PICK i \in Start : RecoveryStarts(i)
    BY <1>1 DEF vars, Next, RouteStart, Begin, StartBegins, SocketMade, StartThrows, Exit,
       ExitWith, Opens, OpenHandled, Lost, Closes, CloseHandled, TimerFires, RestoreStarts,
       RestoreSkips, Stop, UpdateWebhookUrl, Probe, SendChecked, SendBegins, SendReturns,
       SendTimesOut, RestoreLists, RestoreLooks, RestoreFails, RecoveryLooks, RecoverySkips,
       CredsWritten, taskVars, Passes
  <2>2. mapped = None /\ status # "connecting"
    BY <2>1 DEF RecoveryStarts, Eligible
  <2> QED
    BY <1>1, <2>2, NoneAssumption DEF SessionInv, Orderly, OthersAreSuppressed,
       StartIsTheSession, LiveSockets, Loading
<1> QED
  BY SessionInvariant, <1>1, PTL DEF Spec, RecoveryIsAlone
=============================================================================
