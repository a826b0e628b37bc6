----------------------------- MODULE RouteProofs -----------------------------
(***************************************************************************)
(* Who may start a session is decided by what was in force while the       *)
(* request ran; a device's policy is kept by whatever way a request takes  *)
(* to WhatsApp; and what the requests answer, and what the caches keep for *)
(* the next ones, is true.  For any number of requests and messages,       *)
(* whatever changes between their reads, and whichever reads fail.         *)
(***************************************************************************)
EXTENDS Onboarding, Routes, SequenceTheorems, FiniteSetTheorems,
        WellFoundedInduction, TLAPS

-----------------------------------------------------------------------------
(* Who may start a session (Onboarding).                                   *)

Entitlement == {"central", "system", "slot"}
Stage == {"idle", "alert", "resolving", "starting", "migrating"} \cup Read \cup Final

Requests ==
  [route : {"none", "start", "migrate", "connect"}, at : Stage,
   found : {"none", "url"}, row : {"none", "other", "whatsapp", "bare", "devices"}]

ValuesOK ==
  /\ licence \in Licence
  /\ config \in [hub : BOOLEAN, jumpstart : BOOLEAN, alerts : BOOLEAN]
  /\ ask \in [Asking -> Requests]
  /\ ever \in [Asking -> BOOLEAN]
  /\ throughout \in [Asking -> SUBSET Entitlement]
  /\ \A r \in Asking : ask[r].at \in Read => ask[r].route # "none"

\* The history of a request says what the tables have said since it arrived.
HistoryOK ==
  \A r \in Asking :
    /\ throughout[r] \subseteq InForce(licence)
    /\ ask[r].at # "idle" /\ InForce(licence) # {} => ever[r]

Granting == {"resolving", "starting", "migrating", "started", "page", "migrated"}

\* A row that grants was there when it was read, and so was each row whose
\* absence sent the request to the next read.
ReadsOK ==
  \A r \in Asking :
    /\ ask[r].at \in Granting => ever[r]
    /\ ask[r].at = "system" => config.jumpstart
    /\ ask[r].at = "product" /\ ask[r].row = "whatsapp" => ever[r]
    /\ ask[r].at = "plan" /\ ask[r].row = "devices" => ever[r]
    /\ ask[r].at \in {"system", "plan", "slot", "forbidden"} \/
       (ask[r].at = "product" /\ ask[r].row # "whatsapp") => "central" \notin throughout[r]
    /\ ask[r].at \in {"slot", "forbidden"} \/
       (ask[r].at = "plan" /\ ask[r].row # "devices") => "system" \notin throughout[r]
    /\ ask[r].at = "forbidden" => "slot" \notin throughout[r]

\* The gap between alerts is counted from the last one.
GapOK ==
  /\ quiet \in 0..AlertGap /\ alertAge \in [Asking -> 0..AlertGap]
  /\ \A s \in Asking : quiet <= alertAge[s]
  /\ quiet < AlertGap => \E s \in Asking : alertAge[s] = quiet

EntitledInv == ValuesOK /\ HistoryOK /\ ReadsOK

-----------------------------------------------------------------------------
LEMMA OnboardInitially == OnboardInit => EntitledInv /\ GapOK
<1> SUFFICES ASSUME OnboardInit PROVE EntitledInv /\ GapOK
  OBVIOUS
<1>1. ValuesOK
  BY DEF OnboardInit, ValuesOK, Requests, Stage, Absent, Read
<1>2. HistoryOK /\ ReadsOK
  BY DEF OnboardInit, HistoryOK, ReadsOK, Absent, Granting
<1>3. GapOK
  BY OnboardingConstants DEF OnboardInit, GapOK
<1> QED
  BY <1>1, <1>2, <1>3 DEF EntitledInv

\* Only the tick and the watched read's failures touch the gap.
LEMMA GapStep == GapOK /\ [OnboardNext]_onboardVars => GapOK'
<1> SUFFICES ASSUME GapOK, [OnboardNext]_onboardVars PROVE GapOK'
  OBVIOUS
<1> USE OnboardingConstants DEF GapOK
<1>1. CASE TimePasses
  <2>1. /\ quiet < AlertGap /\ quiet' = quiet + 1
        /\ alertAge' = [r \in Asking |-> IF alertAge[r] < AlertGap THEN alertAge[r] + 1
                                        ELSE alertAge[r]]
    BY <1>1 DEF TimePasses
  <2>2. alertAge' \in [Asking -> 0..AlertGap] /\ quiet' \in 0..AlertGap
    BY <2>1
  <2>3. \A s \in Asking : quiet' <= alertAge'[s]
    BY <2>1
  <2>4. PICK s \in Asking : alertAge[s] = quiet
    BY <2>1
  <2>5. alertAge'[s] = quiet'
    BY <2>1, <2>4
  <2> QED
    BY <2>2, <2>3, <2>5
<1>2. CASE UNCHANGED <<quiet, alertAge>>
  BY <1>2
<1>3. ASSUME NEW r \in Asking, ReadFails(r) PROVE GapOK'
  <2>1. CASE Fails(r)
    <3>1. CASE quiet' = 0 /\ alertAge' = [alertAge EXCEPT ![r] = 0]
      <4>1. alertAge'[r] = 0 /\ alertAge' \in [Asking -> 0..AlertGap]
        BY <3>1
      <4> QED
        BY <3>1, <4>1
    <3> QED
      BY <1>2, <2>1, <3>1 DEF Fails
  <2>2. CASE FailsElsewhere(r)
    BY <2>2 DEF FailsElsewhere
  <2> QED
    BY <1>3, <2>1, <2>2 DEF ReadFails
<1>4. ASSUME NEW r \in Asking, Serves(r), ~ReadFails(r)
      PROVE  UNCHANGED <<quiet, alertAge>>
  BY <1>4 DEF Serves, DeviceRead, CentralRead, ProductRead, SystemRead, PlanRead,
              SlotRead, AlertEnds, Resolved, StartEnds, MigrateEnds
<1>5. ASSUME NEW r \in Asking, NEW path \in {"start", "migrate", "connect"},
             NEW suits \in BOOLEAN, Arrives(r, path, suits)
      PROVE  UNCHANGED <<quiet, alertAge>>
  BY <1>5 DEF Arrives
<1>6. CASE LicenceChanges
  BY <1>2, <1>6 DEF LicenceChanges
<1>7. CASE UNCHANGED onboardVars
  BY <1>2, <1>7 DEF onboardVars
<1> QED
  BY <1>1, <1>2, <1>3, <1>4, <1>5, <1>6, <1>7 DEF OnboardNext

\* A request that moves on its own leaves the tables and the histories alone:
\* it is enough to look at its new record.
LEMMA OneMoves ==
  ASSUME EntitledInv, Same, NEW r \in Asking, NEW new \in Requests,
         ask' = [ask EXCEPT ![r] = new],
         ask[r].at # "idle",
         new.at \in Read => new.route # "none",
         new.at \in Granting => ever[r],
         new.at = "system" => config.jumpstart,
         new.at = "product" /\ new.row = "whatsapp" => ever[r],
         new.at = "plan" /\ new.row = "devices" => ever[r],
         new.at \in {"system", "plan", "slot", "forbidden"} \/
           (new.at = "product" /\ new.row # "whatsapp") => "central" \notin throughout[r],
         new.at \in {"slot", "forbidden"} \/
           (new.at = "plan" /\ new.row # "devices") => "system" \notin throughout[r],
         new.at = "forbidden" => "slot" \notin throughout[r]
  PROVE  EntitledInv'
<1>1. ValuesOK'
  BY DEF EntitledInv, ValuesOK, Same
<1>2. UNCHANGED <<licence, config, ever, throughout>> /\ InForce(licence)' = InForce(licence)
  BY DEF Same, InForce
<1>3. ask \in [Asking -> Requests]
  BY DEF EntitledInv, ValuesOK
<1>4. HistoryOK'
  BY <1>2, <1>3 DEF EntitledInv, HistoryOK
<1>5. ReadsOK'
  BY <1>2, <1>3 DEF EntitledInv, ReadsOK
<1> QED
  BY <1>1, <1>4, <1>5 DEF EntitledInv

\* Where a request goes with nothing read: a stage of this kind asks no more of
\* the reads than what is known of them already.
LEMMA ServiceStep ==
  ASSUME EntitledInv, NEW r \in Asking, Serves(r)
  PROVE  EntitledInv'
<1> DEFINE old == ask[r]
           plain(to) == [Absent EXCEPT !.route = old.route, !.at = to]
           with(to, x) == [old EXCEPT !.at = to, !.row = x]
<1>0. /\ ask \in [Asking -> Requests] /\ old \in Requests
      /\ licence \in Licence /\ config.jumpstart \in BOOLEAN
      /\ old.at \in Read => old.route \in {"start", "migrate", "connect"}
  BY DEF EntitledInv, ValuesOK, Requests, Read
<1>1. \A to \in Stage :
        /\ plain(to) \in Requests /\ plain(to).at = to /\ plain(to).row = "none"
        /\ plain(to).route = old.route
  BY <1>0 DEF Requests, Absent
<1>2. \A to \in Stage, x \in {"none", "other", "whatsapp", "bare", "devices"} :
        /\ with(to, x) \in Requests /\ with(to, x).at = to /\ with(to, x).row = x
        /\ with(to, x).route = old.route
  BY <1>0 DEF Requests
<1>3. ASSUME NEW to \in Granting \cup {"failed", "refused", "unavailable", "nourl", "alert"},
             Goes(r, to), Same, old.at # "idle", to \in Granting => ever[r]
      PROVE  EntitledInv'
  <2>1. to \in Stage /\ to \notin Read /\ to \notin {"product", "plan", "slot", "system", "forbidden"}
    BY <1>3 DEF Stage, Read, Final, Granting
  <2>2. ask' = [ask EXCEPT ![r] = plain(to)]
    BY <1>3 DEF Goes
  <2> QED
    BY <1>1, <1>3, <2>1, <2>2, OneMoves
<1>4. ASSUME NEW to \in Read, NEW x \in {"none", "other", "whatsapp", "bare", "devices"},
             ask' = [ask EXCEPT ![r] = with(to, x)], Same, old.at \in Read,
             to = "system" => config.jumpstart,
             to = "product" /\ x = "whatsapp" => ever[r],
             to = "plan" /\ x = "devices" => ever[r],
             to \in {"system", "plan", "slot"} \/ (to = "product" /\ x # "whatsapp")
               => "central" \notin throughout[r],
             to = "slot" \/ (to = "plan" /\ x # "devices") => "system" \notin throughout[r]
      PROVE  EntitledInv'
  <2>1. to \in Stage /\ to \notin Granting /\ to # "forbidden" /\ old.at # "idle"
    BY <1>4 DEF Stage, Read, Final, Granting
  <2>2. old.route # "none"
    BY <1>0, <1>4
  <2> DEFINE new == with(to, x)
  <2>3. new \in Requests /\ new.at = to /\ new.row = x /\ new.route = old.route
    <3> HIDE DEF with, old
    <3> QED
      BY <1>2, <2>1
  <2>4. ask' = [ask EXCEPT ![r] = new]
    BY <1>4
  <2> HIDE DEF new
  <2>5. /\ new.at = "product" /\ new.row = "whatsapp" => ever[r]
        /\ new.at = "plan" /\ new.row = "devices" => ever[r]
        /\ new.at = "system" => config.jumpstart
    BY <1>4, <2>3
  <2>6. /\ new.at \in {"system", "plan", "slot", "forbidden"} \/
             (new.at = "product" /\ new.row # "whatsapp") => "central" \notin throughout[r]
        /\ new.at \in {"slot", "forbidden"} \/
             (new.at = "plan" /\ new.row # "devices") => "system" \notin throughout[r]
    BY <1>4, <2>1, <2>3
  <2>7. new.at \notin Granting /\ new.at # "forbidden" /\ new.route # "none"
    BY <2>1, <2>2, <2>3
  <2> QED
    BY <1>4, <2>1, <2>3, <2>4, <2>5, <2>6, <2>7, OneMoves
<1>5. ASSUME old.at \in Read, ever[r], Same, Granted(r) PROVE EntitledInv'
  <2>1. PICK to \in AfterGrant(old.route, old.found) : Goes(r, to)
    BY <1>5 DEF Granted
  <2>2. to \in Granting \cup {"failed", "refused", "unavailable", "nourl", "alert"}
    BY <1>0, <1>5, <2>1 DEF AfterGrant, FromDisk, Granting
  <2>3. old.at # "idle"
    BY <1>5 DEF Read
  <2> QED
    BY <1>3, <1>5, <2>1, <2>2, <2>3
<1> HIDE DEF plain, with
<1>6. ASSUME ReadFails(r) PROVE EntitledInv'
  <2>1. \E told \in BOOLEAN : Recorded(r, told)
    BY <1>0, <1>6 DEF ReadFails, Fails, FailsElsewhere, EntitledInv, ValuesOK
  <2>2. Goes(r, "alert") \/ Goes(r, "unavailable")
    BY <2>1 DEF Recorded
  <2>3. Same /\ old.at # "idle"
    BY <1>6 DEF ReadFails, Read
  <2> QED
    BY <1>3, <2>2, <2>3 DEF Granting
<1>7. CASE AlertEnds(r)
  BY <1>3, <1>7 DEF AlertEnds, Granting
<1>8. CASE Resolved(r)
  <2>1. ever[r]
    BY <1>8 DEF Resolved, EntitledInv, ReadsOK, Granting
  <2> QED
    BY <1>3, <1>8, <2>1 DEF Resolved, FromDisk, Granting
<1>9. CASE StartEnds(r) \/ MigrateEnds(r)
  <2>1. ever[r] /\ Same /\ old.at # "idle"
    BY <1>9 DEF StartEnds, MigrateEnds, EntitledInv, ReadsOK, Granting
  <2>2. \E to \in {"started", "failed", "page", "migrated"} : Goes(r, to)
    BY <1>9 DEF StartEnds, MigrateEnds
  <2> QED
    BY <1>3, <2>1, <2>2 DEF Granting
<1>a. ASSUME old.at \in Read
      PROVE  /\ old.at # "idle" /\ old.row \in {"none", "other", "whatsapp", "bare", "devices"}
             /\ \A e \in Entitlement : e \in InForce(licence) => ever[r]
             /\ \A e \in Entitlement : e \notin InForce(licence) => e \notin throughout[r]
  <2>1. old.at # "idle"
    BY <1>a DEF Read
  <2> QED
    BY <1>0, <2>1 DEF EntitledInv, HistoryOK, Requests
<1>b. /\ licence.central = "whatsapp" <=> "central" \in InForce(licence)
      /\ "system" \in InForce(licence) <=>
           licence.system = "devices" /\ config.jumpstart
      /\ licence.slot = "active" <=> "slot" \in InForce(licence)
  BY DEF InForce
<1>c. /\ licence.central \in {"none", "other", "whatsapp"}
      /\ licence.system \in {"none", "bare", "devices"}
  BY <1>0 DEF Licence
<1>10. CASE DeviceRead(r)
  <2>1. PICK found \in {"none", "url"} :
          ask' = [ask EXCEPT ![r].at = "central", ![r].found = found]
    BY <1>10 DEF DeviceRead
  <2> DEFINE new == [old EXCEPT !.at = "central", !.found = found]
  <2>2. new \in Requests /\ new.at = "central" /\ new.route = old.route
    BY <1>0 DEF Requests, Stage, Read
  <2>3. ask' = [ask EXCEPT ![r] = new]
    BY <1>0, <2>1
  <2>4. Same /\ old.at # "idle" /\ old.route # "none"
    BY <1>0, <1>10 DEF DeviceRead, Read
  <2> HIDE DEF new
  <2> QED
    BY <2>2, <2>3, <2>4, OneMoves DEF Granting
<1>11. CASE CentralRead(r)
  <2>1. Same /\ old.at \in Read
    BY <1>11 DEF CentralRead, Read
  <2>2. Finds(r, licence.central, "product", AfterHub)
    BY <1>11 DEF CentralRead
  <2>3. CASE licence.central = "none"
    <3>1. ask' = [ask EXCEPT ![r] = with(AfterHub, old.row)]
      BY <1>0, <2>2, <2>3 DEF Finds, with
    <3>2. "central" \notin throughout[r]
      BY <1>a, <1>b, <2>1, <2>3 DEF Entitlement
    <3>3. AfterHub = "slot" => "system" \notin throughout[r]
      BY <1>a, <1>b, <2>1 DEF AfterHub, Entitlement
    <3>4. AfterHub \in {"system", "slot"} /\ (AfterHub = "system" => config.jumpstart)
      BY DEF AfterHub
    <3> QED
      BY <1>4, <1>a, <2>1, <3>1, <3>2, <3>3, <3>4 DEF Read
  <2>4. CASE licence.central # "none"
    <3>1. ask' = [ask EXCEPT ![r] = with("product", licence.central)]
      BY <1>0, <2>2, <2>4 DEF Finds, with
    <3>2. licence.central = "whatsapp" => ever[r]
      BY <1>a, <1>b, <2>1 DEF Entitlement
    <3>3. licence.central # "whatsapp" => "central" \notin throughout[r]
      BY <1>a, <1>b, <2>1 DEF Entitlement
    <3> QED
      BY <1>4, <1>c, <2>1, <3>1, <3>2, <3>3 DEF Read
  <2> QED
    BY <2>3, <2>4
<1>12. CASE ProductRead(r)
  <2>1. Same /\ old.at \in Read /\ old.at = "product"
    BY <1>12 DEF ProductRead, Read
  <2>2. Decides(r, old.row = "whatsapp", AfterHub)
    BY <1>12 DEF ProductRead
  <2>3. CASE old.row = "whatsapp"
    <3>1. Granted(r)
      BY <2>2, <2>3 DEF Decides
    <3>2. ever[r]
      BY <2>1, <2>3 DEF EntitledInv, ReadsOK
    <3> QED
      BY <1>5, <2>1, <3>1, <3>2
  <2>4. CASE old.row # "whatsapp"
    <3>1. ask' = [ask EXCEPT ![r] = with(AfterHub, "none")]
      BY <1>0, <2>2, <2>4 DEF Decides, with
    <3>2. "central" \notin throughout[r]
      BY <2>1, <2>4 DEF EntitledInv, ReadsOK
    <3>3. AfterHub = "slot" => "system" \notin throughout[r]
      BY <1>a, <1>b, <2>1 DEF AfterHub, Entitlement
    <3>4. AfterHub \in {"system", "slot"} /\ (AfterHub = "system" => config.jumpstart)
      BY DEF AfterHub
    <3> QED
      BY <1>4, <2>1, <3>1, <3>2, <3>3, <3>4 DEF Read
  <2> QED
    BY <2>3, <2>4
<1>13. CASE SystemRead(r)
  <2>1. /\ Same /\ old.at \in Read /\ "central" \notin throughout[r]
        /\ config.jumpstart
    BY <1>13 DEF SystemRead, Read, EntitledInv, ReadsOK
  <2>2. Finds(r, licence.system, "plan", "slot")
    BY <1>13 DEF SystemRead
  <2>3. CASE licence.system = "none"
    <3>1. ask' = [ask EXCEPT ![r] = with("slot", old.row)]
      BY <1>0, <2>2, <2>3 DEF Finds, with
    <3>2. "system" \notin throughout[r]
      BY <1>a, <1>b, <2>1, <2>3 DEF Entitlement
    <3> QED
      BY <1>4, <1>a, <2>1, <3>1, <3>2 DEF Read
  <2>4. CASE licence.system # "none"
    <3>1. ask' = [ask EXCEPT ![r] = with("plan", licence.system)]
      BY <1>0, <2>2, <2>4 DEF Finds, with
    <3>2. licence.system = "devices" => ever[r]
      BY <1>a, <1>b, <2>1 DEF Entitlement
    <3>3. licence.system # "devices" => "system" \notin throughout[r]
      BY <1>a, <1>b, <2>1 DEF Entitlement
    <3> QED
      BY <1>4, <1>c, <2>1, <3>1, <3>2, <3>3 DEF Read
  <2> QED
    BY <2>3, <2>4
<1>14. CASE PlanRead(r)
  <2>1. Same /\ old.at \in Read /\ old.at = "plan" /\ "central" \notin throughout[r]
    BY <1>14 DEF PlanRead, Read, EntitledInv, ReadsOK
  <2>2. Decides(r, old.row = "devices", "slot")
    BY <1>14 DEF PlanRead
  <2>3. CASE old.row = "devices"
    <3>1. Granted(r)
      BY <2>2, <2>3 DEF Decides
    <3>2. ever[r]
      BY <2>1, <2>3 DEF EntitledInv, ReadsOK
    <3> QED
      BY <1>5, <2>1, <3>1, <3>2
  <2>4. CASE old.row # "devices"
    <3>1. ask' = [ask EXCEPT ![r] = with("slot", "none")]
      BY <1>0, <2>2, <2>4 DEF Decides, with
    <3>2. "system" \notin throughout[r]
      BY <2>1, <2>4 DEF EntitledInv, ReadsOK
    <3> QED
      BY <1>4, <2>1, <3>1, <3>2 DEF Read
  <2> QED
    BY <2>3, <2>4
<1>15. CASE SlotRead(r)
  <2>1. /\ Same /\ old.at \in Read /\ old.at # "idle"
        /\ "central" \notin throughout[r] /\ "system" \notin throughout[r]
    BY <1>15 DEF SlotRead, Read, EntitledInv, ReadsOK
  <2>2. Decides(r, licence.slot = "active", "forbidden")
    BY <1>15 DEF SlotRead
  <2>3. CASE licence.slot = "active"
    <3>1. Granted(r)
      BY <2>2, <2>3 DEF Decides
    <3>2. ever[r]
      BY <1>a, <1>b, <2>1, <2>3 DEF Entitlement
    <3> QED
      BY <1>5, <2>1, <3>1, <3>2
  <2>4. CASE licence.slot # "active"
    <3>1. ask' = [ask EXCEPT ![r] = with("forbidden", "none")]
      BY <1>0, <2>2, <2>4 DEF Decides, with
    <3>2. "slot" \notin throughout[r]
      BY <1>a, <1>b, <2>1, <2>4 DEF Entitlement
    <3>3. "forbidden" \in Stage /\ "forbidden" \notin Granting /\ "forbidden" \notin Read
      BY DEF Stage, Final, Granting, Read
    <3> DEFINE new == with("forbidden", "none")
    <3>4. new \in Requests /\ new.at = "forbidden"
      BY <1>2, <3>3
    <3>5. ask' = [ask EXCEPT ![r] = new]
      BY <3>1
    <3> HIDE DEF new
    <3>6. new.at \notin Read /\ new.at \notin Granting
          /\ new.at \notin {"system", "product", "plan"}
      BY <3>3, <3>4
    <3> QED
      BY <2>1, <3>2, <3>4, <3>5, <3>6, OneMoves
  <2> QED
    BY <2>3, <2>4
<1> QED
  BY <1>6, <1>7, <1>8, <1>9, <1>10, <1>11, <1>12, <1>13, <1>14, <1>15 DEF Serves

\* A request that arrives has read nothing; a change of the tables finds the
\* histories of all requests up to date; the clock is none of their business.
LEMMA EntitledStep ==
  ASSUME EntitledInv, [OnboardNext]_onboardVars
  PROVE  EntitledInv'
<1>0. /\ ask \in [Asking -> Requests] /\ licence \in Licence
      /\ ever \in [Asking -> BOOLEAN] /\ throughout \in [Asking -> SUBSET Entitlement]
  BY DEF EntitledInv, ValuesOK
<1>1. ASSUME NEW r \in Asking, NEW path \in {"start", "migrate", "connect"},
             NEW suits \in BOOLEAN, Arrives(r, path, suits)
      PROVE  EntitledInv'
  <2>1. PICK place \in {"refused", "device", "alert", "unavailable"} :
          ask' = [ask EXCEPT ![r] = [Absent EXCEPT !.route = path, !.at = place]]
    BY <1>1 DEF Arrives
  <2> DEFINE new == [Absent EXCEPT !.route = path, !.at = place]
  <2>2. /\ new \in Requests /\ new.at = place /\ new.route = path
        /\ ask' = [ask EXCEPT ![r] = new]
    BY <2>1 DEF Requests, Absent, Stage, Read, Final
  <2>3. /\ UNCHANGED <<licence, config>>
        /\ ever' = [ever EXCEPT ![r] = InForce(licence) # {}]
        /\ throughout' = [throughout EXCEPT ![r] = InForce(licence)]
    BY <1>1 DEF Arrives
  <2>4. InForce(licence)' = InForce(licence) /\ InForce(licence) \in SUBSET Entitlement
    BY <2>3 DEF InForce, Entitlement
  <2> HIDE DEF new
  <2>5. ValuesOK'
    BY <1>0, <2>2, <2>3, <2>4 DEF EntitledInv, ValuesOK
  <2>6. HistoryOK'
    BY <1>0, <2>2, <2>3, <2>4 DEF EntitledInv, HistoryOK
  <2>7. ReadsOK'
    BY <1>0, <2>2, <2>3 DEF EntitledInv, ReadsOK, Granting
  <2> QED
    BY <2>5, <2>6, <2>7 DEF EntitledInv
<1>2. CASE LicenceChanges
  <2>1. /\ licence' \in Licence /\ UNCHANGED <<config, ask>>
        /\ ever' = [r \in Asking |-> ever[r] \/ InForce(licence') # {}]
        /\ throughout' = [r \in Asking |-> throughout[r] \cap InForce(licence')]
    BY <1>2 DEF LicenceChanges
  <2>2. InForce(licence)' = InForce(licence')
    BY <2>1 DEF InForce
  <2>3. ValuesOK'
    BY <1>0, <2>1 DEF EntitledInv, ValuesOK
  <2>4. HistoryOK'
    BY <1>0, <2>1, <2>2 DEF EntitledInv, HistoryOK
  <2>5. /\ \A r \in Asking : ever[r] => ever'[r]
        /\ \A r \in Asking : throughout'[r] \subseteq throughout[r]
    BY <1>0, <2>1
  <2>6. ReadsOK'
    BY <2>1, <2>5 DEF EntitledInv, ReadsOK
  <2> QED
    BY <2>3, <2>4, <2>6 DEF EntitledInv
<1>3. ASSUME UNCHANGED <<licence, config, ask, ever, throughout>> PROVE EntitledInv'
  <2>1. InForce(licence)' = InForce(licence)
    BY <1>3 DEF InForce
  <2> QED
    BY <1>3, <2>1 DEF EntitledInv, ValuesOK, HistoryOK, ReadsOK
<1>4. CASE TimePasses
  BY <1>3, <1>4 DEF TimePasses, Same
<1>5. CASE UNCHANGED onboardVars
  BY <1>3, <1>5 DEF onboardVars
<1> QED
  BY <1>1, <1>2, <1>4, <1>5, ServiceStep DEF OnboardNext

LEMMA EntitledInvariant == OnboardSpec => [](EntitledInv /\ GapOK)
<1>1. EntitledInv /\ GapOK /\ [OnboardNext]_onboardVars => (EntitledInv /\ GapOK)'
  BY EntitledStep, GapStep
<1> QED
  BY OnboardInitially, <1>1, PTL DEF OnboardSpec

\* supabase.ts:103, connect.ts:406: a session is started or moved, or its page
\* shown, only for an entitlement that was in force during the request, and a
\* customer is sent to subscribe only when none was in force throughout.
THEOREM AnswersFollowLicence == OnboardSpec => []AnswerFollowsLicence
<1>1. ASSUME EntitledInv, NEW r \in Asking, ask[r].at = "forbidden"
      PROVE  throughout[r] = {}
  <2>1. throughout[r] \subseteq Entitlement
    BY <1>1 DEF EntitledInv, ValuesOK
  <2>2. "central" \notin throughout[r] /\ "system" \notin throughout[r]
        /\ "slot" \notin throughout[r]
    BY <1>1 DEF EntitledInv, ReadsOK
  <2> QED
    BY <2>1, <2>2 DEF Entitlement
<1>2. EntitledInv => AnswerFollowsLicence
  BY <1>1 DEF EntitledInv, ReadsOK, Granting, AnswerFollowsLicence
<1> QED
  BY EntitledInvariant, <1>2, PTL

\* validationAlert.ts:92-97: an alert sets out for a failure exactly if none of its
\* code has for a gap.
THEOREM AlertsStaySpaced == OnboardSpec => AlertsAreSpaced
<1> DEFINE Told(r) ==
      ask[r].at = WatchedRead /\ config.alerts /\ ask'[r].at \in {"alert", "unavailable"}
        => (ask'[r].at = "alert" <=> \A s \in Asking : alertAge[s] = AlertGap)
<1>1. ASSUME EntitledInv, GapOK, OnboardNext, NEW r \in Asking PROVE Told(r)
  <2> SUFFICES ASSUME ask[r].at = WatchedRead, config.alerts,
                      ask'[r].at \in {"alert", "unavailable"}
               PROVE  ask'[r].at = "alert" <=> \A s \in Asking : alertAge[s] = AlertGap
    OBVIOUS
  <2>0. ask \in [Asking -> Requests] /\ ask[r].at \in Read /\ ask[r] \in Requests
    BY <1>1, WatchedReadAssumption DEF EntitledInv, ValuesOK
  <2>1. ask'[r] # ask[r]
    BY <2>0 DEF Read
  <2>2. ASSUME NEW q \in Asking, NEW path \in {"start", "migrate", "connect"},
               NEW suits \in BOOLEAN, Arrives(q, path, suits)
        PROVE  FALSE
    <3>1. q # r
      BY <2>0, <2>2 DEF Arrives, Final, Read
    <3> QED
      BY <2>0, <2>1, <2>2, <3>1 DEF Arrives
  <2>3. ~LicenceChanges /\ ~TimePasses
    BY <2>1 DEF LicenceChanges, TimePasses
  <2>4. ASSUME NEW q \in Asking, Serves(q) PROVE ReadFails(r)
    <3>1. q = r
      BY <2>0, <2>1, <2>4 DEF Serves, DeviceRead, CentralRead, ProductRead, SystemRead,
         PlanRead, SlotRead, ReadFails, Fails, FailsElsewhere, Recorded, AlertEnds, Resolved,
         StartEnds, MigrateEnds, Finds, Decides, Granted, Goes
    <3>2. ~AlertEnds(r) /\ ~Resolved(r) /\ ~StartEnds(r) /\ ~MigrateEnds(r)
      BY <2>0 DEF AlertEnds, Resolved, StartEnds, MigrateEnds, Read
    <3>3. ~DeviceRead(r)
      BY <2>0 DEF DeviceRead, Requests
    <3>4. ~Granted(r)
      <4>1. ASSUME NEW to, Goes(r, to) PROVE ask'[r].at = to
        BY <2>0, <4>1 DEF Goes, Absent
      <4>2. ASSUME NEW to \in AfterGrant(ask[r].route, ask[r].found)
            PROVE  to \notin {"alert", "unavailable"}
        <5>1. ask[r].route \in {"start", "migrate", "connect"}
          BY <1>1, <2>0 DEF EntitledInv, ValuesOK, Requests
        <5> QED
          BY <4>2, <5>1 DEF AfterGrant, FromDisk
      <4> QED
        BY <4>1, <4>2 DEF Granted
    <3>5. ASSUME NEW row, NEW to \in Read, NEW else \in Read PROVE ~Finds(r, row, to, else)
      BY <2>0, <3>5 DEF Finds, Requests, Read
    <3>6. ASSUME NEW b, NEW else \in Read \cup {"forbidden"} PROVE ~Decides(r, b, else)
      BY <2>0, <3>4, <3>6 DEF Decides, Requests, Read
    <3>7. ~CentralRead(r) /\ ~ProductRead(r) /\ ~SystemRead(r) /\ ~PlanRead(r) /\ ~SlotRead(r)
      BY <3>5, <3>6 DEF CentralRead, ProductRead, SystemRead, PlanRead, SlotRead, AfterHub, Read
    <3> QED
      BY <2>4, <3>1, <3>2, <3>3, <3>7 DEF Serves
  <2>5. ReadFails(r)
    BY <1>1, <2>2, <2>3, <2>4 DEF OnboardNext
  <2>6. Fails(r)
    BY <2>5 DEF ReadFails, FailsElsewhere
  <2>7. ask'[r].at = IF quiet = AlertGap THEN "alert" ELSE "unavailable"
    BY <2>0, <2>6 DEF Fails, Recorded, Goes, Absent
  <2>8. quiet = AlertGap <=> \A s \in Asking : alertAge[s] = AlertGap
    BY <1>1, OnboardingConstants DEF GapOK
  <2> QED
    BY <2>7, <2>8
<1>2. ASSUME EntitledInv, GapOK, [OnboardNext]_onboardVars
      PROVE  [\A r \in Asking : Told(r)]_onboardVars
  BY <1>1, <1>2
<1> QED
  BY EntitledInvariant, <1>2, PTL DEF OnboardSpec, AlertsAreSpaced
-----------------------------------------------------------------------------
(* Messages through the pool (SendRoutes).                                 *)

\* The rows and the sockets of a device.
DeviceOK == device \in Device /\ sock \in Nat

LEMMA DeviceStays ==
  ASSUME DeviceOK, DeviceStep(Device)
  PROVE  DeviceOK'
  BY DEF DeviceOK, DeviceStep, DeviceChanges, SocketDies, CloseEvent, Reconnected,
     TornDown, deviceVars

\* What was so of a device and lets a reading of its policy come that far.
Backed(verdict, facts) ==
  /\ verdict = "hub" => "no row" \in facts
  /\ verdict = "owner" => {"no row", "external"} \subseteq facts
  /\ verdict = "may_send" => MaySend(facts)

LEMMA Policies ==
  ASSUME NEW d \in Device, NEW table \in Table, NEW facts, Facts(d) \subseteq facts,
         Backed(table, facts)
  PROVE  /\ ReadDeviceListenOnly(table, d) \in Table \cup Verdict
         /\ Backed(ReadDeviceListenOnly(table, d), facts)
<1>1. \A fact \in Fact : Holds(fact, d) => fact \in facts
  BY DEF Facts
<1>2. /\ d.readable /\ d.rows = {"open"} => "open" \in facts
      /\ d.readable /\ d.rows = {} => "no row" \in facts
      /\ d.hub = "external" => "external" \in facts
      /\ d.readable /\ ~d.owned => "not owned" \in facts
  BY <1>1 DEF Fact, Holds
<1>3. CASE table = "rows"
  BY <1>2, <1>3 DEF ReadDeviceListenOnly, Backed, MaySend, Table, Verdict
<1>4. CASE table = "hub"
  BY <1>2, <1>4 DEF ReadDeviceListenOnly, Backed, MaySend, Table, Verdict
<1>5. CASE table = "owner"
  BY <1>2, <1>5 DEF ReadDeviceListenOnly, Backed, MaySend, Table, Verdict
<1> QED
  BY <1>3, <1>4, <1>5 DEF Table

\* More that was so does no harm.
LEMMA StillBacked ==
  ASSUME NEW verdict, NEW facts, Backed(verdict, facts), NEW more, facts \subseteq more
  PROVE  Backed(verdict, more)
  BY DEF Backed, MaySend

\* A handler has an outcome of each message before the one it is at.
TurnsOK ==
  /\ step \in [Sending -> {"idle", "check", "recheck", "wait", "answered"}]
  /\ index \in [Sending -> Nat] /\ results \in [Sending -> Seq(Outcome)]
  /\ \A q \in Sending :
       /\ index[q] \in DOMAIN Body[q]
       /\ Len(results[q]) = IF step[q] = "answered" THEN Len(Body[q])
                            ELSE index[q] - 1

\* A message whose turn has not come has no job, and one that was given to
\* WhatsApp has a job that got that far.
JobsOK ==
  /\ job \in [Message -> {"none", "queued", "policy", "recheck", "flight",
                          "over"}]
  /\ \A q \in Sending : \A i \in DOMAIN Body[q] :
       \/ i > index[q]
       \/ i = index[q] /\ step[q] \in {"idle", "check", "recheck"}
       => job[Body[q][i]] = "none"
  /\ sent \subseteq Message
  /\ \A m \in sent : job[m] \in {"flight", "over"}

\* A refusal is about a message that has no job or whose job is over.
ResultsOK ==
  \A q \in Sending : \A i \in DOMAIN results[q] :
    /\ results[q][i] = "sent" => Body[q][i] \in acked
    /\ results[q][i] \in Refusals =>
         Body[q][i] \notin sent /\ job[Body[q][i]] \in {"none", "over"}

AnswerInv == TurnsOK /\ JobsOK /\ ResultsOK

LEMMA Bodies ==
  ASSUME NEW q \in Sending
  PROVE  /\ Len(Body[q]) \in Nat \ {0} /\ DOMAIN Body[q] = 1..Len(Body[q])
         /\ \A i \in DOMAIN Body[q] : Body[q][i] \in Message
<1>1. Body[q] \in Seq(Message) /\ Body[q] # <<>>
  BY SendingAssumption
<1> QED
  BY <1>1

LEMMA AnswerInit == SendRoutesInit => AnswerInv
<1> SUFFICES ASSUME SendRoutesInit PROVE AnswerInv
  OBVIOUS
<1>1. TurnsOK
  <2>1. \A q \in Sending : 1 \in DOMAIN Body[q]
    BY Bodies
  <2> QED
    BY <2>1 DEF SendRoutesInit, TurnsOK
<1>2. JobsOK
  BY Bodies DEF SendRoutesInit, JobsOK
<1>3. ResultsOK
  BY DEF SendRoutesInit, ResultsOK
<1> QED
  BY <1>1, <1>2, <1>3 DEF AnswerInv

\* A job that is over, or is none yet, stays so, and only what is being
\* delivered is given to WhatsApp.
JobsGoOn(others) ==
  /\ job' \in [Message -> {"none", "queued", "policy", "recheck", "flight",
                           "over"}]
  /\ \A m \in others : job[m] \in {"none", "over"} => job'[m] = job[m]
  /\ sent' \subseteq Message /\ acked \subseteq acked'
  /\ \A m \in sent' : job'[m] \in {"flight", "over"}
  /\ \A m \in sent' \ sent : job[m] \notin {"none", "over"}

\* A handler has an outcome.
LEMMA SettledKeeps ==
  ASSUME AnswerInv, NEW q \in Sending, NEW outcome \in Outcome,
         step[q] \in {"check", "recheck", "wait"}, Settled(q, outcome),
         JobsGoOn(Message \ {Msg(q)}),
         outcome = "sent" => Msg(q) \in acked',
         outcome \in Refusals =>
           Msg(q) \notin sent' /\ job'[Msg(q)] \in {"none", "over"}
  PROVE  AnswerInv'
<1> DEFINE b == Body[q]
           n == index[q]
<1>1. /\ n \in 1..Len(b) /\ Len(b) \in Nat /\ DOMAIN b = 1..Len(b) /\ n \in Nat
      /\ results[q] \in Seq(Outcome) /\ Len(results[q]) = n - 1
  BY Bodies DEF AnswerInv, TurnsOK
<1>2. /\ results' = [results EXCEPT ![q] = Append(results[q], outcome)]
      /\ \/ /\ n < Len(b) /\ index' = [index EXCEPT ![q] = n + 1]
            /\ step' = [step EXCEPT ![q] = "check"]
         \/ /\ n = Len(b) /\ index' = index
            /\ step' = [step EXCEPT ![q] = "answered"]
  BY <1>1 DEF Settled
<1>3. /\ results'[q] = Append(results[q], outcome)
      /\ results'[q] \in Seq(Outcome) /\ Len(results'[q]) = n
      /\ DOMAIN results'[q] = 1..n /\ results'[q][n] = outcome
      /\ \A i \in 1..n - 1 : results'[q][i] = results[q][i]
      /\ DOMAIN results[q] = 1..n - 1
  <2>1. results'[q] = Append(results[q], outcome)
    BY <1>2 DEF AnswerInv, TurnsOK
  <2> QED
    BY <2>1, <1>1
<1>4. \A p \in Sending \ {q} :
        results'[p] = results[p] /\ step'[p] = step[p] /\ index'[p] = index[p]
  BY <1>2 DEF AnswerInv, TurnsOK
<1>5. \/ n < Len(b) /\ index'[q] = n + 1 /\ step'[q] = "check"
      \/ n = Len(b) /\ index'[q] = n /\ step'[q] = "answered"
  BY <1>2 DEF AnswerInv, TurnsOK
<1>6. TurnsOK'
  <2>1. /\ step' \in [Sending -> {"idle", "check", "recheck", "wait", "answered"}]
        /\ index' \in [Sending -> Nat] /\ results' \in [Sending -> Seq(Outcome)]
    <3>1. results' \in [Sending -> Seq(Outcome)]
      <4>1. /\ results \in [Sending -> Seq(Outcome)]
            /\ Append(results[q], outcome) \in Seq(Outcome)
        BY <1>1, <1>2, <1>3 DEF AnswerInv, TurnsOK
      <4> QED
        BY <4>1, <1>2
    <3>2. n + 1 \in Nat /\ index \in [Sending -> Nat]
      BY <1>1 DEF AnswerInv, TurnsOK
    <3>3. index' \in [Sending -> Nat]
      BY <3>2, <1>2
    <3>4. step' \in [Sending -> {"idle", "check", "recheck", "wait", "answered"}]
      BY <1>2 DEF AnswerInv, TurnsOK
    <3> QED
      BY <3>1, <3>3, <3>4
  <2>2. ASSUME NEW p \in Sending
        PROVE  /\ index'[p] \in DOMAIN Body[p]
               /\ Len(results'[p]) = IF step'[p] = "answered" THEN Len(Body[p])
                                     ELSE index'[p] - 1
    <3>1. CASE p = q
      BY <3>1, <1>1, <1>3, <1>5
    <3>2. CASE p # q
      BY <3>2, <1>4 DEF AnswerInv, TurnsOK
    <3> QED
      BY <3>1, <3>2
  <2> QED
    BY <2>1, <2>2 DEF TurnsOK
\* Every other message is another.
<1>7. ASSUME NEW p \in Sending, NEW i \in DOMAIN Body[p], p # q \/ i # n
      PROVE  Body[p][i] \in Message \ {Msg(q)}
  <2>1. Body[p][i] # Body[q][n]
    BY <1>1, <1>7, MessagesAreDistinct
  <2> QED
    BY <2>1, Bodies DEF Msg
<1>8. JobsOK'
  <2>1. ASSUME NEW p \in Sending, NEW i \in DOMAIN Body[p],
               \/ i > index'[p]
               \/ i = index'[p] /\ step'[p] \in {"idle", "check", "recheck"}
        PROVE  job'[Body[p][i]] = "none"
    <3>1. CASE p = q
      <4>1. i > n
        BY <2>1, <3>1, <1>1, <1>5
      <4>2. job[Body[p][i]] = "none"
        BY <3>1, <4>1 DEF AnswerInv, JobsOK
      <4> QED
        BY <4>1, <4>2, <1>1, <1>7 DEF JobsGoOn
    <3>2. CASE p # q
      <4>1. job[Body[p][i]] = "none"
        BY <2>1, <3>2, <1>4 DEF AnswerInv, JobsOK
      <4> QED
        BY <3>2, <4>1, <1>7 DEF JobsGoOn
    <3> QED
      BY <3>1, <3>2
  <2> QED
    BY <2>1 DEF JobsOK, JobsGoOn
<1>9. ResultsOK'
  <2>1. ASSUME NEW p \in Sending, NEW i \in DOMAIN results'[p]
        PROVE  /\ results'[p][i] = "sent" => Body[p][i] \in acked'
               /\ results'[p][i] \in Refusals =>
                    Body[p][i] \notin sent' /\ job'[Body[p][i]] \in {"none", "over"}
    <3>1. CASE p = q /\ i = n
      BY <3>1, <1>3 DEF Msg
    <3>2. CASE p # q \/ i # n
      <4>1. i \in DOMAIN results[p] /\ results'[p][i] = results[p][i]
        <5>1. CASE p # q
          BY <5>1, <1>4
        <5>2. CASE p = q /\ i # n
          <6>1. i \in 1..n - 1
            BY <5>2, <1>1, <1>3
          <6> QED
            BY <6>1, <5>2, <1>3
        <5> QED
          BY <3>2, <5>1, <5>2
      <4>2. i \in DOMAIN Body[p]
        <5>1. /\ Len(results[p]) <= Len(Body[p]) /\ Len(Body[p]) \in Nat
              /\ DOMAIN Body[p] = 1..Len(Body[p])
          BY Bodies DEF AnswerInv, TurnsOK
        <5>2. results[p] \in Seq(Outcome)
          BY DEF AnswerInv, TurnsOK
        <5> QED
          BY <4>1, <5>1, <5>2
      <4>3. Body[p][i] \in Message \ {Msg(q)}
        BY <3>2, <4>2, <1>7
      <4>4. /\ results[p][i] = "sent" => Body[p][i] \in acked
            /\ results[p][i] \in Refusals =>
                 Body[p][i] \notin sent /\ job[Body[p][i]] \in {"none", "over"}
        BY <4>1 DEF AnswerInv, ResultsOK
      <4> QED
        BY <4>1, <4>3, <4>4 DEF JobsGoOn
    <3> QED
      BY <3>1, <3>2
  <2> QED
    BY <2>1 DEF ResultsOK
<1> QED
  BY <1>6, <1>8, <1>9 DEF AnswerInv
\* Nobody has an outcome; a handler may go on to its next read or to its wait.
LEMMA WithoutOutcome ==
  ASSUME AnswerInv, UNCHANGED <<index, results>>, NEW busy \in SUBSET Message,
         JobsGoOn(Message \ busy),
         \/ step' = step /\ busy = {}
         \/ \E q \in Sending, s \in {"check", "recheck"} :
              /\ step[q] \in {"idle", "check"} /\ busy = {}
              /\ step' = [step EXCEPT ![q] = s]
         \/ \E q \in Sending :
              /\ step[q] = "recheck" /\ busy = {Msg(q)}
              /\ step' = [step EXCEPT ![q] = "wait"]
  PROVE  AnswerInv'
<1>1. TurnsOK'
  BY DEF AnswerInv, TurnsOK
<1>2. ASSUME NEW p \in Sending
      PROVE  /\ step'[p] \in {"idle", "check", "recheck"} =>
                  step[p] \in {"idle", "check", "recheck"}
             /\ step'[p] = "answered" <=> step[p] = "answered"
             /\ \A i \in DOMAIN Body[p] :
                  Body[p][i] \in busy => i = index[p] /\ step'[p] = "wait"
                                         /\ step[p] = "recheck"
  <2>1. CASE step' = step /\ busy = {}
    BY <2>1
  <2>2. ASSUME NEW q \in Sending, NEW s \in {"check", "recheck"},
               step[q] \in {"idle", "check"}, busy = {},
               step' = [step EXCEPT ![q] = s]
        PROVE  <1>2!2
    BY <2>2 DEF AnswerInv, TurnsOK
  <2>3. ASSUME NEW q \in Sending, step[q] = "recheck", busy = {Msg(q)},
               step' = [step EXCEPT ![q] = "wait"]
        PROVE  <1>2!2
    <3>1. index[q] \in DOMAIN Body[q] /\ step'[q] = "wait"
      BY <2>3 DEF AnswerInv, TurnsOK
    <3>2. ASSUME NEW i \in DOMAIN Body[p], Body[p][i] = Msg(q)
          PROVE  p = q /\ i = index[q]
      BY <3>1, <3>2, MessagesAreDistinct DEF Msg
    <3> QED
      BY <2>3, <3>1, <3>2 DEF AnswerInv, TurnsOK
  <2> QED
    BY <2>1, <2>2, <2>3
<1>3. JobsOK'
  <2>1. ASSUME NEW p \in Sending, NEW i \in DOMAIN Body[p],
               \/ i > index'[p]
               \/ i = index'[p] /\ step'[p] \in {"idle", "check", "recheck"}
        PROVE  job'[Body[p][i]] = "none"
    <3>1. \/ i > index[p]
          \/ i = index[p] /\ step[p] \in {"idle", "check", "recheck"}
      BY <2>1, <1>2
    <3>2. job[Body[p][i]] = "none"
      BY <3>1 DEF AnswerInv, JobsOK
    <3>3. index[p] \in Nat /\ i \in Nat
      BY Bodies DEF AnswerInv, TurnsOK
    <3>4. ~(i > i)
      BY <3>3
    <3>5. Body[p][i] \notin busy
      BY <2>1, <3>4, <1>2
    <3>6. Body[p][i] \in Message \ busy
      BY <3>5, Bodies
    <3> QED
      BY <3>2, <3>6 DEF JobsGoOn
  <2> QED
    BY <2>1 DEF JobsOK, JobsGoOn
<1>4. ResultsOK'
  <2>1. ASSUME NEW p \in Sending, NEW i \in DOMAIN results[p]
        PROVE  /\ results[p][i] = "sent" => Body[p][i] \in acked'
               /\ results[p][i] \in Refusals =>
                    Body[p][i] \notin sent' /\ job'[Body[p][i]] \in {"none", "over"}
    <3>1. /\ results[p] \in Seq(Outcome) /\ index[p] \in DOMAIN Body[p]
          /\ Len(results[p]) = IF step[p] = "answered" THEN Len(Body[p])
                               ELSE index[p] - 1
          /\ Len(Body[p]) \in Nat /\ DOMAIN Body[p] = 1..Len(Body[p])
      BY Bodies DEF AnswerInv, TurnsOK
    <3>2. i \in DOMAIN Body[p] /\ (i < index[p] \/ step[p] = "answered")
      BY <3>1
    <3>3. i < index[p] => i # index[p]
      BY <3>1, <3>2
    <3>4. Body[p][i] \in Message \ busy
      BY <3>2, <3>3, <1>2, Bodies
    <3>5. /\ results[p][i] = "sent" => Body[p][i] \in acked
          /\ results[p][i] \in Refusals =>
               Body[p][i] \notin sent /\ job[Body[p][i]] \in {"none", "over"}
      BY DEF AnswerInv, ResultsOK
    <3> QED
      BY <3>4, <3>5 DEF JobsGoOn
  <2> QED
    BY <2>1 DEF ResultsOK
<1> QED
  BY <1>1, <1>3, <1>4 DEF AnswerInv

\* The pool tells whoever still waits.
LEMMA TellKeeps ==
  ASSUME AnswerInv, NEW m, NEW outcome \in Outcome, Tell(m, outcome),
         JobsGoOn(Message),
         outcome = "sent" => m \in acked',
         outcome \in Refusals => m \notin sent' /\ job'[m] \in {"none", "over"}
  PROVE  AnswerInv'
<1>1. ASSUME NEW q \in Sending, step[q] = "wait", Msg(q) = m, Settled(q, outcome)
      PROVE  AnswerInv'
  <2>1. JobsGoOn(Message \ {Msg(q)})
    BY DEF JobsGoOn
  <2> QED
    BY <1>1, <2>1, SettledKeeps
<1>2. CASE UNCHANGED <<step, index, results, code>>
  <2>1. JobsGoOn(Message \ {})
    BY DEF JobsGoOn
  <2> QED
    BY <1>2, <2>1, WithoutOutcome
<1> QED
  BY <1>1, <1>2 DEF Tell

\* A delivery ends.
LEMMA EndsKeeps ==
  ASSUME AnswerInv, NEW m \in Message, NEW outcome \in Outcome, Ends(m, outcome),
         job[m] \notin {"none", "over"}, sent' = sent, acked \subseteq acked',
         outcome = "sent" => m \in acked', outcome \in Refusals => m \notin sent
  PROVE  AnswerInv'
<1>1. job' = [job EXCEPT ![m] = "over"]
  BY DEF Ends
<1>2. JobsGoOn(Message) /\ job'[m] = "over"
  BY <1>1 DEF JobsGoOn, AnswerInv, JobsOK
<1>3. CASE worker = m
  BY <1>2, <1>3, TellKeeps DEF Ends
<1>4. CASE worker # m
  <2>1. JobsGoOn(Message \ {})
    BY <1>2
  <2> QED
    BY <1>4, <2>1, WithoutOutcome DEF Ends
<1> QED
  BY <1>3, <1>4

\* A job goes on to its next wait.
LEMMA GoesOnKeeps ==
  ASSUME AnswerInv, NEW m \in Message, job[m] \notin {"none", "over"},
         NEW next \in {"policy", "recheck", "flight"},
         job' = [job EXCEPT ![m] = next],
         UNCHANGED <<step, index, results>>, acked' = acked,
         sent' \in {sent, sent \cup {m}}, job[m] # "flight",
         sent' # sent => next = "flight"
  PROVE  AnswerInv'
<1>1. JobsGoOn(Message \ {})
  BY DEF JobsGoOn, AnswerInv, JobsOK
<1> QED
  BY <1>1, WithoutOutcome

LEMMA AnswerStep ==
  ASSUME AnswerInv, [SendRoutesNext(Device)]_<<deviceVars, sendVars>>
  PROVE  AnswerInv'
<1> DEFINE Job == {"none", "queued", "policy", "recheck", "flight", "over"}
<1>a. /\ Refusals \subseteq Outcome
      /\ {"sent", "queued", "send_timeout", "failed"} \subseteq Outcome
      /\ {"sent", "queued", "send_timeout", "failed"} \cap Refusals = {}
  BY DEF Refusals, Outcome
<1>b. Verdict \ {"may_send"} \subseteq Refusals
  BY DEF Refusals, Verdict
<1>c. ASSUME NEW q \in Sending
      PROVE  /\ Msg(q) \in Message
             /\ step[q] \in {"idle", "check", "recheck"} =>
                  job[Msg(q)] = "none" /\ Msg(q) \notin sent
  <2>1. index[q] \in DOMAIN Body[q]
    BY DEF AnswerInv, TurnsOK
  <2> QED
    BY <2>1, Bodies DEF Msg, AnswerInv, JobsOK
<1>d. /\ job \in [Message -> Job] /\ sent \subseteq Message
      /\ \A m \in sent : job[m] \in {"flight", "over"}
  BY DEF AnswerInv, JobsOK
<1>e. ASSUME UNCHANGED <<job, sent, acked>>
      PROVE  \A others \in SUBSET Message : JobsGoOn(others)
  BY <1>d, <1>e DEF JobsGoOn
<1> HIDE DEF Job
<1>1. ASSUME NEW q \in Sending, SendArrives(q)
      PROVE  AnswerInv'
  <2>1. JobsGoOn(Message \ {})
    BY <1>1, <1>e DEF SendArrives
  <2>2. /\ step[q] = "idle" /\ UNCHANGED <<index, results>>
        /\ \E s \in {"check", "recheck"} : step' = [step EXCEPT ![q] = s]
    BY <1>1 DEF SendArrives
  <2> QED
    BY <2>1, <2>2, WithoutOutcome
<1>2. ASSUME NEW q \in Sending, step[q] \in {"check", "recheck"}, Refused(q)
      PROVE  AnswerInv'
  <2>1. JobsGoOn(Message \ {Msg(q)})
    BY <1>2, <1>e DEF Refused
  <2>2. UNCHANGED <<job, sent>>
    BY <1>2 DEF Refused
  <2>3. PICK verdict \in Refusals : Settled(q, verdict)
    BY <1>2, <1>b DEF Refused
  <2>4. verdict # "sent" /\ verdict \in Outcome
    BY <1>a
  <2> QED
    BY <1>2, <1>c, <2>1, <2>2, <2>3, <2>4, SettledKeeps
<1>3. ASSUME NEW q \in Sending, HandlerChecks(q), ~Refused(q)
      PROVE  AnswerInv'
  <2>1. CASE Msg(q) \in Queued
    <3>1. /\ job' = [job EXCEPT ![Msg(q)] = "queued"] /\ Settled(q, "queued")
          /\ UNCHANGED <<sent, acked>> /\ step[q] = "check"
      BY <1>3, <2>1 DEF HandlerChecks
    <3>2. JobsGoOn(Message \ {Msg(q)})
      BY <3>1, <1>c, <1>d DEF JobsGoOn, Job
    <3> QED
      BY <3>1, <3>2, <1>a, SettledKeeps
  <2>2. CASE Msg(q) \notin Queued
    <3>1. /\ step' = [step EXCEPT ![q] = "recheck"] /\ step[q] = "check"
          /\ UNCHANGED <<index, results, job, sent, acked>>
      BY <1>3, <2>2 DEF HandlerChecks
    <3>2. JobsGoOn(Message \ {})
      BY <3>1, <1>e
    <3> QED
      BY <3>1, <3>2, WithoutOutcome
  <2> QED
    BY <2>1, <2>2
<1>4. ASSUME NEW q \in Sending, HandlerEnqueues(q), ~Refused(q)
      PROVE  AnswerInv'
  <2>1. CASE Settled(q, "failed") /\ UNCHANGED <<job, sent, acked>>
    <3>1. JobsGoOn(Message \ {Msg(q)}) /\ step[q] = "recheck"
      BY <1>4, <2>1, <1>e DEF HandlerEnqueues
    <3> QED
      BY <2>1, <3>1, <1>a, SettledKeeps
  <2>2. CASE /\ job' = [job EXCEPT ![Msg(q)] = "queued"]
             /\ step' = [step EXCEPT ![q] = "wait"]
             /\ UNCHANGED <<index, results, sent, acked>>
    <3>1. step[q] = "recheck"
      BY <1>4 DEF HandlerEnqueues
    <3>2. JobsGoOn(Message \ {Msg(q)})
      BY <2>2, <3>1, <1>c, <1>d DEF JobsGoOn, Job
    <3> QED
      BY <2>2, <3>1, <3>2, <1>c, WithoutOutcome
  <2> QED
    BY <1>4, <2>1, <2>2 DEF HandlerEnqueues
<1>5. ASSUME NEW q \in Sending, CeilingFires(q)
      PROVE  AnswerInv'
  <2>1. /\ step[q] = "wait" /\ Settled(q, "send_timeout")
        /\ UNCHANGED <<sent, acked>>
        /\ job' = job \/ (job[Msg(q)] = "queued" /\ job' = [job EXCEPT ![Msg(q)] = "over"])
    BY <1>5, <1>c, <1>d DEF CeilingFires
  <2>2. JobsGoOn(Message \ {Msg(q)})
    BY <2>1, <1>c, <1>d DEF JobsGoOn, Job
  <2> QED
    BY <2>1, <2>2, <1>a, SettledKeeps
<1>6. ASSUME NEW m \in Message, JobTaken(m)
      PROVE  AnswerInv'
  <2>1. job[m] = "queued" /\ m \notin sent /\ sent' = sent /\ acked' = acked
    BY <1>6, <1>d DEF JobTaken
  <2>2. CASE status = "connected"
    <3>1. job' = [job EXCEPT ![m] = "policy"] /\ UNCHANGED <<step, index, results>>
      BY <1>6, <2>2 DEF JobTaken
    <3> QED
      BY <2>1, <3>1, GoesOnKeeps
  <2>3. CASE status # "connected"
    <3>1. job' = [job EXCEPT ![m] = "over"] /\ Tell(m, "not_connected")
      BY <1>6, <2>3 DEF JobTaken
    <3>2. JobsGoOn(Message) /\ job'[m] = "over"
      BY <2>1, <3>1, <1>d DEF JobsGoOn, Job
    <3>3. "not_connected" \in Outcome
      BY DEF Outcome, Refusals
    <3> QED
      BY <2>1, <3>1, <3>2, <3>3, TellKeeps
  <2> QED
    BY <2>2, <2>3
<1>7. ASSUME NEW m \in Message, DeliveryChecks(m)
      PROVE  AnswerInv'
  <2>1. job[m] = "policy" /\ m \notin sent /\ sent' = sent /\ acked' = acked
    BY <1>7, <1>d DEF DeliveryChecks, DeliveryRefused
  <2>2. ASSUME NEW outcome \in Refusals, Ends(m, outcome)
        PROVE  AnswerInv'
    <3>1. outcome \in Outcome /\ outcome # "sent"
      BY <1>a
    <3> QED
      BY <2>1, <2>2, <3>1, EndsKeeps
  <2>3. CASE job' = [job EXCEPT ![m] = "recheck"] /\ UNCHANGED <<step, index, results>>
    BY <2>1, <2>3, GoesOnKeeps
  <2>4. "not_connected" \in Refusals
    BY DEF Refusals
  <2>5. CASE DeliveryRefused(m)
    BY <2>2, <2>5, <1>b DEF DeliveryRefused
  <2> QED
    BY <1>7, <2>2, <2>3, <2>4, <2>5 DEF DeliveryChecks
<1>8. ASSUME NEW x \in Sending \cup Message, TableRead(x)
      PROVE  AnswerInv'
  <2>1. UNCHANGED <<step, index, results, job, sent, acked>>
    BY <1>8 DEF TableRead
  <2>2. JobsGoOn(Message \ {})
    BY <2>1, <1>e
  <2> QED
    BY <2>1, <2>2, WithoutOutcome
<1>9. ASSUME NEW m \in Message, Transmit(m)
      PROVE  AnswerInv'
  <2>1. job[m] = "recheck" /\ m \notin sent /\ UNCHANGED acked
    BY <1>9, <1>d DEF Transmit, DeliveryRefused, HandedOver, SocketIsGone
  <2>2. CASE DeliveryRefused(m)
    <3>1. PICK verdict \in Refusals : Ends(m, verdict)
      BY <2>2, <1>b DEF DeliveryRefused
    <3>2. verdict \in Outcome /\ verdict # "sent" /\ sent' = sent
      BY <2>2, <1>a DEF DeliveryRefused
    <3> QED
      BY <2>1, <3>1, <3>2, EndsKeeps
  <2>3. CASE /\ job' = [job EXCEPT ![m] = "flight"] /\ sent' = sent \cup {m}
             /\ UNCHANGED <<step, index, results>>
    BY <2>1, <2>3, GoesOnKeeps
  <2>4. CASE Ends(m, "failed") /\ sent' = sent
    BY <2>1, <2>4, <1>a, EndsKeeps
  <2> QED
    BY <1>9, <2>2, <2>3, <2>4 DEF Transmit, HandedOver, SocketIsGone
<1>10. ASSUME NEW m \in Message, Accepted(m)
       PROVE  AnswerInv'
  <2>1. job[m] = "flight" /\ sent' = sent /\ acked' = acked \cup {m} /\ Ends(m, "sent")
    BY <1>10 DEF Accepted
  <2> QED
    BY <2>1, <1>a, EndsKeeps
<1>11. ASSUME NEW m \in Message, FlightFails(m)
       PROVE  AnswerInv'
  <2>1. job[m] = "flight" /\ UNCHANGED <<sent, acked>> /\ Ends(m, "failed")
    BY <1>11 DEF FlightFails
  <2> QED
    BY <2>1, <1>a, EndsKeeps
<1>12. CASE WorkerGivesUp
  <2>1. JobsGoOn(Message) /\ Tell(worker, "send_timeout")
    BY <1>12, <1>e DEF WorkerGivesUp
  <2> QED
    BY <2>1, <1>a, TellKeeps
<1>13. CASE DeviceMovesOn(Device) \/ UNCHANGED <<deviceVars, sendVars>>
  <2>1. UNCHANGED <<step, index, results, job, sent, acked>>
    BY <1>13 DEF DeviceMovesOn, sendVars
  <2>2. JobsGoOn(Message \ {})
    BY <2>1, <1>e
  <2> QED
    BY <2>1, <2>2, WithoutOutcome
<1>14. ASSUME NEW q \in Sending, HandlerChecks(q) \/ HandlerEnqueues(q)
       PROVE  AnswerInv'
  BY <1>2, <1>3, <1>4, <1>14 DEF HandlerChecks, HandlerEnqueues
<1> QED
  BY <1>1, <1>5, <1>6, <1>7, <1>8, <1>9, <1>10, <1>11, <1>12, <1>13, <1>14
     DEF SendRoutesNext, Delivers

-----------------------------------------------------------------------------
\* What is sent was open to be, and what is about to be sent knows what is so
\* of its device and rests on it.
FitOK(m) ==
  /\ job[m] = "recheck" => Facts(device) \subseteq held[m] /\ Backed(look[m], held[m])
  /\ m \in sent => MaySend(held[m])

FitInv ==
  /\ DeviceOK
  /\ DOMAIN look = Sending \cup Message /\ DOMAIN held = Message
  /\ sent \subseteq Message
  /\ \A m \in Message : FitOK(m)

LEMMA FitInit == SendRoutesInit => FitInv
<1> SUFFICES ASSUME SendRoutesInit PROVE FitInv
  OBVIOUS
<1>1. DeviceOK
  BY DEF SendRoutesInit, DeviceInit, DeviceOK
<1> QED
  BY <1>1 DEF SendRoutesInit, FitInv, FitOK

\* The tables stay, and one message at most goes on or learns of them.
LEMMA FitKeeps ==
  ASSUME FitInv, UNCHANGED device, DeviceOK', DOMAIN look' = Sending \cup Message,
         held' = held, sent' = sent,
         \A m \in Message : job'[m] = "recheck" =>
           job[m] = "recheck" /\ Backed(look'[m], held[m])
  PROVE  FitInv'
<1>1. Facts(device') = Facts(device)
  OBVIOUS
<1> QED
  BY <1>1 DEF FitInv, FitOK

Handles(q) ==
  SendArrives(q) \/ HandlerChecks(q) \/ HandlerEnqueues(q) \/ CeilingFires(q)

LEMMA FitStep ==
  ASSUME AnswerInv, FitInv, [SendRoutesNext(Device)]_<<deviceVars, sendVars>>
  PROVE  FitInv'
<1>0. /\ DeviceOK /\ DOMAIN job = Message /\ DOMAIN look = Sending \cup Message
      /\ DOMAIN held = Message /\ sent \subseteq Message
      /\ \A m \in Message : FitOK(m)
      /\ \A m \in sent : job[m] \in {"flight", "over"}
  BY DEF FitInv, AnswerInv, JobsOK
<1>a. ASSUME NEW k \in Message, job[k] = "recheck"
      PROVE  Facts(device) \subseteq held[k] /\ Backed(look[k], held[k])
  BY <1>0, <1>a DEF FitOK
<1>b. \A facts : Backed("rows", facts)
  BY DEF Backed
<1>1. ASSUME NEW q \in Sending, Handles(q)
      PROVE  FitInv'
  <2>1. UNCHANGED deviceVars /\ sent' = sent /\ held' = held
    BY <1>1, Zenon DEF Handles, SendArrives, HandlerChecks, HandlerEnqueues, CeilingFires,
       Refused
  <2>2. \E v \in {job[Msg(q)], "queued", "over"} :
          job' = job \/ job' = [job EXCEPT ![Msg(q)] = v]
    <3>1. CASE SendArrives(q) \/ HandlerChecks(q) \/ HandlerEnqueues(q)
      BY <3>1 DEF SendArrives, HandlerChecks, HandlerEnqueues, Refused
    <3>2. CASE CeilingFires(q)
      BY <3>2 DEF CeilingFires
    <3> QED
      BY <1>1, <3>1, <3>2 DEF Handles
  <2>3. look' = look \/ look' = [look EXCEPT ![q] = "rows"]
    BY <1>1 DEF Handles, SendArrives, HandlerChecks, HandlerEnqueues, CeilingFires,
       Refused, Learns
  <2>4. \A m \in Message : job'[m] = "recheck" => job[m] = "recheck"
    BY <1>0, <2>2
  <2>5. ASSUME NEW m \in Message
        PROVE  look'[m] = look[m]
    BY <1>0, <2>3, SendingAssumption
  <2>6. DeviceOK' /\ DOMAIN look' = Sending \cup Message
    BY <1>0, <2>1, <2>3 DEF DeviceOK, deviceVars
  <2> QED
    BY <1>a, <2>1, <2>4, <2>5, <2>6, FitKeeps DEF deviceVars
<1>2. ASSUME NEW m \in Message, JobTaken(m) \/ Accepted(m) \/ FlightFails(m)
      PROVE  FitInv'
  <2>1. UNCHANGED deviceVars /\ sent' = sent /\ held' = held /\ look' = look
    BY <1>2, Zenon DEF JobTaken, Accepted, FlightFails
  <2>2. \E v \in {"policy", "over"} : job' = [job EXCEPT ![m] = v]
    BY <1>2 DEF JobTaken, Accepted, FlightFails, Ends
  <2>3. \A k \in Message : job'[k] = "recheck" => job[k] = "recheck"
    BY <1>0, <2>2
  <2>4. DeviceOK'
    BY <1>0, <2>1 DEF DeviceOK, deviceVars
  <2> QED
    BY <1>0, <1>a, <2>1, <2>3, <2>4, FitKeeps DEF deviceVars
<1>3. ASSUME NEW x \in Sending \cup Message, TableRead(x)
      PROVE  FitInv'
  <2>1. /\ look[x] \in Table
        /\ look' = [look EXCEPT ![x] = ReadDeviceListenOnly(look[x], device)]
        /\ UNCHANGED deviceVars /\ sent' = sent /\ held' = held /\ job' = job
    BY <1>3 DEF TableRead
  <2>2. ASSUME NEW k \in Message, job'[k] = "recheck"
        PROVE  job[k] = "recheck" /\ Backed(look'[k], held[k])
    <3>1. job[k] = "recheck" /\ Facts(device) \subseteq held[k] /\ Backed(look[k], held[k])
      BY <1>a, <2>1, <2>2
    <3>2. CASE k # x
      BY <1>0, <2>1, <3>1, <3>2
    <3>3. CASE k = x
      <4>1. Backed(ReadDeviceListenOnly(look[x], device), held[k])
        BY <1>0, <2>1, <3>1, <3>3, Policies DEF DeviceOK
      <4>2. look'[k] = ReadDeviceListenOnly(look[x], device)
        BY <1>0, <2>1, <3>3
      <4> QED
        BY <3>1, <4>1, <4>2
    <3> QED
      BY <3>2, <3>3
  <2>3. DeviceOK' /\ DOMAIN look' = Sending \cup Message
    BY <1>0, <2>1 DEF DeviceOK, deviceVars
  <2> QED
    BY <2>1, <2>2, <2>3, FitKeeps DEF deviceVars
<1>4. ASSUME NEW m \in Message, NEW verdict, Learns(m, verdict),
             job' = [job EXCEPT ![m] = "over"], sent' = sent, held' = held, device' = device, DeviceOK'
      PROVE  FitInv'
  <2>1. ASSUME NEW k \in Message, job'[k] = "recheck"
        PROVE  job[k] = "recheck" /\ Backed(look'[k], held[k])
    <3>1. k # m /\ job[k] = "recheck"
      BY <1>0, <1>4, <2>1
    <3>2. look'[k] = look[k]
      BY <1>0, <1>4, <3>1 DEF Learns
    <3> QED
      BY <1>a, <3>1, <3>2
  <2>2. DOMAIN look' = Sending \cup Message
    BY <1>0, <1>4 DEF Learns
  <2> QED
    BY <1>4, <2>1, <2>2, FitKeeps
<1>5. ASSUME NEW m \in Message, DeliveryRefused(m)
      PROVE  FitInv'
  BY <1>0, <1>4, <1>5 DEF DeliveryRefused, Ends, deviceVars, DeviceOK
<1>6. ASSUME NEW m \in Message, DeliveryChecks(m)
      PROVE  FitInv'
  <2>1. device' = device /\ DeviceOK' /\ sent' = sent /\ m \notin sent
    BY <1>0, <1>6 DEF DeliveryChecks, DeliveryRefused, TornDown, deviceVars, DeviceOK
  <2>2. CASE Learns(m, "may_send") /\ Ends(m, "not_connected") /\ held' = held
    BY <1>4, <2>1, <2>2 DEF Ends
  <2>3. CASE /\ Learns(m, "may_send") /\ job' = [job EXCEPT ![m] = "recheck"]
             /\ held' = [held EXCEPT ![m] = Facts(device)]
    <3>1. ASSUME NEW k \in Message
          PROVE  FitOK(k)'
      <4>1. CASE k = m
        BY <1>0, <1>b, <2>1, <2>3, <4>1 DEF Learns, FitOK
      <4>2. CASE k # m
        <5>1. job'[k] = job[k] /\ held'[k] = held[k] /\ look'[k] = look[k]
          BY <1>0, <2>3, <4>2 DEF Learns
        <5> QED
          BY <1>0, <2>1, <5>1 DEF FitOK
      <4> QED
        BY <4>1, <4>2
    <3> QED
      BY <1>0, <2>1, <2>3, <3>1 DEF Learns, FitInv
  <2> QED
    BY <1>5, <1>6, <2>2, <2>3 DEF DeliveryChecks
<1>7. ASSUME NEW m \in Message, Transmit(m)
      PROVE  FitInv'
  <2>1. CASE Learns(m, "may_send") /\ SocketIsGone(m)
    BY <1>0, <1>4, <2>1 DEF SocketIsGone, Ends, deviceVars, DeviceOK
  <2>2. CASE Learns(m, "may_send") /\ HandedOver(m)
    <3>1. /\ job[m] = "recheck" /\ job' = [job EXCEPT ![m] = "flight"]
          /\ sent' = sent \cup {m} /\ held' = held /\ UNCHANGED deviceVars
      BY <1>7, <2>2 DEF Transmit, HandedOver
    <3>2. MaySend(held[m])
      BY <1>a, <2>2, <3>1 DEF Learns, Backed
    <3>3. ASSUME NEW k \in Message
          PROVE  FitOK(k)'
      <4>1. CASE k = m
        BY <1>0, <3>1, <3>2, <4>1 DEF FitOK
      <4>2. CASE k # m
        <5>1. job'[k] = job[k] /\ look'[k] = look[k] /\ (k \in sent' <=> k \in sent)
          BY <1>0, <2>2, <3>1, <4>2 DEF Learns
        <5> QED
          BY <1>0, <3>1, <5>1 DEF FitOK, deviceVars
      <4> QED
        BY <4>1, <4>2
    <3>4. DeviceOK' /\ DOMAIN look' = Sending \cup Message
      BY <1>0, <2>2, <3>1 DEF Learns, DeviceOK, deviceVars
    <3> QED
      BY <1>0, <3>1, <3>3, <3>4 DEF FitInv
  <2> QED
    BY <1>5, <1>7, <2>1, <2>2 DEF Transmit
<1>8. CASE WorkerGivesUp
  <2>1. /\ device' = device /\ DeviceOK' /\ sent' = sent /\ held' = held /\ job' = job
        /\ look' = look
    BY <1>0, <1>8 DEF WorkerGivesUp, TornDown, deviceVars, DeviceOK
  <2> QED
    BY <1>0, <1>a, <2>1, FitKeeps
<1>9. CASE DeviceMovesOn(Device)
  <2>1. DeviceOK'
    BY <1>0, <1>9, DeviceStays DEF DeviceMovesOn
  <2>2. /\ held' = [m \in Message |-> IF job[m] = "recheck"
                                      THEN held[m] \cup Facts(device') ELSE held[m]]
        /\ job' = job /\ sent' = sent /\ look' = look
    BY <1>9 DEF DeviceMovesOn
  <2>3. ASSUME NEW k \in Message
        PROVE  FitOK(k)'
    <3>1. held'[k] = IF job[k] = "recheck" THEN held[k] \cup Facts(device') ELSE held[k]
      BY <2>2
    <3>2. job[k] = "recheck" => Facts(device') \subseteq held'[k] /\ Backed(look[k], held'[k])
      BY <1>a, <3>1, StillBacked
    <3>3. MaySend(held[k]) => MaySend(held'[k])
      BY <3>1 DEF MaySend
    <3> QED
      BY <1>0, <2>2, <3>2, <3>3 DEF FitOK
  <2> QED
    BY <1>0, <2>1, <2>2, <2>3 DEF FitInv
<1>10. CASE UNCHANGED <<deviceVars, sendVars>>
  <2>1. UNCHANGED <<device, sock, look, held, sent, job>>
    BY <1>10 DEF deviceVars, sendVars
  <2> QED
    BY <1>0, <2>1 DEF FitInv, FitOK, DeviceOK
<1>11. ASSUME NEW m \in Message, Delivers(m)
       PROVE  FitInv'
  BY <1>2, <1>6, <1>7, <1>11 DEF Delivers
<1> QED
  BY <1>1, <1>3, <1>8, <1>9, <1>10, <1>11 DEF SendRoutesNext, Handles

LEMMA SendsInvariant == SendRoutesSpec => [](AnswerInv /\ FitInv)
<1>1. /\ AnswerInv /\ FitInv
      /\ [SendRoutesNext(Device)]_<<deviceVars, sendVars>>
      => (AnswerInv /\ FitInv)'
  BY AnswerStep, FitStep
<1> QED
  BY <1>1, FitInit, AnswerInit, PTL DEF SendRoutesSpec

\* messages.ts, senderPool.ts:113-120: an answer tells of every message of its
\* request, what it calls sent was accepted, and what it refuses never leaves.
THEOREM AnswersStayTrue == SendRoutesSpec => []AnswersAreTrue
<1>1. AnswerInv => AnswersAreTrue
  BY DEF AnswerInv, TurnsOK, ResultsOK, AnswersAreTrue
<1> QED
  BY <1>1, SendsInvariant, PTL

\* senderPool.ts, deviceSendPolicy.ts:7: a message is handed over only if what
\* lets its device send was so while its policy was read for the last time.
THEOREM SendsKeepThePolicy == SendRoutesSpec => []SentWhileOpen
<1>1. FitInv => SentWhileOpen
  BY DEF FitInv, FitOK, SentWhileOpen
<1> QED
  BY <1>1, SendsInvariant, PTL
-----------------------------------------------------------------------------
(* Groups and contacts (SocketRoutes).                                     *)

Operation == Mutating \cup {"lists", "profiles", "invite", "metadata", "list",
                            "inviteInfo", "onWhatsApp", "details"}
PartName == Operation \cup {"policy", "recheck", "socket", "icon", "description",
                            "invite1", "invite2"}

\* A step of a plan makes at most one operation.
PlanStep ==
  {s \in [do : {"policy", "socket", "lookup", "store", "fetch", "call"},
          part : PartName, ops : SUBSET Operation,
          fail : {"none", "skip", "400", "500", "503"},
          late : {"none", "skip", "504"}] :
     /\ \A x, y \in s.ops : x = y
     /\ IF s.do = "call" THEN s.ops # {} ELSE s.ops \cap Mutating = {}
     /\ s.do = "fetch" => s.fail # "none"}

\* A step that changes nothing, and one whose failure is no error.
Harmless == {s \in PlanStep : s.ops \cap Mutating = {}}
BestEffort ==
  {s \in PlanStep : s.do \in {"call", "fetch"} /\ s.fail = "skip" /\ s.late = "none"}

\* A step of a route that changes something uses no cache.
Uncached == {s \in PlanStep : s.do \notin {"lookup", "store"}}
Calls == {s \in Uncached : s.do = "call"}

LEMMA Steps ==
  /\ PolicyCheck \in Harmless /\ RequireSocket \in Harmless
  /\ \A c \in {"lists", "profiles"} : LookUp(c) \in Harmless /\ StoreIn(c) \in Harmless
  /\ PolicyCheck \in Uncached /\ RequireSocket \in Uncached
  /\ Step("policy", "recheck", {}, "500", "none") \in Harmless \cap Uncached
  /\ Fetch("icon", "400") \in Harmless \cap Uncached /\ Fetch("icon", "skip") \in BestEffort
  /\ \A op \in Operation : Must(op) \in Calls
  /\ \A op \in Operation \ Mutating :
       Must(op) \in Harmless /\ Within(op) \in Harmless /\ Optional(op) \in Harmless
  /\ \A part \in PartName, op \in Operation : Try(part, op) \in BestEffort
<1>1. ASSUME NEW do \in {"policy", "socket", "lookup", "store", "fetch", "call"},
             NEW part \in PartName, NEW op \in Operation, NEW ops \in {{}, {op}},
             NEW fail \in {"none", "skip", "400", "500", "503"},
             NEW late \in {"none", "skip", "504"},
             IF do = "call" THEN ops # {} ELSE ops \cap Mutating = {},
             do = "fetch" => fail # "none"
      PROVE  /\ Step(do, part, ops, fail, late) \in PlanStep
             /\ ops \cap Mutating = {} => Step(do, part, ops, fail, late) \in Harmless
             /\ do \in {"call", "fetch"} /\ fail = "skip" /\ late = "none"
                => Step(do, part, ops, fail, late) \in BestEffort
             /\ do \notin {"lookup", "store"} => Step(do, part, ops, fail, late) \in Uncached
  BY <1>1 DEF Step, PlanStep, Harmless, BestEffort, Uncached
<1>2. {} \cap Mutating = {} /\ \A op \in Operation \ Mutating : {op} \cap Mutating = {}
  OBVIOUS
<1>3. "lists" \notin Mutating /\ "profiles" \notin Mutating
  BY DEF Mutating
<1>b. /\ {"policy", "recheck", "socket", "icon"} \subseteq PartName
      /\ Operation \subseteq PartName
  BY DEF PartName
<1> HIDE DEF Mutating, PlanStep, Harmless, BestEffort, Uncached, Step
<1>a. ASSUME NEW do \in {"policy", "socket", "lookup", "store", "fetch"},
             NEW part \in PartName,
             NEW fail \in {"none", "skip", "400", "500", "503"},
             do = "fetch" => fail # "none"
      PROVE  /\ Step(do, part, {}, fail, "none") \in Harmless
             /\ do = "fetch" /\ fail = "skip"
                => Step(do, part, {}, fail, "none") \in BestEffort
             /\ do \notin {"lookup", "store"} => Step(do, part, {}, fail, "none") \in Uncached
  <2>1. "lists" \in Operation
    BY DEF Operation
  <2>2. do # "call" /\ {} \cap Mutating = {} /\ {} \in {{}, {"lists"}}
    OBVIOUS
  <2>3. do \in {"policy", "socket", "lookup", "store", "fetch", "call"}
    OBVIOUS
  <2> QED
    BY <1>1, <1>a, <2>1, <2>2, <2>3
<1>4. {PolicyCheck, RequireSocket} \subseteq Harmless \cap Uncached
  BY <1>a, <1>b DEF PolicyCheck, RequireSocket
<1>5. ASSUME NEW c \in {"lists", "profiles"}
      PROVE  LookUp(c) \in Harmless /\ StoreIn(c) \in Harmless
  <2>1. c \in PartName /\ c \in Operation
    BY DEF PartName, Operation
  <2>2. c \notin Mutating
    BY <1>3
  <2>3. {c} \cap Mutating = {}
    BY <2>2
  <2> QED
    BY <1>1, <2>1, <2>3 DEF LookUp, StoreIn
<1>6. Step("policy", "recheck", {}, "500", "none") \in Harmless \cap Uncached
  BY <1>a, <1>b
<1>7. Fetch("icon", "400") \in Harmless \cap Uncached /\ Fetch("icon", "skip") \in BestEffort
  BY <1>a, <1>b DEF Fetch
<1>8. ASSUME NEW op \in Operation
      PROVE  Must(op) \in Calls
  <2>1. Must(op) \in Uncached
    BY <1>1, <1>b DEF Must
  <2>2. Must(op).do = "call"
    BY DEF Must, Step
  <2> QED
    BY <2>1, <2>2 DEF Calls
<1>9. \A op \in Operation \ Mutating :
        Must(op) \in Harmless /\ Within(op) \in Harmless /\ Optional(op) \in Harmless
  BY <1>1, <1>2, <1>b DEF Must, Within, Optional
<1>10. \A part \in PartName, op \in Operation : Try(part, op) \in BestEffort
  BY <1>1 DEF Try
<1> QED
  BY <1>4, <1>5, <1>6, <1>7, <1>8, <1>9, <1>10
\* Before its k-th step a plan changes nothing, behind it nothing that fails
\* is an error.
Turns(plan, k) ==
  /\ plan \in Seq(Uncached) /\ k \in 1..Len(plan) /\ plan[k].do = "call"
  /\ \A i \in 1..k - 1 : plan[i] \in Harmless
  /\ \A i \in k + 1..Len(plan) : plan[i] \in BestEffort

LEMMA TurnsWithMore ==
  ASSUME NEW plan, NEW k, Turns(plan, k), NEW rest \in Seq(BestEffort)
  PROVE  Turns(plan \o rest, k)
<1> DEFINE all == plan \o rest
<1>1. plan \in Seq(Uncached) /\ rest \in Seq(Uncached)
  <2>1. BestEffort \subseteq Uncached
    BY DEF BestEffort, Uncached
  <2> QED
    BY <2>1, SeqMonotonic DEF Turns
<1>2. /\ all \in Seq(Uncached) /\ Len(all) = Len(plan) + Len(rest)
      /\ \A i \in 1..Len(all) :
           all[i] = IF i <= Len(plan) THEN plan[i] ELSE rest[i - Len(plan)]
  BY <1>1, ConcatProperties
<1>3. \A i \in 1..Len(rest) : rest[i] \in BestEffort
  OBVIOUS
<1>4. Len(plan) \in Nat /\ Len(rest) \in Nat
  BY <1>1
<1>5. k \in 1..Len(plan) /\ \A i \in 1..k - 1 : plan[i] \in Harmless
  BY DEF Turns
<1>6. ASSUME NEW i \in k + 1..Len(all)
      PROVE  all[i] \in BestEffort
  <2>1. CASE i <= Len(plan)
    BY <2>1, <1>2, <1>4, <1>5 DEF Turns
  <2>2. CASE ~(i <= Len(plan))
    <3>1. i - Len(plan) \in 1..Len(rest) /\ i \in 1..Len(all)
      BY <2>2, <1>2, <1>4, <1>5
    <3> QED
      BY <2>2, <3>1, <1>2, <1>3
  <2> QED
    BY <2>1, <2>2
<1>7. ASSUME NEW i \in 1..k - 1
      PROVE  all[i] \in Harmless
  <2>1. i \in 1..Len(all) /\ i <= Len(plan)
    BY <1>2, <1>4, <1>5
  <2> QED
    BY <2>1, <1>2, <1>5
<1>8. k \in 1..Len(all) /\ all[k].do = "call"
  <2>1. k \in 1..Len(all) /\ k <= Len(plan)
    BY <1>2, <1>4, <1>5
  <2> QED
    BY <2>1, <1>2 DEF Turns
<1> QED
  BY <1>2, <1>6, <1>7, <1>8 DEF Turns

LEMMA TurnsBehind ==
  ASSUME NEW first \in Harmless \cap Uncached, NEW plan, NEW k, Turns(plan, k)
  PROVE  Turns(<<first>> \o plan, k + 1) /\ (<<first>> \o plan)[1] = first
<1> DEFINE all == <<first>> \o plan
<1>1. first \in Uncached /\ <<first>> \in Seq(Uncached) /\ Len(<<first>>) = 1
      /\ <<first>>[1] = first /\ plan \in Seq(Uncached)
  BY DEF Turns, Harmless
<1>2. /\ all \in Seq(Uncached) /\ Len(all) = 1 + Len(plan)
      /\ \A i \in 1..Len(all) : all[i] = IF i <= 1 THEN <<first>>[i] ELSE plan[i - 1]
  BY <1>1, ConcatProperties
<1>3. Len(plan) \in Nat /\ k \in 1..Len(plan)
  BY <1>1 DEF Turns
<1>4. all[1] = first
  BY <1>1, <1>2, <1>3
<1>5. ASSUME NEW i \in 1..k
      PROVE  all[i] \in Harmless
  <2>1. CASE i = 1
    BY <2>1, <1>4
  <2>2. CASE i # 1
    <3>1. i - 1 \in 1..k - 1 /\ i \in 1..Len(all) /\ ~(i <= 1)
      BY <2>2, <1>2, <1>3
    <3> QED
      BY <3>1, <1>2 DEF Turns
  <2> QED
    BY <2>1, <2>2
<1>6. ASSUME NEW i \in k + 2..Len(all)
      PROVE  all[i] \in BestEffort
  <2>1. i - 1 \in k + 1..Len(plan) /\ i \in 1..Len(all) /\ ~(i <= 1)
    BY <1>2, <1>3
  <2> QED
    BY <2>1, <1>2 DEF Turns
<1>7. /\ k + 1 \in 1..Len(all) /\ 1..(k + 1) - 1 = 1..k
      /\ (k + 1) + 1..Len(all) = k + 2..Len(all)
  BY <1>2, <1>3
<1>8. all[k + 1].do = "call"
  <2>1. k + 1 \in 1..Len(all) /\ ~(k + 1 <= 1) /\ (k + 1) - 1 = k
    BY <1>2, <1>3
  <2> QED
    BY <2>1, <1>2 DEF Turns
<1> QED
  BY <1>2, <1>4, <1>5, <1>6, <1>7, <1>8 DEF Turns

LEMMA ShortTurns ==
  /\ \A a \in Calls : Turns(<<a>>, 1)
  /\ \A h \in Harmless \cap Uncached, a \in Calls : Turns(<<h, a>>, 2)
  /\ \A h, g \in Harmless \cap Uncached, a \in Calls : Turns(<<h, g, a>>, 3)
<1>2. ASSUME NEW a \in Calls
      PROVE  Turns(<<a>>, 1)
  BY DEF Turns, Calls
<1>3. ASSUME NEW h \in Harmless \cap Uncached, NEW a \in Calls
      PROVE  Turns(<<h, a>>, 2)
  BY DEF Turns, Calls
<1>4. ASSUME NEW h \in Harmless \cap Uncached, NEW g \in Harmless \cap Uncached, NEW a \in Calls
      PROVE  Turns(<<h, g, a>>, 3)
  BY DEF Turns, Calls
<1> QED
  BY <1>2, <1>3, <1>4
LEMMA Parts ==
  ASSUME NEW S, NEW plan \in Seq(S), NEW opts, NEW o
  PROVE  Part(opts, o, plan) \in Seq(S)
  BY DEF Part

\* Every plan turns once, and that of a change begins with the policy.
LEMMA WrittenPlans ==
  ASSUME NEW name \in WrittenRoutes, NEW opts
  PROVE  \E k \in Nat : Turns(Written(name, opts), k)
<1> HIDE DEF PlanStep, Uncached, Calls, Harmless, BestEffort, Turns, Mutating
<1>0. /\ RequireSocket \in Harmless \cap Uncached
      /\ Step("policy", "recheck", {}, "500", "none") \in Harmless \cap Uncached
      /\ Fetch("icon", "400") \in Harmless \cap Uncached
  BY Steps
<1>1. {"create", "add", "remove", "promote", "demote", "send", "subject", "describe",
       "setIcon", "setting", "joinMode", "addMode", "invite"} \subseteq Operation
  BY DEF Operation, Mutating
<1>2. ASSUME NEW op \in {"create", "add", "remove", "promote", "demote", "subject",
                         "describe", "setting", "joinMode", "addMode"}
      PROVE  Turns(<<RequireSocket, Must(op)>>, 2)
  <2>1. Must(op) \in Calls
    BY <1>1, Steps
  <2> QED
    BY <2>1, <1>0, ShortTurns
<1>3. CASE name = "create"
  <2>1. \A part \in {"description", "icon", "invite"},
           op \in {"describe", "setIcon", "invite"} : Try(part, op) \in BestEffort
    <3>1. {"description", "icon", "invite"} \subseteq PartName
      BY DEF PartName, Operation
    <3> QED
      BY <3>1, <1>1, Steps
  <2>2. <<Try("description", "describe")>> \in Seq(BestEffort)
    BY <2>1
  <2>3. <<Fetch("icon", "skip"), Try("icon", "setIcon")>> \in Seq(BestEffort)
    BY <2>1, Steps
  <2>4. <<Try("invite", "invite")>> \in Seq(BestEffort)
    BY <2>1
  <2> DEFINE A == <<RequireSocket, Must("create")>>
             B == Part(opts, "description", <<Try("description", "describe")>>)
             C == Part(opts, "icon", <<Fetch("icon", "skip"), Try("icon", "setIcon")>>)
             E == <<Try("invite", "invite")>>
  <2>5. B \in Seq(BestEffort) /\ C \in Seq(BestEffort) /\ E \in Seq(BestEffort)
    BY <2>2, <2>3, <2>4, Parts
  <2>6. Turns(A, 2)
    BY <1>2
  <2>7. Written(name, opts) = ((A \o B) \o C) \o E
    BY <1>3 DEF Written, GroupCreate
  <2> HIDE DEF A, B, C, E
  <2>8. Turns(A \o B, 2)
    BY <2>5, <2>6, TurnsWithMore
  <2>9. Turns((A \o B) \o C, 2)
    BY <2>5, <2>8, TurnsWithMore
  <2>10. Turns(((A \o B) \o C) \o E, 2)
    BY <2>5, <2>9, TurnsWithMore
  <2> QED
    BY <2>7, <2>10
<1>4. CASE name = "add"
  <2>1. Try("invite1", "invite") \in BestEffort /\ Try("invite2", "invite") \in BestEffort
    <3>1. {"invite1", "invite2"} \subseteq PartName
      BY DEF PartName
    <3> QED
      BY <3>1, <1>1, Steps
  <2> DEFINE A == <<RequireSocket, Must("add")>>
             B == Part(opts, "rejected",
                       <<Try("invite1", "invite"), Try("invite2", "invite")>>)
  <2>2. <<Try("invite1", "invite"), Try("invite2", "invite")>> \in Seq(BestEffort)
    BY <2>1
  <2>5. B \in Seq(BestEffort)
    BY <2>2, Parts
  <2>3. Turns(A, 2)
    BY <1>2
  <2>4. Written(name, opts) = A \o B
    BY <1>4 DEF Written, GroupAdd
  <2> HIDE DEF A, B
  <2> QED
    BY <2>3, <2>4, <2>5, TurnsWithMore
<1>5. CASE name = "send"
  <2>1. Must("send") \in Calls
    BY <1>1, Steps
  <2> QED
    BY <1>0, <1>5, <2>1, ShortTurns DEF Written, GroupSend
<1>6. CASE name = "icon"
  <2>1. Must("setIcon") \in Calls
    BY <1>1, Steps
  <2> QED
    BY <1>0, <1>6, <2>1, ShortTurns DEF Written, GroupIcon
<1>7. CASE name \in {"remove", "promote", "demote", "subject", "description",
                     "sendPermission", "editInfo", "approval", "memberAdd"}
  BY <1>2, <1>7 DEF Written, GroupRemove, GroupPromote, GroupDemote, GroupSubject,
     GroupDescription, GroupSendPermission, GroupEditInfo, GroupApprovalMode,
     GroupMemberAddMode
<1> QED
  BY <1>3, <1>4, <1>5, <1>6, <1>7 DEF WrittenRoutes

\* A contact's profile, step by step.
ProfilePlan(opts) ==
  IF "known" \in opts
  THEN <<LookUp("profiles"), RequireSocket, Within("onWhatsApp"), Optional("details"),
         StoreIn("profiles")>>
  ELSE <<LookUp("profiles"), RequireSocket, Within("onWhatsApp"), StoreIn("profiles")>>

LEMMA OneBehindThree ==
  \A a, b, c, d : <<a, b, c>> \o <<d>> = <<a, b, c, d>>
<1> SUFFICES ASSUME NEW a, NEW b, NEW c, NEW d
             PROVE  <<a, b, c>> \o <<d>> = <<a, b, c, d>>
  OBVIOUS
<1> DEFINE S == {a, b, c, d}
           x == <<a, b, c>>
           y == <<d>>
           z == <<a, b, c, d>>
<1>1. x \in Seq(S) /\ Len(x) = 3 /\ x[1] = a /\ x[2] = b /\ x[3] = c
  OBVIOUS
<1>2. y \in Seq(S) /\ Len(y) = 1 /\ y[1] = d
  OBVIOUS
<1>3. z \in Seq(S) /\ Len(z) = 4 /\ z[1] = a /\ z[2] = b /\ z[3] = c /\ z[4] = d
  OBVIOUS
<1> HIDE DEF S, x, y, z
<1>4. /\ x \o y \in Seq(S) /\ Len(x \o y) = Len(x) + Len(y)
      /\ \A i \in 1..Len(x) + Len(y) :
           (x \o y)[i] = IF i <= Len(x) THEN x[i] ELSE y[i - Len(x)]
  BY <1>1, <1>2, ConcatProperties, Zenon
<1>5. Len(x \o y) = 4 /\ \A i \in 1..4 : (x \o y)[i] = z[i]
  BY <1>1, <1>2, <1>3, <1>4
<1>6. x \o y = z
  BY <1>3, <1>4, <1>5, SeqEqual
<1> QED
  BY <1>6 DEF x, y, z

LEMMA OneBehindFour ==
  \A a, b, c, d, e : <<a, b, c, d>> \o <<e>> = <<a, b, c, d, e>>
<1> SUFFICES ASSUME NEW a, NEW b, NEW c, NEW d, NEW e
             PROVE  <<a, b, c, d>> \o <<e>> = <<a, b, c, d, e>>
  OBVIOUS
<1> DEFINE S == {a, b, c, d, e}
           x == <<a, b, c, d>>
           y == <<e>>
           z == <<a, b, c, d, e>>
<1>1. x \in Seq(S) /\ Len(x) = 4 /\ x[1] = a /\ x[2] = b /\ x[3] = c /\ x[4] = d
  OBVIOUS
<1>2. y \in Seq(S) /\ Len(y) = 1 /\ y[1] = e
  OBVIOUS
<1>3. /\ z \in Seq(S) /\ Len(z) = 5
      /\ z[1] = a /\ z[2] = b /\ z[3] = c /\ z[4] = d /\ z[5] = e
  OBVIOUS
<1> HIDE DEF S, x, y, z
<1>4. /\ x \o y \in Seq(S) /\ Len(x \o y) = Len(x) + Len(y)
      /\ \A i \in 1..Len(x) + Len(y) :
           (x \o y)[i] = IF i <= Len(x) THEN x[i] ELSE y[i - Len(x)]
  BY <1>1, <1>2, ConcatProperties, Zenon
<1>5. Len(x \o y) = 5 /\ \A i \in 1..5 : (x \o y)[i] = z[i]
  BY <1>1, <1>2, <1>3, <1>4
<1>6. x \o y = z
  BY <1>3, <1>4, <1>5, SeqEqual
<1> QED
  BY <1>6 DEF x, y, z

LEMMA NoneBehindThree == \A a, b, c : <<a, b, c>> \o <<>> = <<a, b, c>>
<1> SUFFICES ASSUME NEW a, NEW b, NEW c
             PROVE  <<a, b, c>> \o <<>> = <<a, b, c>>
  OBVIOUS
<1>1. <<a, b, c>> \in Seq({a, b, c})
  OBVIOUS
<1> QED
  BY <1>1, ConcatEmptySeq

LEMMA Profiles == \A opts : ContactProfile(opts) = ProfilePlan(opts)
<1> SUFFICES ASSUME NEW opts PROVE ContactProfile(opts) = ProfilePlan(opts)
  OBVIOUS
<1> HIDE DEF LookUp, RequireSocket, Within, Optional, StoreIn
<1> DEFINE head == <<LookUp("profiles"), RequireSocket, Within("onWhatsApp")>>
           last == <<StoreIn("profiles")>>
<1>1. CASE "known" \in opts
  <2>1. Part(opts, "known", <<Optional("details")>>) = <<Optional("details")>>
    BY <1>1 DEF Part
  <2> HIDE DEF Part
  <2>2. ContactProfile(opts) = (head \o <<Optional("details")>>) \o last
    BY <2>1, Zenon DEF ContactProfile
  <2>3. head \o <<Optional("details")>> =
          <<LookUp("profiles"), RequireSocket, Within("onWhatsApp"), Optional("details")>>
    BY OneBehindThree, Zenon
  <2>4. ProfilePlan(opts) = <<LookUp("profiles"), RequireSocket, Within("onWhatsApp"),
                              Optional("details"), StoreIn("profiles")>>
    BY <1>1, Zenon DEF ProfilePlan
  <2>5. <<LookUp("profiles"), RequireSocket, Within("onWhatsApp"), Optional("details")>>
          \o last = ProfilePlan(opts)
    BY <2>4, OneBehindFour, Zenon
  <2> HIDE DEF head, last
  <2> QED
    BY <2>2, <2>3, <2>5, Zenon
<1>2. CASE "known" \notin opts
  <2>1. Part(opts, "known", <<Optional("details")>>) = <<>>
    BY <1>2 DEF Part
  <2> HIDE DEF Part
  <2>2. ContactProfile(opts) = (head \o <<>>) \o last
    BY <2>1, Zenon DEF ContactProfile
  <2>3. head \o <<>> = head
    BY NoneBehindThree, Zenon
  <2>4. ProfilePlan(opts) = <<LookUp("profiles"), RequireSocket, Within("onWhatsApp"),
                              StoreIn("profiles")>>
    BY <1>2, Zenon DEF ProfilePlan
  <2>5. head \o last = ProfilePlan(opts)
    BY <2>4, OneBehindThree, Zenon
  <2> HIDE DEF head, last
  <2> QED
    BY <2>2, <2>3, <2>5, Zenon
<1> QED
  BY <1>1, <1>2

\* What reads changes nothing, and profiles are stored by their route only.
LEMMA ReadPlans ==
  ASSUME NEW name \in ReadRoutes, NEW opts
  PROVE  /\ ReadPlan(name, opts) \in Seq(Harmless) /\ ReadPlan(name, opts) # <<>>
         /\ name # "profile" => \A i \in 1..Len(ReadPlan(name, opts)) :
              ReadPlan(name, opts)[i].do = "store" =>
                ReadPlan(name, opts)[i].part = "lists"
         /\ ReadPlan(name, opts)[Len(ReadPlan(name, opts))].do # "socket"
<1> HIDE DEF Harmless, Mutating
<1>1. {"metadata", "list", "invite", "inviteInfo", "onWhatsApp", "details"}
        \subseteq Operation \ Mutating
  BY DEF Operation, Mutating
<1>2. /\ RequireSocket \in Harmless /\ LookUp("lists") \in Harmless
      /\ StoreIn("lists") \in Harmless /\ LookUp("profiles") \in Harmless
      /\ StoreIn("profiles") \in Harmless
  BY Steps
<1>3. \A op \in {"metadata", "list", "invite", "inviteInfo", "onWhatsApp", "details"} :
        Must(op) \in Harmless /\ Within(op) \in Harmless /\ Optional(op) \in Harmless
  BY <1>1, Steps
<1>4. /\ RequireSocket.do = "socket" /\ LookUp("lists").do = "lookup"
      /\ StoreIn("lists").part = "lists" /\ \A c : StoreIn(c).do = "store"
      /\ \A op : Must(op).do = "call" /\ Within(op).do = "call"
  BY DEF RequireSocket, LookUp, StoreIn, Must, Within, Step
<1> HIDE DEF RequireSocket, LookUp, StoreIn, Must, Within, Optional
<1>5. CASE name = "participating"
  BY <1>2, <1>3, <1>4, <1>5 DEF ReadPlan, GroupParticipating
<1>6. CASE name \in {"metadata", "admined", "inviteCode", "inviteInfo", "exists"}
  <2>1. PICK s \in Harmless : s.do = "call" /\ ReadPlan(name, opts) = <<RequireSocket, s>>
    BY <1>3, <1>4, <1>6 DEF ReadPlan, GroupMetadata, GroupAdmined, GroupInviteCode,
       GroupInviteInfo, ContactExists
  <2> DEFINE plan == <<RequireSocket, s>>
  <2>2. plan \in Seq(Harmless) /\ plan # <<>> /\ Len(plan) = 2
    BY <1>2
  <2>3. plan[1].do # "store" /\ plan[2].do # "store"
    BY <1>4, <2>1
  <2>4. (\A i \in 1..2 : plan[i].do # "store") /\ plan[2].do # "socket"
    BY <1>4, <2>1, <2>3
  <2>5. ReadPlan(name, opts) = plan
    BY <2>1
  <2> HIDE DEF plan
  <2> QED
    BY <2>2, <2>4, <2>5
<1>7. CASE name = "profile"
  <2>1. ReadPlan(name, opts) = ProfilePlan(opts)
    BY <1>7, Profiles DEF ReadPlan
  <2>2. Within("onWhatsApp") \in Harmless /\ Optional("details") \in Harmless
    BY <1>3
  <2>3. CASE "known" \in opts
    <3> DEFINE plan == <<LookUp("profiles"), RequireSocket, Within("onWhatsApp"),
                         Optional("details"), StoreIn("profiles")>>
    <3>1. plan \in Seq(Harmless) /\ plan # <<>> /\ plan[Len(plan)].do = "store"
      BY <1>2, <1>4, <2>2
    <3>2. ReadPlan(name, opts) = plan
      BY <2>1, <2>3, Zenon DEF ProfilePlan
    <3> HIDE DEF plan
    <3> QED
      BY <1>7, <3>1, <3>2
  <2>4. CASE "known" \notin opts
    <3> DEFINE plan == <<LookUp("profiles"), RequireSocket, Within("onWhatsApp"),
                         StoreIn("profiles")>>
    <3>1. plan \in Seq(Harmless) /\ plan # <<>> /\ plan[Len(plan)].do = "store"
      BY <1>2, <1>4, <2>2
    <3>2. ReadPlan(name, opts) = plan
      BY <2>1, <2>4, Zenon DEF ProfilePlan
    <3> HIDE DEF plan
    <3> QED
      BY <1>7, <3>1, <3>2
  <2> QED
    BY <2>3, <2>4
<1> QED
  BY <1>5, <1>6, <1>7 DEF ReadRoutes, ContactRoutes
\* What the proofs use of the plans.
LEMMA Plans ==
  ASSUME NEW rt \in Route
  PROVE  /\ Plan(rt) \in Seq(PlanStep) /\ Plan(rt) # <<>>
         /\ rt.name \in WrittenRoutes =>
              Plan(rt)[1] = PolicyCheck /\ \E k \in Nat : Turns(Plan(rt), k)
         /\ rt.name \notin WrittenRoutes => Plan(rt) \in Seq(Harmless)
         /\ rt.name = "profile" => Plan(rt) = ProfilePlan(rt.opts)
         /\ rt.name # "profile" => \A i \in 1..Len(Plan(rt)) :
              Plan(rt)[i].do = "store" => Plan(rt)[i].part = "lists"
         /\ Plan(rt)[Len(Plan(rt))].do # "socket"
<1>1. rt.name \in WrittenRoutes \cup ReadRoutes
  BY DEF Route
<1>2. /\ WrittenRoutes \cap ReadRoutes = {} /\ "profile" \notin WrittenRoutes
      /\ "profile" \in ReadRoutes
  BY DEF WrittenRoutes, ReadRoutes, ContactRoutes
<1>3. Uncached \subseteq PlanStep /\ Harmless \subseteq PlanStep
  BY DEF Uncached, Harmless
<1>4. ASSUME rt.name \in WrittenRoutes
      PROVE  /\ Plan(rt)[1] = PolicyCheck /\ \E k \in Nat : Turns(Plan(rt), k)
             /\ Plan(rt) \in Seq(Uncached) /\ Plan(rt)[Len(Plan(rt))].do # "socket"
  <2>1. PICK k \in Nat : Turns(Written(rt.name, rt.opts), k)
    BY <1>4, WrittenPlans
  <2>2. Plan(rt) = <<PolicyCheck>> \o Written(rt.name, rt.opts)
    BY <1>4 DEF Plan
  <2>3. PolicyCheck \in Harmless \cap Uncached
    BY Steps
  <2>4. Turns(Plan(rt), k + 1) /\ Plan(rt)[1] = PolicyCheck
    BY <2>1, <2>2, <2>3, TurnsBehind
  <2>5. Plan(rt)[Len(Plan(rt))].do # "socket"
    <3>1. CASE Len(Plan(rt)) = k + 1
      BY <2>4, <3>1 DEF Turns
    <3>2. CASE Len(Plan(rt)) # k + 1
      <4>1. Len(Plan(rt)) \in (k + 1) + 1..Len(Plan(rt))
        BY <2>4, <3>2 DEF Turns
      <4> QED
        BY <2>4, <4>1 DEF Turns, BestEffort
    <3> QED
      BY <3>1, <3>2
  <2> QED
    BY <2>4, <2>5 DEF Turns
<1>5. CASE rt.name \in WrittenRoutes
  <2>1. Plan(rt) \in Seq(PlanStep) /\ Plan(rt) # <<>>
    <3>1. Plan(rt) \in Seq(PlanStep)
      BY <1>3, <1>4, <1>5, SeqMonotonic
    <3>2. Len(Plan(rt)) # 0
      BY <1>4, <1>5 DEF Turns
    <3> QED
      BY <3>1, <3>2
  <2>2. \A i \in 1..Len(Plan(rt)) : Plan(rt)[i].do # "store"
    <3>1. \A i \in 1..Len(Plan(rt)) : Plan(rt)[i] \in Uncached
      BY <1>4, <1>5, ElementOfSeq
    <3> QED
      BY <3>1 DEF Uncached
  <2> QED
    BY <1>2, <1>4, <1>5, <2>1, <2>2
<1>6. CASE rt.name \notin WrittenRoutes
  <2>1. rt.name \in ReadRoutes /\ Plan(rt) = ReadPlan(rt.name, rt.opts)
    BY <1>1, <1>6 DEF Plan
  <2>2. /\ Plan(rt) \in Seq(Harmless) /\ Plan(rt) # <<>>
        /\ rt.name # "profile" => \A i \in 1..Len(Plan(rt)) :
              Plan(rt)[i].do = "store" => Plan(rt)[i].part = "lists"
        /\ Plan(rt)[Len(Plan(rt))].do # "socket"
    BY <2>1, ReadPlans
  <2>3. Plan(rt) \in Seq(PlanStep)
    BY <1>3, <2>2, SeqMonotonic
  <2>4. rt.name = "profile" => Plan(rt) = ProfilePlan(rt.opts)
    BY <2>1, Profiles DEF ReadPlan
  <2> QED
    BY <1>6, <2>2, <2>3, <2>4
<1> QED
  BY <1>5, <1>6
-----------------------------------------------------------------------------
\* A set of numbers has a least one.
LEMMA Least ==
  ASSUME NEW T \in SUBSET Nat, T # {}
  PROVE  Min(T) \in T
<1> DEFINE R == OpToRel(<, Nat)
<1>1. IsWellFoundedOn(R, Nat)
  BY NatLessThanWellFounded, Zenon
<1>2. ASSUME NEW x \in Nat, NEW y \in Nat, ~(<<y, x>> \in R)
      PROVE  x <= y
  BY <1>2 DEF OpToRel
<1> HIDE DEF R
<1>3. PICK x \in T : \A y \in T : ~(<<y, x>> \in R)
  BY <1>1, WFMin, Zenon
<1>4. \A y \in T : x <= y
  BY <1>2, <1>3
<1> QED
  BY <1>4 DEF Min

\* A request is at a step of its plan; what it awaits, and the timer for it,
\* are that step's.
RequestOK(r) ==
  /\ at[r] > 0 => route[r] \in Route /\ at[r] <= Len(Plan(route[r]))
  /\ wait[r] # {} =>
       at[r] > 0 /\ Current(r).do = "call" /\ wait[r] \subseteq Current(r).ops
  /\ wait[r] = {} => due[r] = 0
  /\ due[r] # 0 => Current(r).late # "none"

RequestsOK ==
  /\ DeviceOK /\ now \in Nat
  /\ route \in [Req -> Route \cup {NoRoute}] /\ at \in [Req -> Nat]
  /\ wait \in [Req -> SUBSET Operation] /\ due \in [Req -> Nat]
  /\ asked \in [Req -> Nat] /\ DOMAIN ans = Req
  /\ \A r \in Req : RequestOK(r)

LEMMA Currents ==
  ASSUME RequestsOK, NEW r \in Req, at[r] > 0
  PROVE  /\ route[r] \in Route /\ at[r] \in 1..Len(Plan(route[r]))
         /\ Plan(route[r]) \in Seq(PlanStep) /\ Len(Plan(route[r])) \in Nat
         /\ Current(r) \in PlanStep
<1>1. route[r] \in Route /\ at[r] <= Len(Plan(route[r])) /\ at[r] \in Nat
  BY DEF RequestsOK, RequestOK
<1>2. Plan(route[r]) \in Seq(PlanStep)
  BY <1>1, Plans
<1>3. Len(Plan(route[r])) \in Nat
  BY <1>2
<1>4. at[r] \in 1..Len(Plan(route[r]))
  BY <1>1, <1>3
<1>5. Plan(route[r])[at[r]] \in PlanStep
  BY <1>2, <1>4, ElementOfSeq
<1> QED
  BY <1>1, <1>2, <1>3, <1>4, <1>5 DEF Current

\* A request goes on to a later step, or answers.
Proceeds(r, codes) ==
  \/ \E i \in Nat :
       /\ at[r] < i /\ i <= Len(Plan(route[r])) /\ at' = [at EXCEPT ![r] = i]
       /\ ans' = ans /\ asked' = asked
  \/ \E reply \in codes :
       /\ at' = [at EXCEPT ![r] = 0] /\ ans' = [ans EXCEPT ![r] = reply]
       /\ asked' = [asked EXCEPT ![r] = 0]

LEMMA GoToGoes ==
  ASSUME NEW r \in Req, NEW i \in Nat, i > at[r], at[r] \in Nat, GoTo(r, i)
  PROVE  Proceeds(r, {"200"})
  BY DEF GoTo, Answer, Proceeds

LEMMA NextGoes ==
  ASSUME RequestsOK, NEW r \in Req, GoTo(r, at[r] + 1)
  PROVE  Proceeds(r, {"200"})
<1>1. at[r] \in Nat /\ at[r] + 1 \in Nat /\ at[r] + 1 > at[r]
  BY DEF RequestsOK, RequestOK
<1> QED
  BY <1>1, GoToGoes

LEMMA BehindIsLater ==
  ASSUME RequestsOK, NEW r \in Req, at[r] > 0
  PROVE  Behind(r) \in Nat /\ Behind(r) > at[r]
<1> DEFINE n == Len(Plan(route[r]))
           T == {i \in at[r] + 1..n : Plan(route[r])[i].part # Current(r).part}
                  \cup {n + 1}
<1>1. at[r] \in Nat /\ n \in Nat /\ at[r] <= n
  BY Currents DEF RequestsOK, RequestOK
<1>2. T \in SUBSET Nat /\ T # {} /\ \A i \in T : i > at[r]
  BY <1>1
<1>3. Behind(r) = Min(T)
  BY DEF Behind
<1> HIDE DEF T
<1> QED
  BY <1>2, <1>3, Least

LEMMA FailGoes ==
  ASSUME RequestsOK, NEW r \in Req, at[r] > 0, NEW outcome, Fail(r, outcome)
  PROVE  Proceeds(r, IF outcome = "skip" THEN {"200"} ELSE {outcome})
<1>1. CASE outcome = "skip"
  <2>1. Behind(r) \in Nat /\ Behind(r) > at[r] /\ at[r] \in Nat /\ GoTo(r, Behind(r))
    BY <1>1, BehindIsLater DEF Fail, RequestsOK, RequestOK
  <2> QED
    BY <1>1, <2>1, GoToGoes
<1>2. CASE outcome # "skip"
  BY <1>2 DEF Fail, Answer, Proceeds
<1> QED
  BY <1>1, <1>2
LEMMA RequestsInit == SocketRoutesInit => RequestsOK
<1> SUFFICES ASSUME SocketRoutesInit PROVE RequestsOK
  OBVIOUS
<1>2. DeviceOK
  BY DEF SocketRoutesInit, DeviceInit, DeviceOK
<1> QED
  BY <1>2 DEF SocketRoutesInit, RequestsOK, RequestOK

\* Nothing is awaited but one operation of the current step.
LEMMA AwaitsOne ==
  ASSUME RequestsOK, NEW r \in Req, NEW op \in wait[r]
  PROVE  /\ at[r] > 0 /\ Current(r).do = "call" /\ op \in Current(r).ops
         /\ wait[r] = {op} /\ op \in Operation
<1>1. at[r] > 0 /\ Current(r).do = "call" /\ wait[r] \subseteq Current(r).ops
  BY DEF RequestsOK, RequestOK
<1>2. \A x, y \in Current(r).ops : x = y
  BY <1>1, Currents DEF PlanStep
<1> QED
  BY <1>1, <1>2 DEF RequestsOK, RequestOK

\* A request leaves its step.
Leaves(r, codes) ==
  /\ at[r] > 0 /\ Proceeds(r, codes)
  /\ wait' = [wait EXCEPT ![r] = {}] /\ due' = [due EXCEPT ![r] = 0]

LEMMA Unawaited ==
  ASSUME RequestsOK, NEW r \in Req, wait[r] = {}, at[r] > 0, NEW codes,
         Proceeds(r, codes), wait' = wait, due' = due
  PROVE  Leaves(r, codes)
<1>1. due[r] = 0 /\ wait \in [Req -> SUBSET Operation] /\ due \in [Req -> Nat]
  BY DEF RequestsOK, RequestOK
<1>2. wait = [wait EXCEPT ![r] = {}] /\ due = [due EXCEPT ![r] = 0]
  BY <1>1
<1> QED
  BY <1>2 DEF Leaves

LEMMA SettleLeaves ==
  ASSUME RequestsOK, NEW r \in Req, NEW op \in wait[r], Settle(r, op)
  PROVE  Leaves(r, {"200"})
<1>1. wait[r] = {op} /\ at[r] > 0
  BY AwaitsOne
<1>2. /\ wait' = [wait EXCEPT ![r] = {}] /\ due' = [due EXCEPT ![r] = 0]
      /\ GoTo(r, at[r] + 1)
  BY <1>1 DEF Settle, RequestsOK, RequestOK
<1> QED
  BY <1>1, <1>2, NextGoes DEF Leaves

Issued(r) == Issue(r) /\ got[r] = sock /\ open

Forward(r) ==
  \/ ReadPolicy(r) \/ TakeSocket(r) \/ LookInCache(r) \/ StoreInCache(r)
  \/ \E ok \in BOOLEAN : FetchEnds(r, ok)
  \/ Issue(r) /\ ~(got[r] = sock /\ open)
  \/ \E op \in wait[r] : Reply(r, op) \/ ReplyError(r, op)
  \/ QueryTimesOut(r)

\* Where the step is best effort, its failure is passed over.
LEMMA ForwardLeaves ==
  ASSUME RequestsOK, NEW r \in Req, Forward(r)
  PROVE  /\ \E codes : Leaves(r, codes) /\ (Current(r) \in BestEffort => codes = {"200"})
         /\ route' = route /\ now' = now /\ UNCHANGED deviceVars
<1> DEFINE Goal == \E codes :
             Leaves(r, codes) /\ (Current(r) \in BestEffort => codes = {"200"})
<1>0. /\ Current(r) \in BestEffort => /\ Current(r).do \in {"call", "fetch"}
                                      /\ Current(r).fail = "skip"
                                      /\ Current(r).late = "none"
  BY DEF BestEffort
<1>1. ASSUME NEW codes, Leaves(r, codes), Current(r) \in BestEffort => codes = {"200"}
      PROVE  Goal
  BY <1>1
<1> HIDE DEF Goal
<1>2. route' = route /\ now' = now /\ UNCHANGED deviceVars
  BY DEF Forward, ReadPolicy, TakeSocket, LookInCache, StoreInCache, FetchEnds, Issue,
     Reply, ReplyError, QueryTimesOut
<1>3. ASSUME ReadPolicy(r)
      PROVE  Goal
  <2>1. /\ at[r] > 0 /\ wait[r] = {} /\ Current(r).do = "policy"
        /\ wait' = wait /\ due' = due
    BY <1>3 DEF ReadPolicy, At, RequestsOK, RequestOK
  <2>2. GoTo(r, at[r] + 1) \/ \E reply : Answer(r, reply)
    BY <1>3 DEF ReadPolicy
  <2>3. \E codes : Proceeds(r, codes)
    BY <2>2, NextGoes DEF Answer, Proceeds
  <2> QED
    <3>1. PICK codes : Proceeds(r, codes)
      BY <2>3
    <3>2. Leaves(r, codes) /\ Current(r) \notin BestEffort
      BY <2>1, <3>1, <1>0, Unawaited
    <3> QED
      BY <3>2, <1>1
<1>4. ASSUME TakeSocket(r)
      PROVE  Goal
  <2>1. /\ at[r] > 0 /\ wait[r] = {} /\ Current(r).do = "socket"
        /\ wait' = wait /\ due' = due
    BY <1>4 DEF TakeSocket, At, RequestsOK, RequestOK
  <2>2. \E codes : Proceeds(r, codes)
    <3>1. at[r] \in Nat /\ at[r] # Len(Plan(route[r]))
      BY <2>1, Plans, Currents DEF Current
    <3>2. at[r] + 1 \in Nat /\ at[r] + 1 > at[r] /\ at[r] + 1 <= Len(Plan(route[r]))
      BY <2>1, <3>1, Currents
    <3>3. CASE \E reply : Answer(r, reply)
      BY <3>3 DEF Answer, Proceeds
    <3>4. CASE at' = [at EXCEPT ![r] = @ + 1] /\ UNCHANGED <<ans, asked>>
      BY <3>2, <3>4 DEF Proceeds
    <3>5. sock = 0 \/ sock > 0
      BY DEF RequestsOK, DeviceOK
    <3>6. \/ \E reply : Answer(r, reply)
          \/ at' = [at EXCEPT ![r] = at[r] + 1] /\ UNCHANGED <<ans, asked>>
      BY <1>4, <3>5 DEF TakeSocket
    <3> QED
      BY <3>3, <3>4, <3>6
  <2> QED
    <3>1. PICK codes : Proceeds(r, codes)
      BY <2>2
    <3>2. Leaves(r, codes) /\ Current(r) \notin BestEffort
      BY <2>1, <3>1, <1>0, Unawaited
    <3> QED
      BY <3>2, <1>1
<1>5. ASSUME LookInCache(r)
      PROVE  Goal
  <2>1. /\ at[r] > 0 /\ wait[r] = {} /\ Current(r).do = "lookup"
        /\ wait' = wait /\ due' = due
    BY <1>5 DEF LookInCache, At, RequestsOK, RequestOK
  <2>2. GoTo(r, at[r] + 1) \/ Answer(r, "hit")
    BY <1>5 DEF LookInCache
  <2>3. \E codes : Proceeds(r, codes)
    BY <2>2, NextGoes DEF Answer, Proceeds
  <2> QED
    <3>1. PICK codes : Proceeds(r, codes)
      BY <2>3
    <3>2. Leaves(r, codes) /\ Current(r) \notin BestEffort
      BY <2>1, <3>1, <1>0, Unawaited
    <3> QED
      BY <3>2, <1>1
<1>6. ASSUME StoreInCache(r)
      PROVE  Goal
  <2>1. /\ at[r] > 0 /\ wait[r] = {} /\ wait' = wait /\ due' = due
        /\ GoTo(r, at[r] + 1)
    BY <1>6 DEF StoreInCache, At, RequestsOK, RequestOK
  <2> QED
    BY <2>1, <1>1, Unawaited, NextGoes
<1>7. ASSUME NEW ok \in BOOLEAN, FetchEnds(r, ok)
      PROVE  Goal
  <2>1. /\ at[r] > 0 /\ wait[r] = {} /\ wait' = wait /\ due' = due
    BY <1>7 DEF FetchEnds, At, RequestsOK, RequestOK
  <2>2. CASE GoTo(r, at[r] + 1)
    BY <2>1, <2>2, <1>1, Unawaited, NextGoes
  <2>3. ASSUME NEW outcome, Fail(r, outcome), Current(r).fail = "skip" => outcome = "skip"
        PROVE  Goal
    <3>1. Proceeds(r, IF outcome = "skip" THEN {"200"} ELSE {outcome})
      BY <2>1, <2>3, FailGoes
    <3>2. Current(r) \in BestEffort => outcome = "skip"
      BY <2>3, <1>0
    <3> QED
      BY <2>1, <3>1, <3>2, <1>1, Unawaited
  <2> QED
    BY <1>7, <2>2, <2>3 DEF FetchEnds
<1>8. ASSUME Issue(r) /\ ~(got[r] = sock /\ open)
      PROVE  Goal
  <2>1. /\ at[r] > 0 /\ wait[r] = {} /\ wait' = wait /\ due' = due
        /\ Fail(r, Current(r).fail)
    BY <1>8 DEF Issue, At, RequestsOK, RequestOK
  <2>2. Proceeds(r, IF Current(r).fail = "skip" THEN {"200"} ELSE {Current(r).fail})
    BY <2>1, FailGoes
  <2> QED
    BY <2>1, <2>2, <1>0, <1>1, Unawaited
<1>9. ASSUME NEW op \in wait[r], Reply(r, op)
      PROVE  Goal
  BY <1>1, <1>9, SettleLeaves DEF Reply
<1>10. ASSUME NEW op \in wait[r], ReplyError(r, op)
       PROVE  Goal
  <2>1. CASE Current(r).fail = "skip"
    BY <1>1, <1>10, <2>1, SettleLeaves DEF ReplyError
  <2>2. CASE Current(r).fail # "skip"
    <3>1. /\ wait' = [wait EXCEPT ![r] = {}] /\ due' = [due EXCEPT ![r] = 0]
          /\ Answer(r, Current(r).fail) /\ at[r] > 0
      BY <1>10, <2>2, AwaitsOne DEF ReplyError
    <3>2. Leaves(r, {Current(r).fail})
      BY <3>1 DEF Answer, Proceeds, Leaves
    <3> QED
      BY <2>2, <3>2, <1>0, <1>1
  <2> QED
    BY <2>1, <2>2
<1>11. ASSUME QueryTimesOut(r)
      PROVE  Goal
  <2>1. /\ at[r] > 0 /\ due[r] # 0 /\ wait' = [wait EXCEPT ![r] = {}]
        /\ due' = [due EXCEPT ![r] = 0] /\ Fail(r, Current(r).late)
    BY <1>11 DEF QueryTimesOut, RequestsOK, RequestOK
  <2>2. Current(r) \notin BestEffort
    BY <2>1, <1>0 DEF RequestsOK, RequestOK
  <2>3. \E codes : Proceeds(r, codes)
    BY <2>1, FailGoes
  <2> QED
    <3>1. PICK codes : Proceeds(r, codes)
      BY <2>3
    <3>2. Leaves(r, codes)
      BY <2>1, <3>1 DEF Leaves
    <3> QED
      BY <2>2, <3>2, <1>1
<1>12. Goal
  BY <1>3, <1>4, <1>5, <1>6, <1>7, <1>8, <1>9, <1>10, <1>11 DEF Forward
<1> QED
  BY <1>2, <1>12 DEF Goal

LEMMA Undisturbed ==
  ASSUME NEW q \in Req, RequestOK(q), route'[q] = route[q], at'[q] = at[q],
         wait'[q] = wait[q], due'[q] = due[q]
  PROVE  RequestOK(q)' /\ Current(q)' = Current(q)
<1>1. Current(q)' = Current(q)
  BY DEF Current
<1> HIDE DEF Current
<1> QED
  BY <1>1 DEF RequestOK

\* Every step of the system is one of these.
LEMMA RequestsMove ==
  ASSUME SocketRoutesNext(Route, Device)
  PROVE  \/ \E r \in Req : Forward(r) \/ Issued(r) \/ TableAnswers(r)
         \/ \E r \in Req : \E op \in wait[r] : Performs(r, op)
         \/ \E r \in Req, rt \in Route : Arrive(r, rt)
         \/ Tick \/ DeviceMoves(Device)
<1>1. ASSUME NEW r \in Req, Advances(r) \/ WhatsApp(r) \/ QueryTimesOut(r)
      PROVE  \/ Forward(r) \/ Issued(r) \/ TableAnswers(r)
             \/ \E op \in wait[r] : Performs(r, op)
  BY <1>1 DEF Advances, WhatsApp, Forward, Issued
<1>2. ASSUME NEW r \in Req, NEW ok \in BOOLEAN, FetchEnds(r, ok)
      PROVE  Forward(r)
  BY <1>2 DEF Forward
<1> HIDE DEF Forward, Issued
<1> QED
  BY <1>1, <1>2 DEF SocketRoutesNext

LEMMA LeavesKeeps ==
  ASSUME RequestsOK, NEW r \in Req, NEW codes, Leaves(r, codes),
         route' = route, now' = now, UNCHANGED deviceVars
  PROVE  RequestsOK'
<1>1. /\ DeviceOK /\ now \in Nat /\ route \in [Req -> Route \cup {NoRoute}]
      /\ at \in [Req -> Nat] /\ wait \in [Req -> SUBSET Operation]
      /\ due \in [Req -> Nat] /\ asked \in [Req -> Nat] /\ DOMAIN ans = Req
      /\ \A q \in Req : RequestOK(q)
  BY DEF RequestsOK
<1>2. at[r] > 0 /\ wait' = [wait EXCEPT ![r] = {}] /\ due' = [due EXCEPT ![r] = 0]
  BY DEF Leaves
<1>3. PICK i \in Nat : at' = [at EXCEPT ![r] = i] /\ i <= Len(Plan(route[r]))
  <2>1. 0 <= Len(Plan(route[r]))
    BY <1>2, Currents
  <2> QED
    BY <2>1 DEF Leaves, Proceeds
<1>4. asked' \in [Req -> Nat] /\ DOMAIN ans' = Req
  <2>1. \/ asked' = asked /\ ans' = ans
        \/ \E reply : asked' = [asked EXCEPT ![r] = 0] /\ ans' = [ans EXCEPT ![r] = reply]
    BY DEF Leaves, Proceeds
  <2> QED
    BY <1>1, <2>1
<1>5. /\ DeviceOK' /\ now' \in Nat /\ route' \in [Req -> Route \cup {NoRoute}]
      /\ at' \in [Req -> Nat] /\ wait' \in [Req -> SUBSET Operation]
      /\ due' \in [Req -> Nat]
  BY <1>1, <1>2, <1>3 DEF DeviceOK, deviceVars
<1>6. RequestOK(r)'
  <2>1. at'[r] = i /\ wait'[r] = {} /\ due'[r] = 0 /\ route'[r] = route[r]
    BY <1>1, <1>2, <1>3
  <2>2. route[r] \in Route
    BY <1>1, <1>2 DEF RequestOK
  <2> QED
    BY <1>3, <2>1, <2>2 DEF RequestOK
<1>7. ASSUME NEW q \in Req, q # r
      PROVE  RequestOK(q)'
  <2>1. /\ route'[q] = route[q] /\ at'[q] = at[q] /\ wait'[q] = wait[q]
        /\ due'[q] = due[q] /\ RequestOK(q)
    BY <1>1, <1>2, <1>3, <1>7
  <2> QED
    BY <2>1, Undisturbed
<1>8. \A q \in Req : RequestOK(q)'
  BY <1>6, <1>7
<1> QED
  BY <1>4, <1>5, <1>8 DEF RequestsOK

LEMMA RequestsStep ==
  ASSUME RequestsOK, SocketRoutesNext(Route, Device)
  PROVE  RequestsOK'
<1>1. /\ DeviceOK /\ now \in Nat /\ route \in [Req -> Route \cup {NoRoute}]
      /\ at \in [Req -> Nat] /\ wait \in [Req -> SUBSET Operation]
      /\ due \in [Req -> Nat] /\ asked \in [Req -> Nat] /\ DOMAIN ans = Req
      /\ \A q \in Req : RequestOK(q)
  BY DEF RequestsOK
<1>2. ASSUME NEW r \in Req, Forward(r)
      PROVE  RequestsOK'
  BY <1>2, ForwardLeaves, LeavesKeeps
<1>3. ASSUME NEW r \in Req, Issued(r)
      PROVE  RequestsOK'
  <2>1. /\ at[r] > 0 /\ Current(r).do = "call" /\ route' = route /\ at' = at
        /\ wait' = [wait EXCEPT ![r] = Current(r).ops] /\ ans' = ans /\ now' = now
        /\ due' = [due EXCEPT ![r] = IF Current(r).late = "none" THEN 0
                                      ELSE now + QueryTimeout]
        /\ asked' = [asked EXCEPT ![r] = IF asked[r] = 0 THEN now ELSE asked[r]]
        /\ UNCHANGED deviceVars
    BY <1>3 DEF Issued, Issue, At, RequestsOK
  <2>2. Current(r).ops \subseteq Operation
    BY <2>1, Currents DEF PlanStep
  <2>3. /\ wait' \in [Req -> SUBSET Operation] /\ due' \in [Req -> Nat]
        /\ asked' \in [Req -> Nat] /\ DeviceOK'
    BY <1>1, <2>1, <2>2, TimeAssumption DEF DeviceOK, deviceVars
  <2>4. RequestOK(r)'
    <3>1. Current(r)' = Current(r)
      BY <2>1 DEF Current
    <3>2. wait'[r] = Current(r).ops /\ at'[r] = at[r] /\ route'[r] = route[r]
      BY <1>1, <2>1
    <3>3. due'[r] = IF Current(r).late = "none" THEN 0 ELSE now + QueryTimeout
      BY <1>1, <2>1
    <3>4. at'[r] > 0 => route'[r] \in Route /\ at'[r] <= Len(Plan(route'[r]))
      BY <1>1, <2>1, <3>2 DEF RequestOK
    <3>5. due'[r] # 0 => Current(r)'.late # "none"
      BY <3>1, <3>3
    <3>6. RequestOK(r)
      BY <1>1
    <3>7. wait'[r] = {} => due'[r] = 0
      BY <1>1, <2>1, <3>2, <3>3, Currents DEF PlanStep
    <3> QED
      BY <2>1, <3>1, <3>2, <3>4, <3>5, <3>7 DEF RequestOK
  <2>5. ASSUME NEW q \in Req, q # r
        PROVE  RequestOK(q)'
    <3>1. /\ route'[q] = route[q] /\ at'[q] = at[q] /\ wait'[q] = wait[q]
          /\ due'[q] = due[q] /\ RequestOK(q)
      BY <1>1, <2>1, <2>5
    <3> QED
      BY <3>1, Undisturbed
  <2>6. \A q \in Req : RequestOK(q)'
    BY <2>4, <2>5
  <2> QED
    BY <1>1, <2>1, <2>3, <2>6 DEF RequestsOK
<1>4. ASSUME UNCHANGED <<route, at, wait, due, asked, ans>>, now' \in Nat, DeviceOK'
      PROVE  RequestsOK'
  <2>1. ASSUME NEW q \in Req
        PROVE  RequestOK(q)'
    BY <1>1, <1>4, Undisturbed
  <2> QED
    BY <1>1, <1>4, <2>1 DEF RequestsOK
<1>5. ASSUME NEW r \in Req, NEW op \in wait[r], Performs(r, op)
      PROVE  RequestsOK'
  BY <1>1, <1>4, <1>5 DEF Performs, deviceVars, DeviceOK
<1>6. ASSUME NEW r \in Req, NEW rt \in Route, Arrive(r, rt)
      PROVE  RequestsOK'
  <2>1. /\ route' = [route EXCEPT ![r] = rt] /\ at' = [at EXCEPT ![r] = 1]
        /\ wait' = [wait EXCEPT ![r] = {}] /\ due' = [due EXCEPT ![r] = 0]
        /\ asked' = [asked EXCEPT ![r] = 0] /\ ans' = [ans EXCEPT ![r] = "none"]
        /\ now' = now /\ UNCHANGED deviceVars
    BY <1>6 DEF Arrive
  <2>2. /\ route' \in [Req -> Route \cup {NoRoute}] /\ at' \in [Req -> Nat]
        /\ wait' \in [Req -> SUBSET Operation] /\ due' \in [Req -> Nat]
        /\ asked' \in [Req -> Nat] /\ DOMAIN ans' = Req
    BY <1>1, <2>1
  <2>3. DeviceOK'
    BY <1>1, <2>1 DEF DeviceOK, deviceVars
  <2>4. RequestOK(r)'
    <3>1. Plan(rt) \in Seq(PlanStep) /\ Plan(rt) # <<>>
      BY Plans
    <3>2. 1 <= Len(Plan(rt))
      BY <3>1
    <3>3. route'[r] = rt /\ at'[r] = 1 /\ wait'[r] = {} /\ due'[r] = 0
      BY <1>1, <2>1
    <3> QED
      BY <3>2, <3>3 DEF RequestOK
  <2>5. ASSUME NEW q \in Req, q # r
        PROVE  RequestOK(q)'
    <3>1. /\ route'[q] = route[q] /\ at'[q] = at[q] /\ wait'[q] = wait[q]
          /\ due'[q] = due[q] /\ RequestOK(q)
      BY <1>1, <2>1, <2>5
    <3> QED
      BY <3>1, Undisturbed
  <2>6. \A q \in Req : RequestOK(q)'
    BY <2>4, <2>5
  <2> QED
    BY <1>1, <2>1, <2>2, <2>3, <2>6 DEF RequestsOK
<1>7. CASE Tick
  BY <1>1, <1>4, <1>7 DEF Tick, deviceVars, DeviceOK
<1>8. CASE DeviceMoves(Device)
  BY <1>1, <1>4, <1>8, DeviceStays DEF DeviceMoves
<1>9. ASSUME NEW r \in Req, TableAnswers(r)
      PROVE  RequestsOK'
  BY <1>1, <1>4, <1>9 DEF TableAnswers, deviceVars, DeviceOK
<1> QED
  BY <1>2, <1>3, <1>5, <1>6, <1>7, <1>8, <1>9, RequestsMove

-----------------------------------------------------------------------------
\* Which action a step takes its request forward with, and what it leaves alone.
LEMMA ForwardKinds ==
  ASSUME RequestsOK, NEW r \in Req, Forward(r)
  PROVE  /\ Current(r).do = "policy" => ReadPolicy(r)
         /\ Current(r).do = "socket" => TakeSocket(r)
         /\ Current(r).do = "lookup" => LookInCache(r)
         /\ Current(r).do = "store" => StoreInCache(r)
         /\ Current(r).do = "call" /\ wait[r] = {} => Issue(r) /\ ~(got[r] = sock /\ open)
         /\ LookInCache(r) \/ StoreInCache(r) \/ cache' = cache
         /\ done' = done /\ shown' = shown
         /\ reading' = reading \/ reading' = [reading EXCEPT ![r] = "rows"]
         /\ back' = back \/ \E op \in wait[r] : Reply(r, op)
<1>1. wait[r] # {} => Current(r).do = "call"
  BY DEF RequestsOK, RequestOK
<1>2. CASE ReadPolicy(r)
  <2>1. Current(r).do = "policy"
    BY <1>2 DEF ReadPolicy, At
  <2> QED
    BY <1>2, <2>1 DEF ReadPolicy
<1>3. CASE TakeSocket(r)
  <2>1. Current(r).do = "socket"
    BY <1>3 DEF TakeSocket, At
  <2> QED
    BY <1>3, <2>1 DEF TakeSocket
<1>4. CASE LookInCache(r)
  <2>1. Current(r).do = "lookup"
    BY <1>4 DEF LookInCache, At
  <2>2. UNCHANGED <<done, reading, shown, back>>
    BY <1>4 DEF LookInCache
  <2> QED
    BY <1>4, <2>1, <2>2
<1>5. CASE StoreInCache(r)
  <2>1. Current(r).do = "store"
    BY <1>5 DEF StoreInCache, At
  <2>2. UNCHANGED <<done, reading, shown, back>>
    BY <1>5 DEF StoreInCache
  <2> QED
    BY <1>5, <2>1, <2>2
<1>6. ASSUME NEW ok \in BOOLEAN, FetchEnds(r, ok)
      PROVE  Current(r).do = "fetch" /\ UNCHANGED <<cache, done, reading, shown, back>>
  BY <1>6 DEF FetchEnds, At
<1>7. CASE Issue(r) /\ ~(got[r] = sock /\ open)
  <2>1. Current(r).do = "call" /\ UNCHANGED <<cache, done, reading, shown, back>>
    BY <1>7 DEF Issue, At
  <2> QED
    BY <1>7, <2>1
<1>8. ASSUME NEW op \in wait[r], Reply(r, op) \/ ReplyError(r, op)
      PROVE  /\ Current(r).do = "call" /\ wait[r] # {}
             /\ UNCHANGED <<cache, done, reading, shown>>
             /\ back' = back \/ Reply(r, op)
  BY <1>1, <1>8 DEF Reply, ReplyError
<1>9. CASE QueryTimesOut(r)
  <2>1. /\ Current(r).do = "call" /\ wait[r] # {}
        /\ UNCHANGED <<cache, done, reading, shown, back>>
    BY <1>1, <1>9 DEF QueryTimesOut
  <2> QED
    BY <2>1
<1> QED
  BY <1>2, <1>3, <1>4, <1>5, <1>6, <1>7, <1>8, <1>9 DEF Forward

\* The other requests stay where they are.
LEMMA OthersStay ==
  ASSUME RequestsOK, NEW r \in Req, NEW codes, Leaves(r, codes), NEW q \in Req, q # r
  PROVE  /\ at'[q] = at[q] /\ ans'[q] = ans[q] /\ asked'[q] = asked[q]
         /\ wait'[q] = wait[q] /\ due'[q] = due[q]
<1>1. /\ DOMAIN at = Req /\ DOMAIN ans = Req /\ DOMAIN asked = Req
      /\ DOMAIN wait = Req /\ DOMAIN due = Req
  BY DEF RequestsOK
<1>2. at'[q] = at[q] /\ ans'[q] = ans[q] /\ asked'[q] = asked[q]
  BY <1>1 DEF Leaves, Proceeds
<1> QED
  BY <1>1, <1>2 DEF Leaves

\* A request that runs has been shown what is so of its device, its reading of
\* the policy rests on that, and one that is past its policy may send.
ShownOK(r) ==
  /\ at[r] > 0 => Facts(device) \subseteq shown[r] /\ Backed(reading[r], shown[r])
  /\ at[r] > 1 /\ route[r].name \in WrittenRoutes => MaySend(shown[r])

AllowedOK ==
  /\ DOMAIN reading = Req /\ DOMAIN shown = Req
  /\ \A r \in Req : ShownOK(r)
  /\ \A d \in done : d.req \in Req
  /\ OnlyOpenDevicesAct

LEMMA FirstIsThePolicy ==
  ASSUME RequestsOK, NEW r \in Req, at[r] = 1, route[r].name \in WrittenRoutes
  PROVE  Current(r) = PolicyCheck /\ Current(r).do = "policy"
<1>1. route[r] \in Route
  BY Currents
<1> QED
  BY <1>1, Plans DEF Current, PolicyCheck, Step

LEMMA AllowedStep ==
  ASSUME RequestsOK, AllowedOK, SocketRoutesNext(Route, Device)
  PROVE  AllowedOK'
<1>1. /\ DeviceOK /\ route \in [Req -> Route \cup {NoRoute}] /\ at \in [Req -> Nat]
  BY DEF RequestsOK
<1>2. /\ DOMAIN reading = Req /\ DOMAIN shown = Req /\ \A r \in Req : ShownOK(r)
      /\ \A d \in done : d.req \in Req /\ MaySend(shown[d.req])
  BY DEF AllowedOK, OnlyOpenDevicesAct
<1>3. ASSUME NEW r \in Req, Forward(r)
      PROVE  AllowedOK'
  <2>1. PICK codes : Leaves(r, codes)
    BY <1>3, ForwardLeaves
  <2>2. /\ route' = route /\ device' = device /\ done' = done /\ shown' = shown
        /\ reading' = reading \/ reading' = [reading EXCEPT ![r] = "rows"]
    BY <1>3, ForwardLeaves, ForwardKinds DEF deviceVars
  <2>3. at[r] > 0
    BY <2>1 DEF Leaves
  <2>4. ASSUME at'[r] > 1, route[r].name \in WrittenRoutes
        PROVE  MaySend(shown[r])
    <3>1. CASE at[r] > 1
      BY <1>2, <2>4, <3>1 DEF ShownOK
    <3>2. CASE at[r] = 1
      <4>1. ReadPolicy(r)
        BY <1>3, <2>4, <3>2, FirstIsThePolicy, ForwardKinds
      <4>2. ASSUME NEW reply, Answer(r, reply)
            PROVE  FALSE
        <5>1. at'[r] = 0
          BY <1>1, <4>2 DEF Answer
        <5> QED
          BY <2>4, <5>1
      <4>3. reading[r] = "may_send"
        BY <4>1, <4>2 DEF ReadPolicy
      <4> QED
        BY <1>2, <2>3, <4>3 DEF ShownOK, Backed
    <3> QED
      BY <1>1, <2>3, <3>1, <3>2
  <2>5. ShownOK(r)'
    <3>1. Backed(reading'[r], shown[r])
      BY <1>2, <2>2, <2>3 DEF ShownOK, Backed
    <3>2. Facts(device') = Facts(device)
      BY <2>2
    <3> QED
      BY <1>2, <2>2, <2>3, <2>4, <3>1, <3>2 DEF ShownOK
  <2>6. ASSUME NEW q \in Req, q # r
        PROVE  ShownOK(q)'
    <3>1. at'[q] = at[q] /\ reading'[q] = reading[q]
      BY <1>2, <2>1, <2>2, <2>6, OthersStay
    <3> QED
      BY <1>2, <2>2, <3>1 DEF ShownOK
  <2>7. \A q \in Req : ShownOK(q)'
    BY <2>5, <2>6
  <2> QED
    BY <1>2, <2>2, <2>7 DEF AllowedOK, OnlyOpenDevicesAct
<1>4. ASSUME UNCHANGED <<at, route, device, reading, shown>>,
             \A d \in done' : d \in done \/ (d.req \in Req /\ MaySend(shown[d.req]))
      PROVE  AllowedOK'
  <2>1. \A q \in Req : ShownOK(q)'
    BY <1>2, <1>4 DEF ShownOK
  <2> QED
    BY <1>2, <1>4, <2>1 DEF AllowedOK, OnlyOpenDevicesAct
<1>5. ASSUME NEW r \in Req, Issued(r)
      PROVE  AllowedOK'
  BY <1>4, <1>5 DEF Issued, Issue, deviceVars
<1>6. ASSUME NEW r \in Req, NEW op \in wait[r], Performs(r, op)
      PROVE  AllowedOK'
  <2>1. op \in Mutating /\ done' = done \cup {[req |-> r, op |-> op]}
    BY <1>6 DEF Performs
  <2>2. at[r] > 0 /\ Current(r).do = "call" /\ op \in Current(r).ops
    BY AwaitsOne
  <2>3. route[r] \in Route /\ at[r] \in 1..Len(Plan(route[r]))
    BY <2>2, Currents
  <2>4. route[r].name \in WrittenRoutes
    <3>1. Current(r) \notin Harmless
      BY <2>1, <2>2 DEF Harmless
    <3> QED
      BY <2>3, <3>1, Plans, ElementOfSeq DEF Current
  <2>5. at[r] # 1
    BY <2>2, <2>4, FirstIsThePolicy
  <2>6. MaySend(shown[r])
    BY <1>1, <1>2, <2>2, <2>4, <2>5 DEF ShownOK
  <2> QED
    BY <1>4, <1>6, <2>1, <2>6 DEF Performs, deviceVars
<1>7. ASSUME NEW r \in Req, TableAnswers(r)
      PROVE  AllowedOK'
  <2>1. /\ at[r] > 0 /\ reading[r] \in Table
        /\ reading' = [reading EXCEPT ![r] = ReadDeviceListenOnly(reading[r], device)]
        /\ UNCHANGED <<at, route, device, done, shown>>
    BY <1>7 DEF TableAnswers, At, deviceVars
  <2>2. ASSUME NEW q \in Req
        PROVE  ShownOK(q)'
    <3>1. CASE q # r
      BY <1>2, <2>1, <3>1 DEF ShownOK
    <3>2. CASE q = r
      <4>1. reading'[q] = ReadDeviceListenOnly(reading[r], device)
        BY <1>2, <2>1, <3>2
      <4>2. Facts(device) \subseteq shown[q] /\ Backed(reading[r], shown[q])
        BY <1>2, <2>1, <3>2 DEF ShownOK
      <4>3. Backed(reading'[q], shown[q])
        BY <1>1, <2>1, <4>1, <4>2, Policies DEF DeviceOK
      <4> QED
        BY <1>2, <2>1, <4>2, <4>3 DEF ShownOK
    <3> QED
      BY <3>1, <3>2
  <2> QED
    BY <1>2, <2>1, <2>2 DEF AllowedOK, OnlyOpenDevicesAct
<1>8. ASSUME NEW r \in Req, NEW rt \in Route, Arrive(r, rt)
      PROVE  AllowedOK'
  <2>1. /\ route' = [route EXCEPT ![r] = rt] /\ at' = [at EXCEPT ![r] = 1]
        /\ done' = {d \in done : d.req # r} /\ device' = device
        /\ reading' = [reading EXCEPT ![r] = "rows"]
        /\ shown' = [shown EXCEPT ![r] = Facts(device)]
    BY <1>8 DEF Arrive, deviceVars
  <2>2. ASSUME NEW q \in Req
        PROVE  ShownOK(q)'
    <3>1. CASE q = r
      <4>1. at'[q] = 1 /\ reading'[q] = "rows" /\ shown'[q] = Facts(device')
        BY <1>1, <1>2, <2>1, <3>1
      <4> QED
        BY <4>1 DEF ShownOK, Backed
    <3>2. CASE q # r
      <4>1. /\ at'[q] = at[q] /\ route'[q] = route[q] /\ reading'[q] = reading[q]
            /\ shown'[q] = shown[q]
        BY <1>1, <1>2, <2>1, <3>2
      <4> QED
        BY <1>2, <2>1, <4>1 DEF ShownOK
    <3> QED
      BY <3>1, <3>2
  <2>3. \A d \in done' : d.req \in Req /\ MaySend(shown'[d.req])
    BY <1>2, <2>1
  <2> QED
    BY <1>2, <2>1, <2>2, <2>3 DEF AllowedOK, OnlyOpenDevicesAct
<1>9. CASE Tick
  BY <1>4, <1>9 DEF Tick, deviceVars
<1>10. CASE DeviceMoves(Device)
  <2>1. /\ UNCHANGED <<at, route, done, reading>>
        /\ shown' = [r \in Req |-> IF at[r] > 0 THEN shown[r] \cup Facts(device')
                                   ELSE shown[r]]
    BY <1>10 DEF DeviceMoves
  <2>2. ASSUME NEW q \in Req
        PROVE  ShownOK(q)' /\ (MaySend(shown[q]) => MaySend(shown'[q]))
    <3>1. shown'[q] = IF at[q] > 0 THEN shown[q] \cup Facts(device') ELSE shown[q]
      BY <2>1
    <3>2. MaySend(shown[q]) => MaySend(shown'[q])
      BY <3>1 DEF MaySend
    <3>3. at[q] > 0 => Facts(device') \subseteq shown'[q] /\ Backed(reading[q], shown'[q])
      BY <1>2, <3>1, StillBacked DEF ShownOK
    <3> QED
      BY <1>2, <2>1, <3>2, <3>3 DEF ShownOK
  <2>3. \A d \in done' : d.req \in Req /\ MaySend(shown'[d.req])
    BY <1>2, <2>1, <2>2
  <2> QED
    BY <1>2, <2>1, <2>2, <2>3 DEF AllowedOK, OnlyOpenDevicesAct
<1> QED
  BY <1>3, <1>5, <1>6, <1>7, <1>8, <1>9, <1>10, RequestsMove

-----------------------------------------------------------------------------
\* A request that has heard of a part of its change has only best effort
\* before it, or has answered 200.
Reported(r) ==
  IF at[r] = 0 THEN ans[r] = "200"
  ELSE \A j \in at[r]..Len(Plan(route[r])) : Plan(route[r])[j] \in BestEffort

HeardOK == \A b \in back : b[1] \in Req /\ Reported(b[1])

\* Going on keeps it so.
LEMMA GoesOnReported ==
  ASSUME RequestsOK, NEW r \in Req, at[r] > 0, Leaves(r, {"200"}), route' = route,
         \A j \in at[r] + 1..Len(Plan(route[r])) : Plan(route[r])[j] \in BestEffort
  PROVE  Reported(r)'
<1>1. at[r] \in Nat /\ DOMAIN at = Req /\ DOMAIN ans = Req /\ Len(Plan(route[r])) \in Nat
  BY Currents DEF RequestsOK
<1>2. CASE at'[r] = 0 /\ ans'[r] = "200"
  BY <1>2 DEF Reported
<1>3. ASSUME NEW i \in Nat, at[r] < i, at'[r] = i
      PROVE  Reported(r)'
  <2>1. ASSUME NEW j \in i..Len(Plan(route[r]))
        PROVE  Plan(route[r])[j] \in BestEffort
    <3>1. j \in at[r] + 1..Len(Plan(route[r]))
      BY <1>1, <1>3
    <3> QED
      BY <3>1
  <2>2. at'[r] # 0
    BY <1>1, <1>3
  <2> QED
    BY <1>3, <2>1, <2>2 DEF Reported
<1> QED
  BY <1>1, <1>2, <1>3 DEF Leaves, Proceeds

LEMMA HeardStep ==
  ASSUME RequestsOK, HeardOK, SocketRoutesNext(Route, Device)
  PROVE  HeardOK'
<1>1. at \in [Req -> Nat] /\ route \in [Req -> Route \cup {NoRoute}] /\ DOMAIN ans = Req
  BY DEF RequestsOK
<1>2. ASSUME NEW r \in Req, Forward(r)
      PROVE  HeardOK'
  <2>1. PICK codes : Leaves(r, codes) /\ (Current(r) \in BestEffort => codes = {"200"})
    BY <1>2, ForwardLeaves
  <2>2. route' = route /\ at[r] > 0
    BY <1>2, <2>1, ForwardLeaves DEF Leaves
  <2>3. at[r] \in 1..Len(Plan(route[r])) /\ Len(Plan(route[r])) \in Nat
    BY <2>2, Currents
  <2>4. ASSUME Reported(r)
        PROVE  Reported(r)'
    <3>1. \A j \in at[r]..Len(Plan(route[r])) : Plan(route[r])[j] \in BestEffort
      BY <2>2, <2>4 DEF Reported
    <3>2. Current(r) \in BestEffort
      BY <2>3, <3>1 DEF Current
    <3>3. \A j \in at[r] + 1..Len(Plan(route[r])) : Plan(route[r])[j] \in BestEffort
      BY <2>3, <3>1
    <3>4. Leaves(r, {"200"})
      BY <2>1, <3>2
    <3> QED
      BY <2>2, <3>3, <3>4, GoesOnReported
  <2>5. ASSUME NEW q \in Req, Reported(q)
        PROVE  Reported(q)'
    <3>1. CASE q = r
      BY <2>4, <2>5, <3>1
    <3>2. CASE q # r
      <4>1. at'[q] = at[q] /\ ans'[q] = ans[q]
        BY <2>1, <3>2, OthersStay
      <4> QED
        BY <2>2, <2>5, <4>1 DEF Reported
    <3> QED
      BY <3>1, <3>2
  <2>6. CASE back' = back
    BY <2>5, <2>6 DEF HeardOK
  <2>7. ASSUME NEW op \in wait[r], Reply(r, op)
        PROVE  HeardOK'
    <3>1. Leaves(r, {"200"})
      BY <2>7, SettleLeaves DEF Reply
    <3>2. ASSUME op \in Mutating
          PROVE  Reported(r)'
      <4>1. Current(r) \notin Harmless /\ route[r] \in Route
        <5>1. op \in Current(r).ops
          BY AwaitsOne
        <5> QED
          BY <2>2, <3>2, <5>1, Currents DEF Harmless
      <4>2. route[r].name \in WrittenRoutes
        BY <2>3, <4>1, Plans, ElementOfSeq DEF Current
      <4>3. PICK k \in Nat : Turns(Plan(route[r]), k)
        BY <4>1, <4>2, Plans
      <4>4. at[r] >= k
        BY <1>1, <2>3, <4>1, <4>3 DEF Turns, Current
      <4>5. \A j \in at[r] + 1..Len(Plan(route[r])) : Plan(route[r])[j] \in BestEffort
        BY <2>3, <4>3, <4>4 DEF Turns
      <4> QED
        BY <2>2, <3>1, <4>5, GoesOnReported
    <3>3. back' = back \/ (back' = back \cup {<<r, op>>} /\ op \in Mutating)
      BY <2>7 DEF Reply
    <3>4. CASE back' = back
      BY <2>5, <3>4 DEF HeardOK
    <3>5. CASE back' = back \cup {<<r, op>>} /\ op \in Mutating
      <4>1. \A b \in back' : b \in back \/ b[1] = r
        BY <3>5
      <4> QED
        BY <2>5, <3>2, <3>5, <4>1 DEF HeardOK
    <3> QED
      BY <3>3, <3>4, <3>5
  <2> QED
    BY <1>2, <2>6, <2>7, ForwardKinds
<1>3. ASSUME UNCHANGED <<at, route, ans, back>>
      PROVE  HeardOK'
  BY <1>3 DEF HeardOK, Reported
<1>4. ASSUME NEW r \in Req, Issued(r)
      PROVE  HeardOK'
  BY <1>3, <1>4 DEF Issued, Issue
<1>5. ASSUME NEW r \in Req, NEW op \in wait[r], Performs(r, op)
      PROVE  HeardOK'
  BY <1>3, <1>5 DEF Performs
<1>6. ASSUME NEW r \in Req, NEW rt \in Route, Arrive(r, rt)
      PROVE  HeardOK'
  <2>1. /\ route' = [route EXCEPT ![r] = rt] /\ at' = [at EXCEPT ![r] = 1]
        /\ ans' = [ans EXCEPT ![r] = "none"] /\ back' = {b \in back : b[1] # r}
    BY <1>6 DEF Arrive
  <2>2. ASSUME NEW q \in Req, q # r, Reported(q)
        PROVE  Reported(q)'
    <3>1. at'[q] = at[q] /\ ans'[q] = ans[q] /\ route'[q] = route[q]
      BY <1>1, <2>1, <2>2
    <3> QED
      BY <2>2, <3>1 DEF Reported
  <2> QED
    BY <2>1, <2>2 DEF HeardOK
<1>7. CASE Tick
  BY <1>3, <1>7 DEF Tick
<1>8. CASE DeviceMoves(Device)
  BY <1>3, <1>8 DEF DeviceMoves
<1>9. ASSUME NEW r \in Req, TableAnswers(r)
      PROVE  HeardOK'
  BY <1>3, <1>9 DEF TableAnswers
<1> QED
  BY <1>2, <1>4, <1>5, <1>6, <1>7, <1>8, <1>9, RequestsMove

-----------------------------------------------------------------------------
\* How long ago the first query of a profile was sent, at each step of its
\* plan: the first query and the details take at most a QueryTimeout each.
ProfileAges(r) ==
  /\ Current(r).do \in {"lookup", "socket"} => asked[r] = 0
  /\ at[r] = 3 =>
       IF wait[r] = {} THEN asked[r] = 0
       ELSE asked[r] # 0 /\ due[r] # 0 /\ due[r] <= asked[r] + QueryTimeout
  /\ at[r] > 3 /\ Current(r).do = "call" =>
       /\ asked[r] # 0
       /\ IF wait[r] = {} THEN now <= asked[r] + QueryTimeout
          ELSE due[r] # 0 /\ due[r] <= asked[r] + 2 * QueryTimeout
  /\ Current(r).do = "store" => asked[r] # 0 /\ now <= asked[r] + 2 * QueryTimeout

AgeOK(r) ==
  /\ due[r] # 0 => now <= due[r]
  /\ at[r] > 0 /\ route[r].name = "profile" => ProfileAges(r)

Entry == [exp : Nat, asked : Nat]

AgesOK ==
  /\ now > 0 /\ \A r \in Req : AgeOK(r)
  /\ DOMAIN cache = {"lists", "profiles"} /\ cache["profiles"] \subseteq Entry
  /\ \A e \in cache["profiles"] : e.exp <= e.asked + CacheTtl + 2 * QueryTimeout

\* The steps of a profile's plan.
IsProfile(plan) ==
  /\ Len(plan) \in {4, 5}
  /\ plan[1].do = "lookup" /\ plan[2].do = "socket"
  /\ plan[3].do = "call" /\ plan[3].fail = "500" /\ plan[3].late = "504"
  /\ Len(plan) = 5 => plan[4].do = "call" /\ plan[4].late = "skip"
  /\ plan[Len(plan)].do = "store" /\ plan[Len(plan)].part = "profiles"

LEMMA ProfileSteps ==
  ASSUME RequestsOK, NEW r \in Req, at[r] > 0, route[r].name = "profile"
  PROVE  /\ IsProfile(Plan(route[r])) /\ at[r] \in 1..Len(Plan(route[r]))
         /\ Current(r) = Plan(route[r])[at[r]]
<1>1. route[r] \in Route /\ at[r] \in 1..Len(Plan(route[r]))
  BY Currents
<1> DEFINE opts == route[r].opts
<1>2. Plan(route[r]) = ProfilePlan(opts)
  BY <1>1, Plans
<1>3. /\ LookUp("profiles").do = "lookup" /\ RequireSocket.do = "socket"
      /\ Within("onWhatsApp").do = "call" /\ Within("onWhatsApp").fail = "500"
      /\ Within("onWhatsApp").late = "504"
      /\ Optional("details").do = "call" /\ Optional("details").late = "skip"
      /\ StoreIn("profiles").do = "store" /\ StoreIn("profiles").part = "profiles"
  BY DEF LookUp, RequireSocket, Within, Optional, StoreIn, Step
<1> HIDE DEF LookUp, RequireSocket, Within, Optional, StoreIn, opts
<1>4. IsProfile(ProfilePlan(opts))
  <2>1. CASE "known" \in opts
    BY <1>3, <2>1 DEF ProfilePlan, IsProfile
  <2>2. CASE "known" \notin opts
    BY <1>3, <2>2 DEF ProfilePlan, IsProfile
  <2> QED
    BY <2>1, <2>2
<1> QED
  BY <1>1, <1>2, <1>4 DEF Current

\* A request whose steps and timers stay, at the same time, is as old as before.
LEMMA SameAge ==
  ASSUME NEW q \in Req, AgeOK(q), now' = now, route'[q] = route[q], at'[q] = at[q],
         asked'[q] = asked[q], wait'[q] = wait[q], due'[q] = due[q]
  PROVE  AgeOK(q)'
<1>1. Current(q)' = Current(q)
  BY DEF Current
<1> HIDE DEF Current
<1>2. ProfileAges(q)' <=> ProfileAges(q)
  BY <1>1 DEF ProfileAges
<1> HIDE DEF ProfileAges
<1> QED
  BY <1>2 DEF AgeOK

\* A profile goes on in time.
LEMMA ProfileGoesOn ==
  ASSUME RequestsOK, AgesOK, NEW r \in Req, Forward(r), at'[r] > 0,
         route[r].name = "profile"
  PROVE  ProfileAges(r)'
<1>1. PICK codes : Leaves(r, codes)
  BY ForwardLeaves
<1>2. /\ at[r] > 0 /\ route' = route /\ now' = now
      /\ at \in [Req -> Nat] /\ wait \in [Req -> SUBSET Operation]
      /\ due \in [Req -> Nat] /\ asked \in [Req -> Nat] /\ now \in Nat
  BY <1>1, ForwardLeaves DEF Leaves, RequestsOK
<1>3. wait'[r] = {} /\ due'[r] = 0
  BY <1>1, <1>2 DEF Leaves
<1> DEFINE plan == Plan(route[r])
<1>4. /\ at'[r] \in Nat /\ at'[r] > at[r] /\ at'[r] <= Len(plan)
      /\ asked'[r] = asked[r]
  BY <1>1, <1>2 DEF Leaves, Proceeds
<1>5. IsProfile(plan) /\ at[r] \in 1..Len(plan) /\ Current(r) = plan[at[r]]
  BY <1>2, ProfileSteps
<1>6. Current(r)' = plan[at'[r]]
  BY <1>2 DEF Current
<1>7. /\ ProfileAges(r)
      /\ due[r] # 0 => now <= due[r]
      /\ asked[r] \in Nat /\ due[r] \in Nat /\ wait[r] # {} => Current(r).do = "call"
  BY <1>2 DEF AgesOK, AgeOK, RequestsOK, RequestOK
<1>8. QueryTimeout \in Nat
  BY TimeAssumption
<1>9. ASSUME NEW reply, Answer(r, reply)
      PROVE  FALSE
  <2>1. at'[r] = 0
    BY <1>2, <1>9 DEF Answer
  <2> QED
    BY <2>1
<1> HIDE DEF plan, Current
<1>10. CASE at[r] = 1
  <2>1. Current(r).do = "lookup"
    BY <1>5, <1>10 DEF IsProfile
  <2>2. GoTo(r, at[r] + 1)
    BY <1>9, <2>1, ForwardKinds DEF LookInCache
  <2>3. at'[r] = 2
    BY <1>2, <1>9, <1>10, <2>2 DEF GoTo
  <2>4. Current(r)'.do = "socket" /\ asked[r] = 0
    BY <1>5, <1>6, <1>7, <2>1, <2>3 DEF IsProfile, ProfileAges
  <2> QED
    BY <1>4, <2>3, <2>4 DEF ProfileAges
<1>11. CASE at[r] = 2
  <2>1. Current(r).do = "socket"
    BY <1>5, <1>11 DEF IsProfile
  <2>2. TakeSocket(r) /\ (sock = 0 \/ sock > 0)
    BY <2>1, ForwardKinds DEF RequestsOK, DeviceOK
  <2>3. at' = [at EXCEPT ![r] = at[r] + 1]
    BY <1>9, <2>2 DEF TakeSocket
  <2>4. at'[r] = 3
    BY <1>2, <1>11, <2>3
  <2>5. Current(r)'.do = "call" /\ asked[r] = 0
    BY <1>5, <1>6, <1>7, <2>1, <2>4 DEF IsProfile, ProfileAges
  <2> QED
    BY <1>3, <1>4, <2>4, <2>5 DEF ProfileAges
<1>12. CASE at[r] = 3
  <2>1. Current(r).do = "call" /\ Current(r).fail = "500"
    BY <1>5, <1>12 DEF IsProfile
  <2>2. wait[r] # {}
    <3>1. SUFFICES ASSUME wait[r] = {} PROVE FALSE
      OBVIOUS
    <3>2. Issue(r) /\ ~(got[r] = sock /\ open)
      BY <2>1, <3>1, ForwardKinds
    <3>3. Fail(r, "500")
      BY <2>1, <3>2 DEF Issue
    <3> QED
      BY <1>9, <3>3 DEF Fail
  <2>3. asked[r] # 0 /\ now <= asked[r] + QueryTimeout
    BY <1>2, <1>7, <1>8, <1>12, <2>2 DEF ProfileAges
  <2>4. at'[r] > 3
    BY <1>4, <1>12
  <2>5. Current(r)'.do \in {"call", "store"}
    <3>1. at'[r] \in {4, 5}
      BY <1>4, <1>5, <2>4 DEF IsProfile
    <3> QED
      BY <1>4, <1>5, <1>6, <3>1 DEF IsProfile
  <2>6. now' <= asked'[r] + QueryTimeout /\ asked'[r] # 0
        /\ now' <= asked'[r] + 2 * QueryTimeout
    BY <1>2, <1>4, <1>7, <1>8, <2>3
  <2> QED
    BY <1>3, <2>4, <2>5, <2>6 DEF ProfileAges
<1>13. CASE at[r] > 3
  <2>1. at[r] = 4 /\ Len(plan) = 5 /\ at'[r] = 5
    <3>1. Len(plan) \in {4, 5}
      BY <1>5 DEF IsProfile
    <3>2. at[r] \in Nat /\ at'[r] \in Nat /\ at'[r] > at[r] /\ at'[r] <= Len(plan)
      BY <1>4, <1>5
    <3>3. CASE Len(plan) = 4
      BY <1>13, <3>2, <3>3
    <3>4. CASE Len(plan) = 5
      <4>1. at[r] < 5 /\ at'[r] <= 5
        BY <3>2, <3>4
      <4>2. at[r] = 4
        BY <1>13, <3>2, <4>1
      <4> QED
        BY <3>2, <3>4, <4>1, <4>2
    <3> QED
      BY <3>1, <3>3, <3>4
  <2>2. Current(r).do = "call" /\ Current(r)'.do = "store"
    BY <1>5, <1>6, <2>1 DEF IsProfile
  <2>3. asked[r] # 0 /\ now <= asked[r] + 2 * QueryTimeout
    BY <1>2, <1>7, <1>8, <1>13, <2>2 DEF ProfileAges
  <2>4. asked'[r] # 0 /\ now' <= asked'[r] + 2 * QueryTimeout
    BY <1>2, <1>4, <2>3
  <2> QED
    BY <2>1, <2>2, <2>4 DEF ProfileAges
<1> QED
  BY <1>5, <1>10, <1>11, <1>12, <1>13

\* What is stored for a profile is as old as the request that stores it.
LEMMA CacheKeepsAge ==
  ASSUME RequestsOK, AgesOK, NEW r \in Req, Forward(r)
  PROVE  /\ DOMAIN cache' = {"lists", "profiles"} /\ cache'["profiles"] \subseteq Entry
         /\ \A e \in cache'["profiles"] :
              e.exp <= e.asked + CacheTtl + 2 * QueryTimeout
<1>1. /\ DOMAIN cache = {"lists", "profiles"} /\ cache["profiles"] \subseteq Entry
      /\ \A e \in cache["profiles"] : e.exp <= e.asked + CacheTtl + 2 * QueryTimeout
  BY DEF AgesOK
<1>2. CASE cache' = cache
  BY <1>1, <1>2
<1>3. CASE LookInCache(r)
  <2>1. cache' = [cache EXCEPT ![Current(r).part] = Fresh(Current(r).part)]
    BY <1>3 DEF LookInCache
  <2>2. Fresh("profiles") \subseteq cache["profiles"]
    BY DEF Fresh
  <2>3. DOMAIN cache' = {"lists", "profiles"}
    BY <1>1, <2>1
  <2> HIDE DEF Fresh, Current
  <2>4. cache'["profiles"] \subseteq cache["profiles"]
    BY <1>1, <2>1, <2>2
  <2> QED
    BY <1>1, <2>3, <2>4
<1>4. CASE StoreInCache(r)
  <2>1. /\ at[r] > 0 /\ Current(r).do = "store"
        /\ cache' = [cache EXCEPT ![Current(r).part] =
                       {[exp |-> now + CacheTtl, asked |-> asked[r]]}]
    BY <1>4 DEF StoreInCache, At
  <2>2. DOMAIN cache' = {"lists", "profiles"}
    BY <1>1, <2>1
  <2>3. /\ route[r] \in Route /\ at[r] \in 1..Len(Plan(route[r]))
        /\ asked[r] \in Nat /\ now \in Nat
    BY <2>1, Currents DEF RequestsOK
  <2>4. CASE route[r].name # "profile"
    <3>1. Current(r).part = "lists"
      BY <2>1, <2>3, <2>4, Plans DEF Current
    <3>2. cache'["profiles"] = cache["profiles"]
      BY <1>1, <2>1, <3>1
    <3> QED
      BY <1>1, <2>2, <3>2
  <2>5. CASE route[r].name = "profile"
    <3>1. now <= asked[r] + 2 * QueryTimeout
      BY <2>1, <2>5 DEF AgesOK, AgeOK, ProfileAges
    <3> DEFINE e == [exp |-> now + CacheTtl, asked |-> asked[r]]
    <3>2. e \in Entry /\ e.exp <= e.asked + CacheTtl + 2 * QueryTimeout
      BY <2>3, <3>1, TimeAssumption DEF Entry
    <3>3. cache'["profiles"] = {e} \/ cache'["profiles"] = cache["profiles"]
      BY <1>1, <2>1
    <3> QED
      BY <1>1, <2>2, <3>2, <3>3
  <2> QED
    BY <2>4, <2>5
<1> QED
  BY <1>2, <1>3, <1>4, ForwardKinds

LEMMA AgesStep ==
  ASSUME RequestsOK, AgesOK, SocketRoutesNext(Route, Device)
  PROVE  AgesOK'
<1>1. /\ now \in Nat /\ route \in [Req -> Route \cup {NoRoute}] /\ at \in [Req -> Nat]
      /\ wait \in [Req -> SUBSET Operation] /\ due \in [Req -> Nat]
      /\ asked \in [Req -> Nat]
  BY DEF RequestsOK
<1>2. now > 0 /\ \A r \in Req : AgeOK(r)
  BY DEF AgesOK
<1>3. ASSUME NEW r \in Req, Forward(r)
      PROVE  AgesOK'
  <2>1. PICK codes : Leaves(r, codes)
    BY <1>3, ForwardLeaves
  <2>2. route' = route /\ now' = now
    BY <1>3, ForwardLeaves
  <2>3. AgeOK(r)'
    <3>1. due'[r] = 0
      BY <1>1, <2>1 DEF Leaves
    <3> QED
      BY <1>3, <2>2, <3>1, ProfileGoesOn DEF AgeOK
  <2>4. ASSUME NEW q \in Req, q # r
        PROVE  AgeOK(q)'
    BY <1>2, <2>1, <2>2, <2>4, OthersStay, SameAge
  <2>5. \A q \in Req : AgeOK(q)'
    BY <2>3, <2>4
  <2> QED
    BY <1>2, <1>3, <2>2, <2>5, CacheKeepsAge DEF AgesOK
<1>4. ASSUME NEW r \in Req, Issued(r)
      PROVE  AgesOK'
  <2>1. /\ at[r] > 0 /\ wait[r] = {} /\ Current(r).do = "call"
        /\ route' = route /\ at' = at /\ now' = now /\ cache' = cache
        /\ wait' = [wait EXCEPT ![r] = Current(r).ops]
        /\ due' = [due EXCEPT ![r] = IF Current(r).late = "none" THEN 0
                                      ELSE now + QueryTimeout]
        /\ asked' = [asked EXCEPT ![r] = IF asked[r] = 0 THEN now ELSE asked[r]]
    BY <1>4 DEF Issued, Issue, At
  <2>2. Current(r)' = Current(r)
    BY <2>1 DEF Current
  <2>3. /\ wait'[r] # {} /\ asked'[r] = IF asked[r] = 0 THEN now ELSE asked[r]
        /\ due'[r] = IF Current(r).late = "none" THEN 0 ELSE now + QueryTimeout
    <3>1. Current(r).ops # {}
      BY <2>1, Currents DEF PlanStep
    <3> QED
      BY <1>1, <2>1, <3>1
  <2>4. asked[r] \in Nat /\ QueryTimeout \in Nat \ {0}
    BY <1>1, TimeAssumption
  <2>5. due'[r] # 0 => now' <= due'[r]
    BY <1>1, <2>1, <2>3, <2>4
  <2>6. ASSUME route[r].name = "profile"
        PROVE  ProfileAges(r)'
    <3>1. /\ IsProfile(Plan(route[r])) /\ at[r] \in 1..Len(Plan(route[r]))
          /\ Current(r) = Plan(route[r])[at[r]]
      BY <2>1, <2>6, ProfileSteps
    <3>2. ProfileAges(r)
      BY <1>2, <2>1, <2>6 DEF AgeOK
    <3>a. Current(r).do = "call" /\ at[r] \in {1, 2, 3, 4, 5}
      BY <2>1, <3>1 DEF IsProfile
    <3> HIDE DEF Current
    <3>3. at[r] >= 3 /\ Current(r).late # "none"
      <4>1. CASE at[r] \in {1, 2}
        BY <3>1, <3>a, <4>1 DEF IsProfile
      <4>2. CASE at[r] = 3
        BY <3>1, <3>a, <4>2 DEF IsProfile
      <4>3. CASE at[r] \in {4, 5}
        BY <3>1, <3>a, <4>3 DEF IsProfile
      <4> QED
        BY <3>a, <4>1, <4>2, <4>3
    <3>4. CASE at[r] = 3
      <4>1. asked'[r] = now /\ due'[r] = now + QueryTimeout
        BY <2>1, <2>3, <3>2, <3>3, <3>4 DEF ProfileAges
      <4> QED
        BY <1>1, <1>2, <2>1, <2>2, <2>3, <2>4, <3>4, <4>1 DEF ProfileAges
    <3>5. CASE at[r] > 3
      <4>1. asked[r] # 0 /\ now <= asked[r] + QueryTimeout
        BY <2>1, <3>2, <3>5 DEF ProfileAges
      <4>2. /\ asked'[r] # 0 /\ due'[r] # 0
            /\ due'[r] <= asked'[r] + 2 * QueryTimeout
        BY <1>1, <2>3, <2>4, <3>3, <4>1
      <4> QED
        BY <2>1, <2>2, <2>3, <3>5, <4>2 DEF ProfileAges
    <3> QED
      BY <1>1, <3>3, <3>4, <3>5
  <2>7. AgeOK(r)'
    BY <2>1, <2>5, <2>6 DEF AgeOK
  <2>8. ASSUME NEW q \in Req, q # r
        PROVE  AgeOK(q)'
    <3>1. wait'[q] = wait[q] /\ due'[q] = due[q] /\ asked'[q] = asked[q]
      BY <1>1, <2>1, <2>8
    <3> QED
      BY <1>2, <2>1, <3>1, SameAge
  <2>9. \A q \in Req : AgeOK(q)'
    BY <2>7, <2>8
  <2> QED
    BY <1>2, <2>1, <2>9 DEF AgesOK
<1>5. ASSUME UNCHANGED <<now, route, at, wait, due, asked, cache>>
      PROVE  AgesOK'
  <2>1. ASSUME NEW q \in Req
        PROVE  AgeOK(q)'
    BY <1>2, <1>5, SameAge
  <2> QED
    BY <1>2, <1>5, <2>1 DEF AgesOK
<1>6. ASSUME NEW r \in Req, NEW op \in wait[r], Performs(r, op)
      PROVE  AgesOK'
  BY <1>5, <1>6 DEF Performs
<1>7. ASSUME NEW r \in Req, NEW rt \in Route, Arrive(r, rt)
      PROVE  AgesOK'
  <2>1. /\ route' = [route EXCEPT ![r] = rt] /\ at' = [at EXCEPT ![r] = 1]
        /\ wait' = [wait EXCEPT ![r] = {}] /\ due' = [due EXCEPT ![r] = 0]
        /\ asked' = [asked EXCEPT ![r] = 0] /\ now' = now /\ cache' = cache
    BY <1>7 DEF Arrive
  <2>2. /\ route'[r] = rt /\ at'[r] = 1 /\ wait'[r] = {} /\ due'[r] = 0
        /\ asked'[r] = 0
    BY <1>1, <2>1
  <2>3. ASSUME rt.name = "profile"
        PROVE  ProfileAges(r)'
    <3>1. Current(r)' = Plan(rt)[1]
      BY <2>2 DEF Current
    <3>2. Plan(rt)[1].do = "lookup"
      <4>1. Plan(rt) = ProfilePlan(rt.opts)
        BY <2>3, Plans
      <4>2. LookUp("profiles").do = "lookup"
        BY DEF LookUp, Step
      <4> HIDE DEF LookUp, RequireSocket, Within, Optional, StoreIn
      <4>3. ProfilePlan(rt.opts)[1] = LookUp("profiles")
        BY DEF ProfilePlan
      <4> QED
        BY <4>1, <4>2, <4>3
    <3> QED
      BY <2>2, <3>1, <3>2 DEF ProfileAges
  <2>4. AgeOK(r)'
    BY <2>2, <2>3 DEF AgeOK
  <2>5. ASSUME NEW q \in Req, q # r
        PROVE  AgeOK(q)'
    <3>1. /\ route'[q] = route[q] /\ at'[q] = at[q] /\ wait'[q] = wait[q]
          /\ due'[q] = due[q] /\ asked'[q] = asked[q]
      BY <1>1, <2>1, <2>5
    <3> QED
      BY <1>2, <2>1, <3>1, SameAge
  <2>6. \A q \in Req : AgeOK(q)'
    BY <2>4, <2>5
  <2> QED
    BY <1>2, <2>1, <2>6 DEF AgesOK
<1>8. CASE Tick
  <2>1. /\ Idle /\ now' = now + 1 /\ \A r \in Req : due[r] = 0 \/ now < due[r]
        /\ UNCHANGED <<route, at, wait, due, asked, cache>>
    BY <1>8 DEF Tick
  <2>2. ASSUME NEW r \in Req
        PROVE  AgeOK(r)'
    <3>1. due'[r] # 0 => now' <= due'[r]
      BY <1>1, <2>1
    <3>2. ASSUME at[r] > 0, route[r].name = "profile"
          PROVE  ProfileAges(r)'
      <4>1. ProfileAges(r)
        BY <1>2, <3>2 DEF AgeOK
      <4>2. Current(r)' = Current(r)
        BY <2>1 DEF Current
      <4>3. /\ IsProfile(Plan(route[r])) /\ at[r] \in 1..Len(Plan(route[r]))
            /\ Current(r) = Plan(route[r])[at[r]]
        BY <3>2, ProfileSteps
      <4>4. Current(r).do \in {"lookup", "socket", "call", "store"}
        BY <4>3 DEF IsProfile
      <4>5. wait[r] # {}
        BY <2>1, <3>2, <4>4 DEF Idle, Awaits
      <4>6. Current(r).do = "call"
        BY <4>5 DEF RequestsOK, RequestOK
      <4> QED
        BY <2>1, <4>1, <4>2, <4>5, <4>6 DEF ProfileAges
    <3> QED
      BY <2>1, <3>1, <3>2 DEF AgeOK
  <2> QED
    BY <1>1, <1>2, <2>1, <2>2 DEF AgesOK
<1>9. CASE DeviceMoves(Device)
  BY <1>5, <1>9 DEF DeviceMoves
<1>10. ASSUME NEW r \in Req, TableAnswers(r)
       PROVE  AgesOK'
  BY <1>5, <1>10 DEF TableAnswers
<1> QED
  BY <1>3, <1>4, <1>6, <1>7, <1>8, <1>9, <1>10, RequestsMove

-----------------------------------------------------------------------------
RoutesInv == RequestsOK /\ AllowedOK /\ HeardOK /\ AgesOK

LEMMA RoutesInitially == SocketRoutesInit => RoutesInv
<1> SUFFICES ASSUME SocketRoutesInit PROVE RoutesInv
  OBVIOUS
<1>1. RequestsOK
  BY RequestsInit
<1>2. AllowedOK
  BY DEF SocketRoutesInit, AllowedOK, ShownOK, OnlyOpenDevicesAct
<1>3. HeardOK
  BY DEF SocketRoutesInit, HeardOK
<1>4. AgesOK
  <2>1. ASSUME NEW r \in Req
        PROVE  AgeOK(r)
    <3>1. due[r] = 0 /\ at[r] = 0
      BY DEF SocketRoutesInit
    <3> QED
      BY <3>1 DEF AgeOK
  <2>2. now > 0 /\ DOMAIN cache = {"lists", "profiles"} /\ cache["profiles"] = {}
    BY DEF SocketRoutesInit
  <2> QED
    BY <2>1, <2>2 DEF AgesOK
<1> QED
  BY <1>1, <1>2, <1>3, <1>4 DEF RoutesInv

LEMMA RoutesStep ==
  ASSUME RoutesInv, [SocketRoutesNext(Route, Device)]_<<deviceVars, reqVars>>
  PROVE  RoutesInv'
<1>1. CASE SocketRoutesNext(Route, Device)
  BY <1>1, RequestsStep, AllowedStep, HeardStep, AgesStep DEF RoutesInv
<1>2. CASE UNCHANGED <<deviceVars, reqVars>>
  <2>1. /\ UNCHANGED <<device, flips, status, sock, open>>
        /\ UNCHANGED <<now, route, at, got, wait, due, asked, ans, cache, done, back,
                       reading, shown>>
    BY <1>2 DEF deviceVars, reqVars
  <2>2. \A r \in Req : RequestOK(r) => RequestOK(r)'
    BY <2>1, Undisturbed
  <2>3. RequestsOK'
    BY <2>1, <2>2 DEF RoutesInv, RequestsOK, DeviceOK
  <2>4. AllowedOK'
    BY <2>1 DEF RoutesInv, AllowedOK, ShownOK, OnlyOpenDevicesAct
  <2>5. HeardOK'
    BY <2>1 DEF RoutesInv, HeardOK, Reported
  <2>6. \A r \in Req : AgeOK(r) => AgeOK(r)'
    BY <2>1, SameAge
  <2>7. AgesOK'
    BY <2>1, <2>6 DEF RoutesInv, AgesOK
  <2> QED
    BY <2>3, <2>4, <2>5, <2>7 DEF RoutesInv
<1> QED
  BY <1>1, <1>2

LEMMA RoutesInvariant == SocketRoutesSpec => []RoutesInv
<1>1. RoutesInv /\ [SocketRoutesNext(Route, Device)]_<<deviceVars, reqVars>> => RoutesInv'
  BY RoutesStep
<1> QED
  BY <1>1, RoutesInitially, PTL DEF SocketRoutesSpec

\* groups.ts:42-52: WhatsApp performs a change of a group, or a message to it,
\* only if what lets the device send was so since the request arrived.
THEOREM RequestsKeepThePolicy == SocketRoutesSpec => []OnlyOpenDevicesAct
<1>1. RoutesInv => OnlyOpenDevicesAct
  BY DEF RoutesInv, AllowedOK
<1> QED
  BY <1>1, RoutesInvariant, PTL

\* groups.ts:110-157: once WhatsApp has said that it did a part of a request,
\* the request is not answered with an error.
THEOREM WhatIsDoneIsReported == SocketRoutesSpec => []DoneIsReported
<1>1. RoutesInv => DoneIsReported
  BY DEF RoutesInv, HeardOK, Reported, DoneIsReported
<1> QED
  BY <1>1, RoutesInvariant, PTL

\* contacts.ts:51-78: a cached profile was asked of WhatsApp at most the cache's
\* lifetime and two query timeouts ago.
THEOREM ProfilesStayRecent == SocketRoutesSpec => []ProfileIsRecent
<1>1. ASSUME RoutesInv
      PROVE  ProfileIsRecent
  <2>1. ASSUME NEW e \in Fresh("profiles")
        PROVE  now - e.asked <= CacheTtl + 2 * QueryTimeout
    <3>1. e \in cache["profiles"] /\ now <= e.exp
      BY DEF Fresh
    <3>2. /\ e.exp \in Nat /\ e.asked \in Nat /\ now \in Nat
          /\ e.exp <= e.asked + CacheTtl + 2 * QueryTimeout
      BY <1>1, <3>1 DEF RoutesInv, RequestsOK, AgesOK, Entry
    <3> QED
      BY <3>1, <3>2, TimeAssumption
  <2> QED
    BY <2>1 DEF ProfileIsRecent
<1> QED
  BY <1>1, RoutesInvariant, PTL

-----------------------------------------------------------------------------
(* groups.ts:42-52, lib/deviceSendPolicy.ts:7, senderPool.ts: requests of  *)
(* both kinds keep the device's policy, although it is read in up to three *)
(* steps between which its tables change.                                  *)
THEOREM RoutesKeepThePolicy == RoutesSpec => []PolicyIsKept
  BY RequestsKeepThePolicy, SendsKeepThePolicy, PTL DEF RoutesSpec, PolicyIsKept
=============================================================================
