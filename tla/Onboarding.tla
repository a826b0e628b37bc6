----------------------------- MODULE Onboarding -----------------------------
(***************************************************************************)
(* How an organisation gets its session: POST start and POST migrate       *)
(* (routes/sessions.ts) and the page a customer opens to scan the code     *)
(* (routes/connect.ts).  Each asks validateOrg() (lib/supabase.ts), which  *)
(* reads one table after another, any of which may fail or change between  *)
(* the reads.  A validation that failed tells the staff                    *)
(* (lib/validationAlert.ts), not more often than every AlertGap.  The page *)
(* starts the session if it looks dead, where lib/sessionWebhookUrl.ts     *)
(* finds a URL for it.                                                     *)
(***************************************************************************)
EXTENDS Naturals

CONSTANTS
  Asking,     \* the requests
  AlertGap,   \* the half hour between alerts of one code, in ticks
  WatchedRead,\* the read whose error code is followed
  MaxChange   \* bound: changes of the licence tables

ASSUME OnboardingConstants == AlertGap \in Nat \ {0} /\ MaxChange \in Nat

VARIABLES
  licence,   \* what the tables say of the organisation
  changes,   \* changes of licence so far
  config,    \* which of the two Supabase projects are configured
  ask,       \* what each request is at
  quiet,     \* lastAlertAtByCode of WatchedRead's code, in ticks from then
  alertAge,  \* history: ticks since each request last set out to alert of it
  ever,      \* history: an entitlement was in force during the request
  throughout \* history: those that were in force all the time

onboardVars ==
  <<licence, changes, config, ask, quiet, alertAge, ever, throughout>>

(* A central subscription is for this product or another, and a system     *)
(* licence comes with devices or without.                                  *)
Licence == [central : {"none", "other", "whatsapp"},
            system : {"none", "bare", "devices"},
            slot : {"none", "active"}]

Read == {"device", "central", "product", "system", "plan", "slot"}
Final == {"started", "page", "migrated", "refused", "forbidden",
          "unavailable", "nourl", "failed"}

ASSUME WatchedReadAssumption == WatchedRead \in Read

Absent == [route |-> "none", at |-> "idle", found |-> "none", row |-> "none"]

(* The entitlements that validateOrg() can find: without the JumpStart     *)
(* project its licences are passed over.                                   *)
InForce(l) ==
  {e \in {"central", "system", "slot"} :
     \/ e = "central" /\ l.central = "whatsapp"
     \/ e = "system" /\ l.system = "devices" /\ config.jumpstart
     \/ e = "slot" /\ l.slot = "active"}

OnboardInit ==
  /\ licence \in Licence /\ changes = 0
  /\ config \in [hub : BOOLEAN, jumpstart : BOOLEAN, alerts : BOOLEAN]
  /\ ask = [r \in Asking |-> Absent]
  /\ quiet = AlertGap /\ alertAge = [r \in Asking |-> AlertGap]
  /\ ever = [r \in Asking |-> FALSE] /\ throughout = [r \in Asking |-> {}]

(* Where a request has no more use for what it read.                       *)
Goes(r, to) ==
  ask' = [ask EXCEPT ![r] = [Absent EXCEPT !.route = ask[r].route, !.at = to]]

Same == UNCHANGED <<licence, changes, config, ever, throughout>>

-----------------------------------------------------------------------------
(* A request arrives.  start needs a URL, migrate two organisations and    *)
(* the page a token; without the hub no read is made, which is a failure   *)
(* of a code of its own.                                                   *)
Arrives(r, route, fit) ==
  LET first == IF ~fit THEN {"refused"}
               ELSE IF config.hub THEN {"device"}
               ELSE IF config.alerts THEN {"alert", "unavailable"}
               ELSE {"unavailable"} IN
  /\ ask[r].at \in {"idle"} \cup Final
  /\ \E at \in first : ask' = [ask EXCEPT ![r] = [Absent EXCEPT !.route = route, !.at = at]]
  /\ ever' = [ever EXCEPT ![r] = InForce(licence) # {}]
  /\ throughout' = [throughout EXCEPT ![r] = InForce(licence)]
  /\ UNCHANGED <<licence, changes, config, quiet, alertAge>>

LicenceChanges ==
  /\ changes < MaxChange /\ changes' = changes + 1
  /\ \E r \in Asking : ask[r].at \in Read
  /\ licence' \in Licence \ {licence}
  /\ ever' = [r \in Asking |-> ever[r] \/ InForce(licence') # {}]
  /\ throughout' = [r \in Asking |-> throughout[r] \cap InForce(licence')]
  /\ UNCHANGED <<config, ask, quiet, alertAge>>

-----------------------------------------------------------------------------
(* recordOrgValidationFailure(), which the request waits for: the codes of *)
(* the other reads have gaps of their own.  This one's is counted from the *)
(* moment an alert sets out, before it is sent, and whatever becomes of it. *)
Recorded(r, told) ==
  Goes(r, IF told THEN "alert" ELSE "unavailable")

FailsElsewhere(r) ==
  /\ ask[r].at # WatchedRead
  /\ \E told \in {FALSE, config.alerts} : Recorded(r, told)
  /\ UNCHANGED <<quiet, alertAge>>

\* mutant: a failure that is not told makes the gap start anew
FailsSliding(r) ==
  /\ ask[r].at = WatchedRead
  /\ Recorded(r, config.alerts /\ quiet = AlertGap)
  /\ quiet' = IF config.alerts THEN 0 ELSE quiet
  /\ alertAge' = IF config.alerts /\ quiet = AlertGap THEN [alertAge EXCEPT ![r] = 0]
                 ELSE alertAge

Fails(r) ==
  /\ ask[r].at = WatchedRead
  /\ Recorded(r, config.alerts /\ quiet = AlertGap)
  /\ IF config.alerts /\ quiet = AlertGap
     THEN quiet' = 0 /\ alertAge' = [alertAge EXCEPT ![r] = 0]
     ELSE UNCHANGED <<quiet, alertAge>>

\* mutant: what cannot be read is not there
ReadIsEmpty(r) ==
  /\ ask[r].at \in Read
  /\ Goes(r, "forbidden")
  /\ UNCHANGED <<quiet, alertAge>> /\ Same

ReadFails(r) ==
  /\ ask[r].at \in Read
  /\ Fails(r) \/ FailsElsewhere(r)
  /\ Same

(* The alert was sent by WhatsApp or email, or by neither.                 *)
AlertEnds(r) ==
  /\ ask[r].at = "alert"
  /\ Goes(r, "unavailable")
  /\ UNCHANGED <<quiet, alertAge>> /\ Same

TimePasses ==
  /\ quiet < AlertGap
  /\ quiet' = quiet + 1
  /\ alertAge' = [r \in Asking |-> IF alertAge[r] < AlertGap THEN alertAge[r] + 1
                                  ELSE alertAge[r]]
  /\ UNCHANGED ask /\ Same

-----------------------------------------------------------------------------
(* What follows a valid entitlement in the same turn of the event loop.    *)
(* The page looks at the session, and has to find a URL for one that is    *)
(* not there or disconnected: the registry's, read before.  Else it asks   *)
(* JumpStart, and last it takes the one on disk.                           *)
FromDisk == {"starting", "nourl"}

AfterGrant(route, found) ==
  CASE route = "start"   -> {"starting"}
    [] route = "migrate" -> {"migrating"}
    [] route = "connect" ->
         {"page"} \cup IF found = "url" THEN {"starting"}
                       ELSE IF config.jumpstart THEN {"resolving"} ELSE FromDisk

Granted(r) ==
  \E to \in AfterGrant(ask[r].route, ask[r].found) : Goes(r, to)

(* resolveSessionWebhookUrl() has JumpStart's answer: an error or rows that *)
(* cannot be used, one that can, or no row.                                *)
Resolved(r) ==
  /\ ask[r].at = "resolving"
  /\ \E to \in FromDisk : Goes(r, to)
  /\ UNCHANGED <<quiet, alertAge>> /\ Same

(* validateOrg(), read by read: a subscription is of this product or       *)
(* another, a licence comes with devices or without.                       *)
AfterHub == IF config.jumpstart THEN "system" ELSE "slot"

Finds(r, row, with, without) ==
  ask' = IF row = "none" THEN [ask EXCEPT ![r].at = without]
         ELSE [ask EXCEPT ![r].at = with, ![r].row = row]

Decides(r, granted, else) ==
  IF granted THEN Granted(r)
  ELSE ask' = [ask EXCEPT ![r].at = else, ![r].row = "none"]

DeviceRead(r) ==
  /\ ask[r].at = "device"
  /\ \E found \in {"none", "url"} :
       ask' = [ask EXCEPT ![r].at = "central", ![r].found = found]
  /\ UNCHANGED <<quiet, alertAge>> /\ Same

CentralRead(r) ==
  /\ ask[r].at = "central" /\ Finds(r, licence.central, "product", AfterHub)
  /\ UNCHANGED <<quiet, alertAge>> /\ Same

ProductRead(r) ==
  /\ ask[r].at = "product" /\ Decides(r, ask[r].row = "whatsapp", AfterHub)
  /\ UNCHANGED <<quiet, alertAge>> /\ Same

SystemRead(r) ==
  /\ ask[r].at = "system" /\ Finds(r, licence.system, "plan", "slot")
  /\ UNCHANGED <<quiet, alertAge>> /\ Same

PlanRead(r) ==
  /\ ask[r].at = "plan" /\ Decides(r, ask[r].row = "devices", "slot")
  /\ UNCHANGED <<quiet, alertAge>> /\ Same

SlotRead(r) ==
  /\ ask[r].at = "slot" /\ Decides(r, licence.slot = "active", "forbidden")
  /\ UNCHANGED <<quiet, alertAge>> /\ Same

-----------------------------------------------------------------------------
(* startSession() ends.  The page is sent also when it threw.              *)
StartEnds(r) ==
  /\ ask[r].at = "starting"
  /\ \E to \in IF ask[r].route = "start" THEN {"started", "failed"} ELSE {"page"} :
       Goes(r, to)
  /\ UNCHANGED <<quiet, alertAge>> /\ Same

MigrateEnds(r) ==
  /\ ask[r].at = "migrating"
  /\ Goes(r, "migrated") \/ Goes(r, "failed")
  /\ UNCHANGED <<quiet, alertAge>> /\ Same

Serves(r) ==
  \/ DeviceRead(r) \/ CentralRead(r) \/ ProductRead(r) \/ SystemRead(r)
  \/ PlanRead(r) \/ SlotRead(r) \/ ReadFails(r) \/ AlertEnds(r)
  \/ Resolved(r) \/ StartEnds(r) \/ MigrateEnds(r)

OnboardNext ==
  \/ \E r \in Asking, route \in {"start", "migrate", "connect"}, fit \in BOOLEAN :
       Arrives(r, route, fit)
  \/ \E r \in Asking : Serves(r)
  \/ LicenceChanges \/ TimePasses

OnboardSpec == OnboardInit /\ [][OnboardNext]_onboardVars

-----------------------------------------------------------------------------
(* Properties.                                                             *)

(* Each variable has its type.                                             *)
OnboardTypeOK ==
  /\ licence \in Licence /\ changes \in 0..MaxChange
  /\ config \in [hub : BOOLEAN, jumpstart : BOOLEAN, alerts : BOOLEAN]
  /\ \A r \in Asking :
       /\ ask[r].at \in Read \cup Final
                         \cup {"idle", "alert", "resolving", "starting", "migrating"}
       /\ ever[r] \in BOOLEAN /\ throughout[r] \subseteq {"central", "system", "slot"}
  /\ quiet \in 0..AlertGap /\ alertAge \in [Asking -> 0..AlertGap]

(* supabase.ts:103, connect.ts:406: entitlement checks "must fail closed", *)
(* and an outage must not look like an ended subscription.  Whatever reads *)
(* fail or change under a request, it starts or moves a session, or shows  *)
(* the page that does, only if an entitlement was in force while it ran,   *)
(* and tells a customer to subscribe only if none was in force all along.  *)
AnswerFollowsLicence ==
  \A r \in Asking :
    /\ ask[r].at \in {"resolving", "starting", "migrating", "started", "page",
                      "migrated"} => ever[r]
    /\ ask[r].at = "forbidden" => throughout[r] = {}

(* validationAlert.ts:92-97: of the failures of one code, an alert sets    *)
(* out for one exactly if none has for a gap, whichever requests meet them *)
(* and while however many alerts are still being sent: never two in a gap, *)
(* and no failure kept quiet for longer, however often they come.          *)
AlertsAreSpaced ==
  [][\A r \in Asking :
       ask[r].at = WatchedRead /\ config.alerts /\ ask'[r].at \in {"alert", "unavailable"}
         => (ask'[r].at = "alert" <=> \A s \in Asking : alertAge[s] = AlertGap)]_onboardVars
=============================================================================
