---------------------------- MODULE MCSessionDir ----------------------------
(***************************************************************************)
(* A start before it makes a socket, for TLC: who may ask for it, the lock *)
(* and the files it needs, and the messages sent before that the directory *)
(* keeps.  The three share nothing but the start, so each behaviour runs   *)
(* one of them, chosen at the beginning, while the others stay as they     *)
(* began.                                                                  *)
(*                                                                         *)
(* SessionDir has three processes with two pids, which are all alike.      *)
(* After its removal under its holder no property says anything, and after *)
(* a race for the lock only GoneStaysGone, which SessionDirProofs proves:  *)
(* nothing more is explored.  Onboarding meets the licences and            *)
(* configurations that tell its paths apart, in requests of any kind while *)
(* a customer opens the page.  OutgoingStore keeps one message, sweeps     *)
(* after every second, and sees each expire, unless the process was        *)
(* started again.                                                          *)
(***************************************************************************)
EXTENDS SessionDir, Onboarding, OutgoingStore, TLC

CONSTANTS a1, a2

VARIABLE part

startsVars == <<dirVars, onboardVars, outgoingVars, part>>

Symmetry == Permutations(Boot) \cup Permutations(Pid)

StillSaid == excused \cap {"raced", "stolen"} = {}

Grants(central, system, slot) ==
  [central |-> central, system |-> system, slot |-> slot]

MCLicences ==
  {Grants("whatsapp", "none", "none"), Grants("other", "bare", "none"),
   Grants("none", "devices", "active")}

Configured(hub, jumpstart, alerts) ==
  [hub |-> hub, jumpstart |-> jumpstart, alerts |-> alerts]

MCConfigs ==
  {Configured(TRUE, TRUE, TRUE), Configured(TRUE, FALSE, TRUE),
   Configured(FALSE, TRUE, FALSE)}

StartsInit ==
  /\ DirInit /\ OnboardInit /\ OutgoingInit
  /\ part \in {"directory", "onboarding", "outgoing"}
  /\ IF part = "onboarding" THEN licence \in MCLicences /\ config \in MCConfigs
     ELSE /\ licence = Grants("none", "none", "none")
          /\ config = Configured(TRUE, TRUE, TRUE)

StartsNext ==
  /\ UNCHANGED part
  /\ \/ part = "directory" /\ DirNext /\ UNCHANGED <<onboardVars, outgoingVars>>
     \/ /\ part = "onboarding" /\ OnboardNext
        /\ licence' \in MCLicences /\ ask'[a2].route \in {"none", "connect"}
        /\ UNCHANGED <<dirVars, outgoingVars>>
     \/ /\ part = "outgoing" /\ OutgoingNext /\ (restarted' => time' < LastTime)
        /\ UNCHANGED <<dirVars, onboardVars>>

StartsSpec == StartsInit /\ [][StartsNext]_startsVars
=============================================================================
