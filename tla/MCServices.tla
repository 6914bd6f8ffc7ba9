----------------------------- MODULE MCServices -----------------------------
(***************************************************************************)
(* One model for the components that share no state with each other: each  *)
(* behaviour sets one of them in motion (scene) and leaves the others in   *)
(* their initial state, so that the states of the run are the sum of       *)
(* theirs. Only safety is checked here, so symmetry is sound; components   *)
(* share model values to keep the group of permutations small.             *)
(***************************************************************************)
EXTENDS OneTimeCode, LoginLock, Sessions, Accounts, Publication, PayinReplay,
        TicketEditor, PaymentTracking, PayoutNumber, Roster, Departures, TLC

CONSTANTS FirstSet, SecondSet, ThirdSet   \* interchangeable values

VARIABLE scene

Scenes == {"codes", "locks", "sessions", "accounts", "publication", "replay",
           "editor", "tracking", "payout", "roster", "departures"}

OneDevice == [t \in Tabs |-> CHOOSE d \in Devices : TRUE]
Interchangeable ==
    Permutations(FirstSet) \cup Permutations(SecondSet) \cup Permutations(ThirdSet)

ServicesInit ==
    /\ scene \in Scenes
    /\ OtpInit /\ LoginInit /\ SesInit /\ AccInit /\ PubInit /\ RepInit /\ EdInit /\ PtInit /\ PoInit
    /\ RosterInit /\ DepartureInit
    \* What stands still starts in one way, up to symmetry.
    /\ scene = "editor" \/ edDesign = CHOOSE d \in Designs : TRUE
    /\ scene = "codes" \/ otpTable = "auth"
    /\ scene = "replay" \/ repProvider = "FEDAPAY"
    /\ scene = "roster" \/ roCandidates = {}
    /\ scene = "departures" \/ dpMember[CHOOSE m \in Members : TRUE] = "present"

Rest(moving) ==
    /\ UNCHANGED scene
    /\ IF moving = "codes" THEN TRUE ELSE UNCHANGED otpVars
    /\ IF moving = "locks" THEN TRUE ELSE UNCHANGED logVars
    /\ IF moving = "sessions" THEN TRUE ELSE UNCHANGED sesVars
    /\ IF moving = "accounts" THEN TRUE ELSE UNCHANGED accVars
    /\ IF moving = "publication" THEN TRUE ELSE UNCHANGED pubVars
    /\ IF moving = "replay" THEN TRUE ELSE UNCHANGED repVars
    /\ IF moving = "editor" THEN TRUE ELSE UNCHANGED edVars
    /\ IF moving = "tracking" THEN TRUE ELSE UNCHANGED ptVars
    /\ IF moving = "payout" THEN TRUE ELSE UNCHANGED poVars
    /\ IF moving = "roster" THEN TRUE ELSE UNCHANGED roVars
    /\ IF moving = "departures" THEN TRUE ELSE UNCHANGED dpVars

ServicesNext ==
    \/ scene = "codes" /\ OtpNext /\ Rest("codes")
    \/ scene = "locks" /\ LoginNext /\ Rest("locks")
    \/ scene = "sessions" /\ SesNext /\ Rest("sessions")
    \/ scene = "accounts" /\ AccNext /\ Rest("accounts")
    \/ scene = "publication" /\ PubNext /\ Rest("publication")
    \/ scene = "replay" /\ RepNext /\ Rest("replay")
    \/ scene = "editor" /\ EdNext /\ Rest("editor")
    \/ scene = "tracking" /\ PtNext /\ Rest("tracking")
    \/ scene = "payout" /\ PoNext /\ Rest("payout")
    \/ scene = "roster" /\ RosterNext /\ Rest("roster")
    \* Once there is a reason, the property says nothing more of that organization.
    \/ scene = "departures" /\ dpReasons = {} /\ DepartureNext /\ Rest("departures")

ServicesSpec ==
    ServicesInit /\ [][ServicesNext]_<<scene, otpVars, logVars, sesVars, accVars, pubVars,
                                       repVars, edVars, ptVars, poVars, roVars, dpVars>>

\* Every variable of every component has its type.
ServicesTypeOK ==
    /\ OtpTypeOK /\ LoginTypeOK /\ SesTypeOK /\ AccTypeOK /\ PubTypeOK
    /\ RepTypeOK /\ EdTypeOK /\ PtTypeOK /\ PoTypeOK
    /\ RosterTypeOK /\ DepartureTypeOK
=============================================================================
