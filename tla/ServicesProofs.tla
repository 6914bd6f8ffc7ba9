--------------------------- MODULE ServicesProofs ---------------------------
(***************************************************************************)
(* MCServices sets one component in motion and leaves the others at rest:  *)
(* each of its behaviours is a behaviour of every component, so that what  *)
(* the run checks is of the components' own specifications, and what is    *)
(* proved of them holds of the run, for any values of the constants.       *)
(***************************************************************************)
EXTENDS MCServices, SignInProofs, SessionsProofs, PublicationProofs, ClientProofs,
        OrganizationProofs, TLAPS

\* The components' steps, one or none at a time.
ComponentSteps ==
    /\ [OtpNext]_otpVars /\ [LoginNext]_logVars /\ [SesNext]_sesVars /\ [AccNext]_accVars
    /\ [PubNext]_pubVars /\ [RepNext]_repVars /\ [EdNext]_edVars /\ [PtNext]_ptVars
    /\ [PoNext]_poVars /\ [RosterNext]_roVars /\ [DepartureNext]_dpVars

\* A scene's step is its component's, and a step in which the others stand still.
LEMMA OneMoves ==
    ASSUME [ServicesNext]_<<scene, otpVars, logVars, sesVars, accVars, pubVars, repVars,
                            edVars, ptVars, poVars, roVars, dpVars>>
    PROVE  ComponentSteps
BY Zenon DEF ServicesNext, Rest, ComponentSteps

\* What a behaviour of all the components is.
Together ==
    /\ OtpSpec /\ LoginSpec /\ SesSpec /\ AccSpec /\ PubSpec /\ RepSpec /\ EdSpec
    /\ PtSpec /\ PoSpec /\ RosterSpec /\ DepartureSpec

\* The run's specification implements each component's.
THEOREM ComponentsRun == ServicesSpec => Together
<1>1. ServicesInit => /\ OtpInit /\ LoginInit /\ SesInit /\ AccInit /\ PubInit /\ RepInit
                      /\ EdInit /\ PtInit /\ PoInit /\ RosterInit /\ DepartureInit
  BY DEF ServicesInit
<1>2. [ServicesNext]_<<scene, otpVars, logVars, sesVars, accVars, pubVars, repVars,
                       edVars, ptVars, poVars, roVars, dpVars>>
        => /\ [OtpNext]_otpVars /\ [LoginNext]_logVars /\ [SesNext]_sesVars
           /\ [AccNext]_accVars /\ [PubNext]_pubVars /\ [RepNext]_repVars /\ [EdNext]_edVars
           /\ [PtNext]_ptVars /\ [PoNext]_poVars /\ [RosterNext]_roVars
           /\ [DepartureNext]_dpVars
  BY OneMoves DEF ComponentSteps
<1> QED
  BY <1>1, <1>2, PTL
  DEF ServicesSpec, Together, OtpSpec, LoginSpec, SesSpec, AccSpec, PubSpec, RepSpec,
      EdSpec, PtSpec, PoSpec, RosterSpec, DepartureSpec

\* In every behaviour of the run every variable of every component has its type.
THEOREM ServicesTypes == ServicesSpec => []ServicesTypeOK
<1>1. Together => []ServicesTypeOK
  BY CodeTypes, LockTypes, SessionTypes, AccountTypes, PublicationTypes, ReplayTypes,
     EditorTypes, PageTypes, PayoutTypes, RosterTypes, DepartureTypes, PTL
  DEF Together, ServicesTypeOK
<1> QED
  BY <1>1, ComponentsRun, PTL
=============================================================================
