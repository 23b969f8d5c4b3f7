-------------------------- MODULE MCOrgRegistration --------------------------
(* Instances of OrgRegistration for TLC.  A behaviour draws its focus: one *)
(* page that is interrupted, times out, misreads and starts again; or two  *)
(* pages at once.                                                          *)
EXTENDS OrgRegistration, TLC

CONSTANTS Foci, Solo

VARIABLE focus

FocusInit == OrgInit /\ focus \in Foci

(* Wrapping is a matter of the first flow.                                 *)
Focused ==
    /\ lane = "v2" => ~wraps
    /\ focus = "one" => \A t \in Tab \ {Solo} : run[t] = Idle
    /\ focus = "two" => faults = 0 /\ misreads = 0 /\ runs <= 2

FocusNext == OrgNext /\ UNCHANGED focus

FocusSpec == FocusInit /\ [][FocusNext]_<<orgVars, focus>>

Names == Permutations(DisplayName)

(* The type invariant, in every state that is reached.                     *)
Typed == Assert(OrgTypeOK, "TypeOK")
=============================================================================
