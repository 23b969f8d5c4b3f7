---------------------------- MODULE MCSwarmNames ----------------------------
(* Instances of SwarmNames for TLC.  A behaviour draws its focus: one      *)
(* session on one swarm, with failures; two sessions on two swarms; or a   *)
(* dashboard whose reads fail.                                             *)
EXTENDS SwarmNames, TLC

CONSTANTS Foci, Solo, First, Usual

VARIABLE focus

FocusInit == Init /\ focus \in Foci

(* One session works on one swarm, with any treasury; two sessions do not  *)
(* fail, and have a run less; only the third focus has reads that fail.    *)
Focused ==
    /\ focus # "two" => \A p \in Operator \ {Solo} : run[p] = Idle
    /\ focus = "one" => \A p \in Operator : run[p].label \in {None, First}
    /\ focus = "two" => faults = 0 /\ runs < MaxRuns
    /\ focus # "one" => \A p \in Operator : run[p].expects \in {None, Usual}
    /\ focus # "misread" => misreads = 0
    /\ focus = "misread" => faults = 0 /\ \A p \in Operator : run[p].op \in {"none", "wizard"}

FocusNext == Next /\ UNCHANGED focus

FocusSpec == FocusInit /\ [][FocusNext]_<<vars, focus>>

Addresses == Permutations(Swarm)

(* The type invariant, in every state that is reached.                     *)
Typed == Assert(TypeOK, "TypeOK")
=============================================================================
