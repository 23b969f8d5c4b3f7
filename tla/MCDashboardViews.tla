-------------------------- MODULE MCDashboardViews --------------------------
(* Instances of DashboardViews for TLC.  A behaviour draws its focus: the  *)
(* roster of one swarm, or the fund requests of all of them.               *)
EXTENDS DashboardViews, TLC

CONSTANTS Foci, founder, bob

VARIABLE focus

Alone == <<1>>
Both  == <<1, 2>>
OneFounder == <<founder>>
TwoFounders == <<founder, bob>>

(* Blocks that two transactions share.                                     *)
Shared ==
    {i \in DOMAIN log : /\ i > 1 /\ log[i].block = log[i-1].block /\ log[i].block > 0
                        /\ log[i].source \in Swarm}

EscrowEvents == {"MemberRemoved", "MemberFileMappingUpdated"}

Count(name) == Cardinality({i \in DOMAIN log : log[i].name = name})

(* Only a kick and an escrow publication share a block, once: block        *)
(* numbers are compared nowhere else.  One publication, one rebinding to *)
(* another treasury, one request of the other swarm; amounts are only      *)
(* compared, so the first may be taken to be 1.                            *)
Focused ==
    /\ Cardinality(Shared) <= 1
    /\ \A i \in Shared : log[i].name \in EscrowEvents /\ log[i-1].name \in EscrowEvents
    /\ focus = "funds" => Len(log) < MaxEvents
    /\ Count("MemberFileMappingUpdated") <= 1
    /\ Count("TreasurySet") <= NumSwarms + 1
    /\ Cardinality({i \in DOMAIN log : log[i].name = "TreasurySet" /\ log[i].who = Active})
         <= NumSwarms
    /\ \A s \in Swarm \ {1} : Len(swarm[s].funds) <= 1
    /\ \A i \in DOMAIN log :
         /\ log[i].name = "FundRequested"
         /\ \A j \in 1..(i-1) : log[j].name # "FundRequested"
         => log[i].amount = 1

FocusInit == ViewsInit /\ focus \in Foci

FocusNext ==
    /\ UNCHANGED focus
    /\ \/ focus = "roster" /\ Roster(1)
       \/ focus = "funds" /\ ((\E s \in Swarm : Funds(s)) \/ Page)
    /\ Focused'

FocusSpec == FocusInit /\ [][FocusNext]_<<viewsVars, focus>>

(* The type invariant, in every state that is reached.                     *)
Typed == Assert(ViewsTypeOK, "ViewsTypeOK")
=============================================================================
