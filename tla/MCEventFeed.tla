---------------------------- MODULE MCEventFeed ----------------------------
(* Instances of EventFeed for TLC: organisations with one contract each,    *)
(* beside the document registries.  A behaviour draws a focus at the start: *)
(* "scans" has the refreshes and the changes of organisation, "live" the    *)
(* pollers, reloads and an outdated backend, over fewer scans; "free"       *)
(* has the constants alone.                                                 *)
EXTENDS EventFeed, TLC

CONSTANT Foci

VARIABLE focus

TwoOrgs == [a |-> {1}, b |-> {2}]
\* b publishes nothing, or stands for no organisation at all.
OneEmptyOrg == [a |-> {1}, b |-> {}]

\* Over two scans, a second poller, a reload or one refused request; in "scans",
\* one request refused or one deletion outstanding at a time.
Within ==
  /\ UNCHANGED focus
  /\ focus = "scans" => ~isLive' /\ reloads' = 0 /\ failures' + Cardinality(purging') <= 1
  /\ focus = "live"  => \/ Woken
                        \/ scanSeq' <= 1 /\ pollers' + failures' + reloads' <= 3
                        \/ scanSeq' <= 2 /\ failures' + reloads' <= 1
                           /\ pollers' + failures' + reloads' <= 2

FocusInit == Init /\ focus \in Foci
FocusSpec == FocusInit /\ [][Next /\ Within]_<<vars, focus>>
FocusFairSpec == FocusSpec /\ WF_vars(Proceed)

(* The type invariant, in every state that is reached.                     *)
Typed == Assert(TypeOK, "TypeOK")
=============================================================================
