-------------------------- MODULE MCEpochRotation --------------------------
(* Instances of EpochRotation for TLC.  A behaviour draws a focus at the    *)
(* start: "window" has two keys per member and epochs given by hand, for    *)
(* one or two bundles, of which the second may be needless; "rekey"         *)
(* has one key and the next epoch, for as many bundles as a bounded number  *)
(* of joins, removals and faults can cost when the command is run only      *)
(* while the roster is not keyed.                                           *)
EXTENDS EpochRotation, TLC

CONSTANTS MaxEpoch, Foci

VARIABLE focus

Epochs == 0..MaxEpoch
Refs   == 1..MaxUploads

ByHand == \E m \in Operator : /\ At(m, "members") /\ session'[m].at = "version"
                              /\ session'[m].epoch # NextEpoch

Needless == ~RekeyDue /\ \E m \in Operator : At(m, "idle") /\ session'[m].at # "idle"

Within ==
    /\ UNCHANGED focus
    /\ focus = "window" => Len(bundles') <= 2 /\ faults' <= 1 /\ (Needless => Len(bundles) = 1)
    /\ focus = "rekey"  => /\ ~ByHand /\ ~Needless
                          /\ \A x \in roster' : x[2] = CHOOSE k \in Pubkey : TRUE

FocusInit == Init /\ focus \in Foci
FocusSpec == FocusInit /\ [][Next /\ Within]_<<vars, focus>>
FocusFairSpec ==
    /\ FocusSpec
    /\ \A m \in Operator : WF_<<vars, focus>>((At(m, "idle") => RekeyDue) /\ Command(m) /\ Within)
    /\ WF_<<vars, focus>>((\E tx \in mempool : Mine(tx)) /\ Within)

(* The focus "window" runs out of bundles: the catching up is asked of the  *)
(* other one.                                                               *)
RekeyFocusCatchesUp == [](focus = "rekey") => RekeyCatchesUp

(* The type invariant, in every state that is reached.                     *)
Typed == Assert(TypeOK, "TypeOK")
=============================================================================
