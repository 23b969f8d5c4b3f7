-------------------------- MODULE MCDocumentGrants --------------------------
(* Instances of DocumentGrants for TLC.  A behaviour of FocusSpec draws a   *)
(* focus at the start, the part of the flow that it takes further than the  *)
(* others: two authors and two recipients of one slot ("grants"), the keys  *)
(* of two recipients ("keys"), the deliveries of one author to a web        *)
(* recipient ("recovery"), or the redact runs of two authors ("runs").      *)
EXTENDS DocumentGrants, TLC

CONSTANTS
  r1, r2, w1, w2, c1,
  Foci                  \* the foci of an instance; "free" has the bounds of DocumentGrants alone

VARIABLE focus

\* a web recipient and a CLI recipient; one CLI recipient; a recipient with two open tabs
TwoWallets == w1 :> r1 @@ c1 :> r2
CliWallet  == c1 :> r1
TwoTabs    == w1 :> r1 @@ w2 :> r1

FocusInit == Init /\ focus \in Foci
FocusNext == Next /\ UNCHANGED focus
FocusSpec == FocusInit /\ [][FocusNext]_<<vars, focus>>

OneAuthorRuns == \A n \in 1..Len(made) : made[n] = made[1]
OneRunEach    == \A m, n \in 1..Len(made) : made[m] = made[n] => m = n
NoShell       == \A c \in CliShells, p \in Promises : Idle(c, p)

Within(slots, runs, keyCount, lossCount, logged) ==
  /\ \A a \in Authors : Cardinality(job[a].slots) <= slots
  /\ Len(made) <= runs
  /\ Len(keys) <= keyCount
  /\ \A r \in Recipients : losses[r] <= lossCount
  /\ Len(log) <= logged

Focused ==
  CASE focus = "grants"   -> OneRunEach /\ Within(1, 2, 2, 0, 4)
    [] focus = "keys"     -> OneAuthorRuns /\ Within(1, 1, 3, 1, 3)
    [] focus = "recovery" -> OneAuthorRuns /\ NoShell /\ Within(2, 1, 2, 1, 5)
    [] focus = "runs"     -> NoShell /\ Within(1, MaxRuns, 1, 0, 2)
    [] focus = "free"     -> TRUE

Symmetry == Permutations(Authors) \cup Permutations(Slots)

(* The type invariant, in every state that is reached.                     *)
Typed == Assert(TypeOK, "TypeOK")
=============================================================================
