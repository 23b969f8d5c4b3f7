---------------------------- MODULE MCFundFlow ----------------------------
(* Instances of FundFlow for TLC.  A behaviour draws its focus at the      *)
(* start: calls of the owner that nest, over two treasuries of one swarm;  *)
(* or owner signatures for one treasury of two swarms, one request each,    *)
(* none of them paused.                                                    *)
EXTENDS FundFlow

VARIABLE focus

DirectNext ==
    \/ \E c \in Account : SwarmCall(c) \/ TreasuryCall(c)
    \/ Return \/ Revert

FocusInit == Init /\ focus \in {"treasuries", "signatures"}

FocusNext ==
    /\ UNCHANGED focus
    /\ \/ focus = "treasuries" /\ DirectNext
       \/ focus = "signatures" /\ Next

FocusSpec == FocusInit /\ [][FocusNext]_<<vars, focus>>

UsedSwarms == {s \in Swarm : world.treasury[s] # NoAddress \/ world.paused[s]}

UsedTreasuries ==
    {t \in Treasury : \/ world.balance[t] # Funds \/ world.locked[t]
                      \/ \E s \in Swarm : world.treasury[s] = t
                      \/ \E sig \in signed : sig.treasury = t}

Focused ==
    CASE focus = "treasuries" -> /\ Cardinality(UsedSwarms) <= 1
                                 /\ \A a \in Account \ {Owner} : world.balance[a] = 0
                                 /\ \A s \in Swarm : world.paused[s] => Len(world.requests[s]) <= 1
      [] focus = "signatures" -> /\ Cardinality(UsedTreasuries) <= 1
                                 /\ \A s \in Swarm : Len(world.requests[s]) <= 1 /\ ~world.paused[s]

Symmetry == Permutations(Swarm) \cup Permutations(Treasury) \cup Permutations(Account \ {Owner})

(* The type invariant, in every state that is reached.                     *)
Typed == Assert(TypeOK, "TypeOK")
=============================================================================
