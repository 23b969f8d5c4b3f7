--------------------------- MODULE SwarmRegistry ---------------------------
(***************************************************************************)
(* What the swarm contract promises to its clients: a roster of accounts   *)
(* and public keys, a version that counts the changes of the roster, and   *)
(* an epoch that only grows, each rotation binding one key bundle to the   *)
(* roster version it was made for.  No requests, signatures or pauses.     *)
(* SoulVaultSwarm implements it; EpochRotation runs the clients on it.     *)
(***************************************************************************)
EXTENDS Integers

CONSTANTS Account, Pubkey, Ref, Epoch

ASSUME EpochAssumption == Epoch \subseteq Nat /\ 0 \in Epoch

VARIABLES roster, version, epoch, rotations

registry == <<roster, version, epoch, rotations>>

RegistryTypeOK ==
    /\ roster \subseteq Account \X Pubkey
    /\ version \in Nat
    /\ epoch \in Epoch
    /\ rotations \subseteq [epoch : Epoch, bundle : Ref, version : Nat]

RegistryInit == roster = {} /\ version = 0 /\ epoch = 0 /\ rotations = {}

KeyOf(a) == {k \in Pubkey : <<a, k>> \in roster}

Admit(a, k) ==
    /\ KeyOf(a) = {}
    /\ roster' = roster \cup {<<a, k>>}
    /\ version' = version + 1
    /\ UNCHANGED <<epoch, rotations>>

Expel(a) ==
    /\ KeyOf(a) # {}
    /\ roster' = roster \ ({a} \X Pubkey)
    /\ version' = version + 1
    /\ UNCHANGED <<epoch, rotations>>

Rotate(e, b) ==
    /\ e > epoch
    /\ epoch' = e
    /\ rotations' = rotations \cup {[epoch |-> e, bundle |-> b, version |-> version]}
    /\ UNCHANGED <<roster, version>>

RegistryNext ==
    \/ \E a \in Account : (\E k \in Pubkey : Admit(a, k)) \/ Expel(a)
    \/ \E e \in Epoch, b \in Ref : Rotate(e, b)

RegistrySpec == RegistryInit /\ [][RegistryNext]_registry
=============================================================================
