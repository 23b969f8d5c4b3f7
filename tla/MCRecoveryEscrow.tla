-------------------------- MODULE MCRecoveryEscrow --------------------------
(* The instance of RecoveryEscrow for TLC. *)
EXTENDS RecoveryEscrow, TLC

(* The type invariant, in every state that is reached.                     *)
Typed == Assert(EscrowTypeOK, "TypeOK")
=============================================================================
