-------------------------- MODULE MCI801Serialized --------------------------
(***************************************************************************)
(* Instances of I801Serialized for TLC.                                    *)
(***************************************************************************)
EXTENDS I801Serialized, TLC

CallSymmetry == Permutations(NotifyCall) \cup Permutations(Call \ NotifyCall)

=============================================================================
