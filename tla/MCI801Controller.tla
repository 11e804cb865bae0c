-------------------------- MODULE MCI801Controller --------------------------
(***************************************************************************)
(* Instances of I801Controller for TLC.                                    *)
(***************************************************************************)
EXTENDS I801Controller, TLC

(* Calls made by host-notify threads are alike, and so are the others.     *)
CallSymmetry == Permutations(NotifyCall) \cup Permutations(Call \ NotifyCall)

=============================================================================
