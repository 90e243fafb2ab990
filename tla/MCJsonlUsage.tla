---------------------------- MODULE MCJsonlUsage ----------------------------
(* Instances of JsonlUsage for TLC.                                         *)
EXTENDS JsonlUsage, TLC

Symmetry == Permutations(Handler) \cup Permutations(Tenant)
=============================================================================
