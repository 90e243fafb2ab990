--------------------------- MODULE MCDirectIngest ---------------------------
(* Instances of DirectIngest for TLC.                                       *)
EXTENDS DirectIngest, TLC

Symmetry == Permutations(Handler)
=============================================================================
