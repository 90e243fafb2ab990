-------------------------- MODULE MCInvestigation ---------------------------
(* Instances of Investigation for TLC.                                      *)
EXTENDS Investigation

CONSTANT Objective      \* objectives of the requests

AllRequests == [objective : Objective, evidence : SUBSET EvidenceId \ {{}}]

=============================================================================
