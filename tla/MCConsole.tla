----------------------------- MODULE MCConsole ------------------------------
(* Instances of Console for TLC.                                            *)
EXTENDS Console
=============================================================================
