------------------------------ MODULE MCGitSync ------------------------------
(* A small instance of GitSync: two remotes, one formula; three versions   *)
(* make a local and an upstream commit diverge.                            *)
EXTENDS GitSync

CONSTANTS main, moved, apache

Versions3 == [states |-> 3, formulas |-> 1]
Requests3 == [states |-> 2, formulas |-> 3]
=============================================================================
