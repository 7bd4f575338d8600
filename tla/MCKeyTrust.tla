----------------------------- MODULE MCKeyTrust -----------------------------
(* Small instances of KeyTrust.                                             *)
EXTENDS KeyTrust

CONSTANTS k1, k2, cron, button, human
=============================================================================
