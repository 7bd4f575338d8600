------------------------------ MODULE MCJobSync ------------------------------
(* Small instances of JobSync.  A job with an odd jid leaves the Spared     *)
(* minions out of its target.  With an SLS to watch, a return fails in an   *)
(* SLS nobody watches: drifted as a whole job, ok once narrowed.            *)
EXTENDS JobSync, TLC

CONSTANTS web, Spared

MCTarget == [j \in Jids |-> Minions \ (IF j % 2 = 0 THEN {} ELSE Spared)]

WebOnly == {web}

FailedElsewhere == [success |-> FALSE, clean |-> Sls, dirty |-> {}]

OneReturn == {FailedElsewhere}

SyncerSymmetry == Permutations(Syncers)
=============================================================================
