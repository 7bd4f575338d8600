--------------------------- MODULE MCMasterConfig ---------------------------
(* Two admins, two pods, one item of each sort: writers that race on a      *)
(* cluster at rest, and writers while rollouts run.                         *)
EXTENDS MasterConfig

Writers == [posts |-> 3, rollouts |-> 0]
Rollouts == [posts |-> 2, rollouts |-> 2]

WritersThenRollouts == {Writers, Rollouts}
=============================================================================
