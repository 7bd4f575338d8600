----------------------------- MODULE MCFleetViews -----------------------------
(* Small instances of FleetViews: who may do what, to how many minions.      *)
EXTENDS FleetViews

CONSTANTS a, b, v, w

Setup(ops, ids, workers, keys0, pods0, events) ==
    [ops |-> ops, ids |-> ids, workers |-> workers, keys |-> keys0, pods |-> pods0,
     events |-> events]

\* The dashboard alone; the lists of two minions; a removal among key changes;
\* two removals at once; and what one asks of a single minion.
AllSetups ==
    {Setup({"dashboard"}, {}, {}, {}, {}, 2),
     Setup({"index", "export_csv", "presence"}, {a, b}, {v}, {"accepted"}, {0, 2}, 1),
     Setup({"index", "remove"}, {a}, {v}, {Absent, "accepted"}, {0, 2}, 2),
     Setup({"remove"}, {a}, {v, w}, {"accepted"}, {0}, 0),
     Setup({"detail", "states_refresh", "beacon", "refresh_one", "refresh"}, {a}, {v},
           {"accepted"}, {0, 2}, 1)}
===============================================================================
