----------------------------- MODULE MCWaveBatch -----------------------------
(* Small instances of WaveBatch: three minions, or two where grants move.   *)
EXTENDS WaveBatch

CONSTANTS a, b, c

TwoMinions == <<a, b>>
ThreeMinions == <<a, b, c>>

B(how, size, stop) == [mode |-> how, size |-> size, stop_after |-> stop]

\* One minion a wave; two and one; a tenth of the roster (one, rounded up);
\* half of it (two, rounded up); all.
AllBatches ==
    {B("count", 1, 2), B("count", 2, 1), B("count", 2, 5),
     B("percent", 10, 3), B("percent", 50, 3), B("percent", 100, 1)}

OneByOne == {B("count", 1, 4)}

Everyone ==
    [mode |-> "legacy", roster |-> ThreeMinions, batches |-> AllBatches, redis |-> BOOLEAN,
     lossy |-> FALSE, cancels |-> TRUE]
Granted ==
    [mode |-> "scoped", roster |-> TwoMinions, batches |-> OneByOne, redis |-> {TRUE},
     lossy |-> FALSE, cancels |-> FALSE]
Short ==
    [mode |-> "legacy", roster |-> TwoMinions, batches |-> OneByOne, redis |-> {TRUE},
     lossy |-> FALSE, cancels |-> FALSE]

Lossy ==
    [mode |-> "legacy", roster |-> TwoMinions, batches |-> OneByOne, redis |-> {TRUE},
     lossy |-> TRUE, cancels |-> TRUE]

GateSetups == {Everyone, Granted, Lossy}
ShortOnly == {Short}
=============================================================================
