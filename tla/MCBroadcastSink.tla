-------------------------- MODULE MCBroadcastSink --------------------------
(* Instances of BroadcastSink for model checking *)
EXTENDS BroadcastSink, TLC

CONSTANTS radio, tv, h1, h2, sid1, sid2

\* Every source has an advertising SID of its own
OwnSids == [s \in Sources |-> IF s = radio THEN sid1 ELSE sid2]

Symmetry == Permutations({h1, h2})
=============================================================================
