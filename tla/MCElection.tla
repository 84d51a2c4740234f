----------------------------- MODULE MCElection -----------------------------
\* Instances of Election for TLC.
EXTENDS Election

CONSTANTS n1, n2, watcher

MCWatchPrefix == [w \in Watchers |-> "node"]
=============================================================================
