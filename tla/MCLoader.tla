------------------------------ MODULE MCLoader ------------------------------
\* Instances of Loader for TLC: the page of a key is named by the key.
EXTENDS Loader

MCPageOf == [k \in CacheKeys |-> k]
=============================================================================
