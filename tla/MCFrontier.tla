----------------------------- MODULE MCFrontier -----------------------------
\* Instances of Frontier for TLC: two URLs of host a, one of b and of c, and a
\* fifth address with the fingerprint of the first.
EXTENDS Frontier

MCHostOf == [u \in URLs |-> CASE u \in {"a1", "a2", "a3"} -> "a" [] u = "b1" -> "b" [] OTHER -> "c"]
MCPriorityOf == [u \in URLs |-> CASE u = "a2" -> 9 [] u = "b1" -> 1 [] u = "c1" -> -1 [] OTHER -> 0]
MCFingerprintOf == [u \in URLs |-> IF u = "a3" THEN "a1" ELSE u]
=============================================================================
