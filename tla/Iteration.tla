------------------------------ MODULE Iteration ------------------------------
(***************************************************************************)
(* The loops of the program that run over data: a function g, from a state *)
(* of the loop to the next, applied n times.                               *)
(***************************************************************************)
EXTENDS Naturals

Iterate(g, start, n) ==
  LET state[i \in 0..n] == IF i = 0 THEN start ELSE g[state[i - 1]]
  IN state[n]
=============================================================================
