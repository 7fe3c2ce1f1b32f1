----------------------------- MODULE MCMutation -----------------------------
(* Two requests at a time, of any kind, and a join.  Every id is a model   *)
(* value: only the ranking orders nodes, and every ranking is tried.       *)
EXTENDS Mutation, TLC

CONSTANTS n1, n2, n3, n4, c1, c2

MCNode == {n1, n2, n3, n4}
MCInitialNodes == {n1, n2, n3}
MCCaller == {c1, c2}
MCExcludeRoot == {FALSE}
MCExcludeRootOnly == {TRUE}
Symmetric == Permutations(MCInitialNodes) \cup Permutations(MCCaller)
=============================================================================
