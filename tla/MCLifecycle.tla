------------------------------ MODULE MCLifecycle ------------------------------
(***************************************************************************)
(* Small instances of Lifecycle: two callers, who start at most two runs   *)
(* and stop once besides; it is no matter which of them stops.             *)
(***************************************************************************)
EXTENDS Lifecycle

CONSTANTS c1, c2

MCCaller  == {c1, c2}
MCStopper == {c1}
=============================================================================
