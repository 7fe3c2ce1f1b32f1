------------------------------- MODULE MCRecovery ------------------------------
(***************************************************************************)
(* A small instance of Recovery: two nodes, seen whole, with the child in  *)
(* another role that leads nobody, and with the leader gone or not there   *)
(* yet; two kills, by two goroutines.  A window is one interval of the     *)
(* loop, and an epoch times out after two.  Whole and Sending differ in a  *)
(* role alone, Sending and Alone in a parent alone, and a leads what it    *)
(* did not when an epoch begins with Alone.                                *)
(***************************************************************************)
EXTENDS Recovery

CONSTANTS a, b, k1, k2

MCNode   == {a, b}
MCOpener == {k1, k2}

Is(role, connected, parent) == [role |-> role, connected |-> connected, parent |-> parent]

Whole   == (a :> Is("leader", TRUE, None)) @@ (b :> Is("base", TRUE, a))
Sending == (a :> Is("leader", TRUE, None)) @@ (b :> Is("sender", FALSE, a))
Alone   == b :> Is("sender", FALSE, None)

MCSamples == {Whole, Sending, Alone}

Symmetry == Permutations(MCOpener)
=============================================================================
