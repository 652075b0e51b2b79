---------------------------- MODULE MCDelayGraph ----------------------------
(***************************************************************************)
(* Small instances of DelayGraph.  The delayables are interchangeable.     *)
(***************************************************************************)
EXTENDS DelayGraph, TLC

Symmetry == Permutations(Leaf) \cup Permutations(Composite)
=============================================================================
