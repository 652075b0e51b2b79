-------------------------- MODULE MCGraphAndQueue --------------------------
(***************************************************************************)
(* The two data structures of queue_job, the graph of delayables and the   *)
(* priority queue of the channels.  One of them is used while the other    *)
(* stays as it is made.                                                    *)
(***************************************************************************)
EXTENDS DelayGraph, PriorityQueue, TLC

VARIABLE focus

\* Five ranks: enough for marked objects before, between and after live ones.
MCElem == 1..5

MCInit == focus \in {"graph", "queue"} /\ GraphInit /\ Init

MCSpec ==
  /\ MCInit
  /\ [][\/ focus = "graph" /\ GraphNext /\ UNCHANGED <<focus, vars>>
        \/ focus = "queue" /\ Next /\ UNCHANGED <<focus, graphVars>>
       ]_<<focus, graphVars, vars>>

\* The delayables are interchangeable.
Symmetry == {p @@ q : p \in Permutations(Leaf), q \in Permutations(Composite)}
=============================================================================
