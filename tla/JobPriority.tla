---------------------------- MODULE JobPriority ----------------------------
(***************************************************************************)
(* What a queue of channel jobs promises to the channel that owns it: the  *)
(* set of the jobs that were added and neither removed nor popped since,   *)
(* from which pop takes the first one.  The jobs are represented by their  *)
(* rank in the total order of ChannelJob.                                  *)
(***************************************************************************)
EXTENDS Integers

CONSTANTS Elem,   \* the objects that may be queued, by rank
          None    \* what pop returns for an empty queue

VARIABLES set,    \* the queued objects
          ret     \* the value the last pop returned

Init == set = {} /\ ret = None

Add(o) == set' = set \cup {o} /\ UNCHANGED ret

Remove(o) == set' = set \ {o} /\ UNCHANGED ret

Pop == \/ /\ set = {}
          /\ ret' = None
          /\ UNCHANGED set
       \/ \E o \in set : /\ \A p \in set : o <= p
                         /\ ret' = o
                         /\ set' = set \ {o}

Next == Pop \/ \E o \in Elem : Add(o) \/ Remove(o)

Spec == Init /\ [][Next]_<<set, ret>>
=============================================================================
