--------------------------- MODULE PriorityQueue ---------------------------
(***************************************************************************)
(* The PriorityQueue of queue_job/jobrunner/channels.py: a binary heap     *)
(* from which an arbitrary object can be removed, lazily.  remove() only   *)
(* marks the object; it leaves the heap when pop() or q[0] meets it.       *)
(* pop() and q[0] loop, and one iteration of the loop is one step here.    *)
(***************************************************************************)
EXTENDS Integers

CONSTANTS Elem,   \* the objects that may be queued, by rank in their order
          None    \* the Python None

ASSUME ElemAssumption == Elem \subseteq Int /\ None \notin Int

VARIABLES
  heap,     \* heap[o]: how many entries of o the list _heap holds
  known,    \* _known: all the objects in the heap, the removed ones included
  removed,  \* _removed: the objects marked as removed
  pc,       \* "idle", or inside the loop of "pop" or of "getitem"
  ret,      \* the value returned by the last pop()
  failed    \* TRUE once set.remove() raised KeyError inside an operation

vars == <<heap, known, removed, pc, ret, failed>>

Init ==
  /\ heap = [o \in Elem |-> 0]
  /\ known = {} /\ removed = {}
  /\ pc = "idle" /\ ret = None /\ failed = FALSE

Entries == {o \in Elem : heap[o] > 0}

\* Mutant of IsFirst: an empty heap is not noticed.
IsFirst_NoEmptyCheck(o) == \A p \in Entries : o <= p

IsFirst(o) == o \in Entries /\ \A p \in Entries : o <= p

Contains(o) == o \in known /\ o \notin removed   \* __contains__

\* Mutant of Add: the "already known" return is missing.
Add_Twice(o) ==
  /\ pc = "idle"
  /\ removed' = removed \ {o}
  /\ known' = known \cup {o}
  /\ heap' = [heap EXCEPT ![o] = @ + 1]
  /\ heap[o] < 3
  /\ UNCHANGED <<pc, ret, failed>>

Add(o) ==
  /\ pc = "idle"
  /\ removed' = removed \ {o}
  /\ IF o \in known
     THEN UNCHANGED <<heap, known>>
     ELSE /\ known' = known \cup {o}
          /\ heap' = [heap EXCEPT ![o] = @ + 1]
  /\ UNCHANGED <<pc, ret, failed>>

Remove(o) ==
  /\ pc = "idle"
  /\ removed' = IF o \in known THEN removed \cup {o} ELSE removed
  /\ UNCHANGED <<heap, known, pc, ret, failed>>

Call(op) ==   \* enter the "while True" of pop() or of __getitem__(0)
  /\ pc = "idle"
  /\ pc' = op
  /\ UNCHANGED <<heap, known, removed, ret, failed>>

\* One iteration of pop(): heappop, then forget a marked object and go on,
\* or return the object.  An empty heap makes it return None.
PopEmpty ==
  /\ pc = "pop" /\ Entries = {}
  /\ pc' = "idle" /\ ret' = None
  /\ UNCHANGED <<heap, known, removed, failed>>

\* Mutant of PopFirst: a marked object is returned.
PopFirst_Marked(o) ==
  /\ pc = "pop" /\ IsFirst(o)
  /\ heap' = [heap EXCEPT ![o] = @ - 1]
  /\ known' = known \ {o} /\ removed' = removed \ {o}
  /\ failed' = (failed \/ o \notin known)
  /\ pc' = "idle" /\ ret' = o

PopFirst(o) ==
  /\ pc = "pop" /\ IsFirst(o)
  /\ heap' = [heap EXCEPT ![o] = @ - 1]
  /\ known' = known \ {o}
  /\ failed' = (failed \/ o \notin known)
  /\ IF o \in removed
     THEN removed' = removed \ {o} /\ UNCHANGED <<pc, ret>>
     ELSE pc' = "idle" /\ ret' = o /\ UNCHANGED removed

\* One iteration of q[0]: the heap is empty (IndexError), its head is live
\* (returned), or its head is a marked object, which is dropped.
GetItemReturn ==
  /\ pc = "getitem"
  /\ \/ Entries = {}
     \/ \E o \in Entries : IsFirst(o) /\ o \notin removed
  /\ pc' = "idle"
  /\ UNCHANGED <<heap, known, removed, ret, failed>>

GetItemDrop(o) ==
  /\ pc = "getitem" /\ IsFirst(o) /\ o \in removed
  /\ heap' = [heap EXCEPT ![o] = @ - 1]
  /\ known' = known \ {o} /\ removed' = removed \ {o}
  /\ failed' = (failed \/ o \notin known)
  /\ UNCHANGED <<pc, ret>>

Next ==
  \/ Call("pop") \/ Call("getitem") \/ PopEmpty \/ GetItemReturn
  \/ \E o \in Elem : \/ Add(o) \/ Remove(o)
                     \/ PopFirst(o) \/ GetItemDrop(o)

Spec == Init /\ [][Next]_vars

-----------------------------------------------------------------------------
\* Type invariant of the queue's fields.
TypeOK ==
  /\ heap \in [Elem -> Nat]
  /\ known \subseteq Elem /\ removed \subseteq Elem
  /\ pc \in {"idle", "pop", "getitem"}
  /\ ret \in Elem \cup {None}
  /\ failed \in BOOLEAN

\* The three fields stay aligned whatever the order of add, remove, re-add,
\* pop and q[0]: an object is in the heap once exactly when it is known,
\* only known objects are marked removed, and so no set.remove() of the
\* code can raise KeyError half way through an operation.
Aligned ==
  /\ \A o \in Elem : heap[o] = IF o \in known THEN 1 ELSE 0
  /\ removed \subseteq known
  /\ ~failed

\* The queue implements the abstract one: what is queued is known and not
\* marked, and pop() returns the first live object although marked objects
\* may come before it in the heap.
Queued == known \ removed

Abstract == INSTANCE JobPriority WITH set <- Queued
ImplementsJobPriority == Abstract!Spec
=============================================================================
