------------------------ MODULE GraphAndQueue_proofs ------------------------
(***************************************************************************)
(* Proofs about the two data structures of queue_job.  The queue of the    *)
(* channels keeps its fields aligned and implements the set with a first   *)
(* element, for every set of ranks.  A graph of delayables, built in any   *)
(* way, is executed in an order that respects its edges, and flattened     *)
(* into the dependencies that were asked for.                              *)
(***************************************************************************)
EXTENDS MCGraphAndQueue, FiniteSetTheorems, WellFoundedInduction, TLAPS

-----------------------------------------------------------------------------
(* The priority queue                                                      *)

\* The inductive invariant of the queue.
IInv == TypeOK /\ Aligned

\* The heap holds exactly the known objects, so a popped one is known.
LEMMA EntriesAreKnown == IInv => Entries = known
BY DEF IInv, TypeOK, Aligned, Entries

LEMMA InitIInv == Init => IInv
<1> SUFFICES ASSUME Init PROVE IInv
  OBVIOUS
<1> USE DEF Init
<1>1. heap \in [Elem -> Nat] /\ \A o \in Elem : heap[o] = 0
  OBVIOUS
<1>2. TypeOK
  BY <1>1 DEF TypeOK
<1>3. Aligned
  BY <1>1 DEF Aligned
<1>4. QED BY <1>2, <1>3 DEF IInv

LEMMA NextIInv == IInv /\ [Next]_vars => IInv'
<1> SUFFICES ASSUME IInv, [Next]_vars PROVE IInv'
  OBVIOUS
<1> USE DEF IInv, TypeOK, Aligned
<1>1. ASSUME NEW op \in {"pop", "getitem"}, Call(op) PROVE IInv'
  BY <1>1 DEF Call
<1>2. CASE PopEmpty
  BY <1>2 DEF PopEmpty
<1>3. CASE GetItemReturn
  BY <1>3 DEF GetItemReturn
<1>4. ASSUME NEW o \in Elem, Add(o) PROVE IInv'
  BY <1>4 DEF Add
<1>5. ASSUME NEW o \in Elem, Remove(o) PROVE IInv'
  BY <1>5 DEF Remove
<1>6. ASSUME NEW o \in Elem, PopFirst(o) PROVE IInv'
  <2>1. o \in known /\ heap[o] = 1
    BY <1>6, EntriesAreKnown DEF PopFirst, IsFirst
  <2>2. heap' = [heap EXCEPT ![o] = 0]
    BY <1>6, <2>1 DEF PopFirst
  <2>3. TypeOK'
    BY <1>6, <2>1, <2>2 DEF PopFirst
  <2>4. Aligned'
    BY <1>6, <2>1, <2>2 DEF PopFirst
  <2>5. QED BY <2>3, <2>4
<1>7. ASSUME NEW o \in Elem, GetItemDrop(o) PROVE IInv'
  <2>1. o \in known /\ heap[o] = 1
    BY <1>7, EntriesAreKnown DEF GetItemDrop, IsFirst
  <2>2. heap' = [heap EXCEPT ![o] = 0]
    BY <1>7, <2>1 DEF GetItemDrop
  <2>3. QED BY <1>7, <2>1, <2>2 DEF GetItemDrop
<1>8. CASE UNCHANGED vars
  BY <1>8 DEF vars
<1>9. QED
  BY <1>1, <1>2, <1>3, <1>4, <1>5, <1>6, <1>7, <1>8 DEF Next

\* The fields of the queue have their types in every reachable state.
THEOREM TypeCorrect == Spec => []TypeOK
<1>1. IInv => TypeOK BY DEF IInv
<1>2. QED BY <1>1, InitIInv, NextIInv, PTL DEF Spec

\* Heap, _known and _removed stay aligned and no KeyError is raised, for
\* every sequence of add, remove, re-add, pop and q[0].
THEOREM FieldsAligned == Spec => []Aligned
<1>1. IInv => Aligned BY DEF IInv
<1>2. QED BY <1>1, InitIInv, NextIInv, PTL DEF Spec

\* The lazy deletion is invisible: every step of the heap is a step of the
\* abstract set, or changes nothing of it.
THEOREM Refinement == Spec => ImplementsJobPriority
<1>1. Init => Abstract!Init
  BY DEF Init, Abstract!Init, Queued
<1>2. IInv /\ [Next]_vars => [Abstract!Next]_<<Queued, ret>>
  <2> SUFFICES ASSUME IInv, [Next]_vars
               PROVE Abstract!Next \/ UNCHANGED <<Queued, ret>>
    OBVIOUS
  <2> USE DEF Queued
  <2>1. ASSUME NEW op \in {"pop", "getitem"}, Call(op)
        PROVE UNCHANGED <<Queued, ret>>
    BY <2>1 DEF Call
  <2>2. CASE PopEmpty
    <3>1. Queued = {}
      BY <2>2, EntriesAreKnown DEF PopEmpty
    <3>2. Abstract!Pop
      BY <2>2, <3>1 DEF PopEmpty, Abstract!Pop
    <3>3. QED BY <3>2 DEF Abstract!Next
  <2>3. CASE GetItemReturn
    BY <2>3 DEF GetItemReturn
  <2>4. ASSUME NEW o \in Elem, Add(o) PROVE Abstract!Next
    <3>1. Abstract!Add(o)
      BY <2>4 DEF Add, Abstract!Add, IInv, Aligned
    <3>2. QED BY <3>1 DEF Abstract!Next
  <2>5. ASSUME NEW o \in Elem, Remove(o) PROVE Abstract!Next
    <3>1. Abstract!Remove(o)
      BY <2>5 DEF Remove, Abstract!Remove
    <3>2. QED BY <3>1 DEF Abstract!Next
  <2>6. ASSUME NEW o \in Elem, PopFirst(o)
        PROVE Abstract!Next \/ UNCHANGED <<Queued, ret>>
    <3>1. CASE o \in removed
      BY <2>6, <3>1 DEF PopFirst
    <3>2. CASE o \notin removed
      <4>1. o \in Queued /\ \A p \in Queued : o <= p
        BY <2>6, <3>2, EntriesAreKnown DEF PopFirst, IsFirst
      <4>2. Abstract!Pop
        BY <2>6, <3>2, <4>1 DEF PopFirst, Abstract!Pop
      <4>3. QED BY <4>2 DEF Abstract!Next
    <3>3. QED BY <3>1, <3>2
  <2>7. ASSUME NEW o \in Elem, GetItemDrop(o) PROVE UNCHANGED <<Queued, ret>>
    BY <2>7 DEF GetItemDrop
  <2>8. CASE UNCHANGED vars
    BY <2>8 DEF vars
  <2>9. QED
    BY <2>1, <2>2, <2>3, <2>4, <2>5, <2>6, <2>7, <2>8 DEF Next
<1>3. QED
  BY <1>1, <1>2, InitIInv, NextIInv, PTL
  DEF Spec, ImplementsJobPriority, Abstract!Spec

-----------------------------------------------------------------------------
(* The transitive closure                                                  *)

ThroughNode(c, q, n) == Through(q, n)
Closing == INSTANCE Folding_proofs WITH Op <- ThroughNode

Pairs == Node \X Node
Transitive(q) == \A e, f \in q : e[2] = f[1] => <<e[1], f[2]>> \in q
Joins(q, n) == \A e, f \in q : e[2] = n /\ f[1] = n => <<e[1], f[2]>> \in q

Way(q, n, x) == \E a, b \in Node : <<a, n>> \in q /\ <<n, b>> \in q /\ x = <<a, b>>

\* What a relation holds once it goes through n.
LEMMA ThroughMembers ==
  ASSUME NEW q \in SUBSET Pairs, NEW n, NEW x
  PROVE  x \in Through(q, n) <=> x \in q \/ Way(q, n, x)
<1>0. \A e \in q : e[1] \in Node /\ e[2] \in Node /\ e = <<e[1], e[2]>>
  BY DEF Pairs
<1>1. x \in Through(q, n) <=>
        x \in q \/ \E p \in {e \in q : e[2] = n}, o \in {e \in q : e[1] = n} : x = <<p[1], o[2]>>
  BY DEF Through
<1>2. ASSUME NEW p \in q, NEW o \in q, p[2] = n, o[1] = n, x = <<p[1], o[2]>>
      PROVE  \E a, b \in Node : <<a, n>> \in q /\ <<n, b>> \in q /\ x = <<a, b>>
  <2>1. p = <<p[1], n>> /\ o = <<n, o[2]>> /\ p[1] \in Node /\ o[2] \in Node
    BY <1>0, <1>2
  <2>2. QED BY <1>2, <2>1
<1>3. ASSUME NEW a \in Node, NEW b \in Node, <<a, n>> \in q, <<n, b>> \in q, x = <<a, b>>
      PROVE  \E p \in {e \in q : e[2] = n}, o \in {e \in q : e[1] = n} : x = <<p[1], o[2]>>
  <2>1. <<a, n>>[1] = a /\ <<a, n>>[2] = n /\ <<n, b>>[1] = n /\ <<n, b>>[2] = b
    OBVIOUS
  <2>2. QED BY <1>3, <2>1
<1>4. QED BY <1>1, <1>2, <1>3 DEF Way

\* What relating by way of n does to q, with the outcome o.
Related(q, n, o) ==
    /\ o \in SUBSET Pairs /\ q \subseteq o
    /\ Joins(o, n) /\ \A m : Joins(q, m) => Joins(o, m)
    /\ \A t : Transitive(t) /\ q \subseteq t => o \subseteq t

\* Going through n adds the joins at n, keeps those at other nodes, and adds
\* nothing a transitive relation around it does not hold.
LEMMA ThroughFacts ==
  ASSUME NEW q \in SUBSET Pairs, NEW n
  PROVE  Related(q, n, Through(q, n))
<1> DEFINE Q == Through(q, n)
           New(a, b) == <<a, n>> \in q /\ <<n, b>> \in q
<1>1. \A x : x \in Q <=> x \in q \/ \E a, b \in Node : New(a, b) /\ x = <<a, b>>
  <2>1. \A x : x \in Through(q, n) <=>
               x \in q \/ \E a, b \in Node : <<a, n>> \in q /\ <<n, b>> \in q /\ x = <<a, b>>
    <3> TAKE x
    <3>1. x \in Through(q, n) <=> x \in q \/ Way(q, n, x)
      BY ThroughMembers
    <3> QED BY <3>1 DEF Way
  <2>2. QED BY <2>1
<1>0. \A a, b : <<a, b>> \in q => a \in Node /\ b \in Node
  BY DEF Pairs
<1>2. Q \in SUBSET Pairs /\ q \subseteq Q
  <2> HIDE DEF Q
  <2>1. ASSUME NEW x \in Q PROVE x \in Pairs
    <3>1. x \in q \/ \E a, b \in Node : x = <<a, b>>
      BY <1>1
    <3>2. QED BY <3>1 DEF Pairs
  <2>2. QED BY <1>1, <2>1
<1>3. \A a, b \in Node : <<a, b>> \in Q <=> <<a, b>> \in q \/ New(a, b)
  <2> HIDE DEF Q
  <2>1. SUFFICES ASSUME NEW a \in Node, NEW b \in Node
                 PROVE  <<a, b>> \in Q <=> <<a, b>> \in q \/ New(a, b)
    OBVIOUS
  <2>2. \A c, d \in Node : <<a, b>> = <<c, d>> => a = c /\ b = d
    OBVIOUS
  <2>3. QED BY <1>1, <2>2
<1> HIDE DEF Q
<1>4. ASSUME NEW r \in SUBSET Pairs, NEW m
      PROVE  Joins(r, m) <=>
               \A a, b \in Node : <<a, m>> \in r /\ <<m, b>> \in r => <<a, b>> \in r
  <2>1. \A e \in r : e[1] \in Node /\ e[2] \in Node /\ e = <<e[1], e[2]>>
    BY DEF Pairs
  <2>2. ASSUME Joins(r, m), NEW a \in Node, NEW b \in Node, <<a, m>> \in r, <<m, b>> \in r
        PROVE  <<a, b>> \in r
    <3>1. <<a, m>>[1] = a /\ <<a, m>>[2] = m /\ <<m, b>>[1] = m /\ <<m, b>>[2] = b
      OBVIOUS
    <3>2. QED BY <2>2, <3>1 DEF Joins
  <2>3. ASSUME \A a, b \in Node : <<a, m>> \in r /\ <<m, b>> \in r => <<a, b>> \in r,
               NEW e \in r, NEW f \in r, e[2] = m, f[1] = m
        PROVE  <<e[1], f[2]>> \in r
    <3>1. <<e[1], m>> \in r /\ <<m, f[2]>> \in r /\ e[1] \in Node /\ f[2] \in Node
      BY <2>1, <2>3
    <3>2. QED BY <2>3, <3>1
  <2>4. QED BY <2>2, <2>3 DEF Joins
<1>5. Joins(Q, n)
  <2>1. ASSUME NEW a \in Node, NEW b \in Node, <<a, n>> \in Q, <<n, b>> \in Q
        PROVE  <<a, b>> \in Q
    <3>1. n \in Node
      BY <1>2, <2>1 DEF Pairs
    <3>2. QED BY <1>3, <2>1, <3>1
  <2>2. QED BY <1>2, <1>4, <2>1
<1>6. ASSUME NEW m, Joins(q, m) PROVE Joins(Q, m)
  <2>1. ASSUME NEW a \in Node, NEW b \in Node, <<a, m>> \in Q, <<m, b>> \in Q
        PROVE  <<a, b>> \in Q
    <3>1. m \in Node
      BY <1>2, <2>1 DEF Pairs
    <3>2. \A c, d \in Node : <<c, m>> \in q /\ <<m, d>> \in q => <<c, d>> \in q
      BY <1>4, <1>6
    <3>3. (<<m, b>> \in q \/ New(m, b)) /\ (<<a, m>> \in q \/ New(a, m))
      BY <1>3, <2>1, <3>1
    <3>4. n \in Node \/ (<<a, m>> \in q /\ <<m, b>> \in q)
      BY <1>0, <3>3
    <3>5. QED BY <1>3, <3>1, <3>2, <3>3, <3>4
  <2>2. QED BY <1>2, <1>4, <2>1
<1>7. ASSUME NEW t, Transitive(t), q \subseteq t PROVE Q \subseteq t
  <2>1. ASSUME NEW a \in Node, NEW b \in Node, New(a, b) PROVE <<a, b>> \in t
    <3>1. <<a, n>>[1] = a /\ <<a, n>>[2] = n /\ <<n, b>>[1] = n /\ <<n, b>>[2] = b
      OBVIOUS
    <3>2. <<a, n>> \in t /\ <<n, b>> \in t
      BY <1>7, <2>1
    <3>3. QED BY <1>7, <3>1, <3>2 DEF Transitive
  <2>2. ASSUME NEW x \in Q PROVE x \in t
    <3>1. x \in q \/ \E a, b \in Node : New(a, b) /\ x = <<a, b>>
      BY <1>1
    <3> HIDE DEF New
    <3>2. QED BY <1>7, <2>1, <3>1
  <2>3. QED BY <2>2
<1>8. QED BY <1>2, <1>5, <1>6, <1>7 DEF Q, Related

\* The nodes in the order the closure goes through them.
LEMMA NodesFacts ==
  /\ Cardinality(Node) \in Nat /\ Nodes \in [1..Cardinality(Node) -> Node]
  /\ \A n \in Node : \E i \in 1..Cardinality(Node) : Nodes[i] = n
<1> DEFINE N == Cardinality(Node)
<1>1. IsFiniteSet(Node) /\ N \in Nat
  BY GraphAssumption, FS_CardinalityType
<1>2. PICK f \in [1..N -> Node] : \A a, b \in 1..N : f[a] = f[b] => a = b
  <2>1. ExistsBijection(1..N, Node)
    BY <1>1, FS_CardinalityType
  <2>2. PICK f \in Bijection(1..N, Node) : TRUE
    BY <2>1 DEF ExistsBijection
  <2>3. QED BY <2>2 DEF Bijection, Injection, IsInjective
<1>3. Nodes \in [1..N -> Node] /\ Seqs!IsInjective(Nodes)
  <2>1. \E g \in [1..N -> Node] : Seqs!IsInjective(g)
    BY <1>2 DEF Seqs!IsInjective
  <2>2. Nodes = CHOOSE g \in [1..N -> Node] : Seqs!IsInjective(g)
    BY DEF Nodes, Seqs!SetToSeq, Seqs!Cardinality, Cardinality
  <2>3. QED BY <2>1, <2>2
<1>4. Nodes \in Injection(1..N, Node)
  <2>1. IsInjective(Nodes)
    BY <1>3 DEF IsInjective, Seqs!IsInjective
  <2>2. QED BY <1>3, <2>1 DEF Injection
<1>5. Cardinality(1..N) = N /\ IsFiniteSet(1..N)
  BY <1>1, FS_Interval
<1>6. Nodes \in Surjection(1..N, Node)
  <2> HIDE DEF N
  <2> QED BY <1>1, <1>4, <1>5, FS_Injection DEF N
<1>7. QED BY <1>1, <1>3, <1>6 DEF Surjection

\* The fold relates what a path relates, and no more than it has to.
LEMMA ClosureFacts ==
  \A r \in SUBSET Pairs :
    /\ Closure(r) \in SUBSET Pairs
    /\ r \subseteq Closure(r)
    /\ Transitive(Closure(r))
    /\ \A t : Transitive(t) /\ r \subseteq t => Closure(r) \subseteq t
<1> SUFFICES ASSUME NEW r \in SUBSET Pairs
             PROVE  /\ Closure(r) \in SUBSET Pairs
                    /\ r \subseteq Closure(r)
                    /\ Transitive(Closure(r))
                    /\ \A t : Transitive(t) /\ r \subseteq t => Closure(r) \subseteq t
  OBVIOUS
<1> DEFINE N == Cardinality(Node)
<1>1. N \in Nat /\ DOMAIN Nodes = 1..N
  BY NodesFacts
<1>2. Closing!Fold(0, r, Nodes) = Closure(r)
  BY DEF Closure, Closing!Fold, Closing!FoldLeft, Closing!MapThenFoldSet, Closing!Max, Seqs!FoldLeft,
         Seqs!MapThenFoldSet, Seqs!Max, ThroughNode
<1>3. PICK f : Closing!Table(f, 0, r, Nodes, N) /\ f[N] = Closure(r)
  <2> HIDE DEF N
  <2> QED BY <1>1, <1>2, Closing!FoldTable
<1>4. f[0] = r /\ \A k \in 1..N : f[k] = Through(f[k - 1], Nodes[k])
  BY <1>3 DEF Closing!Table, ThroughNode
<1> HIDE DEF N
<1> DEFINE Good(k) ==
             /\ f[k] \in SUBSET Pairs /\ r \subseteq f[k]
             /\ \A i \in 1..k : Joins(f[k], Nodes[i])
             /\ \A t : Transitive(t) /\ r \subseteq t => f[k] \subseteq t
           S == {k \in Nat : k <= N => Good(k)}
<1>5. 0 \in S
  BY <1>4
<1>6. ASSUME NEW k \in Nat, k \in S PROVE k + 1 \in S
  <2>1. SUFFICES ASSUME k + 1 <= N PROVE Good(k + 1)
    OBVIOUS
  <2>2. k <= N /\ k + 1 \in 1..N /\ (k + 1) - 1 = k /\ \A i \in 1..(k + 1) : i = k + 1 \/ i \in 1..k
    BY <1>1, <2>1
  <2>3. Good(k) /\ f[k + 1] = Through(f[k], Nodes[k + 1])
    BY <1>4, <1>6, <2>2
  <2>4. /\ f[k + 1] \in SUBSET Pairs /\ f[k] \subseteq f[k + 1]
        /\ Joins(f[k + 1], Nodes[k + 1])
        /\ \A m : Joins(f[k], m) => Joins(f[k + 1], m)
        /\ \A t : Transitive(t) /\ f[k] \subseteq t => f[k + 1] \subseteq t
    <3>1. f[k] \in SUBSET Pairs
      BY <2>3
    <3>2. Related(f[k], Nodes[k + 1], Through(f[k], Nodes[k + 1]))
      BY ONLY <3>1, ThroughFacts
    <3>3. QED BY ONLY <2>3, <3>2 DEF Related
  <2>5. QED BY <2>2, <2>3, <2>4
<1>7. N \in S
  <2>1. Nat \subseteq S
    <3> HIDE DEF S
    <3> QED BY <1>5, <1>6, Closing!Induction
  <2>2. QED BY <1>1, <2>1
<1>8. Good(N)
  BY <1>1, <1>7
<1>9. Transitive(f[N])
  <2> SUFFICES ASSUME NEW e \in f[N], NEW g \in f[N], e[2] = g[1]
               PROVE  <<e[1], g[2]>> \in f[N]
    BY DEF Transitive
  <2>1. e[2] \in Node
    BY <1>8 DEF Pairs
  <2>2. PICK i \in 1..N : Nodes[i] = e[2]
    BY <2>1, NodesFacts DEF N
  <2>3. QED BY <1>8, <2>2 DEF Joins
<1>10. QED BY <1>3, <1>8, <1>9

-----------------------------------------------------------------------------
(* Sorting                                                                 *)

\* The orders of a finite set hold each of its members once.
LEMMA OrdersHoldAll ==
  ASSUME NEW S, IsFiniteSet(S), NEW s \in Seqs!SetToSeqs(S)
  PROVE  /\ s \in Seq(S) /\ Seqs!ToSet(s) = S
         /\ \A i, j \in 1..Len(s) : s[i] = s[j] => i = j
<1> DEFINE N == Cardinality(S)
<1>1. N \in Nat
  BY FS_CardinalityType
<1>2. s \in [1..N -> S] /\ \A i, j \in 1..N : i # j => s[i] # s[j]
  BY DEF Seqs!SetToSeqs, Seqs!Cardinality, Cardinality
<1> HIDE DEF N
<1>3. s \in Seq(S) /\ DOMAIN s = 1..N /\ Len(s) = N
  BY <1>1, <1>2
<1>4. s \in Injection(1..N, S)
  BY <1>2 DEF Injection, IsInjective
<1>5. Cardinality(1..N) = N /\ IsFiniteSet(1..N)
  BY <1>1, FS_Interval
<1>6. s \in Surjection(1..N, S)
  BY <1>1, <1>4, <1>5, FS_Injection DEF N
<1>7. \A x \in S : \E i \in 1..N : s[i] = x
  BY <1>6 DEF Surjection
<1>8. Seqs!ToSet(s) = S
  BY <1>2, <1>3, <1>7 DEF Seqs!ToSet
<1>9. QED BY <1>2, <1>3, <1>8

\* The jobs executed and those that may be executed next; the dependencies on
\* jobs that are still to be executed.
Done == {executed[i] : i \in 1..Len(executed)}
Waiting == {queue[i] : i \in 1..Len(queue)}
OpenEdges(l) == {e \in plan.edges : e[2] = l /\ e[1] \notin Done}

\* The plan is a graph of delayables.
PlanOK == /\ plan.vertices \subseteq Leaf
          /\ plan.edges \subseteq plan.vertices \X plan.vertices

\* A job was executed once, after those it depends on; a queued one depends on
\* executed ones only, and all others on one that is not; left counts these.
Sorted ==
  /\ \A i, k \in 1..Len(executed) : executed[i] = executed[k] => i = k
  /\ \A i \in 1..Len(executed) : \A p \in Leaf :
       <<p, executed[i]>> \in plan.edges => \E k \in 1..(i - 1) : executed[k] = p
QueuedRightly ==
  /\ \A i, k \in 1..Len(queue) : queue[i] = queue[k] => i = k
  /\ Done \cap Waiting = {}
  /\ \A v \in Waiting : OpenEdges(v) = {}
Counts == \A l \in Leaf : left[l] = Cardinality(OpenEdges(l))
OthersWait == \A v \in plan.vertices \ (Done \cup Waiting) : OpenEdges(v) # {}

\* delay() was called, and the sort is under way or done.
Sorting ==
  /\ top # NoNode
  /\ queue \in Seq(plan.vertices) /\ executed \in Seq(plan.vertices)
  /\ Sorted /\ QueuedRightly /\ Counts /\ OthersWait

\* The inductive invariant of the sort.
SortInv == PlanOK /\ ((queue = <<>> /\ executed = <<>>) \/ Sorting)

LEMMA LeafFinite == IsFiniteSet(Leaf) /\ IsFiniteSet(Node) /\ Leaf \subseteq Node
BY GraphAssumption, FS_Subset DEF Node

LEMMA OpenFinite ==
  ASSUME PlanOK, NEW l
  PROVE  /\ IsFiniteSet(OpenEdges(l))
         /\ \A e \in OpenEdges(l) : e \in plan.edges /\ e = <<e[1], l>>
                                    /\ e[1] \in plan.vertices /\ e[1] \notin Done
         /\ \A p : <<p, l>> \in plan.edges /\ p \notin Done => <<p, l>> \in OpenEdges(l)
<1>1. IsFiniteSet(plan.vertices)
  BY LeafFinite, FS_Subset DEF PlanOK
<1>2. IsFiniteSet(plan.vertices \X plan.vertices)
  BY <1>1, FS_Product
<1>3. IsFiniteSet(plan.edges) /\ OpenEdges(l) \subseteq plan.edges
  BY <1>2, FS_Subset DEF PlanOK, OpenEdges
<1>4. IsFiniteSet(OpenEdges(l))
  BY <1>3, FS_Subset
<1>5. \A e \in OpenEdges(l) : e \in plan.edges /\ e = <<e[1], l>>
                              /\ e[1] \in plan.vertices /\ e[1] \notin Done
  BY DEF OpenEdges, PlanOK
<1>6. ASSUME NEW p, <<p, l>> \in plan.edges, p \notin Done PROVE <<p, l>> \in OpenEdges(l)
  <2>1. <<p, l>>[1] = p /\ <<p, l>>[2] = l
    OBVIOUS
  <2>2. QED BY <1>6, <2>1 DEF OpenEdges
<1>7. QED BY <1>4, <1>5, <1>6

\* The queue begins with what nothing comes before.
LEMMA SortBegins ==
  ASSUME top = NoNode, NEW t \in Node, ExecuteDirect(t), PlanOK', executed = <<>>
  PROVE  SortInv'
<1>1. /\ top' = t /\ executed' = <<>> /\ Done' = {}
      /\ left' = [l \in Leaf |-> Cardinality({e \in plan'.edges : e[2] = l})]
  BY DEF ExecuteDirect, Done
<1> DEFINE roots == {v \in plan'.vertices : \A e \in plan'.edges : e[2] # v}
<1>2. queue' \in Seqs!SetToSeqs(roots)
  BY DEF ExecuteDirect
<1>3. IsFiniteSet(roots) /\ roots \subseteq plan'.vertices
  BY LeafFinite, FS_Subset DEF PlanOK
<1> HIDE DEF roots
<1>4. /\ queue' \in Seq(roots) /\ Seqs!ToSet(queue') = roots
      /\ \A i, j \in 1..Len(queue') : queue'[i] = queue'[j] => i = j
  BY <1>2, <1>3, OrdersHoldAll
<1>5. Waiting' = roots
  BY <1>4 DEF Seqs!ToSet, Waiting
<1>6. \A l : (OpenEdges(l))' = {e \in plan'.edges : e[2] = l}
  BY <1>1 DEF OpenEdges
<1>7. queue' \in Seq(plan'.vertices) /\ executed' \in Seq(plan'.vertices)
  BY <1>1, <1>3, <1>4
<1>8. Sorted'
  BY <1>1 DEF Sorted
<1>9. QueuedRightly'
  <2>1. \A v \in roots : (OpenEdges(v))' = {}
    BY <1>6 DEF roots
  <2>2. QED BY <1>1, <1>4, <1>5, <2>1 DEF QueuedRightly
<1>10. Counts'
  BY <1>1, <1>6 DEF Counts
<1>11. OthersWait'
  <2>1. \A v \in plan'.vertices \ roots : (OpenEdges(v))' # {}
    BY <1>6 DEF roots
  <2>2. QED BY <1>1, <1>5, <2>1 DEF OthersWait
<1>12. top' # NoNode
  BY <1>1, GraphAssumption
<1>13. QED BY <1>7, <1>8, <1>9, <1>10, <1>11, <1>12 DEF SortInv, Sorting

\* Each iteration of topological_sort keeps the invariant.
LEMMA SortGoesOn ==
  ASSUME SortInv, Execute
  PROVE  SortInv'
<1>1. PlanOK /\ Sorting /\ queue # <<>>
  BY DEF Execute, SortInv
<1> DEFINE v == Head(queue)
           next == {l \in Leaf : <<v, l>> \in plan.edges}
           new == {l \in next : left[l] = 1}
           V == plan.vertices
<1>2. /\ executed' = Append(executed, v)
      /\ left' = [l \in Leaf |-> IF l \in next THEN left[l] - 1 ELSE left[l]]
      /\ plan' = plan /\ top' = top
  BY DEF Execute
<1>3. PICK s \in Seqs!SetToSeqs(new) : queue' = Tail(queue) \o s
  BY DEF Execute
<1>4. queue \in Seq(V) /\ executed \in Seq(V) /\ V \subseteq Leaf
  BY <1>1 DEF Sorting, PlanOK
<1>5. /\ v \in V /\ v \in Waiting /\ v \in Leaf /\ v = queue[1]
      /\ Len(queue) \in Nat /\ Len(queue) >= 1
  BY <1>1, <1>4 DEF Waiting
<1>6. /\ v \notin Done /\ OpenEdges(v) = {}
  BY <1>1, <1>5 DEF Sorting, QueuedRightly
<1> HIDE DEF v
<1>7. new \subseteq V /\ IsFiniteSet(new)
  <2>1. ASSUME NEW l \in new PROVE l \in V
    <3>1. <<v, l>> \in V \X V
      BY <1>1, <2>1 DEF PlanOK
    <3>2. QED BY <3>1
  <2>2. new \subseteq Leaf
    OBVIOUS
  <2>3. IsFiniteSet(new)
    BY <2>2, LeafFinite, FS_Subset
  <2>4. QED BY <2>1, <2>3
<1>8. /\ s \in Seq(new) /\ Seqs!ToSet(s) = new
      /\ \A i, j \in 1..Len(s) : s[i] = s[j] => i = j
  <2> HIDE DEF new
  <2> QED BY <1>3, <1>7, OrdersHoldAll
<1>9. executed' \in Seq(V) /\ Len(executed') = Len(executed) + 1
      /\ (\A i \in 1..Len(executed) : executed'[i] = executed[i])
      /\ executed'[Len(executed) + 1] = v
  <2>1. executed' = Append(executed, v) /\ executed \in Seq(V) /\ v \in V
    BY <1>2, <1>4, <1>5
  <2>2. Append(executed, v) \in Seq(V) /\ Len(Append(executed, v)) = Len(executed) + 1
    BY ONLY <2>1
  <2>3. /\ \A i \in 1..Len(executed) : Append(executed, v)[i] = executed[i]
        /\ Append(executed, v)[Len(executed) + 1] = v
    BY ONLY <2>1
  <2>4. QED BY ONLY <2>1, <2>2, <2>3
<1>10. Done' = Done \cup {v}
  <2>1. Len(executed) \in Nat
    BY <1>4
  <2>2. Done' = {executed'[i] : i \in 1..(Len(executed) + 1)}
    BY <1>9 DEF Done
  <2>3. 1..(Len(executed) + 1) = (1..Len(executed)) \cup {Len(executed) + 1}
    BY <2>1
  <2>4. QED BY <1>9, <2>2, <2>3 DEF Done
<1>11. \A l : (OpenEdges(l))' = OpenEdges(l) \ {<<v, l>>}
  <2> TAKE l
  <2>1. (OpenEdges(l))' = {e \in plan.edges : e[2] = l /\ e[1] \notin Done \cup {v}}
    BY <1>2, <1>10 DEF OpenEdges
  <2>2. \A e \in plan.edges : e = <<e[1], e[2]>>
    BY <1>1 DEF PlanOK
  <2>3. <<v, l>>[1] = v /\ <<v, l>>[2] = l
    OBVIOUS
  <2>4. QED BY <2>1, <2>2, <2>3 DEF OpenEdges
<1>12. \A l \in Leaf : left[l] = Cardinality(OpenEdges(l))
  BY <1>1 DEF Sorting, Counts
<1>13. ASSUME NEW l \in next
       PROVE  /\ <<v, l>> \in OpenEdges(l) /\ l \in Leaf /\ left[l] \in Nat
              /\ Cardinality((OpenEdges(l))') = left[l] - 1
              /\ IsFiniteSet((OpenEdges(l))')
              /\ l \notin Done /\ l \notin Waiting /\ l # v
  <2>1. <<v, l>> \in OpenEdges(l) /\ l \in Leaf
    BY <1>1, <1>6, OpenFinite
  <2>2. IsFiniteSet(OpenEdges(l))
    BY <1>1, OpenFinite
  <2>3. /\ IsFiniteSet(OpenEdges(l) \ {<<v, l>>})
        /\ Cardinality(OpenEdges(l) \ {<<v, l>>}) = Cardinality(OpenEdges(l)) - 1
    BY <2>1, <2>2, FS_RemoveElement
  <2>4. left[l] \in Nat
    BY <1>12, <2>1, <2>2, FS_CardinalityType
  <2>5. l \notin Waiting
    BY <1>1, <2>1 DEF Sorting, QueuedRightly
  <2>6. l \notin Done
    <3>1. SUFFICES ASSUME NEW i \in 1..Len(executed), l = executed[i] PROVE FALSE
      BY DEF Done
    <3>2. PICK k \in 1..(i - 1) : executed[k] = v
      BY <1>1, <1>5, <3>1 DEF Sorting, Sorted
    <3>3. k \in 1..Len(executed)
      BY <1>4, <3>2
    <3>4. QED BY <1>6, <3>2, <3>3 DEF Done
  <2>7. QED BY <1>5, <1>11, <1>12, <2>1, <2>3, <2>4, <2>5, <2>6
<1>14. ASSUME NEW l \in Leaf, l \notin next
       PROVE  (OpenEdges(l))' = OpenEdges(l)
  <2>1. <<v, l>> \notin OpenEdges(l)
    BY <1>14 DEF OpenEdges
  <2>2. QED BY <1>11, <2>1
<1>15. Counts'
  <2>1. ASSUME NEW l \in Leaf PROVE left'[l] = Cardinality((OpenEdges(l))')
    <3>1. CASE l \in next
      BY <1>2, <1>13, <3>1
    <3>2. CASE l \notin next
      BY <1>2, <1>12, <1>14, <3>2
    <3>3. QED BY <3>1, <3>2
  <2>2. QED BY <2>1 DEF Counts
<1>16. \A l \in new : (OpenEdges(l))' = {}
  <2> TAKE l \in new
  <2>1. l \in next /\ left[l] = 1
    OBVIOUS
  <2>2. Cardinality((OpenEdges(l))') = 0 /\ IsFiniteSet((OpenEdges(l))')
    BY <1>13, <2>1
  <2>3. QED BY <2>2, FS_EmptySet
<1>17. \A l \in next \ new : (OpenEdges(l))' # {}
  <2> TAKE l \in next \ new
  <2>1. l \in next /\ left[l] # 1
    OBVIOUS
  <2>2. Cardinality((OpenEdges(l))') # 0
    BY <1>13, <2>1
  <2>3. QED BY <2>2, FS_EmptySet
<1>18. Waiting' = (Waiting \ {v}) \cup new
       /\ queue' \in Seq(V)
       /\ \A i, k \in 1..Len(queue') : queue'[i] = queue'[k] => i = k
  <2> DEFINE q == Tail(queue)
  <2>1. \A i, k \in 1..Len(queue) : queue[i] = queue[k] => i = k
    BY <1>1 DEF Sorting, QueuedRightly
  <2>2. /\ q \in Seq(V) /\ Len(q) = Len(queue) - 1 /\ Len(q) \in Nat
        /\ \A i \in 1..Len(q) : q[i] = queue[i + 1] /\ i + 1 \in 1..Len(queue)
    BY <1>1, <1>4, <1>5
  <2> HIDE DEF q
  <2>3. s \in Seq(V) /\ Len(s) \in Nat
    <3>1. s \in Seq(new)
      BY <1>8
    <3> HIDE DEF new
    <3>2. QED BY <1>7, <3>1
  <2>4. queue' = q \o s
    BY <1>3 DEF q
  <2>5. /\ q \o s \in Seq(V) /\ Len(q \o s) = Len(q) + Len(s)
        /\ \A i \in 1..(Len(q) + Len(s)) :
             (q \o s)[i] = IF i <= Len(q) THEN q[i] ELSE s[i - Len(q)]
    <3>1. q \in Seq(V) /\ s \in Seq(V)
      BY <2>2, <2>3
    <3>2. q \o s \in Seq(V) /\ Len(q \o s) = Len(q) + Len(s)
      BY ONLY <3>1
    <3>3. \A i \in 1..(Len(q) + Len(s)) :
             (q \o s)[i] = IF i <= Len(q) THEN q[i] ELSE s[i - Len(q)]
      BY ONLY <3>1
    <3>4. QED BY <3>2, <3>3
  <2>6. \A i \in 1..Len(q) : q[i] \in Waiting \ {v}
    <3> TAKE i \in 1..Len(q)
    <3>1. q[i] = queue[i + 1] /\ i + 1 \in 1..Len(queue) /\ i + 1 # 1 /\ 1 \in 1..Len(queue)
      BY <1>5, <2>2
    <3>2. q[i] # queue[1]
      BY <2>1, <3>1
    <3>3. QED BY <1>5, <3>1, <3>2 DEF Waiting
  <2>7. \A w \in Waiting \ {v} : \E i \in 1..Len(q) : q[i] = w
    <3> TAKE w \in Waiting \ {v}
    <3>1. PICK j \in 1..Len(queue) : queue[j] = w
      BY DEF Waiting
    <3>2. j # 1 /\ j - 1 \in 1..Len(q) /\ (j - 1) + 1 = j
      BY <1>5, <2>2, <3>1
    <3>3. QED BY <2>2, <3>1, <3>2
  <2>8. /\ \A i \in 1..Len(s) : s[i] \in new
        /\ \A l \in new : \E i \in 1..Len(s) : s[i] = l
    <3>1. s \in Seq(new) /\ new = {s[i] : i \in DOMAIN s} /\ DOMAIN s = 1..Len(s)
      BY <1>8 DEF Seqs!ToSet
    <3> HIDE DEF new
    <3>2. QED BY <3>1
  <2>9. \A l \in new : l \notin Waiting
    BY <1>13
  <2> HIDE DEF new
  <2>10. Waiting' = (Waiting \ {v}) \cup new
    <3>1. Waiting' = {(q \o s)[i] : i \in 1..(Len(q) + Len(s))}
      BY <2>4, <2>5 DEF Waiting
    <3>2. ASSUME NEW i \in 1..(Len(q) + Len(s)) PROVE (q \o s)[i] \in (Waiting \ {v}) \cup new
      <4>1. CASE i <= Len(q)
        <5>1. i \in 1..Len(q)
          BY <2>2, <2>3, <4>1
        <5>2. QED BY <2>5, <2>6, <4>1, <5>1
      <4>2. CASE ~(i <= Len(q))
        <5>1. i - Len(q) \in 1..Len(s)
          BY <2>2, <2>3, <4>2
        <5>2. QED BY <2>5, <2>8, <4>2, <5>1
      <4>3. QED BY <4>1, <4>2
    <3>3. ASSUME NEW w \in Waiting \ {v}
          PROVE  \E i \in 1..(Len(q) + Len(s)) : (q \o s)[i] = w
      <4>1. PICK i \in 1..Len(q) : q[i] = w
        BY <2>7
      <4>2. i \in 1..(Len(q) + Len(s)) /\ i <= Len(q)
        BY <2>2, <2>3
      <4>3. QED BY <2>5, <4>1, <4>2
    <3>4. ASSUME NEW w \in new
          PROVE  \E i \in 1..(Len(q) + Len(s)) : (q \o s)[i] = w
      <4>1. PICK i \in 1..Len(s) : s[i] = w
        BY <2>8
      <4>2. i + Len(q) \in 1..(Len(q) + Len(s)) /\ ~(i + Len(q) <= Len(q))
            /\ (i + Len(q)) - Len(q) = i
        BY <2>2, <2>3
      <4>3. (q \o s)[i + Len(q)] = s[i]
        BY <2>5, <4>2
      <4>4. QED BY <4>1, <4>2, <4>3
    <3>5. QED BY <3>1, <3>2, <3>3, <3>4
  <2>11. ASSUME NEW i \in 1..(Len(q) + Len(s)), NEW k \in 1..(Len(q) + Len(s)),
                (q \o s)[i] = (q \o s)[k]
         PROVE  i = k
    <3>1. CASE i <= Len(q) /\ k <= Len(q)
      <4>1. i \in 1..Len(q) /\ k \in 1..Len(q) /\ q[i] = q[k]
        BY <2>2, <2>3, <2>5, <2>11, <3>1
      <4>2. i + 1 = k + 1
        BY <2>1, <2>2, <4>1
      <4>3. QED BY <4>1, <4>2
    <3>2. CASE ~(i <= Len(q)) /\ ~(k <= Len(q))
      <4>1. i - Len(q) \in 1..Len(s) /\ k - Len(q) \in 1..Len(s)
            /\ s[i - Len(q)] = s[k - Len(q)]
        BY <2>2, <2>3, <2>5, <2>11, <3>2
      <4>2. i - Len(q) = k - Len(q)
        BY <1>8, <4>1
      <4>3. QED BY <2>2, <4>2
    <3>3. ASSUME NEW a \in 1..(Len(q) + Len(s)), NEW b \in 1..(Len(q) + Len(s)),
                 a <= Len(q), ~(b <= Len(q))
          PROVE  (q \o s)[a] # (q \o s)[b]
      <4>1. a \in 1..Len(q) /\ b - Len(q) \in 1..Len(s)
        BY <2>2, <2>3, <3>3
      <4>2. (q \o s)[a] = q[a] /\ (q \o s)[b] = s[b - Len(q)]
        BY <2>5, <3>3
      <4>3. QED BY <2>6, <2>8, <2>9, <4>1, <4>2
    <3>4. QED BY <2>11, <3>1, <3>2, <3>3
  <2>12. QED BY <2>4, <2>5, <2>10, <2>11
<1>19. QueuedRightly'
  <2>1. Done' \cap Waiting' = {}
    <3>1. Done \cap Waiting = {}
      BY <1>1 DEF Sorting, QueuedRightly
    <3>2. \A l \in new : l \notin Done /\ l # v
      BY <1>13
    <3> HIDE DEF new
    <3>3. QED BY <1>10, <1>18, <3>1, <3>2
  <2>2. ASSUME NEW w \in Waiting' PROVE (OpenEdges(w))' = {}
    <3>1. CASE w \in new
      BY <1>16, <3>1
    <3>2. CASE w \in Waiting
      <4>1. OpenEdges(w) = {}
        BY <1>1, <3>2 DEF Sorting, QueuedRightly
      <4>2. QED BY <1>11, <4>1
    <3> HIDE DEF new
    <3>3. QED BY <1>18, <2>2, <3>1, <3>2
  <2>3. QED BY <1>18, <2>1, <2>2 DEF QueuedRightly
<1>20. OthersWait'
  <2>1. ASSUME NEW w \in V, w \notin Done', w \notin Waiting' PROVE (OpenEdges(w))' # {}
    <3>1. w \notin Done /\ w # v /\ w \notin new /\ w \notin Waiting /\ w \in Leaf
      <4> HIDE DEF new
      <4> QED BY <1>4, <1>10, <1>18, <2>1
    <3>2. CASE w \in next
      BY <1>17, <3>1, <3>2
    <3>3. CASE w \notin next
      <4>1. OpenEdges(w) # {}
        BY <1>1, <2>1, <3>1 DEF Sorting, OthersWait
      <4>2. (OpenEdges(w))' = OpenEdges(w)
        BY <1>14, <3>1, <3>3
      <4>3. QED BY <4>1, <4>2
    <3>4. QED BY <3>2, <3>3
  <2>2. QED BY <1>2, <2>1 DEF OthersWait
<1>21. Sorted'
  <2>1. Len(executed) \in Nat /\ Len(executed') = Len(executed) + 1
    BY <1>4, <1>9
  <2>2. \A i \in 1..Len(executed') : i \in 1..Len(executed) \/ i = Len(executed) + 1
    BY <2>1
  <2>3. \A i \in 1..Len(executed) : executed'[i] # v
    BY <1>6, <1>9 DEF Done
  <2>4. \A i, k \in 1..Len(executed') : executed'[i] = executed'[k] => i = k
    <3>1. \A i, k \in 1..Len(executed) : executed[i] = executed[k] => i = k
      BY <1>1 DEF Sorting, Sorted
    <3>2. QED BY <1>9, <2>2, <2>3, <3>1
  <2>5. ASSUME NEW i \in 1..Len(executed'), NEW p \in Leaf, <<p, executed'[i]>> \in plan.edges
        PROVE  \E k \in 1..(i - 1) : executed'[k] = p
    <3>1. CASE i \in 1..Len(executed)
      <4>1. PICK k \in 1..(i - 1) : executed[k] = p
        BY <1>1, <1>9, <2>5, <3>1 DEF Sorting, Sorted
      <4>2. k \in 1..Len(executed)
        BY <2>1, <3>1, <4>1
      <4>3. QED BY <1>9, <4>1, <4>2
    <3>2. CASE i = Len(executed) + 1
      <4>1. <<p, v>> \in plan.edges
        BY <1>9, <2>5, <3>2
      <4>2. p \in Done
        <5>1. <<p, v>> \notin OpenEdges(v)
          BY <1>6
        <5>2. QED BY <1>1, <4>1, <5>1, OpenFinite
      <4>3. PICK k \in 1..Len(executed) : executed[k] = p
        BY <4>2 DEF Done
      <4>4. k \in 1..(i - 1)
        BY <2>1, <3>2
      <4>5. QED BY <1>9, <4>3, <4>4
    <3>3. QED BY <2>2, <3>1, <3>2
  <2>6. QED BY <1>2, <2>4, <2>5 DEF Sorted
<1>22. top' # NoNode /\ PlanOK'
  BY <1>1, <1>2 DEF Sorting, PlanOK
<1>23. queue' \in Seq(plan'.vertices) /\ executed' \in Seq(plan'.vertices)
  BY <1>2, <1>9, <1>18
<1>24. QED BY <1>15, <1>19, <1>20, <1>21, <1>22, <1>23 DEF SortInv, Sorting

\* A set of finite sets that is not empty has a smallest member.
LEMMA SmallestOf ==
  ASSUME NEW W, W # {}, NEW f, \A w \in W : IsFiniteSet(f[w])
  PROVE  \E w \in W : \A u \in W : ~(Cardinality(f[u]) < Cardinality(f[w]))
<1> DEFINE less == OpToRel(<, Nat)
           U == {Cardinality(f[w]) : w \in W}
<1>1. \A w \in W : Cardinality(f[w]) \in Nat
  BY FS_CardinalityType
<1>2. IsWellFoundedOn(less, Nat) /\ U \subseteq Nat /\ U # {}
  BY <1>1, NatLessThanWellFounded
<1>3. PICK x \in U : \A y \in U : <<y, x>> \notin less
  <2> HIDE DEF less, U
  <2> QED BY <1>2, WFMin, Zenon
<1>4. PICK w \in W : x = Cardinality(f[w])
  BY <1>3
<1>5. ASSUME NEW u \in W PROVE ~(Cardinality(f[u]) < Cardinality(f[w]))
  <2>1. Cardinality(f[u]) \in U /\ Cardinality(f[u]) \in Nat /\ Cardinality(f[w]) \in Nat
    BY <1>1
  <2>2. <<Cardinality(f[u]), Cardinality(f[w])>> \notin less
    BY <1>3, <1>4, <2>1
  <2>3. QED BY <2>1, <2>2 DEF OpToRel
<1>6. QED BY <1>5

\* What a job depends on, directly or not.
Before == Closure(plan.edges)

LEMMA BeforeFacts ==
  ASSUME PlanOK
  PROVE  /\ plan.edges \subseteq Before /\ Transitive(Before)
         /\ \A t : Transitive(t) /\ plan.edges \subseteq t => Before \subseteq t
<1>1. plan.edges \in SUBSET Pairs
  BY LeafFinite DEF PlanOK, Pairs
<1>2. QED BY <1>1, ClosureFacts DEF Before

\* What was executed has only executed jobs before it, and came after them.
LEMMA ExecutedIsNotStuck ==
  ASSUME SortInv, Sorting, NEW l \in Leaf, l \in Done
  PROVE  l \notin Stuck
<1> DEFINE Earlier(a, b) == \E i \in 1..Len(executed) : \E k \in 1..(i - 1) :
                              executed[i] = b /\ executed[k] = a
           T == {e \in Leaf \X Leaf : e[2] \in Done => Earlier(e[1], e[2])}
<1>0. PlanOK /\ Len(executed) \in Nat
      /\ \A i, k \in 1..Len(executed) : executed[i] = executed[k] => i = k
  BY DEF SortInv, Sorting, Sorted
<1>1. \A a, b : Earlier(a, b) => a \in Done /\ b \in Done
  <2> TAKE a, b
  <2> HAVE Earlier(a, b)
  <2>1. PICK i \in 1..Len(executed) : \E k \in 1..(i - 1) : executed[i] = b /\ executed[k] = a
    OBVIOUS
  <2>2. PICK k \in 1..(i - 1) : executed[i] = b /\ executed[k] = a
    BY <2>1
  <2>3. k \in 1..Len(executed)
    BY <1>0, <2>2
  <2>4. QED BY <2>2, <2>3 DEF Done
<1>2. \A a, b, c : Earlier(a, b) /\ Earlier(b, c) => Earlier(a, c)
  <2> TAKE a, b, c
  <2> HAVE Earlier(a, b) /\ Earlier(b, c)
  <2>1. PICK i \in 1..Len(executed) : \E k \in 1..(i - 1) : executed[i] = b /\ executed[k] = a
    OBVIOUS
  <2>2. PICK j \in 1..Len(executed) : \E m \in 1..(j - 1) : executed[j] = c /\ executed[m] = b
    OBVIOUS
  <2>3. PICK k \in 1..(i - 1) : executed[i] = b /\ executed[k] = a
    BY <2>1
  <2>4. PICK m \in 1..(j - 1) : executed[j] = c /\ executed[m] = b
    BY <2>2
  <2>5. m \in 1..Len(executed)
    BY <1>0, <2>4
  <2>6. m = i
    BY <1>0, <2>3, <2>4, <2>5
  <2>7. k \in 1..(j - 1)
    BY <1>0, <2>3, <2>4, <2>6
  <2>8. QED BY <2>3, <2>4, <2>7
<1>3. \A a : ~Earlier(a, a)
  <2> TAKE a
  <2>1. SUFFICES ASSUME NEW i \in 1..Len(executed), NEW k \in 1..(i - 1),
                        executed[i] = a, executed[k] = a
                 PROVE  FALSE
    OBVIOUS
  <2>2. k \in 1..Len(executed) /\ k # i
    BY <1>0, <2>1
  <2>3. QED BY <1>0, <2>1, <2>2
<1>4. \A p, q \in Leaf : <<p, q>> \in plan.edges /\ q \in Done => Earlier(p, q)
  <2> TAKE p, q \in Leaf
  <2> HAVE <<p, q>> \in plan.edges /\ q \in Done
  <2>1. PICK i \in 1..Len(executed) : executed[i] = q
    BY DEF Done
  <2>2. \E k \in 1..(i - 1) : executed[k] = p
    BY <2>1 DEF Sorting, Sorted
  <2>3. QED BY <2>1, <2>2
<1> HIDE DEF Earlier
<1>5. plan.edges \subseteq T
  <2> SUFFICES ASSUME NEW e \in plan.edges PROVE e \in T
    OBVIOUS
  <2>1. e = <<e[1], e[2]>> /\ e[1] \in Leaf /\ e[2] \in Leaf
    BY <1>0 DEF PlanOK
  <2>2. e[2] \in Done => Earlier(e[1], e[2])
    BY <1>4, <2>1
  <2>3. QED BY <2>1, <2>2
<1>6. \A a, b : <<a, b>> \in T <=> a \in Leaf /\ b \in Leaf /\ (b \in Done => Earlier(a, b))
  OBVIOUS
<1>7. Transitive(T)
  <2> SUFFICES ASSUME NEW e \in T, NEW f \in T, e[2] = f[1]
               PROVE  <<e[1], f[2]>> \in T
    BY DEF Transitive
  <2>1. /\ e[1] \in Leaf /\ e[2] \in Leaf /\ f[2] \in Leaf
        /\ e[2] \in Done => Earlier(e[1], e[2])
        /\ f[2] \in Done => Earlier(e[2], f[2])
    OBVIOUS
  <2>2. f[2] \in Done => Earlier(e[1], f[2])
    BY <1>1, <1>2, <2>1
  <2> HIDE DEF T
  <2>3. QED BY <1>6, <2>1, <2>2
<1>8. Before \subseteq T
  <2> HIDE DEF T
  <2> QED BY <1>0, <1>5, <1>7, BeforeFacts
<1>9. SUFFICES ASSUME NEW c \in Leaf, <<c, c>> \in Before, c = l \/ <<c, l>> \in Before
               PROVE  FALSE
  BY DEF Stuck, Before
<1>10. c \in Done
  <2>1. <<c, l>> \in Before => Earlier(c, l)
    BY <1>6, <1>8
  <2>2. QED BY <1>1, <1>9, <2>1
<1>11. Earlier(c, c)
  BY <1>6, <1>8, <1>9, <1>10
<1>12. QED BY <1>3, <1>11

\* What was not executed when nothing is left to execute has a cycle before it:
\* everything before it that was not executed has such things before it, too.
LEMMA OthersAreStuck ==
  ASSUME SortInv, Sorting, queue = <<>>, NEW v \in plan.vertices, v \notin Done
  PROVE  v \in Stuck
<1> DEFINE U == plan.vertices \ Done
           pred == [u \in U |-> {p \in U : <<p, u>> \in Before}]
<1>1. PlanOK /\ Waiting = {} /\ U \subseteq Leaf
  BY DEF SortInv, Waiting, PlanOK
<1>2. ASSUME NEW u \in U PROVE \E p \in U : <<p, u>> \in Before
  <2>1. OpenEdges(u) # {}
    BY <1>1 DEF Sorting, OthersWait
  <2>2. PICK e \in OpenEdges(u) : TRUE
    BY <2>1
  <2>3. e \in plan.edges /\ e = <<e[1], u>> /\ e[1] \in U
    BY <1>1, OpenFinite
  <2>4. QED BY <1>1, <2>3, BeforeFacts
<1>3. \A a, b, c \in U : <<a, b>> \in Before /\ <<b, c>> \in Before => <<a, c>> \in Before
  <2> TAKE a, b, c \in U
  <2> HAVE <<a, b>> \in Before /\ <<b, c>> \in Before
  <2>1. Transitive(Before)
    BY <1>1, BeforeFacts
  <2>2. <<a, b>>[1] = a /\ <<a, b>>[2] = b /\ <<b, c>>[1] = b /\ <<b, c>>[2] = c
    OBVIOUS
  <2>3. QED BY <2>1, <2>2 DEF Transitive
<1> DEFINE W == pred[v]
<1>4. v \in U
  OBVIOUS
<1>5. W # {} /\ W \subseteq U
  BY <1>2, <1>4
<1>6. \A u \in U : IsFiniteSet(pred[u])
  <2>1. IsFiniteSet(U)
    BY <1>1, LeafFinite, FS_Subset
  <2>2. \A u \in U : pred[u] \subseteq U
    OBVIOUS
  <2> HIDE DEF pred, U
  <2>3. QED BY <2>1, <2>2, FS_Subset
<1>7. \A a, u \in U : a \in pred[u] <=> <<a, u>> \in Before
  OBVIOUS
<1>8. PICK w \in W : \A u \in W : ~(Cardinality(pred[u]) < Cardinality(pred[w]))
  <2>1. \A u \in W : IsFiniteSet(pred[u])
    BY <1>5, <1>6
  <2> HIDE DEF W, pred
  <2>2. QED BY <1>5, <2>1, SmallestOf
<1>9. PICK x \in U : <<x, w>> \in Before
  BY <1>2, <1>5
<1>10. w \in U /\ x \in pred[w] /\ x \in W /\ pred[x] \subseteq pred[w]
  <2>1. w \in U /\ <<w, v>> \in Before
    BY <1>4, <1>5, <1>7, <1>8
  <2>2. <<x, v>> \in Before
    BY <1>3, <1>4, <1>9, <2>1
  <2>3. x \in pred[w] /\ x \in W
    BY <1>4, <1>7, <1>9, <2>1, <2>2
  <2>4. \A a \in pred[x] : a \in pred[w]
    BY <1>3, <1>7, <1>9, <2>1
  <2>5. QED BY <2>1, <2>3, <2>4
<1>11. x \in pred[x]
  <2> HIDE DEF W, pred, U
  <2>1. SUFFICES ASSUME x \notin pred[x] PROVE FALSE
    OBVIOUS
  <2>2. IsFiniteSet(pred[w]) /\ pred[x] \subseteq pred[w] /\ pred[x] # pred[w]
    BY <1>6, <1>10, <2>1
  <2>3. /\ Cardinality(pred[x]) <= Cardinality(pred[w])
        /\ Cardinality(pred[x]) # Cardinality(pred[w])
        /\ Cardinality(pred[x]) \in Nat /\ Cardinality(pred[w]) \in Nat
    BY <1>6, <1>9, <2>2, FS_Subset, FS_CardinalityType
  <2>4. QED BY <1>8, <1>10, <2>3
<1>12. <<x, x>> \in Before /\ <<x, v>> \in Before /\ x \in Leaf
  BY <1>1, <1>4, <1>7, <1>10, <1>11
<1>13. QED BY <1>12 DEF Stuck, Before

\* The invariant says that the sort is right when the queue is empty.
LEMMA SortInvIsTopological ==
  ASSUME SortInv
  PROVE  SortIsTopological
<1>1. CASE queue = <<>> /\ executed = <<>>
  BY <1>1 DEF SortIsTopological
<1>2. CASE Sorting
  <2>1. executed \in Seq(plan.vertices) /\ DOMAIN executed = 1..Len(executed)
        /\ plan.vertices \subseteq Leaf
    BY <1>2 DEF Sorting, SortInv, PlanOK
  <2>2. \A i \in DOMAIN executed :
          /\ \A k \in DOMAIN executed : executed[i] = executed[k] => i = k
          /\ DependsOn(executed[i]) \subseteq {executed[k] : k \in 1..(i - 1)}
    BY <1>2, <2>1 DEF Sorting, Sorted, DependsOn
  <2>3. ASSUME queue = <<>> PROVE Seqs!ToSet(executed) = plan.vertices \ Stuck
    <3>1. Seqs!ToSet(executed) = Done /\ Done \subseteq plan.vertices
      BY <2>1 DEF Seqs!ToSet, Done
    <3>2. \A l \in Done : l \notin Stuck
      BY <1>2, <2>1, <3>1, ExecutedIsNotStuck
    <3>3. \A v \in plan.vertices : v \notin Done => v \in Stuck
      BY <1>2, <2>3, OthersAreStuck
    <3>4. QED BY <3>1, <3>2, <3>3
  <2>4. QED BY <2>2, <2>3 DEF SortIsTopological
<1>3. QED BY <1>1, <1>2 DEF SortInv

-----------------------------------------------------------------------------
(* Building                                                                *)

Kinds == {"none", "delayable", "chain", "group"}
PartsOf(n) == {parts[n][i] : i \in 1..Len(parts[n])}

BuildTypes ==
  /\ kind \in [Node -> Kinds] /\ parts \in [Node -> Seq(Node)]
  /\ graph \in [Node -> [vertices : SUBSET Node, edges : SUBSET Pairs]]
  /\ \A n \in Leaf : kind[n] = "delayable"
  /\ \A n \in Node \ Leaf : kind[n] # "delayable"

\* What something is made of was made before.
PartsAreMade ==
  /\ \A n \in Node : PartsOf(n) \subseteq Made
  /\ \A n \in Node : kind[n] \in {"none", "delayable"} => parts[n] = <<>>
  /\ \A n \in Node : kind[n] = "chain" => parts[n] # <<>>

\* The graph of a node holds its parts, and its edges join its vertices.
GraphsHold ==
  \A n \in Node : /\ PartsOf(n) \subseteq graph[n].vertices
                  /\ graph[n].edges \subseteq graph[n].vertices \X graph[n].vertices

\* Nothing is a part of itself, through any number of parts.
Founded == \A S \in SUBSET Node : S # {} => \E m \in S : PartsOf(m) \cap S = {}

\* The recursion of _head and _tail ends.
Sides == {"head", "tail"}
AreEnds(f) == f = [x \in Node \X Sides |-> EndsOf(f, x[1], x[2])]
EndsExist == \E f : AreEnds(f)

\* The inductive invariant of building.
BuildInv == BuildTypes /\ PartsAreMade /\ GraphsHold /\ Founded /\ EndsExist

LEMMA EndsAreEnds == EndsExist => AreEnds(Ends)
<1>1. Ends = CHOOSE f : AreEnds(f)
  BY DEF Ends, AreEnds, Sides
<1>2. QED BY <1>1 DEF EndsExist

LEMMA PartsFacts ==
  ASSUME BuildTypes, PartsAreMade, NEW n \in Node
  PROVE  /\ Seqs!ToSet(parts[n]) = PartsOf(n) /\ PartsOf(n) \subseteq Node
         /\ kind[n] = "chain" => /\ Head(parts[n]) \in PartsOf(n)
                                 /\ Seqs!Last(parts[n]) \in PartsOf(n)
<1>1. parts[n] \in Seq(Node) /\ DOMAIN parts[n] = 1..Len(parts[n]) /\ Len(parts[n]) \in Nat
  BY DEF BuildTypes
<1>2. Seqs!ToSet(parts[n]) = PartsOf(n) /\ PartsOf(n) \subseteq Node
  BY <1>1 DEF PartsOf, Seqs!ToSet
<1>3. ASSUME kind[n] = "chain"
      PROVE  Head(parts[n]) \in PartsOf(n) /\ Seqs!Last(parts[n]) \in PartsOf(n)
  <2>1. parts[n] # <<>>
    BY <1>3 DEF PartsAreMade
  <2>2. Len(parts[n]) # 0
    BY <1>1, <2>1
  <2>3. 1 \in 1..Len(parts[n]) /\ Len(parts[n]) \in 1..Len(parts[n])
        /\ Head(parts[n]) = parts[n][1] /\ Seqs!Last(parts[n]) = parts[n][Len(parts[n])]
    BY <1>1, <2>1, <2>2 DEF Seqs!Last
  <2>4. QED BY <2>3 DEF PartsOf
<1>4. QED BY <1>2, <1>3

\* What the ends of a node are, by its kind.
LEMMA EndsByKind ==
  ASSUME BuildInv, NEW n \in Node, NEW side \in Sides
  PROVE  LET E(m, x) == Ends[<<m, x>>] IN
         /\ kind[n] = "delayable" => E(n, side) = {n}
         /\ kind[n] = "chain" => /\ E(n, "head") = E(Head(parts[n]), "tail")
                                 /\ E(n, "tail") = E(Seqs!Last(parts[n]), "head")
         /\ kind[n] = "group" => \A x : x \in E(n, side) <=>
                                          \E p \in PartsOf(n) : x \in E(p, side)
         /\ kind[n] = "none" => E(n, side) = {}
<1>1. \A x \in Sides : Ends[<<n, x>>] = EndsOf(Ends, n, x)
  <2> TAKE x \in Sides
  <2>1. AreEnds(Ends) /\ <<n, x>> \in Node \X Sides
    BY EndsAreEnds DEF BuildInv
  <2>2. <<n, x>>[1] = n /\ <<n, x>>[2] = x
    OBVIOUS
  <2>3. QED BY <2>1, <2>2 DEF AreEnds
<1>2. "head" \in Sides /\ "tail" \in Sides /\ "head" # "tail" /\ side \in {"head", "tail"}
  BY DEF Sides
<1>3. kind[n] = "delayable" => Ends[<<n, side>>] = {n}
  BY <1>1 DEF EndsOf
<1>4. ASSUME kind[n] = "chain"
      PROVE  /\ Ends[<<n, "head">>] = Ends[<<Head(parts[n]), "tail">>]
             /\ Ends[<<n, "tail">>] = Ends[<<Seqs!Last(parts[n]), "head">>]
  BY <1>1, <1>2, <1>4 DEF EndsOf
<1>5. ASSUME kind[n] = "group"
      PROVE  Ends[<<n, side>>] = UNION {Ends[<<p, side>>] : p \in PartsOf(n)}
  <2>1. Seqs!ToSet(parts[n]) = PartsOf(n)
    BY PartsFacts DEF BuildInv
  <2>2. Ends[<<n, side>>] = UNION {Ends[<<p, side>>] : p \in Seqs!ToSet(parts[n])}
    BY <1>1, <1>5 DEF EndsOf
  <2>3. QED BY <2>1, <2>2
<1>6. kind[n] = "none" => Ends[<<n, side>>] = {}
  BY <1>1 DEF EndsOf
<1>7. kind[n] = "group" => \A x : x \in Ends[<<n, side>>] <=>
                                    \E p \in PartsOf(n) : x \in Ends[<<p, side>>]
  BY <1>5
<1>8. QED BY <1>3, <1>4, <1>6, <1>7

\* Before anything is built.
LEMMA NothingMade ==
  ASSUME GraphInit
  PROVE  BuildInv
<1>1. /\ kind = [n \in Node |-> IF n \in Leaf THEN "delayable" ELSE "none"]
      /\ parts = [n \in Node |-> <<>>]
      /\ graph = [n \in Node |-> IF n \in Leaf THEN [vertices |-> {n}, edges |-> {}]
                                 ELSE EmptyGraph]
  BY DEF GraphInit
<1>2. \A n \in Node : PartsOf(n) = {}
  BY <1>1 DEF PartsOf
<1>3. BuildTypes
  BY <1>1, LeafFinite DEF BuildTypes, Kinds, EmptyGraph
<1>4. PartsAreMade /\ GraphsHold /\ Founded
  BY <1>1, <1>2 DEF PartsAreMade, GraphsHold, Founded, EmptyGraph
<1>5. EndsExist
  <2> DEFINE f == [x \in Node \X Sides |-> IF x[1] \in Leaf THEN {x[1]} ELSE {}]
  <2>1. ASSUME NEW x \in Node \X Sides PROVE f[x] = EndsOf(f, x[1], x[2])
    <3>1. x[1] \in Node /\ kind[x[1]] = IF x[1] \in Leaf THEN "delayable" ELSE "none"
      BY <1>1
    <3>2. f[x] = IF x[1] \in Leaf THEN {x[1]} ELSE {}
      OBVIOUS
    <3> HIDE DEF f
    <3>3. QED BY <3>1, <3>2 DEF EndsOf
  <2>2. f = [x \in Node \X Sides |-> f[x]]
    OBVIOUS
  <2> HIDE DEF f
  <2>3. AreEnds(f)
    BY <2>1, <2>2 DEF AreEnds
  <2>4. QED BY <2>3 DEF EndsExist
<1>6. QED BY <1>3, <1>4, <1>5 DEF BuildInv

\* The parts and the kind of what was made before stay what they are.
LEMMA MakeKeeps ==
  ASSUME BuildInv, NEW n \in Node \ Leaf, NEW k \in {"chain", "group"}, NEW s \in Seq(Node), NEW g,
         Make(n, k, s, g), \A i \in 1..Len(s) : s[i] \in Made, k = "chain" => s # <<>>,
         g \in [vertices : SUBSET Node, edges : SUBSET Pairs],
         g.edges \subseteq g.vertices \X g.vertices, \A i \in 1..Len(s) : s[i] \in g.vertices
  PROVE  BuildInv'
<1>1. /\ kind[n] = "none" /\ kind' = [kind EXCEPT ![n] = k]
      /\ parts' = [parts EXCEPT ![n] = s] /\ graph' = [graph EXCEPT ![n] = g]
  BY DEF Make
<1>2. BuildTypes /\ PartsAreMade /\ GraphsHold /\ Founded
  BY DEF BuildInv
<1>3. /\ kind'[n] = k /\ parts'[n] = s /\ graph'[n] = g
      /\ \A m \in Node : m # n => kind'[m] = kind[m] /\ parts'[m] = parts[m] /\ graph'[m] = graph[m]
  BY <1>1, <1>2 DEF BuildTypes
<1>4. BuildTypes'
  <2>1. kind' \in [Node -> Kinds] /\ parts' \in [Node -> Seq(Node)]
        /\ graph' \in [Node -> [vertices : SUBSET Node, edges : SUBSET Pairs]]
    BY <1>1, <1>2 DEF BuildTypes, Kinds
  <2>2. \A m \in Leaf : kind'[m] = "delayable"
    BY <1>2, <1>3, LeafFinite DEF BuildTypes
  <2>3. \A m \in Node \ Leaf : kind'[m] # "delayable"
    BY <1>2, <1>3 DEF BuildTypes
  <2>4. QED BY <2>1, <2>2, <2>3 DEF BuildTypes
<1>5. Made' = Made \cup {n} /\ n \notin Made
  BY <1>1, <1>3 DEF Made
<1>6. /\ \A m \in Node : m # n => (PartsOf(m))' = PartsOf(m)
      /\ (PartsOf(n))' = {s[i] : i \in 1..Len(s)}
      /\ (PartsOf(n))' \subseteq Made
      /\ \A m \in Node : PartsOf(m) \subseteq Made
  BY <1>2, <1>3 DEF PartsOf, PartsAreMade
<1>7. PartsAreMade'
  <2>1. \A m \in Node : (PartsOf(m))' \subseteq Made'
    BY <1>5, <1>6
  <2>2. \A m \in Node : kind'[m] \in {"none", "delayable"} => parts'[m] = <<>>
    BY <1>2, <1>3 DEF PartsAreMade
  <2>3. \A m \in Node : kind'[m] = "chain" => parts'[m] # <<>>
    BY <1>2, <1>3 DEF PartsAreMade
  <2>4. QED BY <2>1, <2>2, <2>3 DEF PartsAreMade
<1>8. GraphsHold'
  <2> SUFFICES ASSUME NEW m \in Node
               PROVE  /\ (PartsOf(m))' \subseteq graph'[m].vertices
                      /\ graph'[m].edges \subseteq graph'[m].vertices \X graph'[m].vertices
    BY DEF GraphsHold
  <2>1. CASE m = n
    BY <1>3, <1>6, <2>1
  <2>2. CASE m # n
    BY <1>2, <1>3, <1>6, <2>2 DEF GraphsHold
  <2>3. QED BY <2>1, <2>2
<1>9. Founded'
  <2> SUFFICES ASSUME NEW S \in SUBSET Node, S # {}
               PROVE  \E m \in S : (PartsOf(m))' \cap S = {}
    BY DEF Founded
  <2>1. CASE S = {n}
    BY <1>5, <1>6, <2>1
  <2>2. CASE S # {n}
    <3>1. S \ {n} \in SUBSET Node /\ S \ {n} # {}
      BY <2>2
    <3>2. PICK m \in S \ {n} : PartsOf(m) \cap (S \ {n}) = {}
      BY <1>2, <3>1 DEF Founded
    <3>3. QED BY <1>5, <1>6, <3>2
  <2>3. QED BY <2>1, <2>2
<1>10. EndsExist'
  <2>1. PICK e : AreEnds(e)
    BY DEF BuildInv, EndsExist
  <2>2. PICK f : f = [x \in Node \X Sides |-> IF x[1] = n THEN (EndsOf(e, n, x[2]))' ELSE e[x]]
    OBVIOUS
  <2>3. /\ f = [x \in Node \X Sides |-> f[x]]
        /\ \A m \in Node, side \in Sides :
             f[<<m, side>>] = IF m = n THEN (EndsOf(e, n, side))' ELSE e[<<m, side>>]
    <3>1. f = [x \in Node \X Sides |-> f[x]]
      BY <2>2
    <3>2. \A m \in Node, side \in Sides :
            f[<<m, side>>] = IF m = n THEN (EndsOf(e, n, side))' ELSE e[<<m, side>>]
      <4> TAKE m \in Node, side \in Sides
      <4>1. <<m, side>> \in Node \X Sides /\ <<m, side>>[1] = m /\ <<m, side>>[2] = side
        OBVIOUS
      <4>2. QED BY <2>2, <4>1
    <3>3. QED BY <3>1, <3>2
  <2>4. \A p \in Made : p \in Node /\ \A x \in Sides : f[<<p, x>>] = e[<<p, x>>]
    BY <1>5, <2>3 DEF Made
  <2>5. "head" \in Sides /\ "tail" \in Sides
    BY DEF Sides
  <2>6. ASSUME NEW side \in Sides PROVE f[<<n, side>>] = (EndsOf(f, n, side))'
    <3>1. f[<<n, side>>] = (EndsOf(e, n, side))'
      BY <2>3
    <3>2. CASE k = "chain"
      <4>1. s # <<>> /\ Len(s) \in Nat
        BY <3>2
      <4>2. 1 \in 1..Len(s) /\ Len(s) \in 1..Len(s) /\ Head(s) = s[1] /\ Seqs!Last(s) = s[Len(s)]
        BY <4>1 DEF Seqs!Last
      <4>3. Head(s) \in Made /\ Seqs!Last(s) \in Made
        BY <4>2
      <4>4. /\ f[<<Head(s), "tail">>] = e[<<Head(s), "tail">>]
            /\ f[<<Seqs!Last(s), "head">>] = e[<<Seqs!Last(s), "head">>]
        BY <2>4, <2>5, <4>3
      <4>5. kind'[n] = "chain" /\ parts'[n] = s
        BY <1>3, <3>2
      <4>6. side = "head" \/ side = "tail"
        BY DEF Sides
      <4>7. QED BY <3>1, <4>4, <4>5, <4>6 DEF EndsOf
    <3>3. CASE k = "group"
      <4>1. \A p \in Seqs!ToSet(s) : f[<<p, side>>] = e[<<p, side>>]
        BY <2>4 DEF Seqs!ToSet
      <4>2. {f[<<p, side>>] : p \in Seqs!ToSet(s)} = {e[<<p, side>>] : p \in Seqs!ToSet(s)}
        BY <4>1
      <4>3. kind'[n] = "group" /\ parts'[n] = s
        BY <1>3, <3>3
      <4>4. QED BY <3>1, <4>2, <4>3 DEF EndsOf
    <3>4. QED BY <3>2, <3>3
  <2>7. ASSUME NEW m \in Node, m # n, NEW side \in Sides
        PROVE  f[<<m, side>>] = (EndsOf(f, m, side))'
    <3>1. f[<<m, side>>] = EndsOf(e, m, side)
      <4>1. <<m, side>> \in Node \X Sides /\ <<m, side>>[1] = m /\ <<m, side>>[2] = side
        OBVIOUS
      <4>2. e[<<m, side>>] = EndsOf(e, m, side)
        BY <2>1, <4>1 DEF AreEnds
      <4>3. QED BY <2>3, <2>7, <4>2
    <3>2. kind'[m] = kind[m] /\ parts'[m] = parts[m]
      BY <1>3, <2>7
    <3>3. CASE kind[m] = "chain"
      <4>1. Head(parts[m]) \in Made /\ Seqs!Last(parts[m]) \in Made
        BY <1>2, <1>6, <3>3, PartsFacts
      <4>2. /\ f[<<Head(parts[m]), "tail">>] = e[<<Head(parts[m]), "tail">>]
            /\ f[<<Seqs!Last(parts[m]), "head">>] = e[<<Seqs!Last(parts[m]), "head">>]
        BY <2>4, <2>5, <4>1
      <4>3. side = "head" \/ side = "tail"
        BY DEF Sides
      <4>4. QED BY <3>1, <3>2, <3>3, <4>2, <4>3 DEF EndsOf
    <3>4. CASE kind[m] = "group"
      <4>1. \A p \in Seqs!ToSet(parts[m]) : f[<<p, side>>] = e[<<p, side>>]
        BY <1>2, <1>6, <2>4, PartsFacts
      <4>2. {f[<<p, side>>] : p \in Seqs!ToSet(parts[m])}
              = {e[<<p, side>>] : p \in Seqs!ToSet(parts[m])}
        BY <4>1
      <4>3. QED BY <3>1, <3>2, <3>4, <4>2 DEF EndsOf
    <3>5. CASE kind[m] \notin {"chain", "group"}
      BY <3>1, <3>2, <3>5 DEF EndsOf
    <3>6. QED BY <3>3, <3>4, <3>5
  <2>8. ASSUME NEW x \in Node \X Sides PROVE f[x] = (EndsOf(f, x[1], x[2]))'
    <3>1. x[1] \in Node /\ x[2] \in Sides /\ x = <<x[1], x[2]>>
      OBVIOUS
    <3>2. \A m \in Node, side \in Sides : f[<<m, side>>] = (EndsOf(f, m, side))'
      BY <2>6, <2>7
    <3>3. QED BY <3>1, <3>2
  <2>9. (AreEnds(f))'
    BY <2>3, <2>8 DEF AreEnds
  <2>10. QED BY <2>9 DEF EndsExist
<1>11. QED BY <1>4, <1>7, <1>8, <1>9, <1>10 DEF BuildInv

LEMMA AddEdgesFacts ==
  ASSUME NEW g \in [vertices : SUBSET Node, edges : SUBSET Pairs], NEW es \in SUBSET Pairs,
         g.edges \subseteq g.vertices \X g.vertices
  PROVE  /\ AddEdges(g, es) \in [vertices : SUBSET Node, edges : SUBSET Pairs]
         /\ AddEdges(g, es).edges \subseteq AddEdges(g, es).vertices \X AddEdges(g, es).vertices
         /\ g.vertices \subseteq AddEdges(g, es).vertices
         /\ \A e \in es : e[1] \in AddEdges(g, es).vertices /\ e[2] \in AddEdges(g, es).vertices
<1> DEFINE h == AddEdges(g, es)
           V == g.vertices \cup {e[1] : e \in es} \cup {e[2] : e \in es}
           E == g.edges \cup es
<1>1. h.vertices = V /\ h.edges = E /\ h = [vertices |-> V, edges |-> E]
  BY DEF AddEdges
<1>2. \A e \in es : e = <<e[1], e[2]>> /\ e[1] \in Node /\ e[2] \in Node
  BY DEF Pairs
<1>3. V \subseteq Node /\ E \subseteq Pairs
  BY <1>2
<1>4. \A e \in es : e[1] \in V /\ e[2] \in V
  OBVIOUS
<1>5. E \subseteq V \X V
  BY <1>2, <1>4
<1> HIDE DEF h, V, E
<1>6. h \in [vertices : SUBSET Node, edges : SUBSET Pairs]
  BY <1>1, <1>3
<1>7. g.vertices \subseteq V
  BY DEF V
<1>8. QED BY <1>1, <1>4, <1>5, <1>6, <1>7 DEF h

\* DelayableChain(...), DelayableGroup(...) and on_done() keep the invariant.
LEMMA ChainKeeps ==
  ASSUME BuildInv, NEW n \in Composite, NEW s \in Seq(Node),
         \A i \in 1..Len(s) : s[i] \in Made, MakeChain(n, s)
  PROVE  BuildInv'
<1> DEFINE es == Consecutive(s)
           g0 == [vertices |-> {s[1]}, edges |-> {}]
           g == AddEdges(g0, es)
<1>1. s # <<>> /\ Make(n, "chain", s, g)
  BY DEF MakeChain
<1>2. Len(s) \in Nat /\ Len(s) >= 1 /\ \A i \in 1..Len(s) : s[i] \in Node
  BY <1>1
<1>3. es \in SUBSET Pairs
  <2>1. \A i \in 1..(Len(s) - 1) : i \in 1..Len(s) /\ i + 1 \in 1..Len(s)
    BY <1>2
  <2>2. QED BY <1>2, <2>1 DEF Consecutive, Pairs
<1>4. g0 \in [vertices : SUBSET Node, edges : SUBSET Pairs]
      /\ g0.edges \subseteq g0.vertices \X g0.vertices /\ s[1] \in g0.vertices
  BY <1>2
<1>5. /\ g \in [vertices : SUBSET Node, edges : SUBSET Pairs]
      /\ g.edges \subseteq g.vertices \X g.vertices
      /\ g0.vertices \subseteq g.vertices
      /\ \A e \in es : e[1] \in g.vertices /\ e[2] \in g.vertices
  <2> HIDE DEF g0, es
  <2> QED BY <1>3, <1>4, AddEdgesFacts
<1>6. \A i \in 1..Len(s) : s[i] \in g.vertices
  <2> TAKE i \in 1..Len(s)
  <2>1. CASE i = 1
    BY <1>4, <1>5, <2>1
  <2>2. CASE i # 1
    <3>1. i - 1 \in 1..(Len(s) - 1) /\ (i - 1) + 1 = i
      BY <1>2, <2>2
    <3>2. <<s[i - 1], s[i]>> \in es
      BY <3>1 DEF Consecutive
    <3>3. <<s[i - 1], s[i]>>[2] = s[i]
      OBVIOUS
    <3> HIDE DEF g, es
    <3>4. QED BY <1>5, <3>2, <3>3
  <2>3. QED BY <2>1, <2>2
<1>7. n \in Node \ Leaf
  BY GraphAssumption DEF Node
<1> HIDE DEF g
<1>8. QED BY <1>1, <1>5, <1>6, <1>7, MakeKeeps

LEMMA GroupKeeps ==
  ASSUME BuildInv, NEW n \in Composite, NEW s \in Seq(Node),
         \A i \in 1..Len(s) : s[i] \in Made, MakeGroup(n, s)
  PROVE  BuildInv'
<1> DEFINE g == [vertices |-> Seqs!ToSet(s), edges |-> {}]
<1>1. Make(n, "group", s, g)
  BY DEF MakeGroup
<1>2. Seqs!ToSet(s) = {s[i] : i \in 1..Len(s)} /\ \A i \in 1..Len(s) : s[i] \in Node
  BY DEF Seqs!ToSet
<1>3. /\ g \in [vertices : SUBSET Node, edges : SUBSET Pairs]
      /\ g.edges \subseteq g.vertices \X g.vertices
      /\ \A i \in 1..Len(s) : s[i] \in g.vertices
  BY <1>2
<1>4. n \in Node \ Leaf
  BY GraphAssumption DEF Node
<1> HIDE DEF g
<1>5. QED BY <1>1, <1>3, <1>4, MakeKeeps

LEMMA OnDoneKeeps ==
  ASSUME BuildInv, NEW n \in Node, NEW m \in Node, OnDone(n, m)
  PROVE  BuildInv'
<1>1. BuildTypes /\ PartsAreMade /\ GraphsHold /\ Founded /\ EndsExist
  BY DEF BuildInv
<1>2. /\ n \in Made /\ m \in Node /\ kind' = kind /\ parts' = parts
      /\ graph' = [graph EXCEPT ![n] = AddEdges(graph[n], Sources(n) \X {m})]
  BY DEF OnDone, Made
<1>3. Sources(n) \subseteq Node
  <2>1. kind[n] \in {"delayable", "chain", "group"}
    BY <1>1, <1>2 DEF Made, BuildTypes, Kinds
  <2>2. CASE kind[n] = "delayable"
    BY <2>2 DEF Sources
  <2>3. CASE kind[n] = "chain"
    <3>1. Seqs!Last(parts[n]) \in Node
      BY <1>1, <2>3, PartsFacts
    <3>2. Sources(n) = {Seqs!Last(parts[n])}
      BY <2>3 DEF Sources
    <3>3. QED BY <3>1, <3>2
  <2>4. CASE kind[n] = "group"
    <3>1. Seqs!ToSet(parts[n]) \subseteq Node
      BY <1>1, PartsFacts
    <3>2. Sources(n) = Seqs!ToSet(parts[n])
      BY <2>4 DEF Sources
    <3>3. QED BY <3>1, <3>2
  <2>5. QED BY <2>1, <2>2, <2>3, <2>4
<1> DEFINE es == Sources(n) \X {m}
           g == AddEdges(graph[n], es)
<1>4. es \in SUBSET Pairs
  BY <1>3 DEF Pairs
<1>5. graph[n] \in [vertices : SUBSET Node, edges : SUBSET Pairs]
      /\ graph[n].edges \subseteq graph[n].vertices \X graph[n].vertices
  BY <1>1 DEF BuildTypes, GraphsHold
<1>6. /\ g \in [vertices : SUBSET Node, edges : SUBSET Pairs]
      /\ g.edges \subseteq g.vertices \X g.vertices
      /\ graph[n].vertices \subseteq g.vertices
  <2> HIDE DEF es
  <2> QED BY <1>4, <1>5, AddEdgesFacts
<1> HIDE DEF g
<1>7. graph' = [graph EXCEPT ![n] = g]
  BY <1>2 DEF g
<1>8. \A k \in Node : (PartsOf(k))' = PartsOf(k)
  BY <1>2 DEF PartsOf
<1>9. BuildTypes'
  <2>1. graph' \in [Node -> [vertices : SUBSET Node, edges : SUBSET Pairs]]
    BY <1>1, <1>6, <1>7 DEF BuildTypes
  <2>2. QED BY <1>1, <1>2, <2>1 DEF BuildTypes
<1>10. PartsAreMade'
  BY <1>1, <1>2, <1>8 DEF PartsAreMade, Made
<1>11. GraphsHold'
  <2> SUFFICES ASSUME NEW k \in Node
               PROVE  /\ (PartsOf(k))' \subseteq graph'[k].vertices
                      /\ graph'[k].edges \subseteq graph'[k].vertices \X graph'[k].vertices
    BY DEF GraphsHold
  <2>1. PartsOf(k) \subseteq graph[k].vertices
        /\ graph[k].edges \subseteq graph[k].vertices \X graph[k].vertices
    BY <1>1 DEF GraphsHold
  <2>2. graph'[k] = IF k = n THEN g ELSE graph[k]
    BY <1>1, <1>7 DEF BuildTypes
  <2>3. CASE k = n
    BY <1>6, <1>8, <2>1, <2>2, <2>3
  <2>4. CASE k # n
    BY <1>8, <2>1, <2>2, <2>4
  <2>5. QED BY <2>3, <2>4
<1>12. Founded'
  BY <1>1, <1>8 DEF Founded
<1>13. EndsExist'
  <2>1. PICK f : AreEnds(f)
    BY <1>1 DEF EndsExist
  <2>2. (AreEnds(f))'
    BY <1>2, <2>1 DEF AreEnds, EndsOf
  <2>3. QED BY <2>2 DEF EndsExist
<1>14. QED BY <1>9, <1>10, <1>11, <1>12, <1>13 DEF BuildInv

-----------------------------------------------------------------------------
(* Flattening                                                              *)

\* One round of the walk of _connect_graphs.
Walk(g, seen, i) == seen \cup UNION {g[n].vertices : n \in seen}
Walking == INSTANCE Folding_proofs WITH Op <- Walk

\* A set of nodes the walk does not leave.
Closed(S) == \A n \in S : graph[n].vertices \subseteq S

\* The walk reaches what the vertices of graphs lead to, and nothing else.
LEMMA VisitedFacts ==
  ASSUME BuildTypes, NEW t \in Node
  PROVE  /\ t \in Visited(t) /\ Visited(t) \subseteq Node /\ Closed(Visited(t))
         /\ \A S : t \in S /\ Closed(S) => Visited(t) \subseteq S
<1> DEFINE N == Cardinality(Node)
           Rec(w) == w = [i \in 0..N |-> IF i = 0 THEN {t}
                                         ELSE LET seen == w[i - 1]
                                              IN  seen \cup UNION {graph[n].vertices : n \in seen}]
           walk == CHOOSE w : Rec(w)
<1>1. N \in Nat /\ IsFiniteSet(Node)
  BY LeafFinite, FS_CardinalityType
<1>2. Visited(t) = walk[N]
  BY DEF Visited
<1>3. \E w : Rec(w)
  <2> DEFINE s == [i \in 1..N |-> i]
  <2>1. PICK f : Walking!Table(f, graph, {t}, s, N)
    <3>1. DOMAIN s = 1..N
      OBVIOUS
    <3> HIDE DEF s, N
    <3>2. QED BY <1>1, <3>1, Walking!FoldTable
  <2>2. f[0] = {t} /\ \A k \in 1..N : f[k] = Walk(graph, f[k - 1], s[k])
    BY <2>1 DEF Walking!Table
  <2> DEFINE w == [i \in 0..N |-> f[i]]
  <2>3. ASSUME NEW i \in 0..N
        PROVE  w[i] = IF i = 0 THEN {t}
                      ELSE LET seen == w[i - 1] IN seen \cup UNION {graph[n].vertices : n \in seen}
    <3>1. CASE i = 0
      BY <2>2, <3>1
    <3>2. CASE i # 0
      <4>1. i \in 1..N /\ i - 1 \in 0..N
        BY <1>1, <3>2
      <4>2. w[i] = f[i] /\ w[i - 1] = f[i - 1]
        BY <4>1
      <4>3. f[i] = f[i - 1] \cup UNION {graph[n].vertices : n \in f[i - 1]}
        BY <2>2, <4>1 DEF Walk
      <4> HIDE DEF w
      <4>4. QED BY <3>2, <4>2, <4>3
    <3>3. QED BY <3>1, <3>2
  <2>4. w = [i \in 0..N |-> w[i]]
    OBVIOUS
  <2> HIDE DEF w
  <2>5. Rec(w)
    BY <2>3, <2>4
  <2>6. QED BY <2>5
<1>4. Rec(walk)
  <2> HIDE DEF Rec
  <2> QED BY <1>3
<1> HIDE DEF walk, N
<1>5. walk[0] = {t}
      /\ \A i \in 1..N : walk[i] = walk[i - 1] \cup UNION {graph[n].vertices : n \in walk[i - 1]}
  <2>1. 0 \in 0..N /\ \A i \in 1..N : i \in 0..N /\ i # 0
    BY <1>1
  <2>2. QED BY <1>4, <2>1
<1> DEFINE Good(k) == /\ t \in walk[k] /\ walk[k] \subseteq Node
                      /\ Closed(walk[k]) \/ Cardinality(walk[k]) >= k + 1
                      /\ \A S : t \in S /\ Closed(S) => walk[k] \subseteq S
           T == {k \in Nat : k <= N => Good(k)}
<1>6. 0 \in T
  <2>1. Cardinality({t}) = 1
    BY FS_Singleton
  <2>2. walk[0] = {t} /\ Cardinality(walk[0]) >= 0 + 1
    BY <1>5, <2>1
  <2>3. t \in walk[0] /\ walk[0] \subseteq Node
        /\ \A S : t \in S /\ Closed(S) => walk[0] \subseteq S
    BY ONLY <2>2, t \in Node
  <2>4. QED BY <2>2, <2>3
<1>7. ASSUME NEW k \in Nat, k \in T PROVE k + 1 \in T
  <2>1. SUFFICES ASSUME k + 1 <= N PROVE Good(k + 1)
    OBVIOUS
  <2>2. k <= N /\ k + 1 \in 1..N /\ (k + 1) - 1 = k
    BY <1>1, <2>1
  <2>3. Good(k)
    BY <1>7, <2>2
  <2>4. walk[k + 1] = walk[k] \cup UNION {graph[n].vertices : n \in walk[k]}
    BY <1>5, <2>2
  <2>5. \A n \in Node : graph[n].vertices \subseteq Node
    BY DEF BuildTypes
  <2>6. t \in walk[k + 1] /\ walk[k + 1] \subseteq Node /\ walk[k] \subseteq walk[k + 1]
    BY <2>3, <2>4, <2>5
  <2>7. ASSUME NEW S, t \in S, Closed(S) PROVE walk[k + 1] \subseteq S
    <3>1. walk[k] \subseteq S
      BY <2>3, <2>7
    <3>2. \A n \in walk[k] : graph[n].vertices \subseteq S
      BY <2>7, <3>1 DEF Closed
    <3>3. QED BY <2>4, <3>1, <3>2
  <2>8. Closed(walk[k + 1]) \/ Cardinality(walk[k + 1]) >= (k + 1) + 1
    <3>1. CASE Closed(walk[k])
      <4>1. walk[k + 1] = walk[k]
        BY <2>4, <3>1 DEF Closed
      <4>2. QED BY <3>1, <4>1
    <3>2. CASE ~Closed(walk[k])
      <4>1. walk[k + 1] # walk[k]
        BY <2>4, <3>2 DEF Closed
      <4>2. IsFiniteSet(walk[k + 1]) /\ IsFiniteSet(walk[k])
        BY <1>1, <2>3, <2>6, FS_Subset
      <4>3. /\ Cardinality(walk[k]) <= Cardinality(walk[k + 1])
            /\ Cardinality(walk[k]) # Cardinality(walk[k + 1])
        BY <2>6, <4>1, <4>2, FS_Subset
      <4>4. Cardinality(walk[k]) \in Nat /\ Cardinality(walk[k + 1]) \in Nat
        BY <4>2, FS_CardinalityType
      <4>5. Cardinality(walk[k]) >= k + 1
        BY <2>3, <3>2
      <4>6. QED BY <4>3, <4>4, <4>5
    <3>3. QED BY <3>1, <3>2
  <2>9. QED BY <2>6, <2>7, <2>8
<1>8. Good(N)
  <2>1. Nat \subseteq T
    <3> HIDE DEF T
    <3> QED BY <1>6, <1>7, Walking!Induction
  <2>2. QED BY <1>1, <2>1
<1>9. Closed(walk[N])
  <2>1. Cardinality(walk[N]) <= N
    BY <1>1, <1>8, FS_Subset DEF N
  <2>2. Cardinality(walk[N]) \in Nat
    BY <1>1, <1>8, FS_Subset, FS_CardinalityType
  <2>3. QED BY <1>1, <1>8, <2>1, <2>2
<1>10. QED BY <1>2, <1>8, <1>9

\* The vertices of all the graphs walked.
Reached(t) == UNION {graph[n].vertices : n \in Visited(t)}

\* Heads and tails are delayables, and the heads of a vertex are tails of one.
LEMMA EndsAreLeaves ==
  ASSUME BuildInv
  PROVE  \A n \in Node, side \in Sides : Ends[<<n, side>>] \subseteq Leaf
<1> DEFINE S == {n \in Node : \E side \in Sides : ~(Ends[<<n, side>>] \subseteq Leaf)}
<1>1. SUFFICES ASSUME S # {} PROVE FALSE
  OBVIOUS
<1>2. BuildTypes /\ PartsAreMade /\ Founded
  BY DEF BuildInv
<1>3. PICK n \in S : PartsOf(n) \cap S = {}
  <2>1. S \in SUBSET Node
    OBVIOUS
  <2> HIDE DEF S
  <2>2. QED BY <1>1, <1>2, <2>1 DEF Founded
<1>4. n \in Node
      /\ \A p \in PartsOf(n) : p \in Node /\ \A side \in Sides : Ends[<<p, side>>] \subseteq Leaf
  <2>1. n \in Node
    OBVIOUS
  <2>2. PartsOf(n) \subseteq Node
    BY <1>2, <2>1, PartsFacts
  <2>3. QED BY <1>3, <2>1, <2>2
<1>5. ASSUME NEW side \in Sides PROVE Ends[<<n, side>>] \subseteq Leaf
  <2>1. kind[n] \in Kinds /\ side \in {"head", "tail"} /\ "head" \in Sides /\ "tail" \in Sides
    BY <1>2, <1>4 DEF BuildTypes, Sides
  <2>2. CASE kind[n] = "delayable"
    <3>1. n \in Leaf
      BY <1>2, <1>4, <2>2 DEF BuildTypes
    <3>2. Ends[<<n, side>>] = {n}
      BY <1>4, <2>2, EndsByKind
    <3>3. QED BY <3>1, <3>2
  <2>3. CASE kind[n] = "chain"
    <3>1. Head(parts[n]) \in PartsOf(n) /\ Seqs!Last(parts[n]) \in PartsOf(n)
      BY <1>2, <1>4, <2>3, PartsFacts
    <3>2. /\ Ends[<<n, "head">>] = Ends[<<Head(parts[n]), "tail">>]
          /\ Ends[<<n, "tail">>] = Ends[<<Seqs!Last(parts[n]), "head">>]
      BY <1>4, <2>3, EndsByKind
    <3>3. QED BY <1>4, <2>1, <3>1, <3>2
  <2>4. CASE kind[n] = "group"
    <3>1. \A x : x \in Ends[<<n, side>>] <=> \E p \in PartsOf(n) : x \in Ends[<<p, side>>]
      BY <1>4, <2>4, EndsByKind
    <3>2. QED BY <1>4, <3>1
  <2>5. CASE kind[n] = "none"
    BY <1>4, <2>5, EndsByKind
  <2>6. QED BY <2>1, <2>2, <2>3, <2>4, <2>5 DEF Kinds
<1>6. QED BY <1>5

\* A head of a vertex is a tail of a vertex: the edges join vertices of the plan.
LEMMA HeadsAreTails ==
  ASSUME BuildInv, NEW t \in Node
  PROVE  \A n \in Reached(t) : \A x \in Ends[<<n, "head">>] :
           \E m \in Reached(t) : x \in Ends[<<m, "tail">>]
<1> DEFINE R == Reached(t)
           S == {n \in R : \E x \in Ends[<<n, "head">>] : \A m \in R : x \notin Ends[<<m, "tail">>]}
<1>1. SUFFICES ASSUME S # {} PROVE FALSE
  OBVIOUS
<1>2. BuildTypes /\ PartsAreMade /\ Founded /\ GraphsHold
  BY DEF BuildInv
<1>3. Visited(t) \subseteq Node /\ Closed(Visited(t))
  BY <1>2, VisitedFacts
<1>4. R \subseteq Node /\ \A n \in R : graph[n].vertices \subseteq R
  <2>1. \A n \in R : n \in Visited(t)
    BY <1>3 DEF Reached, Closed
  <2>2. \A n \in Visited(t) : graph[n].vertices \subseteq R
    BY DEF Reached
  <2>3. QED BY <1>3, <2>1, <2>2
<1> HIDE DEF R
<1>5. PICK n \in S : PartsOf(n) \cap S = {}
  <2>1. S \in SUBSET Node
    BY <1>4
  <2> HIDE DEF S
  <2>2. QED BY <1>1, <1>2, <2>1 DEF Founded
<1>6. PICK x \in Ends[<<n, "head">>] : \A m \in R : x \notin Ends[<<m, "tail">>]
  BY <1>5
<1>7. n \in R /\ n \in Node /\ \A p \in PartsOf(n) : p \in R /\ p \notin S
  <2>1. n \in R /\ n \in Node
    BY <1>4, <1>5
  <2>2. PartsOf(n) \subseteq graph[n].vertices
    BY <1>2, <2>1 DEF GraphsHold
  <2>3. QED BY <1>4, <1>5, <2>1, <2>2
<1>8. kind[n] \in Kinds /\ "head" \in Sides /\ "tail" \in Sides
  BY <1>2, <1>7 DEF BuildTypes, Sides
<1>9. CASE kind[n] = "delayable"
  <2>1. Ends[<<n, "head">>] = {n} /\ Ends[<<n, "tail">>] = {n}
    BY <1>7, <1>8, <1>9, EndsByKind
  <2>2. QED BY <1>6, <1>7, <2>1
<1>10. CASE kind[n] = "chain"
  <2>1. Head(parts[n]) \in PartsOf(n)
    BY <1>2, <1>7, <1>10, PartsFacts
  <2>2. Ends[<<n, "head">>] = Ends[<<Head(parts[n]), "tail">>]
    BY <1>7, <1>8, <1>10, EndsByKind
  <2>3. QED BY <1>6, <1>7, <2>1, <2>2
<1>11. CASE kind[n] = "group"
  <2>1. PICK p \in PartsOf(n) : x \in Ends[<<p, "head">>]
    BY <1>6, <1>7, <1>8, <1>11, EndsByKind
  <2>2. p \in S
    BY <1>6, <1>7, <2>1
  <2>3. QED BY <1>7, <2>1, <2>2
<1>12. CASE kind[n] = "none"
  BY <1>6, <1>7, <1>8, <1>12, EndsByKind
<1>13. QED BY <1>8, <1>9, <1>10, <1>11, <1>12 DEF Kinds

\* What delay() flattens is a graph of delayables, whatever was built.
LEMMA PlanIsMade ==
  ASSUME BuildInv, NEW t \in Node, plan' = ConnectGraphs(t)
  PROVE  PlanOK'
<1> DEFINE E == UNION {graph[n].edges : n \in Visited(t)}
<1>1. /\ plan'.vertices = UNION {Ends[<<v, "tail">>] : v \in Reached(t)}
      /\ plan'.edges = UNION {Ends[<<e[1], "tail">>] \X Ends[<<e[2], "head">>] : e \in E}
  BY DEF ConnectGraphs, Reached
<1>2. BuildTypes /\ GraphsHold /\ Visited(t) \subseteq Node
  BY VisitedFacts DEF BuildInv
<1>3. Reached(t) \subseteq Node
  BY <1>2 DEF Reached, BuildTypes
<1>4. plan'.vertices \subseteq Leaf
  <2>1. \A v \in Reached(t) : Ends[<<v, "tail">>] \subseteq Leaf
    BY <1>3, EndsAreLeaves DEF Sides
  <2>2. QED BY <1>1, <2>1
<1>5. \A e \in E : e[1] \in Reached(t) /\ e[2] \in Reached(t)
  BY <1>2 DEF GraphsHold, Reached
<1>6. \A e \in E : /\ Ends[<<e[1], "tail">>] \subseteq plan'.vertices
                   /\ Ends[<<e[2], "head">>] \subseteq plan'.vertices
  <2> TAKE e \in E
  <2>1. e[1] \in Reached(t) /\ e[2] \in Reached(t)
    BY <1>5
  <2> HIDE DEF E
  <2>2. Ends[<<e[1], "tail">>] \subseteq plan'.vertices
    BY <1>1, <2>1
  <2>3. \A x \in Ends[<<e[2], "head">>] : \E m \in Reached(t) : x \in Ends[<<m, "tail">>]
    BY <2>1, HeadsAreTails
  <2>4. QED BY <1>1, <2>2, <2>3
<1> HIDE DEF E
<1>7. plan'.edges \subseteq plan'.vertices \X plan'.vertices
  <2> SUFFICES ASSUME NEW d \in plan'.edges PROVE d \in plan'.vertices \X plan'.vertices
    OBVIOUS
  <2>1. PICK e \in E : d \in Ends[<<e[1], "tail">>] \X Ends[<<e[2], "head">>]
    BY <1>1
  <2>2. QED BY <1>6, <2>1
<1>8. QED BY <1>4, <1>7 DEF PlanOK

-----------------------------------------------------------------------------
(* Every step                                                              *)

\* Before delay() is called nothing is sorted.
Unasked == top = NoNode => queue = <<>> /\ executed = <<>>
JobTypes == /\ stored \in [Leaf -> {"none", "pending", "wait_dependencies"}]
            /\ left \in [Leaf -> Nat]
GraphInv == BuildInv /\ SortInv /\ Unasked /\ JobTypes

LEMMA PlanKeeps ==
  ASSUME SortInv, UNCHANGED <<top, plan, left, queue, executed>>
  PROVE  SortInv'
<1>1. Done' = Done /\ Waiting' = Waiting
  BY DEF Done, Waiting
<1>2. \A l : (OpenEdges(l))' = OpenEdges(l)
  BY <1>1 DEF OpenEdges
<1>3. PlanOK'
  BY DEF SortInv, PlanOK
<1>4. CASE queue = <<>> /\ executed = <<>>
  BY <1>3, <1>4 DEF SortInv
<1>5. CASE Sorting
  <2>1. Sorted' /\ QueuedRightly'
    BY <1>1, <1>2, <1>5 DEF Sorting, Sorted, QueuedRightly
  <2>2. Counts' /\ OthersWait'
    BY <1>1, <1>2, <1>5 DEF Sorting, Counts, OthersWait
  <2>3. QED BY <1>3, <1>5, <2>1, <2>2 DEF SortInv, Sorting
<1>6. QED BY <1>4, <1>5 DEF SortInv

LEMMA BuildingKeeps ==
  ASSUME BuildInv, UNCHANGED building
  PROVE  BuildInv'
<1>1. kind' = kind /\ parts' = parts /\ graph' = graph
  BY DEF building
<1>2. BuildTypes' /\ PartsAreMade' /\ GraphsHold' /\ Founded'
  <2>1. \A n : (PartsOf(n))' = PartsOf(n)
    BY <1>1 DEF PartsOf
  <2>2. Made' = Made
    BY <1>1 DEF Made
  <2>3. BuildTypes'
    BY <1>1 DEF BuildInv, BuildTypes
  <2>4. PartsAreMade'
    BY <1>1, <2>1, <2>2 DEF BuildInv, PartsAreMade
  <2>5. GraphsHold'
    BY <1>1, <2>1 DEF BuildInv, GraphsHold
  <2>6. Founded'
    BY <2>1 DEF BuildInv, Founded
  <2>7. QED BY <2>3, <2>4, <2>5, <2>6
<1>3. EndsExist'
  <2>1. PICK f : AreEnds(f)
    BY DEF BuildInv, EndsExist
  <2>2. (AreEnds(f))'
    BY <1>1, <2>1 DEF AreEnds, EndsOf
  <2>3. QED BY <2>2 DEF EndsExist
<1>4. QED BY <1>2, <1>3 DEF BuildInv

LEMMA ListsAreParts ==
  \A s \in Lists : s \in Seq(Node) /\ \A i \in 1..Len(s) : s[i] \in Made
<1> SUFFICES ASSUME NEW s \in Lists
             PROVE  s \in Seq(Node) /\ \A i \in 1..Len(s) : s[i] \in Made
  OBVIOUS
<1>1. PICK k \in MinParts..MaxParts : s \in [1..k -> Made]
  BY DEF Lists
<1>2. k \in Nat
  BY GraphAssumption
<1>3. s \in Seq(Made) /\ Len(s) = k
  BY <1>1, <1>2
<1>4. Made \subseteq Node
  BY DEF Made
<1>5. QED BY <1>1, <1>2, <1>3, <1>4

LEMMA GraphInitInv == GraphInit => GraphInv
<1> SUFFICES ASSUME GraphInit PROVE GraphInv
  OBVIOUS
<1>1. BuildInv
  BY NothingMade
<1>2. SortInv /\ Unasked /\ JobTypes
  BY DEF GraphInit, SortInv, PlanOK, EmptyGraph, Unasked, JobTypes
<1>3. QED BY <1>1, <1>2 DEF GraphInv

LEMMA GraphNextInv == GraphInv /\ [GraphNext]_graphVars => GraphInv'
<1> SUFFICES ASSUME GraphInv, [GraphNext]_graphVars PROVE GraphInv'
  OBVIOUS
<1>1. BuildInv /\ SortInv /\ Unasked /\ JobTypes
  BY DEF GraphInv
<1>2. ASSUME UNCHANGED <<top, plan, stored, left, queue, executed>>, BuildInv' PROVE GraphInv'
  <2>1. SortInv'
    BY <1>1, <1>2, PlanKeeps
  <2>2. QED BY <1>1, <1>2, <2>1 DEF GraphInv, Unasked, JobTypes
<1>3. ASSUME NEW n \in Composite, NEW s \in Lists, MakeChain(n, s) \/ MakeGroup(n, s)
      PROVE  GraphInv'
  <2>1. BuildInv'
    BY <1>1, <1>3, ListsAreParts, ChainKeeps, GroupKeeps
  <2>2. UNCHANGED <<top, plan, stored, left, queue, executed>>
    BY <1>3 DEF MakeChain, MakeGroup, Make
  <2>3. QED BY <1>2, <2>1, <2>2
<1>4. ASSUME NEW n \in Node, NEW m \in Node, OnDone(n, m) PROVE GraphInv'
  <2>1. BuildInv'
    BY <1>1, <1>4, OnDoneKeeps
  <2>2. UNCHANGED <<top, plan, stored, left, queue, executed>>
    BY <1>4 DEF OnDone
  <2>3. QED BY <1>2, <2>1, <2>2
<1>5. ASSUME NEW t \in Node, DelayTop(t) PROVE GraphInv'
  <2>1. /\ top = NoNode /\ top' = t /\ plan' = ConnectGraphs(t)
        /\ UNCHANGED building /\ UNCHANGED <<left, queue, executed>>
    BY <1>5 DEF DelayTop
  <2>2. BuildInv' /\ PlanOK'
    BY <1>1, <2>1, BuildingKeeps, PlanIsMade
  <2>3. queue' = <<>> /\ executed' = <<>>
    BY <1>1, <2>1 DEF Unasked
  <2>4. SortInv' /\ Unasked'
    BY <2>2, <2>3 DEF SortInv, Unasked
  <2>5. stored' \in [Leaf -> {"none", "pending", "wait_dependencies"}]
    BY <1>1, <1>5 DEF DelayTop, JobTypes
  <2>6. QED BY <1>1, <2>1, <2>2, <2>4, <2>5 DEF GraphInv, JobTypes
<1>6. ASSUME NEW t \in Node, ExecuteDirect(t) PROVE GraphInv'
  <2>1. /\ top = NoNode /\ top' = t /\ plan' = ConnectGraphs(t) /\ t # NoNode
        /\ UNCHANGED building /\ UNCHANGED <<stored, executed>>
    BY <1>6, GraphAssumption DEF ExecuteDirect
  <2>2. BuildInv' /\ PlanOK'
    BY <1>1, <2>1, BuildingKeeps, PlanIsMade
  <2>3. executed = <<>>
    BY <1>1, <2>1 DEF Unasked
  <2>4. SortInv' /\ Unasked'
    BY <1>6, <2>1, <2>2, <2>3, SortBegins DEF Unasked
  <2>5. left' \in [Leaf -> Nat]
    <3>1. IsFiniteSet(plan'.edges)
      <4>1. IsFiniteSet(plan'.vertices)
        BY <2>2, LeafFinite, FS_Subset DEF PlanOK
      <4>2. IsFiniteSet(plan'.vertices \X plan'.vertices)
        BY <4>1, FS_Product
      <4>3. QED BY <2>2, <4>2, FS_Subset DEF PlanOK
    <3>2. \A l : Cardinality({e \in plan'.edges : e[2] = l}) \in Nat
      <4> TAKE l
      <4>1. {e \in plan'.edges : e[2] = l} \subseteq plan'.edges
        OBVIOUS
      <4>2. IsFiniteSet({e \in plan'.edges : e[2] = l})
        BY <3>1, <4>1, FS_Subset
      <4>3. QED BY <4>2, FS_CardinalityType
    <3>3. QED BY <1>6, <3>2 DEF ExecuteDirect
  <2>6. QED BY <1>1, <2>1, <2>2, <2>4, <2>5 DEF GraphInv, JobTypes
<1>7. CASE Execute
  <2>1. queue # <<>> /\ UNCHANGED building /\ UNCHANGED <<top, plan, stored>>
    BY <1>7 DEF Execute
  <2>2. BuildInv' /\ SortInv'
    BY <1>1, <1>7, <2>1, BuildingKeeps, SortGoesOn
  <2>3. top' # NoNode
    BY <1>1, <2>1 DEF Unasked
  <2>4. left' \in [Leaf -> Nat]
    <3>1. left' = [l \in Leaf |-> left'[l]]
      BY <1>7 DEF Execute
    <3>2. Counts' /\ PlanOK'
      <4>1. Len(executed') # 0
        <5>1. executed' = Append(executed, Head(queue)) /\ executed \in Seq(plan.vertices)
          BY <1>1, <1>7, <2>1 DEF Execute, SortInv, Sorting
        <5>2. QED BY <5>1
      <4>2. executed' # <<>>
        BY <4>1
      <4>3. QED BY <2>2, <4>2 DEF SortInv, Sorting
    <3>3. \A l \in Leaf : left'[l] \in Nat
      <4> TAKE l \in Leaf
      <4>1. left'[l] = Cardinality((OpenEdges(l))')
        BY <3>2 DEF Counts
      <4>2. IsFiniteSet(plan'.vertices)
        BY <3>2, LeafFinite, FS_Subset DEF PlanOK
      <4>3. IsFiniteSet(plan'.vertices \X plan'.vertices)
        BY <4>2, FS_Product
      <4>4. (OpenEdges(l))' \subseteq plan'.vertices \X plan'.vertices
        BY <3>2 DEF PlanOK, OpenEdges
      <4>5. IsFiniteSet((OpenEdges(l))')
        BY <4>3, <4>4, FS_Subset
      <4>6. QED BY <4>1, <4>5, FS_CardinalityType
    <3>4. QED BY <3>1, <3>3
  <2>5. QED BY <1>1, <2>1, <2>2, <2>3, <2>4 DEF GraphInv, Unasked, JobTypes
<1>8. CASE UNCHANGED graphVars
  <2>1. BuildInv'
    BY <1>1, <1>8, BuildingKeeps DEF graphVars
  <2>2. QED BY <1>2, <1>8, <2>1 DEF graphVars
<1>9. QED BY <1>3, <1>4, <1>5, <1>6, <1>7, <1>8 DEF GraphNext

LEMMA GraphAlways == GraphSpec => []GraphInv
<1>1. QED BY GraphInitInv, GraphNextInv, PTL DEF GraphSpec

\* Chains, groups, their graphs, the plan and the lists of the sort have their
\* types in every reachable state.
THEOREM GraphsAreTyped == GraphSpec => []GraphTypeOK
<1>1. GraphInv => GraphTypeOK
  <2> SUFFICES ASSUME GraphInv PROVE GraphTypeOK
    OBVIOUS
  <2>1. BuildTypes /\ PlanOK /\ JobTypes
    BY DEF GraphInv, BuildInv, SortInv
  <2>2. queue \in Seq(Leaf) /\ executed \in Seq(Leaf)
    <3>1. CASE queue = <<>> /\ executed = <<>>
      BY <3>1
    <3>2. CASE Sorting
      <4>1. queue \in Seq(plan.vertices) /\ executed \in Seq(plan.vertices)
            /\ plan.vertices \subseteq Leaf
        BY <2>1, <3>2 DEF Sorting, PlanOK
      <4>2. QED BY <4>1
    <3>3. QED BY <3>1, <3>2 DEF GraphInv, SortInv
  <2>3. \A n \in Node : graph[n].vertices \subseteq Node /\ graph[n].edges \subseteq Node \X Node
    BY <2>1 DEF BuildTypes, Pairs
  <2>4. plan.vertices \subseteq Leaf /\ plan.edges \subseteq Leaf \X Leaf
    BY <2>1 DEF PlanOK
  <2>5. QED BY <2>1, <2>2, <2>3, <2>4 DEF GraphTypeOK, BuildTypes, JobTypes, Kinds
<1>2. QED BY <1>1, GraphAlways, PTL

\* _execute_graph_direct executes a delayable once, after all it depends on, and
\* executes all but those on, or behind, a cycle: whatever graph was built.
THEOREM SortIsRight == GraphSpec => []SortIsTopological
<1>1. GraphInv => SortIsTopological
  BY SortInvIsTopological DEF GraphInv
<1>2. QED BY <1>1, GraphAlways, PTL

-----------------------------------------------------------------------------
(* What was asked for                                                      *)

Follow(n) == {m \in Node : <<n, m>> \in after}
Links(n) == IF kind[n] = "chain" THEN Consecutive(parts[n]) ELSE {}
Own(n) == IF n \in Leaf THEN {n} ELSE PartsOf(n)

\* What the graph of a node holds.
GraphsAre ==
  \A n \in Node :
    /\ graph[n].edges = Links(n) \cup (Sources(n) \X Follow(n))
    /\ graph[n].vertices = Own(n) \cup (IF Sources(n) = {} THEN {} ELSE Follow(n))

AfterMade == after \subseteq Made \X Made

AreInside(f) == f = [n \in Node |-> {n} \cup UNION {f[p] : p \in Seqs!ToSet(parts[n])}]
InsideExist == \E f : AreInside(f)

AskedInv == AfterMade /\ GraphsAre /\ InsideExist

LEMMA InsideIsInside == InsideExist => AreInside(Inside)
<1>1. Inside = CHOOSE f : AreInside(f)
  BY DEF Inside, AreInside
<1>2. QED BY <1>1 DEF InsideExist

LEMMA NothingAsked ==
  ASSUME GraphInit
  PROVE  AskedInv
<1>1. /\ kind = [n \in Node |-> IF n \in Leaf THEN "delayable" ELSE "none"]
      /\ parts = [n \in Node |-> <<>>] /\ after = {}
      /\ graph = [n \in Node |-> IF n \in Leaf THEN [vertices |-> {n}, edges |-> {}]
                                 ELSE EmptyGraph]
  BY DEF GraphInit
<1>2. AfterMade
  BY <1>1 DEF AfterMade
<1>3. GraphsAre
  <2> SUFFICES ASSUME NEW n \in Node
               PROVE  /\ graph[n].edges = Links(n) \cup (Sources(n) \X Follow(n))
                      /\ graph[n].vertices = Own(n) \cup (IF Sources(n) = {} THEN {} ELSE Follow(n))
    BY DEF GraphsAre
  <2>1. Follow(n) = {} /\ Links(n) = {} /\ PartsOf(n) = {}
    BY <1>1 DEF Follow, Links, PartsOf
  <2>2. graph[n].edges = {} /\ graph[n].vertices = IF n \in Leaf THEN {n} ELSE {}
    BY <1>1 DEF EmptyGraph
  <2>3. Sources(n) \X {} = {}
    OBVIOUS
  <2>4. QED BY <2>1, <2>2, <2>3 DEF Own
<1>4. InsideExist
  <2> DEFINE f == [n \in Node |-> {n}]
  <2>1. \A n \in Node : {n} \cup UNION {f[p] : p \in Seqs!ToSet(parts[n])} = {n}
    BY <1>1 DEF Seqs!ToSet
  <2>2. AreInside(f)
    BY <2>1 DEF AreInside
  <2>3. QED BY <2>2 DEF InsideExist
<1>5. QED BY <1>2, <1>3, <1>4 DEF AskedInv

LEMMA SourcesAreOwn ==
  ASSUME BuildTypes, PartsAreMade, NEW n \in Made
  PROVE  /\ n \in Node /\ Sources(n) \subseteq Own(n)
         /\ kind[n] = "delayable" => Sources(n) = {n}
         /\ kind[n] = "chain" => Sources(n) = {Seqs!Last(parts[n])}
         /\ kind[n] = "group" => Sources(n) = PartsOf(n)
<1>1. n \in Node /\ kind[n] \in {"delayable", "chain", "group"}
      /\ (n \in Leaf <=> kind[n] = "delayable")
  BY DEF Made, BuildTypes, Kinds
<1>2. /\ kind[n] = "delayable" => Sources(n) = {n}
      /\ kind[n] = "chain" => Sources(n) = {Seqs!Last(parts[n])}
      /\ kind[n] = "group" => Sources(n) = PartsOf(n)
  <2>1. Seqs!ToSet(parts[n]) = PartsOf(n)
    BY <1>1, PartsFacts
  <2>2. QED BY <2>1 DEF Sources
<1>3. kind[n] = "chain" => Seqs!Last(parts[n]) \in PartsOf(n)
  BY <1>1, PartsFacts
<1>4. QED BY <1>1, <1>2, <1>3 DEF Own

LEMMA MakeAsks ==
  ASSUME BuildInv, AskedInv, NEW n \in Node \ Leaf, NEW k \in {"chain", "group"},
         NEW s \in Seq(Node), NEW g,
         Make(n, k, s, g), \A i \in 1..Len(s) : s[i] \in Made,
         g.edges = IF k = "chain" THEN Consecutive(s) ELSE {},
         g.vertices = {s[i] : i \in 1..Len(s)}
  PROVE  AskedInv'
<1>1. /\ kind[n] = "none" /\ kind' = [kind EXCEPT ![n] = k]
      /\ parts' = [parts EXCEPT ![n] = s] /\ graph' = [graph EXCEPT ![n] = g]
      /\ after' = after
  BY DEF Make
<1>2. BuildTypes /\ PartsAreMade /\ AfterMade /\ GraphsAre
  BY DEF BuildInv, AskedInv
<1>3. /\ kind'[n] = k /\ parts'[n] = s /\ graph'[n] = g
      /\ \A m \in Node : m # n => kind'[m] = kind[m] /\ parts'[m] = parts[m] /\ graph'[m] = graph[m]
  BY <1>1, <1>2 DEF BuildTypes
<1>4. Made' = Made \cup {n} /\ n \notin Made /\ \A m : (Follow(m))' = Follow(m)
  BY <1>1, <1>3 DEF Made, Follow
<1>5. AfterMade'
  BY <1>1, <1>2, <1>4 DEF AfterMade
<1>6. GraphsAre'
  <2> SUFFICES ASSUME NEW m \in Node
               PROVE  /\ graph'[m].edges = (Links(m))' \cup ((Sources(m))' \X Follow(m))
                      /\ graph'[m].vertices
                           = (Own(m))' \cup (IF (Sources(m))' = {} THEN {} ELSE Follow(m))
    BY <1>4 DEF GraphsAre
  <2>1. CASE m = n
    <3>1. Follow(n) = {}
      BY <1>2, <1>4 DEF Follow, AfterMade
    <3>2. (Links(n))' = g.edges
      BY <1>3 DEF Links
    <3>3. (Own(n))' = g.vertices
      BY <1>3 DEF Own, PartsOf
    <3>4. (Sources(n))' \X {} = {}
      OBVIOUS
    <3>5. QED BY <1>3, <2>1, <3>1, <3>2, <3>3, <3>4
  <2>2. CASE m # n
    <3>1. (Links(m))' = Links(m) /\ (Own(m))' = Own(m)
      <4>1. kind'[m] = kind[m] /\ parts'[m] = parts[m]
        BY <1>3, <2>2
      <4>2. (Links(m))' = Links(m)
        BY <4>1 DEF Links
      <4>3. (PartsOf(m))' = PartsOf(m)
        BY <4>1 DEF PartsOf
      <4>4. QED BY <4>2, <4>3 DEF Own
    <3>2. (Sources(m))' = Sources(m)
      BY <1>3, <2>2 DEF Sources
    <3>3. QED BY <1>2, <1>3, <2>2, <3>1, <3>2 DEF GraphsAre
  <2>3. QED BY <2>1, <2>2
<1>7. InsideExist'
  <2>1. PICK e : AreInside(e)
    BY DEF AskedInv, InsideExist
  <2>2. PICK f : f = [m \in Node |-> IF m = n THEN {n} \cup UNION {e[p] : p \in Seqs!ToSet(s)}
                                     ELSE e[m]]
    OBVIOUS
  <2>3. \A p \in Made : f[p] = e[p]
    BY <1>4, <2>2 DEF Made
  <2>4. ASSUME NEW m \in Node PROVE f[m] = {m} \cup UNION {f[p] : p \in Seqs!ToSet(parts'[m])}
    <3>1. CASE m = n
      <4>1. \A p \in Seqs!ToSet(s) : f[p] = e[p]
        BY <2>3 DEF Seqs!ToSet
      <4>2. {f[p] : p \in Seqs!ToSet(s)} = {e[p] : p \in Seqs!ToSet(s)}
        BY <4>1
      <4>3. QED BY <1>3, <2>2, <3>1, <4>2
    <3>2. CASE m # n
      <4>1. \A p \in Seqs!ToSet(parts[m]) : f[p] = e[p]
        BY <1>2, <2>3, PartsFacts DEF PartsAreMade
      <4>2. {f[p] : p \in Seqs!ToSet(parts[m])} = {e[p] : p \in Seqs!ToSet(parts[m])}
        BY <4>1
      <4>3. e[m] = {m} \cup UNION {e[p] : p \in Seqs!ToSet(parts[m])}
        BY <2>1 DEF AreInside
      <4>4. f[m] = e[m]
        BY <2>2, <3>2
      <4>5. QED BY <1>3, <3>2, <4>2, <4>3, <4>4
    <3>3. QED BY <3>1, <3>2
  <2>5. f = [m \in Node |-> f[m]]
    BY <2>2
  <2>6. (AreInside(f))'
    BY <2>4, <2>5 DEF AreInside
  <2>7. QED BY <2>6 DEF InsideExist
<1>8. QED BY <1>5, <1>6, <1>7 DEF AskedInv

LEMMA ChainAsks ==
  ASSUME BuildInv, AskedInv, NEW n \in Composite, NEW s \in Seq(Node),
         \A i \in 1..Len(s) : s[i] \in Made, MakeChain(n, s)
  PROVE  AskedInv'
<1> DEFINE es == Consecutive(s)
           g0 == [vertices |-> {s[1]}, edges |-> {}]
           g == AddEdges(g0, es)
<1>1. s # <<>> /\ Make(n, "chain", s, g)
  BY DEF MakeChain
<1>2. Len(s) \in Nat /\ Len(s) >= 1
  BY <1>1
<1>3. g.edges = es
  BY DEF AddEdges
<1>4. g.vertices = {s[1]} \cup {e[1] : e \in es} \cup {e[2] : e \in es}
  BY DEF AddEdges
<1>5. g.vertices = {s[i] : i \in 1..Len(s)}
  <2>1. \A i \in 1..(Len(s) - 1) : i \in 1..Len(s) /\ i + 1 \in 1..Len(s)
    BY <1>2
  <2>2. \A e \in es : \E i \in 1..Len(s), j \in 1..Len(s) : e[1] = s[i] /\ e[2] = s[j]
    BY <2>1 DEF Consecutive
  <2>3. 1 \in 1..Len(s)
    BY <1>2
  <2>4. ASSUME NEW i \in 1..Len(s) PROVE s[i] = s[1] \/ \E e \in es : e[2] = s[i]
    <3>1. CASE i = 1
      BY <3>1
    <3>2. CASE i # 1
      <4>1. i - 1 \in 1..(Len(s) - 1) /\ (i - 1) + 1 = i
        BY <1>2, <3>2
      <4>2. <<s[i - 1], s[i]>> \in es
        BY <4>1 DEF Consecutive
      <4>3. <<s[i - 1], s[i]>>[2] = s[i]
        OBVIOUS
      <4> HIDE DEF es
      <4>4. QED BY <4>2, <4>3
    <3>3. QED BY <3>1, <3>2
  <2> HIDE DEF es, g
  <2>5. QED BY <1>4, <2>2, <2>3, <2>4
<1>6. n \in Node \ Leaf
  BY GraphAssumption DEF Node
<1> HIDE DEF g
<1>7. QED BY <1>1, <1>3, <1>5, <1>6, MakeAsks

LEMMA GroupAsks ==
  ASSUME BuildInv, AskedInv, NEW n \in Composite, NEW s \in Seq(Node),
         \A i \in 1..Len(s) : s[i] \in Made, MakeGroup(n, s)
  PROVE  AskedInv'
<1> DEFINE g == [vertices |-> Seqs!ToSet(s), edges |-> {}]
<1>1. Make(n, "group", s, g)
  BY DEF MakeGroup
<1>2. g.vertices = {s[i] : i \in 1..Len(s)} /\ g.edges = {}
  BY DEF Seqs!ToSet
<1>3. n \in Node \ Leaf
  BY GraphAssumption DEF Node
<1> HIDE DEF g
<1>4. QED BY <1>1, <1>2, <1>3, MakeAsks

LEMMA OnDoneAsks ==
  ASSUME BuildInv, AskedInv, NEW n \in Node, NEW m \in Node, OnDone(n, m)
  PROVE  AskedInv'
<1>1. BuildTypes /\ PartsAreMade /\ AfterMade /\ GraphsAre
  BY DEF BuildInv, AskedInv
<1>2. /\ n \in Made /\ m \in Made /\ kind' = kind /\ parts' = parts
      /\ after' = after \cup {<<n, m>>}
      /\ graph' = [graph EXCEPT ![n] = AddEdges(graph[n], Sources(n) \X {m})]
  BY DEF OnDone
<1>3. /\ Made' = Made
      /\ \A k : (Sources(k))' = Sources(k) /\ (Links(k))' = Links(k) /\ (Own(k))' = Own(k)
      /\ \A k : k # n => (Follow(k))' = Follow(k)
      /\ (Follow(n))' = Follow(n) \cup {m}
  <2>1. Made' = Made
    BY <1>2 DEF Made
  <2>2. \A k : (Sources(k))' = Sources(k)
    BY <1>2 DEF Sources
  <2>3. \A k : (Links(k))' = Links(k) /\ (Own(k))' = Own(k)
    BY <1>2 DEF Links, Own, PartsOf
  <2>4. \A k, j : <<k, j>> \in after' <=> <<k, j>> \in after \/ (k = n /\ j = m)
    BY <1>2
  <2>5. \A k : k # n => (Follow(k))' = Follow(k)
    BY <2>4 DEF Follow
  <2>6. (Follow(n))' = Follow(n) \cup {m}
    BY <2>4 DEF Follow
  <2>7. QED BY <2>1, <2>2, <2>3, <2>5, <2>6
<1>4. AfterMade'
  BY <1>1, <1>2, <1>3 DEF AfterMade
<1>5. GraphsAre'
  <2> SUFFICES ASSUME NEW k \in Node
               PROVE  /\ graph'[k].edges = Links(k) \cup (Sources(k) \X (Follow(k))')
                      /\ graph'[k].vertices
                           = Own(k) \cup (IF Sources(k) = {} THEN {} ELSE (Follow(k))')
    BY <1>3 DEF GraphsAre
  <2>0. /\ graph[k].edges = Links(k) \cup (Sources(k) \X Follow(k))
        /\ graph[k].vertices = Own(k) \cup (IF Sources(k) = {} THEN {} ELSE Follow(k))
    BY <1>1 DEF GraphsAre
  <2>1. CASE k # n
    <3>1. graph'[k] = graph[k]
      BY <1>1, <1>2, <2>1 DEF BuildTypes
    <3>2. QED BY <1>3, <2>0, <2>1, <3>1
  <2>2. CASE k = n
    <3> DEFINE S == Sources(n)
               es == S \X {m}
    <3>1. graph'[n] = AddEdges(graph[n], es)
      BY <1>1, <1>2 DEF BuildTypes
    <3>2. /\ graph'[n].edges = graph[n].edges \cup es
          /\ graph'[n].vertices = graph[n].vertices \cup {e[1] : e \in es} \cup {e[2] : e \in es}
      BY <3>1 DEF AddEdges
    <3>3. S \subseteq Own(n)
      BY <1>1, <1>2, SourcesAreOwn
    <3> HIDE DEF S
    <3>4. {e[1] : e \in es} = S /\ {e[2] : e \in es} = IF S = {} THEN {} ELSE {m}
      <4>1. \A e \in es : e[1] \in S /\ e[2] = m
        OBVIOUS
      <4>2. \A x \in S : \E e \in es : e[1] = x /\ e[2] = m
        <5> TAKE x \in S
        <5>1. <<x, m>> \in es /\ <<x, m>>[1] = x /\ <<x, m>>[2] = m
          OBVIOUS
        <5>2. QED BY <5>1
      <4> HIDE DEF es
      <4>3. QED BY <4>1, <4>2
    <3>5. (S \X Follow(n)) \cup es = S \X (Follow(n) \cup {m})
      OBVIOUS
    <3> HIDE DEF es
    <3>6. graph'[n].edges = Links(n) \cup (S \X (Follow(n))')
      BY <1>3, <2>0, <2>2, <3>2, <3>5 DEF S
    <3>7. graph'[n].vertices = Own(n) \cup (IF S = {} THEN {} ELSE (Follow(n))')
      <4>1. graph[n].vertices = Own(n) \cup (IF S = {} THEN {} ELSE Follow(n))
        BY <2>0, <2>2 DEF S
      <4>2. QED BY <1>3, <3>2, <3>3, <3>4, <4>1
    <3>8. QED BY <2>2, <3>6, <3>7 DEF S
  <2>3. QED BY <2>1, <2>2
<1>6. InsideExist'
  <2>1. PICK f : AreInside(f)
    BY DEF AskedInv, InsideExist
  <2>2. (AreInside(f))'
    BY <1>2, <2>1 DEF AreInside
  <2>3. QED BY <2>2 DEF InsideExist
<1>7. QED BY <1>4, <1>5, <1>6 DEF AskedInv

LEMMA AskedKeeps ==
  ASSUME AskedInv, UNCHANGED building
  PROVE  AskedInv'
<1>1. kind' = kind /\ parts' = parts /\ graph' = graph /\ after' = after
  BY DEF building
<1>2. \A k : /\ (Sources(k))' = Sources(k) /\ (Links(k))' = Links(k) /\ (Own(k))' = Own(k)
             /\ (Follow(k))' = Follow(k)
  BY <1>1 DEF Sources, Links, Own, PartsOf, Follow
<1>3. AfterMade'
  BY <1>1 DEF AskedInv, AfterMade, Made
<1>4. GraphsAre'
  BY <1>1, <1>2 DEF AskedInv, GraphsAre
<1>5. InsideExist'
  <2>1. PICK f : AreInside(f)
    BY DEF AskedInv, InsideExist
  <2>2. (AreInside(f))'
    BY <1>1, <2>1 DEF AreInside
  <2>3. QED BY <2>2 DEF InsideExist
<1>6. QED BY <1>3, <1>4, <1>5 DEF AskedInv

\* A node without a property has one all of whose parts have it.
LEMMA FirstWithout ==
  ASSUME BuildInv, NEW S \in SUBSET Node, S # {}
  PROVE  \E m \in S : \A p \in PartsOf(m) : p \in Made /\ p \in Node /\ p \notin S
<1>1. PICK m \in S : PartsOf(m) \cap S = {}
  BY DEF BuildInv, Founded
<1>2. PartsOf(m) \subseteq Made /\ Made \subseteq Node
  BY DEF BuildInv, PartsAreMade, Made
<1>3. QED BY <1>1, <1>2

LEMMA InsideFacts ==
  ASSUME BuildInv, AskedInv, NEW n \in Node
  PROVE  /\ n \in Inside[n]
         /\ \A x : x \in Inside[n] <=> x = n \/ \E p \in PartsOf(n) : x \in Inside[p]
<1>1. Inside[n] = {n} \cup UNION {Inside[p] : p \in Seqs!ToSet(parts[n])}
  BY InsideIsInside DEF AskedInv, AreInside
<1>2. Seqs!ToSet(parts[n]) = PartsOf(n)
  BY PartsFacts DEF BuildInv
<1>3. QED BY <1>1, <1>2

Whole(n) == /\ Inside[n] \subseteq Node
            /\ \A x \in Inside[n] : Inside[x] \subseteq Inside[n] /\ PartsOf(x) \subseteq Inside[n]

LEMMA InsideIsWhole ==
  ASSUME BuildInv, AskedInv
  PROVE  \A n \in Node : Whole(n)
<1> DEFINE S == {n \in Node : ~Whole(n)}
<1>1. SUFFICES ASSUME S # {} PROVE FALSE
  OBVIOUS
<1>2. PICK n \in S : \A p \in PartsOf(n) : p \in Made /\ p \in Node /\ p \notin S
  <2>1. S \in SUBSET Node
    OBVIOUS
  <2> HIDE DEF S
  <2>2. QED BY <1>1, <2>1, FirstWithout
<1>3. n \in Node /\ ~Whole(n) /\ \A p \in PartsOf(n) : p \in Node /\ Whole(p)
  BY <1>2
<1>4. \A x : x \in Inside[n] <=> x = n \/ \E p \in PartsOf(n) : x \in Inside[p]
  BY <1>3, InsideFacts
<1>5. \A p \in PartsOf(n) : p \in Inside[n] /\ Inside[p] \subseteq Inside[n]
  BY <1>3, <1>4, InsideFacts
<1>6. Inside[n] \subseteq Node
  BY <1>3, <1>4 DEF Whole
<1>7. ASSUME NEW x \in Inside[n]
      PROVE  Inside[x] \subseteq Inside[n] /\ PartsOf(x) \subseteq Inside[n]
  <2>1. CASE x = n
    BY <1>5, <2>1
  <2>2. CASE \E p \in PartsOf(n) : x \in Inside[p]
    BY <1>3, <1>5, <2>2 DEF Whole
  <2>3. QED BY <1>4, <2>1, <2>2
<1>8. QED BY <1>3, <1>6, <1>7 DEF Whole

\* A node is a delayable, or a chain or a group with parts.
LEMMA MadeKinds ==
  ASSUME BuildInv, NEW n \in Made
  PROVE  /\ n \in Node
         /\ \/ kind[n] = "delayable" /\ n \in Leaf /\ PartsOf(n) = {}
            \/ /\ kind[n] = "chain" /\ n \notin Leaf
               /\ Head(parts[n]) \in PartsOf(n) /\ Seqs!Last(parts[n]) \in PartsOf(n)
            \/ kind[n] = "group" /\ n \notin Leaf /\ (NoEmptyGroup => PartsOf(n) # {})
<1>1. BuildTypes /\ PartsAreMade /\ n \in Node /\ kind[n] \in {"delayable", "chain", "group"}
  BY DEF Made, BuildInv, BuildTypes, Kinds
<1>2. n \in Leaf <=> kind[n] = "delayable"
  BY <1>1 DEF BuildTypes
<1>3. kind[n] = "delayable" => PartsOf(n) = {}
  BY <1>1 DEF PartsAreMade, PartsOf
<1>4. kind[n] = "chain" => Head(parts[n]) \in PartsOf(n) /\ Seqs!Last(parts[n]) \in PartsOf(n)
  BY <1>1, PartsFacts
<1>5. ASSUME kind[n] = "group", NoEmptyGroup PROVE PartsOf(n) # {}
  <2>1. parts[n] # <<>> /\ parts[n] \in Seq(Node)
    BY <1>1, <1>5 DEF NoEmptyGroup, BuildTypes
  <2>2. 1 \in 1..Len(parts[n])
    BY <2>1
  <2>3. QED BY <2>2 DEF PartsOf
<1>6. QED BY <1>1, <1>2, <1>3, <1>4, <1>5

LEMMA HoldsLeaf ==
  ASSUME BuildInv, AskedInv, NoEmptyGroup
  PROVE  \A n \in Made : \E l \in Leaf : l \in Inside[n]
<1> DEFINE S == {n \in Made : ~(\E l \in Leaf : l \in Inside[n])}
<1>1. SUFFICES ASSUME S # {} PROVE FALSE
  OBVIOUS
<1>2. PICK n \in S : \A p \in PartsOf(n) : p \in Made /\ p \in Node /\ p \notin S
  <2>1. S \in SUBSET Node
    BY DEF Made
  <2> HIDE DEF S
  <2>2. QED BY <1>1, <2>1, FirstWithout
<1>3. n \in Made /\ n \in Node /\ ~(\E l \in Leaf : l \in Inside[n])
      /\ \A p \in PartsOf(n) : \E l \in Leaf : l \in Inside[p]
  BY <1>2 DEF Made
<1>4. \A x : x \in Inside[n] <=> x = n \/ \E p \in PartsOf(n) : x \in Inside[p]
  BY <1>3, InsideFacts
<1>5. n \in Leaf \/ \E p \in PartsOf(n) : TRUE
  BY <1>3, MadeKinds
<1>6. QED BY <1>3, <1>4, <1>5

LEMMA EndsAreInside ==
  ASSUME BuildInv, AskedInv
  PROVE  \A n \in Node, side \in Sides : Ends[<<n, side>>] \subseteq Inside[n]
<1> DEFINE S == {n \in Node : \E side \in Sides : ~(Ends[<<n, side>>] \subseteq Inside[n])}
<1>1. SUFFICES ASSUME S # {} PROVE FALSE
  OBVIOUS
<1>2. PICK n \in S : \A p \in PartsOf(n) : p \in Made /\ p \in Node /\ p \notin S
  <2>1. S \in SUBSET Node
    OBVIOUS
  <2> HIDE DEF S
  <2>2. QED BY <1>1, <2>1, FirstWithout
<1>3. n \in Node /\ \A p \in PartsOf(n) : \A side \in Sides : Ends[<<p, side>>] \subseteq Inside[p]
  BY <1>2
<1>4. /\ n \in Inside[n] /\ \A p \in PartsOf(n) : Inside[p] \subseteq Inside[n]
  BY <1>3, InsideFacts
<1>5. ASSUME NEW side \in Sides PROVE Ends[<<n, side>>] \subseteq Inside[n]
  <2>1. side \in {"head", "tail"} /\ "head" \in Sides /\ "tail" \in Sides
    BY DEF Sides
  <2>2. CASE kind[n] = "delayable"
    <3>1. Ends[<<n, side>>] = {n}
      BY <1>3, <2>2, EndsByKind
    <3>2. QED BY <1>4, <3>1
  <2>3. CASE kind[n] = "chain"
    <3>1. Head(parts[n]) \in PartsOf(n) /\ Seqs!Last(parts[n]) \in PartsOf(n)
      BY <1>3, <2>3, PartsFacts DEF BuildInv
    <3>2. /\ Ends[<<n, "head">>] = Ends[<<Head(parts[n]), "tail">>]
          /\ Ends[<<n, "tail">>] = Ends[<<Seqs!Last(parts[n]), "head">>]
      BY <1>3, <2>3, EndsByKind
    <3>3. QED BY <1>3, <1>4, <2>1, <3>1, <3>2
  <2>4. CASE kind[n] = "group"
    <3>1. \A x : x \in Ends[<<n, side>>] <=> \E p \in PartsOf(n) : x \in Ends[<<p, side>>]
      BY <1>3, <2>4, EndsByKind
    <3>2. QED BY <1>3, <1>4, <3>1
  <2>5. CASE kind[n] = "none"
    BY <1>3, <2>5, EndsByKind
  <2>6. kind[n] \in Kinds
    BY <1>3 DEF BuildInv, BuildTypes
  <2>7. QED BY <2>2, <2>3, <2>4, <2>5, <2>6 DEF Kinds
<1>6. QED BY <1>2, <1>5

LEMMA EndsNotEmpty ==
  ASSUME BuildInv, NoEmptyGroup
  PROVE  \A n \in Made, side \in Sides : Ends[<<n, side>>] # {}
<1> DEFINE S == {n \in Made : \E side \in Sides : Ends[<<n, side>>] = {}}
<1>1. SUFFICES ASSUME S # {} PROVE FALSE
  OBVIOUS
<1>2. PICK n \in S : \A p \in PartsOf(n) : p \in Made /\ p \in Node /\ p \notin S
  <2>1. S \in SUBSET Node
    BY DEF Made
  <2> HIDE DEF S
  <2>2. QED BY <1>1, <2>1, FirstWithout
<1>3. n \in Made /\ n \in Node /\ \A p \in PartsOf(n) : \A side \in Sides : Ends[<<p, side>>] # {}
  BY <1>2 DEF Made
<1>4. ASSUME NEW side \in Sides PROVE Ends[<<n, side>>] # {}
  <2>1. side \in {"head", "tail"} /\ "head" \in Sides /\ "tail" \in Sides
    BY DEF Sides
  <2>2. CASE kind[n] = "delayable"
    BY <1>3, <2>2, EndsByKind
  <2>3. CASE kind[n] = "chain"
    <3>1. Head(parts[n]) \in PartsOf(n) /\ Seqs!Last(parts[n]) \in PartsOf(n)
      BY <1>3, <2>3, MadeKinds
    <3>2. /\ Ends[<<n, "head">>] = Ends[<<Head(parts[n]), "tail">>]
          /\ Ends[<<n, "tail">>] = Ends[<<Seqs!Last(parts[n]), "head">>]
      BY <1>3, <2>3, EndsByKind
    <3>3. QED BY <1>3, <2>1, <3>1, <3>2
  <2>4. CASE kind[n] = "group"
    <3>1. \A x : x \in Ends[<<n, side>>] <=> \E p \in PartsOf(n) : x \in Ends[<<p, side>>]
      BY <1>3, <2>4, EndsByKind
    <3>2. PartsOf(n) # {}
      BY <1>3, <2>4, MadeKinds
    <3>3. QED BY <1>3, <3>1, <3>2
  <2>5. QED BY <1>3, <2>2, <2>3, <2>4, MadeKinds
<1>5. QED BY <1>2, <1>4

\* Where there are no chains, heads and tails are all the delayables inside.
LEMMA EndsWithoutChains ==
  ASSUME BuildInv, AskedInv
  PROVE  \A n \in Made : ~HoldsChain(n) => \A side \in Sides :
           \A x : x \in Ends[<<n, side>>] <=> x \in Inside[n] /\ x \in Leaf
<1> DEFINE S == {n \in Made : ~HoldsChain(n) /\ \E side \in Sides :
                   ~(\A x : x \in Ends[<<n, side>>] <=> x \in Inside[n] /\ x \in Leaf)}
<1>1. SUFFICES ASSUME S # {} PROVE FALSE
  OBVIOUS
<1>2. PICK n \in S : \A p \in PartsOf(n) : p \in Made /\ p \in Node /\ p \notin S
  <2>1. S \in SUBSET Node
    BY DEF Made
  <2> HIDE DEF S
  <2>2. QED BY <1>1, <2>1, FirstWithout
<1>3. n \in Made /\ n \in Node /\ ~HoldsChain(n)
  BY <1>2 DEF Made
<1>4. \A x : x \in Inside[n] <=> x = n \/ \E p \in PartsOf(n) : x \in Inside[p]
  BY <1>3, InsideFacts
<1>5. kind[n] # "chain" /\ \A p \in PartsOf(n) : ~HoldsChain(p)
  BY <1>3, <1>4 DEF HoldsChain
<1>6. \A p \in PartsOf(n), side \in Sides : \A x :
        x \in Ends[<<p, side>>] <=> x \in Inside[p] /\ x \in Leaf
  BY <1>2, <1>5
<1>7. ASSUME NEW side \in Sides, NEW x
      PROVE  x \in Ends[<<n, side>>] <=> x \in Inside[n] /\ x \in Leaf
  <2>1. CASE kind[n] = "delayable"
    <3>1. Ends[<<n, side>>] = {n} /\ n \in Leaf /\ PartsOf(n) = {}
      BY <1>3, <2>1, EndsByKind, MadeKinds
    <3>2. QED BY <1>4, <3>1
  <2>2. CASE kind[n] = "group"
    <3>1. x \in Ends[<<n, side>>] <=> \E p \in PartsOf(n) : x \in Ends[<<p, side>>]
      BY <1>3, <2>2, EndsByKind
    <3>2. n \notin Leaf
      BY <1>3, <2>2, MadeKinds
    <3>3. QED BY <1>4, <1>6, <3>1, <3>2
  <2>3. QED BY <1>3, <1>5, <2>1, <2>2, MadeKinds
<1>8. QED BY <1>2, <1>3, <1>7

Planned == /\ BuildInv /\ AskedInv /\ NoEmptyGroup /\ PlanOK
           /\ top \in Made /\ plan = ConnectGraphs(top)

\* What belongs to a graph is what the walk reaches.
LEMMA BelongsIsVisited ==
  ASSUME Planned
  PROVE  /\ Belongs(top) = Visited(top) /\ Visited(top) \subseteq Made
         /\ Reached(top) \subseteq Visited(top)
         /\ \A n \in Visited(top) : /\ PartsOf(n) \subseteq Visited(top)
                                    /\ Follow(n) \subseteq Visited(top)
                                    /\ graph[n].vertices \subseteq Reached(top)
                                    /\ Sources(n) # {}
<1> DEFINE V == Visited(top)
           next == after \cup UNION {{n} \X Seqs!ToSet(parts[n]) : n \in Node}
           leads == Closure(next)
<1>1. BuildTypes /\ PartsAreMade /\ AfterMade /\ GraphsAre /\ top \in Node /\ top \in Made
  BY DEF Planned, BuildInv, AskedInv, Made
<1>2. top \in V /\ V \subseteq Node /\ Closed(V) /\ \A S : top \in S /\ Closed(S) => V \subseteq S
  BY <1>1, VisitedFacts
<1>3. \A n \in Made : /\ n \in Node /\ Sources(n) # {}
                      /\ graph[n].vertices = Own(n) \cup Follow(n)
  <2> TAKE n \in Made
  <2>1. n \in Node
    BY DEF Made
  <2>2. Sources(n) # {}
    BY <1>1, <2>1, MadeKinds, SourcesAreOwn DEF Planned
  <2>3. QED BY <1>1, <2>1, <2>2 DEF GraphsAre
<1>4. \A n \in Made : /\ Own(n) \subseteq Made /\ Follow(n) \subseteq Made
                      /\ PartsOf(n) \subseteq Own(n) /\ (n \in Leaf => Own(n) = {n})
                      /\ (n \notin Leaf => Own(n) = PartsOf(n))
  <2> TAKE n \in Made
  <2>1. n \in Node /\ PartsOf(n) \subseteq Made /\ Follow(n) \subseteq Made
    BY <1>1 DEF Made, PartsAreMade, Follow, AfterMade
  <2>2. n \in Leaf => PartsOf(n) = {}
    BY MadeKinds DEF Planned
  <2>3. QED BY <2>1, <2>2 DEF Own
<1>5. V \subseteq Made
  <2>1. Closed(Made)
    BY <1>3, <1>4 DEF Closed
  <2>2. QED BY <1>1, <1>2, <2>1
<1>6. \A n \in V : PartsOf(n) \subseteq V /\ Follow(n) \subseteq V
  BY <1>2, <1>3, <1>4, <1>5 DEF Closed
<1>7. \A a, b : <<a, b>> \in next <=>
        a \in Node /\ b \in Node /\ (b \in Follow(a) \/ b \in PartsOf(a))
  <2> TAKE a, b
  <2>1. <<a, b>> \in after <=> a \in Node /\ b \in Node /\ b \in Follow(a)
    BY <1>1 DEF Follow, AfterMade, Made
  <2>2. <<a, b>> \in UNION {{n} \X Seqs!ToSet(parts[n]) : n \in Node}
          <=> a \in Node /\ b \in Seqs!ToSet(parts[a])
    OBVIOUS
  <2>3. a \in Node => Seqs!ToSet(parts[a]) = PartsOf(a) /\ PartsOf(a) \subseteq Node
    BY <1>1, PartsFacts
  <2>4. QED BY <2>1, <2>2, <2>3
<1>8. next \in SUBSET Pairs
  <2>1. after \subseteq Pairs
    BY <1>1 DEF AfterMade, Made, Pairs
  <2>2. \A n \in Node : {n} \X Seqs!ToSet(parts[n]) \subseteq Pairs
    BY <1>1, PartsFacts DEF Pairs
  <2>3. QED BY <2>1, <2>2
<1>9. Belongs(top) = {top} \cup {m \in Node : <<top, m>> \in leads}
  BY DEF Belongs
<1> HIDE DEF next
<1>10. /\ leads \in SUBSET Pairs /\ next \subseteq leads /\ Transitive(leads)
       /\ \A t : Transitive(t) /\ next \subseteq t => leads \subseteq t
  BY <1>8, ClosureFacts
<1> HIDE DEF leads
<1>11. V \subseteq Belongs(top)
  <2> DEFINE B == {top} \cup {m \in Node : <<top, m>> \in leads}
  <2>1. ASSUME NEW n \in B, n \in Made, NEW m \in graph[n].vertices PROVE m \in B
    <3>1. m = n \/ (m \in Node /\ <<n, m>> \in next)
      BY <1>1, <1>3, <1>4, <1>7, <2>1 DEF Made
    <3>2. CASE m = n
      BY <2>1, <3>2
    <3>3. CASE m \in Node /\ <<n, m>> \in next
      <4>1. <<n, m>> \in leads
        BY <1>10, <3>3
      <4>2. CASE n = top
        BY <3>3, <4>1, <4>2
      <4>3. CASE <<top, n>> \in leads
        <5>1. <<top, n>>[1] = top /\ <<top, n>>[2] = n /\ <<n, m>>[1] = n /\ <<n, m>>[2] = m
          OBVIOUS
        <5>2. <<top, m>> \in leads
          BY <1>10, <4>1, <4>3, <5>1 DEF Transitive
        <5>3. QED BY <3>3, <5>2
      <4>4. QED BY <2>1, <4>2, <4>3
    <3>4. QED BY <3>1, <3>2, <3>3
  <2> HIDE DEF B
  <2>2. Closed(B \cap Made)
    BY <1>3, <1>4, <2>1 DEF Closed
  <2>3. top \in B
    BY DEF B
  <2>4. V \subseteq B
    <3> HIDE DEF V
    <3>1. V \subseteq B \cap Made
      BY <1>1, <1>2, <2>2, <2>3
    <3>2. QED BY <3>1
  <2>5. QED BY <1>9, <2>4 DEF B
<1>12. Belongs(top) \subseteq V
  <2> DEFINE T == {e \in Pairs : e[1] \in V => e[2] \in V}
  <2>1. Transitive(T)
    <3> SUFFICES ASSUME NEW e \in T, NEW f \in T, e[2] = f[1] PROVE <<e[1], f[2]>> \in T
      BY DEF Transitive
    <3>1. <<e[1], f[2]>> \in Pairs /\ <<e[1], f[2]>>[1] = e[1] /\ <<e[1], f[2]>>[2] = f[2]
      BY DEF Pairs
    <3>2. e[1] \in V => f[2] \in V
      OBVIOUS
    <3>3. QED BY <3>1, <3>2
  <2>2. next \subseteq T
    <3> SUFFICES ASSUME NEW e \in next PROVE e \in T
      OBVIOUS
    <3>1. e \in Pairs /\ e = <<e[1], e[2]>>
      BY <1>8 DEF Pairs
    <3>2. e[2] \in Follow(e[1]) \/ e[2] \in PartsOf(e[1])
      BY <1>7, <3>1
    <3>3. e[1] \in V => e[2] \in V
      BY <1>6, <3>2
    <3>4. QED BY <3>1, <3>3
  <2>3. leads \subseteq T
    <3> HIDE DEF T
    <3> QED BY <1>10, <2>1, <2>2
  <2>4. ASSUME NEW m, <<top, m>> \in leads PROVE m \in V
    <3>1. <<top, m>> \in T /\ <<top, m>>[1] = top /\ <<top, m>>[2] = m
      BY <2>3, <2>4
    <3>2. QED BY <1>2, <3>1
  <2>5. QED BY <1>2, <1>9, <2>4
<1>13. Reached(top) \subseteq V
  BY <1>2 DEF Reached, Closed
<1>14. \A n \in V : graph[n].vertices \subseteq Reached(top)
  BY DEF Reached
<1>15. QED BY <1>3, <1>5, <1>6, <1>11, <1>12, <1>13, <1>14

\* What is inside what belongs to the graph belongs to it.
LEMMA InsideIsVisited ==
  ASSUME Planned
  PROVE  \A n \in Visited(top) : n \in Made /\ n \in Node /\ Inside[n] \subseteq Visited(top)
<1>1. /\ BuildInv /\ AskedInv
      /\ Visited(top) \subseteq Made /\ Visited(top) \subseteq Node
  BY BelongsIsVisited DEF Planned, Made
<1> DEFINE S == {n \in Visited(top) : ~(Inside[n] \subseteq Visited(top))}
<1>2. ASSUME S # {} PROVE FALSE
  <2>1. PICK n \in S : \A p \in PartsOf(n) : p \in Made /\ p \in Node /\ p \notin S
    <3>1. S \in SUBSET Node
      BY <1>1
    <3> HIDE DEF S
    <3>2. QED BY <1>1, <1>2, <3>1, FirstWithout
  <2>2. n \in Visited(top) /\ n \in Node /\ \A p \in PartsOf(n) : Inside[p] \subseteq Visited(top)
    BY <1>1, <2>1, BelongsIsVisited
  <2>3. Inside[n] \subseteq Visited(top)
    BY <1>1, <2>2, InsideFacts
  <2>4. QED BY <2>1, <2>3
<1>3. QED BY <1>1, <1>2

\* All delayables that belong to the graph get a job.
LEMMA VerticesAreAsked ==
  ASSUME Planned
  PROVE  plan.vertices = Belongs(top) \cap Leaf
<1>1. /\ BuildInv /\ AskedInv /\ BuildTypes /\ PartsAreMade /\ GraphsAre
      /\ Visited(top) \subseteq Node
  BY BelongsIsVisited DEF Planned, BuildInv, AskedInv, Made
<1>2. plan.vertices = UNION {Ends[<<v, "tail">>] : v \in Reached(top)}
  BY DEF Planned, ConnectGraphs, Reached
<1>3. "tail" \in Sides
  BY DEF Sides
<1>4. \A n \in Visited(top) : Inside[n] \subseteq Visited(top)
  BY InsideIsVisited
<1>5. ASSUME NEW v \in Reached(top), NEW x \in Ends[<<v, "tail">>]
      PROVE  x \in Visited(top) /\ x \in Leaf
  <2>1. v \in Visited(top) /\ v \in Node
    BY <1>1, BelongsIsVisited
  <2>2. x \in Inside[v] /\ x \in Leaf
    BY <1>1, <1>3, <2>1, EndsAreInside, EndsAreLeaves
  <2>3. QED BY <1>4, <2>1, <2>2
<1>6. ASSUME NEW l \in Visited(top), l \in Leaf
      PROVE  \E v \in Reached(top) : l \in Ends[<<v, "tail">>]
  <2>1. l \in Node /\ kind[l] = "delayable"
    BY <1>1, <1>6 DEF BuildTypes
  <2>2. Ends[<<l, "tail">>] = {l}
    BY <1>1, <1>3, <2>1, EndsByKind
  <2>3. l \in graph[l].vertices
    BY <1>1, <1>6, <2>1 DEF GraphsAre, Own
  <2>4. QED BY <2>2, <2>3, BelongsIsVisited
<1>7. QED BY <1>2, <1>5, <1>6, BelongsIsVisited

-----------------------------------------------------------------------------
(* All that was asked for is ordered                                       *)

Leaves(n) == {l \in Leaf : l \in Inside[n]}
AllBefore(u, w) == \A x \in Leaves(u), y \in Leaves(w) : <<x, y>> \in Before

\* What is inside n comes before a tail of n, or is one, and after a head of n.
EndsReach(n) ==
  \A l \in Leaves(n) : /\ \E x \in Ends[<<n, "tail">>] : x = l \/ <<l, x>> \in Before
                       /\ \E x \in Ends[<<n, "head">>] : x = l \/ <<x, l>> \in Before

LEMMA BeforeGoesOn ==
  ASSUME Planned, NEW a, NEW b, NEW c, <<a, b>> \in Before, <<b, c>> \in Before
  PROVE  <<a, c>> \in Before
<1>1. Transitive(Before)
  BY BeforeFacts DEF Planned
<1>2. <<a, b>>[1] = a /\ <<a, b>>[2] = b /\ <<b, c>>[1] = b /\ <<b, c>>[2] = c
  OBVIOUS
<1> HIDE DEF Before
<1>3. QED BY <1>1, <1>2 DEF Transitive

LEMMA JoinBefore ==
  ASSUME Planned, NEW u, NEW w, EndsReach(u), EndsReach(w),
         \A x \in Ends[<<u, "tail">>], y \in Ends[<<w, "head">>] : <<x, y>> \in Before
  PROVE  AllBefore(u, w)
<1> SUFFICES ASSUME NEW l \in Leaves(u), NEW k \in Leaves(w) PROVE <<l, k>> \in Before
  BY DEF AllBefore
<1>1. PICK x \in Ends[<<u, "tail">>] : x = l \/ <<l, x>> \in Before
  BY DEF EndsReach
<1>2. PICK y \in Ends[<<w, "head">>] : y = k \/ <<y, k>> \in Before
  BY DEF EndsReach
<1>3. <<x, y>> \in Before
  OBVIOUS
<1>4. <<l, y>> \in Before
  BY <1>1, <1>3, BeforeGoesOn
<1>5. QED BY <1>2, <1>4, BeforeGoesOn

LEMMA AllBeforeGoesOn ==
  ASSUME Planned, NEW a, NEW b \in Made, NEW c, AllBefore(a, b), AllBefore(b, c)
  PROVE  AllBefore(a, c)
<1>1. PICK k \in Leaf : k \in Inside[b]
  BY HoldsLeaf DEF Planned
<1>2. k \in Leaves(b)
  BY <1>1 DEF Leaves
<1>3. QED BY <1>2, BeforeGoesOn DEF AllBefore

\* The edges of the plan, by the calls that asked for them.
Linked(e) == \E n \in Visited(top) : e \in Links(n) \/ (e[1] \in Sources(n) /\ e[2] \in Follow(n))

LEMMA PlanEdges ==
  ASSUME Planned
  PROVE  /\ \A e \in Pairs : Linked(e) =>
              \A x \in Ends[<<e[1], "tail">>], y \in Ends[<<e[2], "head">>] : <<x, y>> \in Before
         /\ \A d \in plan.edges : \E e \in Pairs : /\ Linked(e)
              /\ d[1] \in Ends[<<e[1], "tail">>] /\ d[2] \in Ends[<<e[2], "head">>]
              /\ d = <<d[1], d[2]>>
<1> DEFINE E == UNION {graph[n].edges : n \in Visited(top)}
<1>1. plan.edges = UNION {Ends[<<e[1], "tail">>] \X Ends[<<e[2], "head">>] : e \in E}
  BY DEF Planned, ConnectGraphs
<1>2. \A e \in Pairs : e \in E <=> Linked(e)
  <2> TAKE e \in Pairs
  <2>1. \A n \in Visited(top) : graph[n].edges = Links(n) \cup (Sources(n) \X Follow(n))
    BY InsideIsVisited DEF Planned, AskedInv, GraphsAre
  <2>2. \A n : e \in Sources(n) \X Follow(n) <=> e[1] \in Sources(n) /\ e[2] \in Follow(n)
    BY DEF Pairs
  <2>3. QED BY <2>1, <2>2 DEF Linked
<1>3. E \subseteq Pairs
  BY InsideIsVisited DEF Planned, BuildInv, BuildTypes
<1>4. plan.edges \subseteq Before
  BY BeforeFacts DEF Planned
<1> HIDE DEF E, Before
<1>5. ASSUME NEW e \in Pairs, Linked(e), NEW x \in Ends[<<e[1], "tail">>],
             NEW y \in Ends[<<e[2], "head">>]
      PROVE  <<x, y>> \in Before
  <2>1. e \in E
    BY <1>2, <1>5
  <2>2. <<x, y>> \in Ends[<<e[1], "tail">>] \X Ends[<<e[2], "head">>]
    OBVIOUS
  <2>3. <<x, y>> \in plan.edges
    BY <1>1, <2>1, <2>2
  <2>4. QED BY <1>4, <2>3
<1>6. ASSUME NEW d \in plan.edges
      PROVE  \E e \in Pairs : /\ Linked(e)
              /\ d[1] \in Ends[<<e[1], "tail">>] /\ d[2] \in Ends[<<e[2], "head">>]
              /\ d = <<d[1], d[2]>>
  <2>1. PICK e \in E : d \in Ends[<<e[1], "tail">>] \X Ends[<<e[2], "head">>]
    BY <1>1
  <2>2. e \in Pairs /\ Linked(e)
    BY <1>2, <1>3, <2>1
  <2>3. \A A, B : d \in A \X B => d[1] \in A /\ d[2] \in B /\ d = <<d[1], d[2]>>
    OBVIOUS
  <2>4. /\ d[1] \in Ends[<<e[1], "tail">>] /\ d[2] \in Ends[<<e[2], "head">>]
        /\ d = <<d[1], d[2]>>
    BY <2>1, <2>3
  <2>5. QED BY <2>2, <2>4
<1>7. QED BY <1>5, <1>6

\* All that is in one part of a chain comes before all that is in later ones.
LEMMA ChainIsBefore ==
  ASSUME Planned, NEW c \in Visited(top), kind[c] = "chain",
         \A p \in PartsOf(c) : EndsReach(p),
         NEW i \in 1..Len(parts[c]), NEW j \in 1..Len(parts[c]), i < j
  PROVE  AllBefore(parts[c][i], parts[c][j])
<1> DEFINE s == parts[c]
           N == Len(s)
           After(k) == i + 1 + k \in 1..N => AllBefore(s[i], s[i + 1 + k])
           S == {k \in Nat : After(k)}
<1>1. c \in Made /\ c \in Node /\ s \in Seq(Node) /\ N \in Nat
      /\ BuildTypes /\ PartsAreMade
  BY InsideIsVisited DEF Planned, BuildInv, BuildTypes
<1>2. \A k \in 1..N : s[k] \in PartsOf(c) /\ s[k] \in Node /\ s[k] \in Made
  BY <1>1 DEF PartsOf, PartsAreMade, Made
<1>3. ASSUME NEW k \in 1..N, k + 1 \in 1..N PROVE AllBefore(s[k], s[k + 1])
  <2>1. <<s[k], s[k + 1]>> \in Links(c)
    <3>1. k \in 1..(N - 1)
      BY <1>1, <1>3
    <3>2. QED BY <3>1 DEF Links, Consecutive
  <2>2. <<s[k], s[k + 1]>> \in Pairs /\ Linked(<<s[k], s[k + 1]>>)
        /\ <<s[k], s[k + 1]>>[1] = s[k] /\ <<s[k], s[k + 1]>>[2] = s[k + 1]
    BY <1>2, <1>3, <2>1 DEF Linked, Pairs
  <2>3. \A x \in Ends[<<s[k], "tail">>], y \in Ends[<<s[k + 1], "head">>] : <<x, y>> \in Before
    BY <2>2, PlanEdges
  <2>4. EndsReach(s[k]) /\ EndsReach(s[k + 1])
    BY <1>2, <1>3
  <2>5. QED BY <2>3, <2>4, JoinBefore
<1> HIDE DEF s, N
<1>4. N \in Nat /\ i \in 1..N /\ j \in 1..N
  BY <1>1 DEF N, s
<1>5. 0 \in S
  BY <1>3, <1>4
<1>6. ASSUME NEW k \in Nat, k \in S PROVE k + 1 \in S
  <2>1. SUFFICES ASSUME i + 1 + (k + 1) \in 1..N PROVE AllBefore(s[i], s[i + 1 + (k + 1)])
    OBVIOUS
  <2>2. i + 1 + k \in 1..N /\ i + 1 + (k + 1) = (i + 1 + k) + 1
    BY <1>4, <2>1
  <2>3. AllBefore(s[i], s[i + 1 + k]) /\ AllBefore(s[i + 1 + k], s[(i + 1 + k) + 1])
    BY <1>3, <1>6, <2>1, <2>2
  <2>4. s[i + 1 + k] \in Made
    BY <1>2, <2>2
  <2>5. QED BY <2>2, <2>3, <2>4, AllBeforeGoesOn
<1>7. Nat \subseteq S
  <2> HIDE DEF S
  <2> QED BY <1>5, <1>6, Walking!Induction
<1>8. j - i - 1 \in Nat /\ i + 1 + (j - i - 1) = j
  BY <1>4
<1>9. QED BY <1>4, <1>7, <1>8 DEF s

LEMMA LeavesFacts ==
  ASSUME Planned, NEW n \in Made
  PROVE  /\ \A l : l \in Leaves(n) <=>
              (n \in Leaf /\ l = n) \/ \E p \in PartsOf(n) : l \in Leaves(p)
         /\ n \in Leaf => Leaves(n) = {n}
<1>1. n \in Node /\ BuildInv /\ AskedInv
  BY DEF Made, Planned
<1>2. \A x : x \in Inside[n] <=> x = n \/ \E p \in PartsOf(n) : x \in Inside[p]
  BY <1>1, InsideFacts
<1>3. n \in Leaf => PartsOf(n) = {}
  BY <1>1, MadeKinds
<1>4. QED BY <1>2, <1>3 DEF Leaves

LEMMA AllEndsReach ==
  ASSUME Planned, Plain
  PROVE  \A n \in Visited(top) : EndsReach(n)
<1> DEFINE S == {n \in Visited(top) : ~EndsReach(n)}
<1>1. SUFFICES ASSUME S # {} PROVE FALSE
  OBVIOUS
<1>2. /\ BuildInv /\ AskedInv /\ NoEmptyGroup
      /\ \A n \in Visited(top) : n \in Made /\ n \in Node /\ PartsOf(n) \subseteq Visited(top)
  BY InsideIsVisited, BelongsIsVisited DEF Planned
<1>3. PICK n \in S : \A p \in PartsOf(n) : p \in Made /\ p \in Node /\ p \notin S
  <2>1. S \in SUBSET Node
    BY <1>2
  <2> HIDE DEF S
  <2>2. QED BY <1>1, <1>2, <2>1, FirstWithout
<1>4. /\ n \in Visited(top) /\ n \in Made /\ n \in Node /\ ~EndsReach(n)
      /\ \A p \in PartsOf(n) : EndsReach(p) /\ p \in Made /\ p \in Visited(top)
  BY <1>2, <1>3
<1> HIDE DEF S
<1>5. "tail" \in Sides /\ "head" \in Sides
  BY DEF Sides
<1>6. CASE kind[n] = "delayable"
  <2>1. Ends[<<n, "tail">>] = {n} /\ Ends[<<n, "head">>] = {n} /\ n \in Leaf
    BY <1>2, <1>4, <1>5, <1>6, EndsByKind, MadeKinds
  <2>2. Leaves(n) = {n}
    BY <1>4, <2>1, LeavesFacts
  <2>3. QED BY <1>4, <2>1, <2>2 DEF EndsReach
<1>7. CASE kind[n] = "group"
  <2>1. n \notin Leaf
    BY <1>2, <1>4, <1>7, MadeKinds
  <2>2. \A side \in Sides : \A x :
          x \in Ends[<<n, side>>] <=> \E p \in PartsOf(n) : x \in Ends[<<p, side>>]
    BY <1>2, <1>4, <1>7, EndsByKind
  <2>3. ASSUME NEW l \in Leaves(n)
        PROVE  /\ \E x \in Ends[<<n, "tail">>] : x = l \/ <<l, x>> \in Before
               /\ \E x \in Ends[<<n, "head">>] : x = l \/ <<x, l>> \in Before
    <3>1. PICK p \in PartsOf(n) : l \in Leaves(p)
      BY <1>4, <2>1, LeavesFacts
    <3>2. /\ \E x \in Ends[<<p, "tail">>] : x = l \/ <<l, x>> \in Before
          /\ \E x \in Ends[<<p, "head">>] : x = l \/ <<x, l>> \in Before
      BY <1>4, <3>1 DEF EndsReach
    <3> HIDE DEF Before
    <3>3. QED BY <1>5, <2>2, <3>2
  <2>4. QED BY <1>4, <2>3 DEF EndsReach
<1>8. CASE kind[n] = "chain"
  <2> DEFINE s == parts[n]
             N == Len(s)
  <2>1. /\ s \in Seq(Node) /\ N \in Nat /\ s # <<>> /\ N # 0
        /\ Head(s) = s[1] /\ Seqs!Last(s) = s[N] /\ 1 \in 1..N /\ N \in 1..N
        /\ PartsOf(n) = {s[k] : k \in 1..N}
    <3>1. s \in Seq(Node) /\ s # <<>> /\ N \in Nat /\ PartsOf(n) = {s[k] : k \in 1..N}
      BY <1>2, <1>4, <1>8 DEF BuildInv, BuildTypes, PartsAreMade, PartsOf
    <3>2. N # 0
      BY <3>1
    <3>3. QED BY <3>1, <3>2 DEF Seqs!Last
  <2>2. n \notin Leaf
    BY <1>2, <1>4, <1>8, MadeKinds
  <2>3. s[1] \in PartsOf(n) /\ s[N] \in PartsOf(n) /\ s[1] \in Made /\ s[N] \in Made
    BY <1>4, <2>1
  <2>4. \A i, j \in 1..N : i < j => AllBefore(s[i], s[j])
    BY <1>4, <1>8, ChainIsBefore
  <2>5. ~HoldsChain(s[1]) /\ ~HoldsChain(s[N])
    BY <1>4, <1>8, <2>1 DEF Plain
  <2>6. /\ Ends[<<n, "head">>] = Ends[<<s[1], "tail">>]
        /\ Ends[<<n, "tail">>] = Ends[<<s[N], "head">>]
    BY <1>2, <1>4, <1>5, <1>8, <2>1, EndsByKind
  <2> HIDE DEF s, N
  <2>7. /\ \A x : x \in Ends[<<n, "head">>] <=> x \in Leaves(s[1])
        /\ \A x : x \in Ends[<<n, "tail">>] <=> x \in Leaves(s[N])
    BY <1>2, <1>5, <2>3, <2>5, <2>6, EndsWithoutChains DEF Leaves
  <2>8. /\ \E x : x \in Leaves(s[1])
        /\ \E x : x \in Leaves(s[N])
    BY <1>2, <2>3, HoldsLeaf DEF Leaves
  <2>9. N \in Nat
    BY <2>1
  <2>10. \A k \in 1..N : (k = N \/ k < N) /\ (k = 1 \/ 1 < k)
    BY <2>9
  <2>11. ASSUME NEW l \in Leaves(n)
        PROVE  /\ \E x \in Ends[<<n, "tail">>] : x = l \/ <<l, x>> \in Before
               /\ \E x \in Ends[<<n, "head">>] : x = l \/ <<x, l>> \in Before
    <3>1. PICK k \in 1..N : l \in Leaves(s[k])
      BY <1>4, <2>1, <2>2, LeavesFacts
    <3>2. \E x \in Ends[<<n, "tail">>] : x = l \/ <<l, x>> \in Before
      <4>1. CASE k = N
        BY <2>7, <3>1, <4>1
      <4>2. CASE k < N
        <5>1. AllBefore(s[k], s[N])
          BY <2>1, <2>4, <4>2
        <5>2. QED BY <2>7, <2>8, <3>1, <5>1 DEF AllBefore
      <4>3. QED BY <2>10, <4>1, <4>2
    <3>3. \E x \in Ends[<<n, "head">>] : x = l \/ <<x, l>> \in Before
      <4>1. CASE k = 1
        BY <2>7, <3>1, <4>1
      <4>2. CASE 1 < k
        <5>1. AllBefore(s[1], s[k])
          BY <2>1, <2>4, <4>2
        <5>2. QED BY <2>7, <2>8, <3>1, <5>1 DEF AllBefore
      <4>3. QED BY <2>10, <4>1, <4>2
    <3>4. QED BY <3>2, <3>3
  <2>12. QED BY <1>4, <2>11 DEF EndsReach
<1>9. QED BY <1>2, <1>4, <1>6, <1>7, <1>8, MadeKinds

\* What a chain or a call of on_done asks for.
AskedPair(u, w) ==
  \/ \E c \in Visited(top) : kind[c] = "chain" /\ <<u, w>> \in Consecutive(parts[c])
  \/ u \in Visited(top) /\ <<u, w>> \in after

LEMMA AskedPairsFacts ==
  ASSUME Planned, NEW u, NEW w, AskedPair(u, w)
  PROVE  u \in Visited(top) /\ w \in Visited(top)
<1>1. ASSUME u \in Visited(top), <<u, w>> \in after PROVE w \in Visited(top)
  <2>1. w \in Follow(u)
    BY <1>1 DEF Follow, Planned, AskedInv, AfterMade, Made
  <2>2. QED BY <1>1, <2>1, BelongsIsVisited
<1>2. ASSUME NEW c \in Visited(top), kind[c] = "chain", <<u, w>> \in Consecutive(parts[c])
      PROVE  u \in PartsOf(c) /\ w \in PartsOf(c)
  <2>1. PICK i \in 1..(Len(parts[c]) - 1) : <<u, w>> = <<parts[c][i], parts[c][i + 1]>>
    BY <1>2 DEF Consecutive
  <2>2. Len(parts[c]) \in Nat
    BY InsideIsVisited DEF Planned, BuildInv, BuildTypes
  <2>3. i \in 1..Len(parts[c]) /\ i + 1 \in 1..Len(parts[c])
    BY <2>2
  <2>4. QED BY <2>1, <2>3 DEF PartsOf
<1>3. QED BY <1>1, <1>2, BelongsIsVisited DEF AskedPair

LEMMA AskedIsBefore ==
  ASSUME Planned, Plain, NEW u, NEW w, AskedPair(u, w)
  PROVE  AllBefore(u, w)
<1>1. /\ u \in Visited(top) /\ w \in Visited(top) /\ u \in Made /\ w \in Made
      /\ u \in Node /\ w \in Node
  BY AskedPairsFacts, InsideIsVisited
<1>2. EndsReach(u) /\ EndsReach(w)
  BY <1>1, AllEndsReach
<1>3. /\ <<u, w>> \in Pairs /\ <<u, w>>[1] = u /\ <<u, w>>[2] = w
      /\ BuildInv /\ AskedInv /\ BuildTypes /\ PartsAreMade
  BY <1>1 DEF Pairs, Planned, BuildInv
<1>4. ASSUME NEW c \in Visited(top), kind[c] = "chain", <<u, w>> \in Consecutive(parts[c])
      PROVE  AllBefore(u, w)
  <2>1. Linked(<<u, w>>)
    BY <1>4 DEF Linked, Links
  <2>2. \A x \in Ends[<<u, "tail">>], y \in Ends[<<w, "head">>] : <<x, y>> \in Before
    BY <1>3, <2>1, PlanEdges
  <2>3. QED BY <1>2, <2>2, JoinBefore
<1>5. ASSUME <<u, w>> \in after PROVE AllBefore(u, w)
  <2>1. w \in Follow(u)
    BY <1>1, <1>5 DEF Follow
  <2>2. \A x \in Ends[<<u, "tail">>] : \E s \in Sources(u) : s \in Node /\ x \in Ends[<<s, "tail">>]
    <3>1. "tail" \in Sides /\ "head" \in Sides
      BY DEF Sides
    <3>2. /\ kind[u] = "delayable" => Sources(u) = {u}
          /\ kind[u] = "chain" => Sources(u) = {Seqs!Last(parts[u])}
          /\ kind[u] = "group" => Sources(u) = PartsOf(u)
          /\ PartsOf(u) \subseteq Made /\ PartsOf(u) \subseteq Node
      BY <1>1, <1>3, SourcesAreOwn, PartsFacts DEF PartsAreMade
    <3>3. CASE kind[u] = "delayable"
      BY <1>1, <3>2, <3>3
    <3>4. CASE kind[u] = "group"
      <4>1. Sources(u) = PartsOf(u) /\ PartsOf(u) \subseteq Node
        BY <3>2, <3>4
      <4>2. \A x : x \in Ends[<<u, "tail">>] <=> \E p \in PartsOf(u) : x \in Ends[<<p, "tail">>]
        BY <1>1, <1>3, <3>1, <3>4, EndsByKind
      <4>3. QED BY <4>1, <4>2
    <3>5. CASE kind[u] = "chain"
      <4> DEFINE z == Seqs!Last(parts[u])
      <4>1. z \in PartsOf(u) /\ z \in Made /\ z \in Node /\ Sources(u) = {z}
        BY <1>1, <1>3, <3>2, <3>5, MadeKinds
      <4>2. ~HoldsChain(z)
        BY <1>1, <3>5 DEF Plain
      <4>3. Ends[<<u, "tail">>] = Ends[<<z, "head">>]
        BY <1>1, <1>3, <3>1, <3>5, EndsByKind
      <4> HIDE DEF z
      <4>4. \A x : x \in Ends[<<z, "head">>] <=> x \in Ends[<<z, "tail">>]
        BY <1>3, <3>1, <4>1, <4>2, EndsWithoutChains
      <4>5. QED BY <4>1, <4>3, <4>4
    <3>6. QED BY <1>1, <1>3, <3>3, <3>4, <3>5, MadeKinds
  <2>3. \A x \in Ends[<<u, "tail">>], y \in Ends[<<w, "head">>] : <<x, y>> \in Before
    <3> TAKE x \in Ends[<<u, "tail">>], y \in Ends[<<w, "head">>]
    <3>1. PICK s \in Sources(u) : s \in Node /\ x \in Ends[<<s, "tail">>]
      BY <2>2
    <3>2. /\ <<s, w>> \in Pairs /\ <<s, w>>[1] = s /\ <<s, w>>[2] = w
      BY <1>1, <3>1 DEF Pairs
    <3>3. Linked(<<s, w>>)
      BY <1>1, <2>1, <3>1, <3>2 DEF Linked
    <3>4. QED BY <3>1, <3>2, <3>3, PlanEdges
  <2>4. QED BY <1>2, <2>3, JoinBefore
<1>6. QED BY <1>4, <1>5 DEF AskedPair

LEMMA AskedFacts ==
  ASSUME Planned
  PROVE  /\ Asked(top) \in SUBSET Pairs /\ Transitive(Asked(top))
         /\ \A u, w : AskedPair(u, w) => Inside[u] \X Inside[w] \subseteq Asked(top)
         /\ \A t : /\ Transitive(t)
                   /\ \A u, w : AskedPair(u, w) => Inside[u] \X Inside[w] \subseteq t
                   => Asked(top) \subseteq t
<1> DEFINE nodes == Belongs(top)
           pairs == {p \in after : p[1] \in nodes}
                    \cup UNION {Consecutive(parts[c]) : c \in {n \in nodes : kind[n] = "chain"}}
           r == UNION {Inside[p[1]] \X Inside[p[2]] : p \in pairs}
<1>1. Asked(top) = Closure(r)
  BY DEF Asked
<1>2. nodes = Visited(top)
  BY BelongsIsVisited
<1>3. \A p \in pairs : p = <<p[1], p[2]>>
  <2>1. \A p \in after : p = <<p[1], p[2]>>
    BY DEF Planned, AskedInv, AfterMade
  <2>2. \A s : \A p \in Consecutive(s) : p = <<p[1], p[2]>>
    BY DEF Consecutive
  <2>3. QED BY <2>1, <2>2
<1>4. \A u, w : <<u, w>> \in pairs <=> AskedPair(u, w)
  <2> TAKE u, w
  <2>1. <<u, w>>[1] = u
    OBVIOUS
  <2>2. <<u, w>> \in {p \in after : p[1] \in nodes} <=> <<u, w>> \in after /\ u \in nodes
    BY <2>1
  <2>3. <<u, w>> \in UNION {Consecutive(parts[c]) : c \in {n \in nodes : kind[n] = "chain"}}
          <=> \E c \in nodes : kind[c] = "chain" /\ <<u, w>> \in Consecutive(parts[c])
    OBVIOUS
  <2> HIDE DEF nodes
  <2>4. QED BY <1>2, <2>2, <2>3 DEF AskedPair
<1> HIDE DEF pairs, nodes
<1>5. \A u, w : AskedPair(u, w) => Inside[u] \X Inside[w] \subseteq r
  <2> TAKE u, w
  <2>1. <<u, w>>[1] = u /\ <<u, w>>[2] = w
    OBVIOUS
  <2>2. <<u, w>> \in pairs => Inside[<<u, w>>[1]] \X Inside[<<u, w>>[2]] \subseteq r
    OBVIOUS
  <2> HIDE DEF r
  <2>3. QED BY <1>4, <2>1, <2>2
<1>6. \A p \in pairs : AskedPair(p[1], p[2])
  BY <1>3, <1>4
<1>7. \A t : (\A u, w : AskedPair(u, w) => Inside[u] \X Inside[w] \subseteq t) => r \subseteq t
  <2> TAKE t
  <2> SUFFICES ASSUME \A u, w : AskedPair(u, w) => Inside[u] \X Inside[w] \subseteq t
               PROVE  \A p \in pairs : Inside[p[1]] \X Inside[p[2]] \subseteq t
    OBVIOUS
  <2> QED BY <1>6
<1>8. r \in SUBSET Pairs
  <2>1. \A n \in Node : Inside[n] \subseteq Node
    BY InsideIsWhole DEF Whole, Planned
  <2>2. ASSUME NEW u, NEW w, AskedPair(u, w) PROVE Inside[u] \X Inside[w] \subseteq Pairs
    <3>1. u \in Node /\ w \in Node
      BY <2>2, AskedPairsFacts, InsideIsVisited
    <3>2. QED BY <2>1, <3>1 DEF Pairs
  <2> HIDE DEF r
  <2>3. QED BY <1>7, <2>2
<1> HIDE DEF r
<1>9. QED BY <1>1, <1>5, <1>7, <1>8, ClosureFacts

\* What the plan orders was asked for.
LEMMA BeforeIsAsked ==
  ASSUME Planned
  PROVE  Before \subseteq Asked(top) \cap (Leaf \X Leaf)
<1> DEFINE A == Asked(top)
           T == A \cap (Leaf \X Leaf)
<1>1. A \in SUBSET Pairs /\ Transitive(A)
      /\ \A u, w : AskedPair(u, w) => Inside[u] \X Inside[w] \subseteq A
  BY AskedFacts
<1> HIDE DEF A
<1>2. Transitive(T)
  <2> SUFFICES ASSUME NEW e \in T, NEW f \in T, e[2] = f[1] PROVE <<e[1], f[2]>> \in T
    BY DEF Transitive
  <2>1. <<e[1], f[2]>> \in A
    BY <1>1 DEF Transitive
  <2>2. e[1] \in Leaf /\ f[2] \in Leaf
    OBVIOUS
  <2>3. QED BY <2>1, <2>2
<1>3. ASSUME NEW d \in plan.edges PROVE d \in T
  <2>1. PICK e \in Pairs : /\ Linked(e)
              /\ d[1] \in Ends[<<e[1], "tail">>] /\ d[2] \in Ends[<<e[2], "head">>]
              /\ d = <<d[1], d[2]>>
    BY PlanEdges
  <2>2. PICK n \in Visited(top) : e \in Links(n) \/ (e[1] \in Sources(n) /\ e[2] \in Follow(n))
    BY <2>1 DEF Linked
  <2>3. BuildInv /\ AskedInv /\ BuildTypes /\ PartsAreMade /\ n \in Made /\ n \in Node
        /\ e[1] \in Node /\ e[2] \in Node /\ e = <<e[1], e[2]>>
        /\ "tail" \in Sides /\ "head" \in Sides
    BY <2>2, InsideIsVisited DEF Planned, BuildInv, Pairs, Sides
  <2>4. d[1] \in Inside[e[1]] /\ d[2] \in Inside[e[2]] /\ d[1] \in Leaf /\ d[2] \in Leaf
    BY <2>1, <2>3, EndsAreInside, EndsAreLeaves
  <2>5. \E u, w : AskedPair(u, w) /\ d[1] \in Inside[u] /\ d[2] \in Inside[w]
    <3>1. CASE e \in Links(n)
      <4>1. kind[n] = "chain" /\ e \in Consecutive(parts[n])
        BY <3>1 DEF Links
      <4>2. AskedPair(e[1], e[2])
        BY <2>2, <2>3, <4>1 DEF AskedPair
      <4>3. QED BY <2>4, <4>2
    <3>2. CASE e[1] \in Sources(n) /\ e[2] \in Follow(n)
      <4>1. AskedPair(n, e[2])
        BY <2>2, <3>2 DEF AskedPair, Follow
      <4>2. e[1] = n \/ e[1] \in PartsOf(n)
        BY <2>3, <3>2, SourcesAreOwn DEF Own
      <4>3. Inside[e[1]] \subseteq Inside[n]
        BY <2>3, <4>2, InsideFacts
      <4>4. QED BY <2>4, <4>1, <4>3
    <3>3. QED BY <2>2, <3>1, <3>2
  <2>6. d \in A
    BY <1>1, <2>1, <2>5
  <2>7. QED BY <2>1, <2>4, <2>6
<1> HIDE DEF T
<1>4. Before \subseteq T
  <2>1. \A t : Transitive(t) /\ plan.edges \subseteq t => Before \subseteq t
    BY BeforeFacts DEF Planned
  <2> HIDE DEF Before
  <2>2. QED BY <1>2, <1>3, <2>1
<1>5. QED BY <1>4 DEF T, A

\* In plain graphs, all that was asked for is ordered.
LEMMA PlainIsOrdered ==
  ASSUME Planned, Plain
  PROVE  Asked(top) \cap (Leaf \X Leaf) \subseteq Before
<1> DEFINE T == {e \in Made \X Made : AllBefore(e[1], e[2])}
<1>1. Transitive(T)
  <2> SUFFICES ASSUME NEW e \in T, NEW f \in T, e[2] = f[1] PROVE <<e[1], f[2]>> \in T
    BY DEF Transitive
  <2>1. e[1] \in Made /\ e[2] \in Made /\ f[2] \in Made
        /\ AllBefore(e[1], e[2]) /\ AllBefore(e[2], f[2])
    OBVIOUS
  <2>2. AllBefore(e[1], f[2])
    BY <2>1, AllBeforeGoesOn
  <2>3. QED BY <2>1, <2>2
<1>2. ASSUME NEW u, NEW w, AskedPair(u, w) PROVE Inside[u] \X Inside[w] \subseteq T
  <2>1. u \in Visited(top) /\ w \in Visited(top) /\ u \in Node /\ w \in Node
    BY <1>2, AskedPairsFacts, InsideIsVisited
  <2>2. AllBefore(u, w)
    BY <1>2, AskedIsBefore
  <2>3. SUFFICES ASSUME NEW a \in Inside[u], NEW b \in Inside[w] PROVE <<a, b>> \in T
    OBVIOUS
  <2>4. a \in Made /\ b \in Made
    BY <2>1, InsideIsVisited
  <2>5. Inside[a] \subseteq Inside[u] /\ Inside[b] \subseteq Inside[w]
    BY <2>1, InsideIsWhole DEF Whole, Planned
  <2>6. AllBefore(a, b)
    BY <2>2, <2>5 DEF AllBefore, Leaves
  <2>7. QED BY <2>4, <2>6
<1> HIDE DEF T
<1>3. Asked(top) \subseteq T
  BY <1>1, <1>2, AskedFacts
<1>4. SUFFICES ASSUME NEW x \in Leaf, NEW y \in Leaf, <<x, y>> \in T PROVE <<x, y>> \in Before
  BY <1>3
<1>5. x \in Made /\ y \in Made /\ AllBefore(x, y)
  BY <1>4 DEF T
<1>6. x \in Leaves(x) /\ y \in Leaves(y)
  BY <1>5, LeavesFacts
<1>7. QED BY <1>5, <1>6 DEF AllBefore

-----------------------------------------------------------------------------
(* Every step, with what was asked for                                     *)

\* The plan is the flattened graph of the node delay() was called on.
PlannedInv ==
  /\ GraphInv /\ AskedInv
  /\ top # NoNode => top \in Made /\ plan = ConnectGraphs(top)

LEMMA PlannedIsAsked ==
  ASSUME PlannedInv
  PROVE  PlanIsAsked
<1> SUFFICES ASSUME top # NoNode
             PROVE  /\ plan.edges \subseteq plan.vertices \X plan.vertices
                    /\ NoEmptyGroup => plan.vertices = Belongs(top) \cap Leaf
                    /\ NoEmptyGroup /\ Plain => Ordered
  BY DEF PlanIsAsked
<1>1. PlanOK
  BY DEF PlannedInv, GraphInv, SortInv
<1>2. NoEmptyGroup => Planned
  BY <1>1 DEF Planned, PlannedInv, GraphInv
<1>3. ASSUME NoEmptyGroup PROVE plan.vertices = Belongs(top) \cap Leaf
  BY <1>2, <1>3, VerticesAreAsked
<1>4. ASSUME NoEmptyGroup, Plain PROVE Ordered
  <2>1. Before = Asked(top) \cap (Leaf \X Leaf)
    BY <1>2, <1>4, BeforeIsAsked, PlainIsOrdered
  <2>2. QED BY <2>1 DEF Ordered, Before
<1>5. QED BY <1>1, <1>3, <1>4 DEF PlanOK

\* What is flattened stays as it was when delay() was called.
LEMMA ConnectKeeps ==
  ASSUME UNCHANGED building, NEW t
  PROVE  ConnectGraphs(t)' = ConnectGraphs(t)
<1>1. kind' = kind /\ parts' = parts /\ graph' = graph
  BY DEF building
<1>2. QED BY <1>1 DEF ConnectGraphs, Visited, Ends, EndsOf

LEMMA PlannedInit == GraphInit => PlannedInv
<1> SUFFICES ASSUME GraphInit PROVE PlannedInv
  OBVIOUS
<1>1. top = NoNode
  BY DEF GraphInit
<1>2. QED BY <1>1, GraphInitInv, NothingAsked DEF PlannedInv

LEMMA PlannedNext == PlannedInv /\ [GraphNext]_graphVars => PlannedInv'
<1> SUFFICES ASSUME PlannedInv, [GraphNext]_graphVars PROVE PlannedInv'
  OBVIOUS
<1>1. GraphInv /\ AskedInv /\ BuildInv /\ GraphInv'
  BY GraphNextInv DEF PlannedInv, GraphInv
<1>2. CASE \E n \in Composite, s \in Lists : Distinct(s) /\ (MakeChain(n, s) \/ MakeGroup(n, s))
  <2>1. PICK n \in Composite, s \in Lists : MakeChain(n, s) \/ MakeGroup(n, s)
    BY <1>2
  <2>2. s \in Seq(Node) /\ \A i \in 1..Len(s) : s[i] \in Made
    BY ListsAreParts
  <2>3. AskedInv'
    BY <1>1, <2>1, <2>2, ChainAsks, GroupAsks
  <2>4. top' = NoNode
    BY <2>1 DEF MakeChain, MakeGroup, Make
  <2>5. QED BY <1>1, <2>3, <2>4 DEF PlannedInv
<1>3. CASE \E n, m \in Node : OnDone(n, m)
  <2>1. PICK n \in Node, m \in Node : OnDone(n, m)
    BY <1>3
  <2>2. AskedInv' /\ top' = NoNode
    BY <1>1, <2>1, OnDoneAsks DEF OnDone
  <2>3. QED BY <1>1, <2>2 DEF PlannedInv
<1>4. CASE \E t \in Node : DelayTop(t) \/ ExecuteDirect(t)
  <2>1. PICK t \in Node : DelayTop(t) \/ ExecuteDirect(t)
    BY <1>4
  <2>2. UNCHANGED building /\ top' = t /\ plan' = ConnectGraphs(t) /\ t \in Made
    BY <2>1 DEF DelayTop, ExecuteDirect
  <2>3. AskedInv' /\ ConnectGraphs(t)' = ConnectGraphs(t) /\ t \in Made'
    BY <1>1, <2>2, AskedKeeps, ConnectKeeps DEF Made, building
  <2>4. plan' = (ConnectGraphs(top))'
    BY <2>2, <2>3
  <2>5. QED BY <1>1, <2>2, <2>3, <2>4 DEF PlannedInv
<1>5. ASSUME UNCHANGED building, UNCHANGED <<top, plan>> PROVE PlannedInv'
  <2>1. AskedInv' /\ Made' = Made
    BY <1>1, <1>5, AskedKeeps DEF Made, building
  <2>2. (ConnectGraphs(top))' = ConnectGraphs(top)
    BY <1>5 DEF ConnectGraphs, Visited, Ends, EndsOf, building
  <2>3. QED BY <1>1, <1>5, <2>1, <2>2 DEF PlannedInv
<1>6. CASE Execute
  BY <1>5, <1>6 DEF Execute
<1>7. CASE UNCHANGED graphVars
  BY <1>5, <1>7 DEF graphVars
<1>8. QED BY <1>2, <1>3, <1>4, <1>6, <1>7 DEF GraphNext

\* Every delayable of the graph gets a job, jobs depend on jobs of the graph, and
\* in plain graphs directly or not on exactly those asked to come before: for
\* every set of delayables, chains and groups, nested in any way.
THEOREM PlanIsRight == GraphSpec => []PlanIsAsked
<1>1. GraphSpec => []PlannedInv
  BY PlannedInit, PlannedNext, PTL DEF GraphSpec
<1>2. PlannedInv => PlanIsAsked
  BY PlannedIsAsked
<1>3. QED BY <1>1, <1>2, PTL

-----------------------------------------------------------------------------
(* The two together                                                        *)

\* Each of the two behaves as it does alone.
LEMMA PartsAsAlone == MCSpec => GraphSpec /\ Spec
<1>1. MCInit => GraphInit /\ Init
  BY DEF MCInit
<1>2. ASSUME [\/ focus = "graph" /\ GraphNext /\ UNCHANGED <<focus, vars>>
              \/ focus = "queue" /\ Next /\ UNCHANGED <<focus, graphVars>>
             ]_<<focus, graphVars, vars>>
      PROVE  [GraphNext]_graphVars /\ [Next]_vars
  BY <1>2
<1>3. QED BY <1>1, <1>2, PTL DEF MCSpec, GraphSpec, Spec
=============================================================================
