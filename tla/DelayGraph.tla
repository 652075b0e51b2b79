----------------------------- MODULE DelayGraph -----------------------------
(***************************************************************************)
(* Building and delaying a graph of jobs (queue_job/delay.py): delayables, *)
(* chains and groups are connected with on_done() and nested in chains and *)
(* groups; delay() flattens them into jobs and dependencies between jobs,  *)
(* which are stored, or executed at once in an order that respects them.   *)
(***************************************************************************)
EXTENDS Integers, Sequences, FiniteSets

Seqs == INSTANCE SequencesExt

CONSTANTS
  Leaf,       \* the Delayable objects
  Composite,  \* the DelayableChain and DelayableGroup objects
  MaxParts,   \* bound: the parts of a chain or group
  MinParts,   \* 1, or 0 when empty groups are made too
  MaxLinks    \* bound: the calls of on_done()

Node == Leaf \cup Composite
NoNode == "no node"

ASSUME GraphAssumption ==
  /\ Leaf \cap Composite = {} /\ IsFiniteSet(Node) /\ NoNode \notin Node
  /\ MaxParts \in Nat /\ MinParts \in Nat /\ MaxLinks \in Nat

VARIABLES
  kind,      \* kind[n]: "delayable", "chain" or "group"; "none" before
  parts,     \* parts[n]: the nodes the chain or group n was made of
  graph,     \* graph[n]: the _graph of n, with vertices and edges
  after,     \* history: <<n, m>> when n.on_done(m) was called
  top,       \* the node delay() was called on
  plan,      \* the flattened graph, of delayables only
  stored,    \* stored[l]: the state of the job stored for l, or "none"
  left,      \* depends_per_node, in topological_sort
  queue,     \* the delayables topological_sort may yield next
  executed   \* the delayables it has yielded, in order

building == <<kind, parts, graph, after>>
graphVars == <<building, top, plan, stored, left, queue, executed>>

EmptyGraph == [vertices |-> {}, edges |-> {}]

GraphInit ==
  /\ kind = [n \in Node |-> IF n \in Leaf THEN "delayable" ELSE "none"]
  /\ parts = [n \in Node |-> <<>>]
  /\ graph = [n \in Node |-> IF n \in Leaf
                             THEN [vertices |-> {n}, edges |-> {}]
                             ELSE EmptyGraph]
  /\ after = {}
  /\ top = NoNode /\ plan = EmptyGraph
  /\ stored = [l \in Leaf |-> "none"]
  /\ left = [l \in Leaf |-> 0] /\ queue = <<>> /\ executed = <<>>

-----------------------------------------------------------------------------
(* Building                                                                *)

Made == {n \in Node : kind[n] # "none"}
AddEdges(g, es) == [vertices |-> g.vertices \cup {e[1] : e \in es}
                                            \cup {e[2] : e \in es},
                    edges    |-> g.edges \cup es]
Consecutive(s) == {<<s[i], s[i + 1]>> : i \in 1..(Len(s) - 1)}
Distinct(s) == Cardinality(Seqs!ToSet(s)) = Len(s)

Make(n, k, s, g) ==
  /\ top = NoNode /\ kind[n] = "none"
  /\ kind' = [kind EXCEPT ![n] = k]
  /\ parts' = [parts EXCEPT ![n] = s]
  /\ graph' = [graph EXCEPT ![n] = g]
  /\ UNCHANGED <<after, top, plan, stored, left, queue, executed>>

MakeChain(n, s) ==
  /\ s # <<>>
  /\ Make(n, "chain", s, AddEdges([vertices |-> {s[1]}, edges |-> {}],
                                  Consecutive(s)))

MakeGroup(n, s) ==
  Make(n, "group", s, [vertices |-> Seqs!ToSet(s), edges |-> {}])

\* on_done: from the delayable itself, the last part of a chain, every
\* member of a group.
Sources(n) == CASE kind[n] = "delayable" -> {n}
                [] kind[n] = "chain" -> {Seqs!Last(parts[n])}
                [] kind[n] = "group" -> Seqs!ToSet(parts[n])

OnDone(n, m) ==
  /\ top = NoNode /\ Cardinality(after) < MaxLinks
  /\ n # m /\ {n, m} \subseteq Made
  /\ graph' = [graph EXCEPT ![n] = AddEdges(@, Sources(n) \X {m})]
  /\ after' = after \cup {<<n, m>>}
  /\ UNCHANGED <<kind, parts, top, plan, stored, left, queue, executed>>

-----------------------------------------------------------------------------
(* Flattening                                                              *)

\* _head() and _tail(), found by f for the parts.  The head of a chain is the
\* tail of its first part, and its tail the head of its last one.
EndsOf(f, n, side) ==
  CASE kind[n] = "delayable" -> {n}
    [] kind[n] = "chain" /\ side = "head" -> f[<<Head(parts[n]), "tail">>]
    [] kind[n] = "chain" /\ side = "tail" -> f[<<Seqs!Last(parts[n]), "head">>]
    [] kind[n] = "group" -> UNION {f[<<p, side>>] : p \in Seqs!ToSet(parts[n])}
    [] OTHER -> {}

Ends ==
  LET f[x \in Node \X {"head", "tail"}] == EndsOf(f, x[1], x[2])
  IN  f

\* Mutant of Visited: only the graph delay() was called on is walked.
Visited_Shallow(t) == {t} \cup graph[t].vertices

\* The graphs _connect_graphs walks: the vertices of a graph lead to others.
Visited(t) ==
  LET walk[i \in 0..Cardinality(Node)] ==
        IF i = 0 THEN {t}
        ELSE LET seen == walk[i - 1]
             IN  seen \cup UNION {graph[n].vertices : n \in seen}
  IN  walk[Cardinality(Node)]

\* _merge_graph of all of them: the tails of a vertex lead to the heads of
\* its neighbours.
ConnectGraphs(t) ==
  LET ends  == Ends
      seen  == Visited(t)
  IN  [vertices |-> UNION {ends[<<v, "tail">>] :
                            v \in UNION {graph[n].vertices : n \in seen}},
       edges    |-> UNION {ends[<<e[1], "tail">>] \X ends[<<e[2], "head">>] :
                            e \in UNION {graph[n].edges : n \in seen}}]

DependsOn(l) == {p \in Leaf : <<p, l>> \in plan.edges}

\* delay(): a job per vertex, then the dependencies, then the jobs are
\* stored; a job that depends on itself raises ValueError before that.
DelayTop(t) ==
  /\ top = NoNode /\ t \in Made
  /\ top' = t
  /\ plan' = ConnectGraphs(t)
  /\ stored' = IF \E l \in Leaf : <<l, l>> \in plan'.edges THEN stored
               ELSE [l \in Leaf |->
                      IF l \notin plan'.vertices THEN "none"
                      ELSE IF \E p \in Leaf : <<p, l>> \in plan'.edges
                      THEN "wait_dependencies" ELSE "pending"]
  /\ UNCHANGED <<building, left, queue, executed>>

-----------------------------------------------------------------------------
(* _execute_graph_direct: topological_sort, one delayable at a time        *)

ExecuteDirect(t) ==
  /\ top = NoNode /\ t \in Made
  /\ top' = t
  /\ plan' = ConnectGraphs(t)
  /\ left' = [l \in Leaf |-> Cardinality({e \in plan'.edges : e[2] = l})]
  /\ queue' \in Seqs!SetToSeqs({v \in plan'.vertices :
                             \A e \in plan'.edges : e[2] # v})
  /\ UNCHANGED <<building, stored, executed>>

\* Mutant of Execute: a delayable is queued as soon as one parent is done.
Execute_Early ==
  /\ queue # <<>>
  /\ LET v == Head(queue)
         next == {l \in Leaf : <<v, l>> \in plan.edges}
     IN  /\ executed' = Append(executed, v)
         /\ left' = [l \in Leaf |-> IF l \in next THEN left[l] - 1 ELSE left[l]]
         /\ \E s \in Seqs!SetToSeqs({l \in next : l \notin Seqs!ToSet(queue)
                                             \cup Seqs!ToSet(executed)}) :
              queue' = Tail(queue) \o s
  /\ UNCHANGED <<building, top, plan, stored>>

Execute ==
  /\ queue # <<>>
  /\ LET v == Head(queue)
         next == {l \in Leaf : <<v, l>> \in plan.edges}
     IN  /\ executed' = Append(executed, v)
         /\ left' = [l \in Leaf |-> IF l \in next THEN left[l] - 1 ELSE left[l]]
         /\ \E s \in Seqs!SetToSeqs({l \in next : left[l] = 1}) :
              queue' = Tail(queue) \o s
  /\ UNCHANGED <<building, top, plan, stored>>

Lists == UNION {[1..k -> Made] : k \in MinParts..MaxParts}

GraphNext ==
  \/ \E n \in Composite, s \in Lists :
       Distinct(s) /\ (MakeChain(n, s) \/ MakeGroup(n, s))
  \/ \E n, m \in Node : OnDone(n, m)
  \/ \E t \in Node : DelayTop(t) \/ ExecuteDirect(t)
  \/ Execute

GraphSpec == GraphInit /\ [][GraphNext]_graphVars

-----------------------------------------------------------------------------
(* What was asked for                                                      *)

\* A relation, and what it relates by way of n.
Through(q, n) == q \cup {<<p[1], o[2]>> : p \in {e \in q : e[2] = n},
                                        o \in {e \in q : e[1] = n}}

Nodes == Seqs!SetToSeq(Node)
Closure(r) == Seqs!FoldLeft(Through, r, Nodes)    \* the transitive closure

Inside ==
  LET f[n \in Node] == {n} \cup UNION {f[p] : p \in Seqs!ToSet(parts[n])}
  IN  f

\* The nodes that belong to the graph whose top is t.
Belongs(t) ==
  LET leads == Closure(after \cup UNION {{n} \X Seqs!ToSet(parts[n]) : n \in Node})
  IN  {t} \cup {m \in Node : <<t, m>> \in leads}

\* n before m: a chain is "a sequence of jobs to execute in order", and what
\* is passed to n.on_done() runs when n is done.  All that is inside n comes
\* before all that is inside m.
Asked(t) ==
  LET nodes  == Belongs(t)
      inside == Inside
      pairs  == {p \in after : p[1] \in nodes}
                \cup UNION {Consecutive(parts[c]) :
                             c \in {n \in nodes : kind[n] = "chain"}}
  IN  Closure(UNION {inside[p[1]] \X inside[p[2]] : p \in pairs})

HoldsChain(n) == \E m \in Inside[n] : kind[m] = "chain"
NoEmptyGroup == \A n \in Node : kind[n] = "group" => parts[n] # <<>>

\* No chain begins or ends with a chain, or with a group that holds one.
Plain ==
  \A n \in Node : kind[n] = "chain" => /\ ~HoldsChain(Head(parts[n]))
                                      /\ ~HoldsChain(Seqs!Last(parts[n]))

Ordered ==
  top # NoNode =>
    Closure(plan.edges) = Asked(top) \cap (Leaf \X Leaf)

\* The same of all graphs that ask no job to come before itself, chains of
\* chains included.
ChainsAreOrdered ==
  (\A l \in Leaf : top # NoNode => <<l, l>> \notin Asked(top)) => Ordered

\* Every delayable of the graph gets a job, and jobs depend on jobs of the
\* graph only (delay() would fail on a neighbour that has no job).  "When and
\* only when all the jobs of the group [A] are executed, the jobs of the group
\* [B] are executed": in plain graphs a job depends, directly or not, on
\* exactly the jobs that were asked to come before it.
PlanIsAsked ==
  top # NoNode =>
    /\ plan.edges \subseteq plan.vertices \X plan.vertices
    /\ NoEmptyGroup => plan.vertices = Belongs(top) \cap Leaf
    /\ NoEmptyGroup /\ Plain => Ordered

Stuck ==
  LET before == Closure(plan.edges)
  IN  {l \in plan.vertices :
         \E c \in Leaf : <<c, c>> \in before /\ (c = l \/ <<c, l>> \in before)}

\* topological_sort: a node is yielded once, after all it depends on, and
\* every node is unless it is on, or behind, a cycle.
SortIsTopological ==
  /\ \A i \in DOMAIN executed :
       /\ \A k \in DOMAIN executed : executed[i] = executed[k] => i = k
       /\ DependsOn(executed[i]) \subseteq {executed[k] : k \in 1..(i - 1)}
  /\ queue = <<>> /\ executed # <<>>
       => Seqs!ToSet(executed) = plan.vertices \ Stuck

GraphTypeOK ==
  /\ kind \in [Node -> {"none", "delayable", "chain", "group"}]
  /\ parts \in [Node -> Seq(Node)]
  /\ \A n \in Node : /\ graph[n].vertices \subseteq Node
                     /\ graph[n].edges \subseteq Node \X Node
  /\ plan.vertices \subseteq Leaf /\ plan.edges \subseteq Leaf \X Leaf
  /\ stored \in [Leaf -> {"none", "pending", "wait_dependencies"}]
  /\ left \in [Leaf -> Nat] /\ queue \in Seq(Leaf) /\ executed \in Seq(Leaf)
=============================================================================
