--------------------------- MODULE Folding_proofs ---------------------------
(* What FoldLeft of SequencesExt and MapThenFoldSet of Folds compute, for    *)
(* any operator, by induction on the length of the sequence and on the size  *)
(* of the set.  Proof modules take it as an instance, with the operator that *)
(* a model folds for Op; c is what that depends on besides the value so far  *)
(* and the next element.                                                     *)
EXTENDS Integers, Sequences, SequencesExt, FiniteSetTheorems, WellFoundedInduction, TLAPS

CONSTANT Op(_, _, _)

Fold(c, base, s) == FoldLeft(LAMBDA a, e : Op(c, a, e), base, s)

\* A set of naturals with 0 and all successors has all of them.
LEMMA Induction ==
  ASSUME NEW S, 0 \in S, \A n \in Nat : n \in S => n + 1 \in S
  PROVE  Nat \subseteq S
<1> DEFINE less == OpToRel(<, Nat)
           T == Nat \ S
<1>1. SUFFICES ASSUME T # {} PROVE FALSE
  OBVIOUS
<1>2. IsWellFoundedOn(less, Nat) /\ T \subseteq Nat
  BY NatLessThanWellFounded
<1>3. PICK x \in T : \A y \in T : <<y, x>> \notin less
  <2> HIDE DEF less, T
  <2> QED BY <1>1, <1>2, WFMin, Zenon
<1>4. x \in Nat /\ x # 0 /\ x - 1 \in Nat /\ x - 1 < x
  OBVIOUS
<1>5. x - 1 \notin T
  BY <1>3, <1>4 DEF OpToRel
<1>6. QED BY <1>4, <1>5

Step(g, c, base, s, t) ==
  IF t = {} THEN base ELSE LET i == Max(t) IN Op(c, g[t \ {i}], s[i])

Folds(g, c, base, s, n) == g = [t \in SUBSET (1..n) |-> Step(g, c, base, s, t)]

LEMMA MaxOfInterval ==
  ASSUME NEW n \in Nat, NEW t \in SUBSET (1..n), t # {}
  PROVE  /\ Max(t) \in t
         /\ n \in t => Max(t) = n
<1> DEFINE less == OpToRel(<, Nat)
           U == {n - i : i \in t}
<1>0. \A i \in t : i \in Nat /\ i <= n /\ n - i \in Nat
  OBVIOUS
<1>1. IsWellFoundedOn(less, Nat) /\ U \subseteq Nat /\ U # {}
  <2>1. IsWellFoundedOn(less, Nat)
    BY NatLessThanWellFounded
  <2>2. U \subseteq Nat /\ U # {}
    BY <1>0
  <2>3. QED BY <2>1, <2>2
<1>2. PICK x \in U : \A y \in U : <<y, x>> \notin less
  <2> HIDE DEF less, U
  <2> QED BY <1>1, WFMin, Zenon
<1>3. PICK m \in t : x = n - m
  BY <1>2
<1>4. \A y \in t : m >= y
  <2> SUFFICES ASSUME NEW y \in t PROVE m >= y
    OBVIOUS
  <2>1. n - y \in U /\ n - y \in Nat /\ x \in Nat /\ m \in Nat /\ y \in Nat
    BY <1>0, <1>1
  <2>2. ~(n - y < x)
    BY <1>2, <2>1 DEF OpToRel
  <2>3. QED BY <1>3, <2>1, <2>2
<1>5. Max(t) \in t /\ \A y \in t : Max(t) >= y
  BY <1>3, <1>4 DEF Max
<1> HIDE DEF less, U
<1>6. ASSUME n \in t PROVE Max(t) = n
  <2>1. Max(t) \in Nat /\ Max(t) <= n /\ Max(t) >= n
    BY <1>0, <1>5, <1>6
  <2>2. QED BY <2>1
<1>7. QED BY <1>5, <1>6

\* The recursion of a fold has a solution.
LEMMA FoldsExist ==
  ASSUME NEW c, NEW base, NEW s
  PROVE  \A n \in Nat : \E g : Folds(g, c, base, s, n)
<1> DEFINE S == {n \in Nat : \E g : Folds(g, c, base, s, n)}
<1>1. 0 \in S
  <2>1. 1..0 = {} /\ SUBSET (1..0) = {{}}
    OBVIOUS
  <2>2. Folds([t \in SUBSET (1..0) |-> base], c, base, s, 0)
    BY <2>1 DEF Folds, Step
  <2>3. QED BY <2>2
<1>2. ASSUME NEW n \in Nat, n \in S PROVE n + 1 \in S
  <2>1. PICK g : Folds(g, c, base, s, n)
    BY <1>2
  <2> DEFINE m == n + 1
             h == [t \in SUBSET (1..m) |->
                     IF m \in t THEN Op(c, g[t \ {m}], s[m]) ELSE g[t]]
  <2>2. ASSUME NEW t \in SUBSET (1..m) PROVE h[t] = Step(h, c, base, s, t)
    <3>1. CASE t = {}
      BY <2>1, <3>1 DEF Folds, Step
    <3>2. CASE t # {} /\ m \in t
      <4>1. Max(t) = m
        BY <3>2, MaxOfInterval, m \in Nat
      <4>2. t \ {m} \in SUBSET (1..n) /\ t \ {m} \in SUBSET (1..m) /\ m \notin t \ {m}
        OBVIOUS
      <4>3. h[t \ {m}] = g[t \ {m}]
        BY <4>2
      <4>4. h[t] = Op(c, g[t \ {m}], s[m])
        BY <3>2
      <4> HIDE DEF h
      <4>5. QED BY <3>2, <4>1, <4>3, <4>4 DEF Step
    <3>3. CASE t # {} /\ m \notin t
      <4>1. t \in SUBSET (1..n)
        BY <3>3
      <4>2. Max(t) \in t
        BY <3>3, <4>1, MaxOfInterval
      <4>3. t \ {Max(t)} \in SUBSET (1..n) /\ t \ {Max(t)} \in SUBSET (1..m)
            /\ m \notin t \ {Max(t)}
        BY <4>1, <3>3
      <4>4. h[t] = g[t] /\ h[t \ {Max(t)}] = g[t \ {Max(t)}]
        BY <3>3, <4>3
      <4>5. g[t] = Step(g, c, base, s, t)
        BY <2>1, <4>1 DEF Folds
      <4> HIDE DEF h
      <4>6. QED BY <3>3, <4>4, <4>5 DEF Step
    <3>4. QED BY <3>1, <3>2, <3>3
  <2>3. Folds(h, c, base, s, m)
    <3>1. h = [t \in SUBSET (1..m) |-> h[t]]
      OBVIOUS
    <3> HIDE DEF h
    <3>2. QED BY <2>2, <3>1 DEF Folds
  <2> HIDE DEF h
  <2>4. QED BY <2>3
<1>3. Nat \subseteq S
  <2> HIDE DEF S
  <2> QED BY <1>1, <1>2, Induction
<1>4. QED BY <1>3

\* The values a fold takes, element by element.
Table(f, c, base, s, n) ==
  f[0] = base /\ \A k \in 1..n : f[k] = Op(c, f[k - 1], s[k])

LEMMA FoldTable ==
  \A c, base, s : \A n \in Nat : DOMAIN s = 1..n =>
    \E f : Table(f, c, base, s, n) /\ f[n] = Fold(c, base, s)
<1> SUFFICES ASSUME NEW c, NEW base, NEW s, NEW n \in Nat, DOMAIN s = 1..n
             PROVE  \E f : Table(f, c, base, s, n) /\ f[n] = Fold(c, base, s)
  OBVIOUS
<1> DEFINE it == CHOOSE g : Folds(g, c, base, s, n)
           f == [k \in 0..n |-> it[1..k]]
<1>1. Folds(it, c, base, s, n)
  BY FoldsExist
<1>2. Fold(c, base, s) = it[1..n]
  BY DEF Fold, FoldLeft, MapThenFoldSet, Folds, Step
<1> HIDE DEF it
<1>3. f[0] = base
  <2>1. 1..0 = {} /\ {} \in SUBSET (1..n) /\ 0 \in 0..n
    OBVIOUS
  <2>2. QED BY <1>1, <2>1 DEF Folds, Step
<1>4. ASSUME NEW k \in 1..n PROVE f[k] = Op(c, f[k - 1], s[k])
  <2> HIDE DEF f
  <2>1. /\ 1..k \in SUBSET (1..n) /\ 1..k # {} /\ k \in 1..k /\ k \in Nat
        /\ (1..k) \ {k} = 1..(k - 1) /\ k \in 0..n /\ k - 1 \in 0..n
    <3>1. k \in Nat /\ k <= n /\ k >= 1
      OBVIOUS
    <3>2. (1..k) \ {k} = 1..(k - 1)
      BY <3>1
    <3>3. 1..k \in SUBSET (1..n)
      BY <3>1
    <3>4. QED BY <3>1, <3>2, <3>3
  <2>2. Max(1..k) = k
    BY <2>1, MaxOfInterval
  <2>3. it[1..k] = Op(c, it[(1..k) \ {k}], s[k])
    BY <1>1, <2>1, <2>2 DEF Folds, Step
  <2>4. QED BY <2>1, <2>3 DEF f
<1>5. f[n] = Fold(c, base, s)
  BY <1>2
<1> HIDE DEF f
<1>6. QED BY <1>3, <1>4, <1>5 DEF Table

\* Two tables of the same elements are the same.
LEMMA TablesAgree ==
  \A f, g, c, base, s, t : \A n \in Nat :
    /\ Table(f, c, base, s, n) /\ Table(g, c, base, t, n)
    /\ \A k \in 1..n : s[k] = t[k]
    => f[n] = g[n]
<1> SUFFICES ASSUME NEW f, NEW g, NEW c, NEW base, NEW s, NEW t, NEW n \in Nat,
                    Table(f, c, base, s, n), Table(g, c, base, t, n),
                    \A k \in 1..n : s[k] = t[k]
             PROVE  f[n] = g[n]
  OBVIOUS
<1> DEFINE S == {k \in Nat : k <= n => f[k] = g[k]}
<1>1. 0 \in S
  BY DEF Table
<1>2. ASSUME NEW k \in Nat, k \in S PROVE k + 1 \in S
  <2>1. SUFFICES ASSUME k + 1 <= n PROVE f[k + 1] = g[k + 1]
    OBVIOUS
  <2>2. k <= n /\ k + 1 \in 1..n /\ (k + 1) - 1 = k
    BY <2>1
  <2>3. QED BY <1>2, <2>2 DEF Table
<1>3. Nat \subseteq S
  <2> HIDE DEF S
  <2> QED BY <1>1, <1>2, Induction
<1>4. QED BY <1>3

THEOREM FoldEmpty == \A c, base : Fold(c, base, <<>>) = base
<1> SUFFICES ASSUME NEW c, NEW base PROVE Fold(c, base, <<>>) = base
  OBVIOUS
<1>1. DOMAIN <<>> = 1..0 /\ 0 \in Nat
  OBVIOUS
<1>2. QED BY <1>1, FoldTable DEF Table

\* What is appended is folded last.
THEOREM FoldAppend ==
  \A X, c, base, e : \A s \in Seq(X) :
    Fold(c, base, Append(s, e)) = Op(c, Fold(c, base, s), e)
<1> SUFFICES ASSUME NEW X, NEW c, NEW base, NEW e, NEW s \in Seq(X)
             PROVE  Fold(c, base, Append(s, e)) = Op(c, Fold(c, base, s), e)
  OBVIOUS
<1> DEFINE t == Append(s, e)
           n == Len(s)
<1>1. /\ n \in Nat /\ n + 1 \in Nat /\ DOMAIN s = 1..n /\ DOMAIN t = 1..(n + 1)
      /\ t[n + 1] = e /\ \A k \in 1..n : s[k] = t[k] /\ k \in 1..(n + 1)
      /\ n + 1 \in 1..(n + 1) /\ (n + 1) - 1 = n
  OBVIOUS
<1> HIDE DEF t, n
<1>2. PICK f : Table(f, c, base, s, n) /\ f[n] = Fold(c, base, s)
  BY <1>1, FoldTable
<1>3. PICK g : Table(g, c, base, t, n + 1) /\ g[n + 1] = Fold(c, base, t)
  BY <1>1, FoldTable
<1>4. f[n] = g[n]
  <2>1. Table(g, c, base, t, n)
    BY <1>1, <1>3 DEF Table
  <2>2. QED BY <1>1, <1>2, <2>1, TablesAgree
<1>5. g[n + 1] = Op(c, g[n], e)
  BY <1>1, <1>3 DEF Table
<1>6. QED BY <1>2, <1>3, <1>4, <1>5 DEF t

\* A fold stays in a set that the operator does not leave.
THEOREM FoldStays ==
  \A A, c, s : \A base \in A : \A n \in Nat :
    /\ DOMAIN s = 1..n
    /\ \A a \in A : \A k \in 1..n : Op(c, a, s[k]) \in A
    => Fold(c, base, s) \in A
<1> SUFFICES ASSUME NEW A, NEW c, NEW s, NEW base \in A, NEW n \in Nat, DOMAIN s = 1..n
             PROVE  (\A a \in A : \A k \in 1..n : Op(c, a, s[k]) \in A) => Fold(c, base, s) \in A
  OBVIOUS
<1>1. PICK f : Table(f, c, base, s, n) /\ f[n] = Fold(c, base, s)
  BY FoldTable
<1>2. HAVE \A a \in A : \A k \in 1..n : Op(c, a, s[k]) \in A
<1> DEFINE S == {k \in Nat : k <= n => f[k] \in A}
<1>3. 0 \in S
  BY <1>1 DEF Table
<1>4. ASSUME NEW k \in Nat, k \in S PROVE k + 1 \in S
  <2>1. SUFFICES ASSUME k + 1 <= n PROVE f[k + 1] \in A
    OBVIOUS
  <2>2. k <= n /\ k + 1 \in 1..n /\ (k + 1) - 1 = k
    BY <2>1
  <2>3. f[k] \in A /\ f[k + 1] = Op(c, f[k], s[k + 1])
    BY <1>1, <1>4, <2>2 DEF Table
  <2>4. QED BY <1>2, <2>2, <2>3
<1>5. Nat \subseteq S
  <2> HIDE DEF S
  <2> QED BY <1>3, <1>4, Induction
<1>6. QED BY <1>1, <1>5

-----------------------------------------------------------------------------
(* Folds of finite sets                                                    *)

\* A finite set is in G if every subset of it is whose proper subsets are.
LEMMA SubsetInduction ==
  ASSUME NEW S, IsFiniteSet(S), NEW G,
         \A t \in SUBSET S : (\A u \in SUBSET t : u # t => u \in G) => t \in G
  PROVE  SUBSET S \subseteq G
<1> DEFINE D == {n \in Nat : \A t \in SUBSET S : Cardinality(t) < n => t \in G}
<1>1. \A t \in SUBSET S : IsFiniteSet(t) /\ Cardinality(t) \in Nat
  BY FS_Subset, FS_CardinalityType
<1>2. 0 \in D
  BY <1>1
<1>3. ASSUME NEW n \in Nat, n \in D PROVE n + 1 \in D
  <2> SUFFICES ASSUME NEW t \in SUBSET S, Cardinality(t) < n + 1 PROVE t \in G
    OBVIOUS
  <2>1. ASSUME NEW u \in SUBSET t, u # t PROVE u \in G
    <3>1. Cardinality(u) <= Cardinality(t) /\ Cardinality(u) # Cardinality(t)
      BY <1>1, <2>1, FS_Subset
    <3>2. u \in SUBSET S /\ Cardinality(u) \in Nat /\ Cardinality(t) \in Nat
      BY <1>1
    <3>3. Cardinality(u) < n
      BY <3>1, <3>2
    <3>4. QED BY <1>3, <3>2, <3>3
  <2>2. QED BY <2>1
<1>4. Nat \subseteq D
  <2> HIDE DEF D
  <2> QED BY <1>2, <1>3, Induction
<1>5. ASSUME NEW t \in SUBSET S PROVE t \in G
  <2>1. Cardinality(t) + 1 \in D /\ Cardinality(t) < Cardinality(t) + 1
    BY <1>1, <1>4
  <2>2. QED BY <2>1
<1>6. QED BY <1>5

SetFold(c, base, S) ==
  MapThenFoldSet(LAMBDA x, a : Op(c, a, x), base, LAMBDA x : x,
                 LAMBDA s : CHOOSE x \in s : TRUE, S)

One(s) == CHOOSE x \in s : TRUE
SetStep(g, c, base, s) == IF s = {} THEN base ELSE Op(c, g[s \ {One(s)}], One(s))
SetFolds(g, c, base, S) == g = [s \in SUBSET S |-> SetStep(g, c, base, s)]

LEMMA OneFacts == \A s : s # {} => One(s) \in s /\ s \ {One(s)} \in SUBSET s /\ s \ {One(s)} # s
BY DEF One

LEMMA SetFoldsAgree ==
  ASSUME NEW c, NEW base, NEW S, NEW T, NEW g, NEW h, IsFiniteSet(S),
         SetFolds(g, c, base, S), SetFolds(h, c, base, T), S \subseteq T
  PROVE  \A s \in SUBSET S : g[s] = h[s]
<1> DEFINE G == {s \in SUBSET S : g[s] = h[s]}
<1>1. ASSUME NEW s \in SUBSET S, \A u \in SUBSET s : u # s => u \in G PROVE s \in G
  <2>1. g[s] = SetStep(g, c, base, s) /\ h[s] = SetStep(h, c, base, s)
    BY DEF SetFolds
  <2>2. CASE s = {}
    BY <2>1, <2>2 DEF SetStep
  <2>3. CASE s # {}
    <3>1. s \ {One(s)} \in G
      BY <1>1, <2>3, OneFacts
    <3>2. g[s \ {One(s)}] = h[s \ {One(s)}]
      BY <3>1
    <3>3. QED BY <2>1, <2>3, <3>2 DEF SetStep
  <2>4. QED BY <2>2, <2>3
<1>2. SUBSET S \subseteq G
  <2> HIDE DEF G
  <2> QED BY <1>1, SubsetInduction
<1>3. QED BY <1>2

LEMMA SetFoldsExist ==
  ASSUME NEW c, NEW base, NEW S, IsFiniteSet(S)
  PROVE  \E g : SetFolds(g, c, base, S)
<1> DEFINE G == {s \in SUBSET S : \E g : SetFolds(g, c, base, s)}
<1>1. ASSUME NEW s \in SUBSET S, \A u \in SUBSET s : u # s => u \in G PROVE s \in G
  <2> DEFINE of(u) == CHOOSE g : SetFolds(g, c, base, u)
             h == [u \in SUBSET s |->
                     IF u = {} THEN base ELSE Op(c, of(u \ {One(u)})[u \ {One(u)}], One(u))]
  <2>1. \A u \in SUBSET s : u # s => SetFolds(of(u), c, base, u)
    BY <1>1
  <2>2. \A u \in SUBSET s : IsFiniteSet(u)
    BY FS_Subset
  <2> HIDE DEF of
  <2>3. ASSUME NEW u \in SUBSET s, u # s PROVE h[u] = of(u)[u]
    <3>1. of(u)[u] = SetStep(of(u), c, base, u)
      BY <2>1, <2>3 DEF SetFolds
    <3>2. CASE u = {}
      BY <3>1, <3>2 DEF SetStep
    <3>3. CASE u # {}
      <4> DEFINE v == u \ {One(u)}
      <4>1. v \in SUBSET u /\ v \in SUBSET s /\ v # s
        BY <2>3, <3>3, OneFacts
      <4>2. of(v)[v] = of(u)[v]
        <5>1. SetFolds(of(v), c, base, v) /\ SetFolds(of(u), c, base, u)
          BY <2>1, <2>3, <4>1
        <5> HIDE DEF v
        <5>2. IsFiniteSet(v) /\ v \subseteq u /\ v \in SUBSET v
          BY <2>2, <4>1
        <5>3. QED BY <5>1, <5>2, SetFoldsAgree
      <4>3. of(u)[u] = Op(c, of(u)[v], One(u))
        BY <3>1, <3>3 DEF SetStep
      <4>4. h[u] = Op(c, of(v)[v], One(u))
        BY <3>3
      <4>5. QED BY <4>2, <4>3, <4>4
    <3>4. QED BY <3>2, <3>3
  <2>4. ASSUME NEW u \in SUBSET s PROVE h[u] = SetStep(h, c, base, u)
    <3>1. CASE u = {}
      BY <3>1 DEF SetStep
    <3>2. CASE u # {}
      <4> DEFINE v == u \ {One(u)}
      <4>1. v \in SUBSET s /\ v # s
        BY <3>2, OneFacts
      <4>2. h[v] = of(v)[v]
        BY <2>3, <4>1
      <4>3. h[u] = Op(c, of(v)[v], One(u))
        BY <3>2
      <4> HIDE DEF h
      <4>4. QED BY <3>2, <4>2, <4>3 DEF SetStep
    <3>3. QED BY <3>1, <3>2
  <2>5. h = [u \in SUBSET s |-> h[u]]
    OBVIOUS
  <2> HIDE DEF h
  <2>6. SetFolds(h, c, base, s)
    BY <2>4, <2>5 DEF SetFolds
  <2>7. QED BY <2>6
<1>2. SUBSET S \subseteq G
  <2> HIDE DEF G
  <2> QED BY <1>1, SubsetInduction
<1>3. S \in G
  <2> HIDE DEF G
  <2> QED BY <1>2
<1>4. QED BY <1>3

\* A fold takes the elements one by one, in the order of CHOOSE.
LEMMA SetFoldFacts ==
  ASSUME NEW c, NEW base, NEW S, IsFiniteSet(S)
  PROVE  SetFold(c, base, S) = IF S = {} THEN base
                               ELSE Op(c, SetFold(c, base, S \ {One(S)}), One(S))
<1> DEFINE it(s) == CHOOSE g : SetFolds(g, c, base, s)
<1>1. \A s : SetFold(c, base, s) = it(s)[s]
  BY DEF SetFold, MapThenFoldSet, SetFolds, SetStep, One
<1>2. SetFolds(it(S), c, base, S)
  BY SetFoldsExist
<1> HIDE DEF it
<1>3. it(S)[S] = SetStep(it(S), c, base, S)
  BY <1>2 DEF SetFolds
<1>4. CASE S = {}
  BY <1>1, <1>3, <1>4 DEF SetStep
<1>5. CASE S # {}
  <2> DEFINE v == S \ {One(S)}
  <2>1. IsFiniteSet(v) /\ v \subseteq S /\ v \in SUBSET v
    BY FS_Subset
  <2> HIDE DEF v
  <2>2. SetFolds(it(v), c, base, v)
    BY <2>1, SetFoldsExist DEF it
  <2>3. it(v)[v] = it(S)[v]
    BY <1>2, <2>1, <2>2, SetFoldsAgree
  <2>4. QED BY <1>1, <1>3, <1>5, <2>3 DEF SetStep, v
<1>6. QED BY <1>4, <1>5

\* What a fold needs of its operator, to take the elements in any order.
AnyOrder(A, c, S) ==
  /\ \A a \in A, x \in S : Op(c, a, x) \in A
  /\ \A a \in A, x, y \in S : Op(c, Op(c, a, x), y) = Op(c, Op(c, a, y), x)

LEMMA SetFoldTakes ==
  ASSUME NEW A, NEW c, NEW base \in A, NEW S, IsFiniteSet(S), AnyOrder(A, c, S)
  PROVE  /\ SetFold(c, base, {}) = base
         /\ \A s \in SUBSET S : /\ SetFold(c, base, s) \in A
              /\ \A x \in s : SetFold(c, base, s) = Op(c, SetFold(c, base, s \ {x}), x)
<1> DEFINE F(s) == SetFold(c, base, s)
           G == {s \in SUBSET S : F(s) \in A /\ \A x \in s : F(s) = Op(c, F(s \ {x}), x)}
<1>0. \A s \in SUBSET S : IsFiniteSet(s)
  BY FS_Subset
<1>1. \A s \in SUBSET S : F(s) = IF s = {} THEN base ELSE Op(c, F(s \ {One(s)}), One(s))
  BY <1>0, SetFoldFacts
<1> HIDE DEF F
<1>2. ASSUME NEW s \in SUBSET S, \A u \in SUBSET s : u # s => u \in G PROVE s \in G
  <2>1. CASE s = {}
    BY <1>1, <2>1
  <2>2. CASE s # {}
    <3> DEFINE y == One(s)
    <3>1. y \in s /\ s \ {y} \in SUBSET s /\ s \ {y} # s
      BY <2>2, OneFacts
    <3>2. F(s) = Op(c, F(s \ {y}), y)
      BY <1>1, <2>2
    <3> HIDE DEF y
    <3>3. F(s \ {y}) \in A /\ \A x \in s \ {y} : F(s \ {y}) = Op(c, F((s \ {y}) \ {x}), x)
      BY <1>2, <3>1
    <3>4. F(s) \in A
      BY <3>1, <3>2, <3>3 DEF AnyOrder
    <3>5. ASSUME NEW x \in s PROVE F(s) = Op(c, F(s \ {x}), x)
      <4>1. CASE x = y
        BY <3>2, <4>1
      <4>2. CASE x # y
        <5> DEFINE r == (s \ {y}) \ {x}
        <5>1. r = (s \ {x}) \ {y} /\ x \in s \ {y} /\ y \in s \ {x} /\ x \in S /\ y \in S
          BY <3>1, <4>2
        <5>2. r \in SUBSET s /\ r # s /\ s \ {x} \in SUBSET s /\ s \ {x} # s
          BY <3>1
        <5> HIDE DEF r
        <5>3. F(s \ {y}) = Op(c, F(r), x)
          BY <3>3, <5>1 DEF r
        <5>4. F(s \ {x}) = Op(c, F(r), y)
          BY <1>2, <5>1, <5>2
        <5>5. F(r) \in A
          BY <1>2, <5>2
        <5>6. Op(c, Op(c, F(r), x), y) = Op(c, Op(c, F(r), y), x)
          BY <5>1, <5>5 DEF AnyOrder
        <5>7. QED BY <3>2, <5>3, <5>4, <5>6
      <4>3. QED BY <4>1, <4>2
    <3>6. QED BY <3>4, <3>5
  <2>3. QED BY <2>1, <2>2
<1>3. SUBSET S \subseteq G
  <2> HIDE DEF G
  <2> QED BY <1>2, SubsetInduction
<1>4. F({}) = base
  BY <1>1
<1>5. QED BY <1>3, <1>4 DEF F

\* Folds with operators that do the same are the same.
THEOREM SetFoldSame ==
  \A A, c, d, S : \A base \in A :
    /\ IsFiniteSet(S)
    /\ \A a \in A, x \in S : Op(c, a, x) \in A /\ Op(d, a, x) = Op(c, a, x)
    => SetFold(d, base, S) = SetFold(c, base, S)
<1> SUFFICES ASSUME NEW A, NEW c, NEW d, NEW S, NEW base \in A, IsFiniteSet(S),
                    \A a \in A, x \in S : Op(c, a, x) \in A /\ Op(d, a, x) = Op(c, a, x)
             PROVE  SetFold(d, base, S) = SetFold(c, base, S)
  OBVIOUS
<1> DEFINE F(s) == SetFold(c, base, s)
           H(s) == SetFold(d, base, s)
           G == {s \in SUBSET S : F(s) \in A /\ H(s) = F(s)}
<1>1. \A s \in SUBSET S : /\ F(s) = IF s = {} THEN base ELSE Op(c, F(s \ {One(s)}), One(s))
                          /\ H(s) = IF s = {} THEN base ELSE Op(d, H(s \ {One(s)}), One(s))
  BY FS_Subset, SetFoldFacts
<1> HIDE DEF F, H
<1>2. ASSUME NEW s \in SUBSET S, \A u \in SUBSET s : u # s => u \in G PROVE s \in G
  <2>1. CASE s = {}
    BY <1>1, <2>1
  <2>2. CASE s # {}
    <3>1. One(s) \in S /\ s \ {One(s)} \in G
      BY <1>2, <2>2, OneFacts
    <3>2. QED BY <1>1, <2>2, <3>1
  <2>3. QED BY <2>1, <2>2
<1>3. SUBSET S \subseteq G
  <2> HIDE DEF G
  <2> QED BY <1>2, SubsetInduction
<1>4. F(S) = H(S)
  BY <1>3
<1>5. QED BY <1>4 DEF F, H

\* A sum of values.
Adds(v, c, S) == \A x \in S : v[x] \in Int /\ \A a \in Int : Op(c, a, x) = v[x] + a

THEOREM SumTakes ==
  \A v, c, S : IsFiniteSet(S) /\ Adds(v, c, S) =>
    /\ SetFold(c, 0, {}) = 0
    /\ \A s \in SUBSET S : /\ SetFold(c, 0, s) \in Int
         /\ \A x \in s : SetFold(c, 0, s) = v[x] + SetFold(c, 0, s \ {x})
<1> SUFFICES ASSUME NEW v, NEW c, NEW S, IsFiniteSet(S), Adds(v, c, S)
             PROVE  /\ SetFold(c, 0, {}) = 0
                    /\ \A s \in SUBSET S : /\ SetFold(c, 0, s) \in Int
                         /\ \A x \in s : SetFold(c, 0, s) = v[x] + SetFold(c, 0, s \ {x})
  OBVIOUS
<1>1. ASSUME NEW a \in Int, NEW x \in S PROVE Op(c, a, x) = v[x] + a /\ Op(c, a, x) \in Int
  BY DEF Adds
<1>2. ASSUME NEW a \in Int, NEW x \in S, NEW y \in S
      PROVE  Op(c, Op(c, a, x), y) = Op(c, Op(c, a, y), x)
  <2>1. v[x] \in Int /\ v[y] \in Int
    BY DEF Adds
  <2>2. v[x] + a \in Int /\ v[y] + a \in Int /\ v[y] + (v[x] + a) = v[x] + (v[y] + a)
    BY <2>1
  <2>3. Op(c, v[x] + a, y) = v[y] + (v[x] + a) /\ Op(c, v[y] + a, x) = v[x] + (v[y] + a)
    BY <1>1, <2>2
  <2>4. QED BY <1>1, <2>2, <2>3
<1>3. AnyOrder(Int, c, S)
  BY <1>1, <1>2 DEF AnyOrder
<1>4. /\ SetFold(c, 0, {}) = 0
      /\ \A s \in SUBSET S : /\ SetFold(c, 0, s) \in Int
           /\ \A x \in s : SetFold(c, 0, s) = Op(c, SetFold(c, 0, s \ {x}), x)
  BY <1>3, SetFoldTakes
<1>5. ASSUME NEW s \in SUBSET S, NEW x \in s
      PROVE  SetFold(c, 0, s) = v[x] + SetFold(c, 0, s \ {x})
  <2>1. s \ {x} \in SUBSET S /\ x \in S
    OBVIOUS
  <2>2. QED BY <1>1, <1>4, <2>1
<1>6. QED BY <1>4, <1>5

THEOREM SumOfUnion ==
  \A v, c, S : IsFiniteSet(S) /\ Adds(v, c, S) =>
    \A T, U \in SUBSET S :
      T \cap U = {} => SetFold(c, 0, T \cup U) = SetFold(c, 0, T) + SetFold(c, 0, U)
<1> SUFFICES ASSUME NEW v, NEW c, NEW S, IsFiniteSet(S), Adds(v, c, S),
                    NEW T \in SUBSET S, NEW U \in SUBSET S, T \cap U = {}
             PROVE  SetFold(c, 0, T \cup U) = SetFold(c, 0, T) + SetFold(c, 0, U)
  OBVIOUS
<1> DEFINE F(s) == SetFold(c, 0, s)
           G == {u \in SUBSET U : F(T \cup u) = F(T) + F(u)}
<1>1. F({}) = 0 /\ \A s \in SUBSET S : F(s) \in Int /\ \A x \in s : F(s) = v[x] + F(s \ {x})
  BY SumTakes
<1> HIDE DEF F
<1>2. ASSUME NEW s \in SUBSET U, \A u \in SUBSET s : u # s => u \in G PROVE s \in G
  <2>1. CASE s = {}
    <3>1. T \cup s = T /\ F(T) \in Int
      BY <1>1, <2>1
    <3>2. F(T) = F(T) + 0
      BY <3>1
    <3>3. QED BY <1>1, <2>1, <3>1, <3>2
  <2>2. CASE s # {}
    <3>1. PICK x \in s : TRUE
      BY <2>2
    <3> DEFINE r == s \ {x}
    <3>2. r \in SUBSET s /\ r # s /\ r \in SUBSET S /\ T \cup r \in SUBSET S /\ s \in SUBSET S
          /\ T \cup s \in SUBSET S /\ (T \cup s) \ {x} = T \cup r /\ x \in T \cup s /\ x \in S
      BY <3>1
    <3>3. F(T \cup r) = F(T) + F(r)
      BY <1>2, <3>2
    <3>4. F(s) = v[x] + F(r) /\ F(T \cup s) = v[x] + F((T \cup s) \ {x})
      BY <1>1, <3>1, <3>2
    <3>5. F(T) \in Int /\ F(r) \in Int /\ v[x] \in Int
      BY <1>1, <3>2 DEF Adds
    <3> HIDE DEF r
    <3>6. F(T \cup s) = v[x] + (F(T) + F(r))
      BY <3>2, <3>3, <3>4
    <3>7. F(T \cup s) = F(T) + F(s)
      BY <3>4, <3>5, <3>6
    <3>8. QED BY <3>7
  <2>3. QED BY <2>1, <2>2
<1>3. IsFiniteSet(U)
  BY FS_Subset
<1>4. SUBSET U \subseteq G
  <2> HIDE DEF G
  <2> QED BY <1>2, <1>3, SubsetInduction
<1>5. U \in G
  BY <1>4
<1>6. QED BY <1>5 DEF F
=============================================================================
