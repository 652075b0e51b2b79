---------------------------- MODULE Addons_proofs ----------------------------
(* Proofs about modules beside queue_job: the wrappers of the two audit      *)
(* modules, the database backups, the moves of the MTS+MTO rules, the        *)
(* invoices of deliveries, the logs of the audit modules, and the sheets of  *)
(* the monthly reports.                                                      *)
EXTENDS AuditRules, AuditTrail, Backup, MtsMto, Deliveries, MonthlyReports,
        FiniteSetTheorems, WellFoundedInduction, TLAPS

-----------------------------------------------------------------------------
(* The wrappers of audited methods                                         *)

Rule == [state: {"none", "draft", "subscribed"}, flags: FlagSets \cup {{}}]
Chain == [Method -> Seq(Wrapper)]

AuditTypes ==
  /\ rule \in Rule /\ smile \in {"never", "on", "off"}
  /\ chain \in [Workers -> Chain] /\ ruled \in [Workers -> SUBSET Method]
  /\ stale \subseteq Workers /\ rollbacks \in Nat

\* One wrapper of smile_audit at most is in a chain.
SmileAlone(s) ==
  \A i, k \in DOMAIN s : s[i] = "smile" /\ s[k] = "smile" => i = k

\* Without smile_audit a chain is the wrapper the attribute stands for.
ChainOf(w, m) == IF m \in ruled[w] THEN <<"audit">> ELSE <<>>

AuditInv ==
  /\ AuditTypes
  /\ \A w \in Workers : \A m \in Method : SmileAlone(chain[w][m])
  /\ smile = "never" =>
       \A w \in Workers : \A m \in Method : chain[w][m] = ChainOf(w, m)
  /\ smile = "never" /\ rollbacks = 0 =>
       \A w \in Workers \ stale : ruled[w] = Flagged(rule)

\* A wrapper put on top or taken off.
LEMMA OnTop ==
  ASSUME NEW s \in Seq(Wrapper), NEW x \in Wrapper
  PROVE  /\ <<x>> \o s \in Seq(Wrapper)
         /\ x = "audit" /\ SmileAlone(s) => SmileAlone(<<x>> \o s)
         /\ "smile" \notin Range(s) => SmileAlone(<<x>> \o s)
<1> DEFINE t == <<x>> \o s
<1>1. /\ t \in Seq(Wrapper) /\ Len(t) = Len(s) + 1 /\ Len(s) \in Nat
      /\ t[1] = x /\ \A i \in 2..Len(t) : t[i] = s[i - 1] /\ i - 1 \in 1..Len(s)
  OBVIOUS
<1>2. DOMAIN t = 1..Len(t) /\ DOMAIN s = 1..Len(s)
  BY <1>1
<1> HIDE DEF t
<1>3. ASSUME x = "audit", SmileAlone(s) PROVE SmileAlone(t)
  <2>1. SUFFICES ASSUME NEW i \in DOMAIN t, NEW k \in DOMAIN t, t[i] = "smile", t[k] = "smile"
                 PROVE  i = k
    BY DEF SmileAlone
  <2>2. i \in 2..Len(t) /\ k \in 2..Len(t)
    BY <1>1, <1>2, <1>3, <2>1
  <2>3. s[i - 1] = "smile" /\ s[k - 1] = "smile" /\ i - 1 \in DOMAIN s /\ k - 1 \in DOMAIN s
    BY <1>1, <1>2, <2>1, <2>2
  <2>4. i - 1 = k - 1
    BY <1>3, <2>3 DEF SmileAlone
  <2>5. QED BY <1>1, <2>2, <2>4
<1>4. ASSUME "smile" \notin Range(s) PROVE SmileAlone(t)
  <2>1. ASSUME NEW i \in DOMAIN t, t[i] = "smile" PROVE i = 1
    <3>1. SUFFICES ASSUME i # 1 PROVE FALSE
      OBVIOUS
    <3>2. i \in 2..Len(t)
      BY <1>1, <1>2, <3>1
    <3>3. s[i - 1] = "smile" /\ i - 1 \in DOMAIN s
      BY <1>1, <1>2, <2>1, <3>2
    <3>4. QED BY <1>4, <3>3 DEF Range
  <2>2. QED BY <2>1 DEF SmileAlone
<1>5. QED BY <1>1, <1>3, <1>4 DEF t

LEMMA OffTop ==
  ASSUME NEW s \in Seq(Wrapper), s # <<>>, SmileAlone(s)
  PROVE  Tail(s) \in Seq(Wrapper) /\ SmileAlone(Tail(s))
<1> DEFINE t == Tail(s)
<1>1. /\ t \in Seq(Wrapper) /\ Len(t) = Len(s) - 1 /\ Len(s) \in Nat
      /\ \A i \in 1..Len(t) : t[i] = s[i + 1] /\ i + 1 \in 1..Len(s)
  OBVIOUS
<1>2. DOMAIN t = 1..Len(t) /\ DOMAIN s = 1..Len(s)
  BY <1>1
<1> HIDE DEF t
<1>3. SUFFICES ASSUME NEW i \in DOMAIN t, NEW k \in DOMAIN t, t[i] = "smile", t[k] = "smile"
               PROVE  i = k
  BY <1>1 DEF SmileAlone, t
<1>4. i + 1 = k + 1
  BY <1>1, <1>2, <1>3 DEF SmileAlone
<1>5. QED BY <1>1, <1>2, <1>4

LEMMA AuditInvImplies == AuditInv => LoggedOnce
<1> SUFFICES ASSUME AuditInv PROVE LoggedOnce
  OBVIOUS
<1>1. ASSUME NEW s \in Seq(Wrapper), SmileAlone(s) PROVE Times("smile", s) <= 1
  <2> DEFINE S == {i \in DOMAIN s : s[i] = "smile"}
  <2>1. S = {} => Cardinality(S) = 0
    <3> HIDE DEF S
    <3>1. QED BY FS_EmptySet
  <2>2. ASSUME NEW i \in S PROVE Cardinality(S) = 1
    <3>1. S = {i}
      BY <1>1 DEF SmileAlone
    <3>2. QED BY <3>1, FS_Singleton
  <2>3. QED BY <2>1, <2>2 DEF Times
<1>2. Times("audit", <<>>) = 0 /\ Times("audit", <<"audit">>) = 1
  <2>1. {i \in DOMAIN <<>> : <<>>[i] = "audit"} = {}
    OBVIOUS
  <2>2. {i \in DOMAIN <<"audit">> : <<"audit">>[i] = "audit"} = {1}
    OBVIOUS
  <2>3. QED BY <2>1, <2>2, FS_EmptySet, FS_Singleton DEF Times
<1>3. SmileOnce
  BY <1>1 DEF SmileOnce, AuditInv, AuditTypes, Chain
<1>4. AttributesAgree
  BY <1>2 DEF AttributesAgree, AuditInv, ChainOf
<1>5. LoggedWhenSubscribed
  BY <1>2 DEF LoggedWhenSubscribed, AuditInv, ChainOf
<1>6. QED BY <1>3, <1>4, <1>5 DEF LoggedOnce

-----------------------------------------------------------------------------
(* The steps that change the classes                                       *)

\* Wrapping the methods of P, each not wrapped before, on worker w.
LEMMA PatchStep ==
  ASSUME AuditInv, NEW w \in Workers, NEW r \in Rule, PatchMethods(r, w),
         UNCHANGED smile
  PROVE  /\ chain' \in [Workers -> Chain] /\ ruled' \in [Workers -> SUBSET Method]
         /\ \A v \in Workers : \A m \in Method : SmileAlone(chain'[v][m])
         /\ smile = "never" =>
              \A v \in Workers : \A m \in Method : chain'[v][m] = ChainOf(v, m)'
         /\ ruled'[w] = ruled[w] \cup Flagged(r)
         /\ \A v \in Workers : v # w => ruled'[v] = ruled[v]
<1> DEFINE P == Unpatched(r, w)
<1>1. /\ chain \in [Workers -> Chain] /\ ruled \in [Workers -> SUBSET Method]
      /\ P = Flagged(r) \ ruled[w]
      /\ ruled' = [ruled EXCEPT ![w] = ruled[w] \cup P]
      /\ chain' = [chain EXCEPT ![w] = [m \in Method |->
                     IF m \in P THEN <<"audit">> \o chain[w][m] ELSE chain[w][m]]]
  BY DEF AuditInv, AuditTypes, PatchMethods, Unpatched
<1>2. P \subseteq Method
  BY AuditRulesAssumption, <1>1 DEF Flagged, Rule
<1> HIDE DEF P
<1>3. ASSUME NEW v \in Workers, NEW m \in Method
      PROVE  /\ chain[v][m] \in Seq(Wrapper) /\ SmileAlone(chain[v][m])
             /\ chain'[v][m] = IF v = w /\ m \in P THEN <<"audit">> \o chain[v][m]
                               ELSE chain[v][m]
             /\ chain'[v] \in Chain
  <2>1. SmileAlone(chain[v][m]) /\ \A k \in Method : chain[v][k] \in Seq(Wrapper)
    BY <1>1 DEF AuditInv, Chain
  <2>2. chain'[v] = IF v = w THEN [k \in Method |->
                      IF k \in P THEN <<"audit">> \o chain[w][k] ELSE chain[w][k]]
                    ELSE chain[v]
    BY <1>1
  <2>3. \A k \in Method : <<"audit">> \o chain[v][k] \in Seq(Wrapper)
    BY <2>1, OnTop DEF Wrapper
  <2>4. QED BY <1>1, <2>1, <2>2, <2>3 DEF Chain
<1>4. ASSUME NEW v \in Workers, NEW m \in Method PROVE SmileAlone(chain'[v][m])
  BY <1>3, OnTop DEF Wrapper
<1>5. ASSUME smile = "never", NEW v \in Workers, NEW m \in Method
      PROVE  chain'[v][m] = ChainOf(v, m)'
  <2>1. chain[v][m] = ChainOf(v, m)
    BY <1>5 DEF AuditInv
  <2>2. m \in ruled'[v] <=> m \in ruled[v] \/ (v = w /\ m \in P)
    BY <1>1
  <2>3. v = w /\ m \in P => m \notin ruled[v]
    BY <1>1
  <2>4. <<"audit">> \o <<>> = <<"audit">>
    OBVIOUS
  <2>5. QED BY <1>3, <2>1, <2>2, <2>3, <2>4 DEF ChainOf
<1>6. chain' \in [Workers -> Chain]
  <2>1. Method # {}
    <3>1. Methods[1] \in Method /\ 1 \in DOMAIN Methods
      BY DEF Method, Methods, Range
    <3>2. QED BY <3>1
  <2>2. \A v \in Workers : chain'[v] \in Chain
    BY <1>3, <2>1
  <2>3. QED BY <1>1, <2>2
<1>7. QED BY <1>1, <1>2, <1>4, <1>5, <1>6

\* Taking the outermost wrappers off, as far as the request comes.
LEMMA RevertStep ==
  ASSUME AuditInv, NEW w \in Workers, RevertMethods(w), UNCHANGED smile
  PROVE  /\ chain' \in [Workers -> Chain] /\ ruled' \in [Workers -> SUBSET Method]
         /\ \A v \in Workers : \A m \in Method : SmileAlone(chain'[v][m])
         /\ smile = "never" =>
              \A v \in Workers : \A m \in Method : chain'[v][m] = ChainOf(v, m)'
         /\ ruled'[w] = ruled[w] \ Reverted(w)
         /\ \A v \in Workers : v # w => ruled'[v] = ruled[v]
<1> DEFINE P == Reverted(w)
<1>1. /\ chain \in [Workers -> Chain] /\ ruled \in [Workers -> SUBSET Method]
      /\ ruled' = [ruled EXCEPT ![w] = ruled[w] \ P]
      /\ chain' = [chain EXCEPT ![w] = [m \in Method |->
                     IF m \in P THEN Tail(chain[w][m]) ELSE chain[w][m]]]
      /\ \A m \in P : chain[w][m] # <<>>
  BY DEF AuditInv, AuditTypes, RevertMethods, Reverted, Wrapped
<1> HIDE DEF P
<1>2. ASSUME NEW v \in Workers, NEW m \in Method
      PROVE  /\ chain[v][m] \in Seq(Wrapper) /\ SmileAlone(chain[v][m])
             /\ chain'[v][m] = IF v = w /\ m \in P THEN Tail(chain[v][m])
                               ELSE chain[v][m]
             /\ chain'[v][m] \in Seq(Wrapper) /\ SmileAlone(chain'[v][m])
  <2>1. chain[v][m] \in Seq(Wrapper) /\ SmileAlone(chain[v][m])
    BY <1>1 DEF AuditInv, Chain
  <2>2. chain'[v][m] = IF v = w /\ m \in P THEN Tail(chain[v][m]) ELSE chain[v][m]
    BY <1>1
  <2>3. v = w /\ m \in P => Tail(chain[v][m]) \in Seq(Wrapper) /\ SmileAlone(Tail(chain[v][m]))
    BY <1>1, <2>1, OffTop
  <2>4. QED BY <2>1, <2>2, <2>3
<1>3. chain' \in [Workers -> Chain]
  <2>1. ASSUME NEW v \in Workers PROVE chain'[v] \in Chain
    <3>1. DOMAIN chain'[v] = Method /\ chain'[v] = [m \in Method |-> chain'[v][m]]
      BY <1>1 DEF Chain
    <3>2. QED BY <1>2, <3>1 DEF Chain
  <2>2. QED BY <1>1, <2>1
<1>4. ASSUME smile = "never", NEW v \in Workers, NEW m \in Method
      PROVE  chain'[v][m] = ChainOf(v, m)'
  <2>1. chain[v][m] = ChainOf(v, m)
    BY <1>4 DEF AuditInv
  <2>2. m \in ruled'[v] <=> m \in ruled[v] /\ ~(v = w /\ m \in P)
    BY <1>1
  <2>3. v = w /\ m \in P => m \in ruled[v]
    BY <1>1, <2>1 DEF ChainOf
  <2>4. Tail(<<"audit">>) = <<>>
    OBVIOUS
  <2>5. QED BY <1>2, <2>1, <2>2, <2>3, <2>4 DEF ChainOf
<1>5. QED BY <1>1, <1>2, <1>3, <1>4 DEF P

LEMMA SmileOnStep ==
  ASSUME AuditInv, NEW w \in Workers, SmileOn(w)
  PROVE  /\ chain' \in [Workers -> Chain]
         /\ \A v \in Workers : \A m \in Method : SmileAlone(chain'[v][m])
<1> DEFINE P == ToWrap(w)
<1>1. /\ chain \in [Workers -> Chain]
      /\ chain' = [chain EXCEPT ![w] = [m \in Method |->
                     IF m \in P THEN <<"smile">> \o chain[w][m] ELSE chain[w][m]]]
      /\ \A m \in P : "smile" \notin Range(chain[w][m])
  BY DEF AuditInv, AuditTypes, SmileOn, ToWrap
<1> HIDE DEF P
<1>2. ASSUME NEW v \in Workers, NEW m \in Method
      PROVE  chain'[v][m] \in Seq(Wrapper) /\ SmileAlone(chain'[v][m])
  <2>1. chain[v][m] \in Seq(Wrapper) /\ SmileAlone(chain[v][m])
    BY <1>1 DEF AuditInv, Chain
  <2>2. chain'[v][m] = IF v = w /\ m \in P THEN <<"smile">> \o chain[v][m] ELSE chain[v][m]
    BY <1>1
  <2>3. v = w /\ m \in P => /\ <<"smile">> \o chain[v][m] \in Seq(Wrapper)
                            /\ SmileAlone(<<"smile">> \o chain[v][m])
    BY <1>1, <2>1, OnTop DEF Wrapper
  <2>4. QED BY <2>1, <2>2, <2>3
<1>3. chain' \in [Workers -> Chain]
  <2>1. ASSUME NEW v \in Workers PROVE chain'[v] \in Chain
    <3>1. DOMAIN chain'[v] = Method /\ chain'[v] = [m \in Method |-> chain'[v][m]]
      BY <1>1 DEF Chain
    <3>2. QED BY <1>2, <3>1 DEF Chain
  <2>2. QED BY <1>1, <2>1
<1>4. QED BY <1>2, <1>3

LEMMA ReloadStep ==
  ASSUME AuditInv, NEW w \in Workers, Reload(w)
  PROVE  /\ chain' \in [Workers -> Chain] /\ ruled' \in [Workers -> SUBSET Method]
         /\ \A v \in Workers : \A m \in Method : SmileAlone(chain'[v][m])
         /\ smile = "never" =>
              \A v \in Workers : \A m \in Method : chain'[v][m] = ChainOf(v, m)'
         /\ ruled'[w] = Flagged(rule)
         /\ \A v \in Workers : v # w => ruled'[v] = ruled[v]
<1> DEFINE a(m) == IF m \in Flagged(rule) THEN <<"audit">> ELSE <<>>
           s(m) == IF smile = "on" /\ m \in SmileMethod THEN <<"smile">> ELSE <<>>
<1>1. /\ chain \in [Workers -> Chain] /\ ruled \in [Workers -> SUBSET Method]
      /\ ruled' = [ruled EXCEPT ![w] = Flagged(rule)]
      /\ chain' = [chain EXCEPT ![w] = [m \in Method |-> s(m) \o a(m)]]
      /\ Flagged(rule) \subseteq Method
  BY AuditRulesAssumption DEF AuditInv, AuditTypes, Reload, Flagged, Rule
<1>2. /\ <<>> \in Seq(Wrapper) /\ <<"audit">> \in Seq(Wrapper)
      /\ <<"smile">> \o <<"audit">> \in Seq(Wrapper) /\ <<"smile">> \o <<>> \in Seq(Wrapper)
      /\ <<>> \o <<>> = <<>> /\ <<>> \o <<"audit">> = <<"audit">>
  BY DEF Wrapper
<1>3. /\ SmileAlone(<<>>) /\ SmileAlone(<<"audit">>)
      /\ SmileAlone(<<"smile">> \o <<"audit">>) /\ SmileAlone(<<"smile">> \o <<>>)
  <2>1. "smile" \notin Range(<<>>) /\ "smile" \notin Range(<<"audit">>)
    BY DEF Range
  <2>2. SmileAlone(<<>>) /\ SmileAlone(<<"audit">>)
    BY DEF SmileAlone
  <2>3. QED BY <1>2, <2>1, <2>2, OnTop DEF Wrapper
<1>4. ASSUME NEW m \in Method PROVE s(m) \o a(m) \in Seq(Wrapper) /\ SmileAlone(s(m) \o a(m))
  BY <1>2, <1>3
<1>5. ASSUME NEW v \in Workers, NEW m \in Method
      PROVE  /\ chain'[v][m] = IF v = w THEN s(m) \o a(m) ELSE chain[v][m]
             /\ chain[v][m] \in Seq(Wrapper) /\ SmileAlone(chain[v][m])
  BY <1>1 DEF AuditInv, Chain
<1>6. chain' \in [Workers -> Chain]
  <2>1. [m \in Method |-> s(m) \o a(m)] \in Chain
    BY <1>4 DEF Chain
  <2> HIDE DEF s, a
  <2>2. QED BY <1>1, <2>1
<1>7. ASSUME smile = "never", NEW v \in Workers, NEW m \in Method
      PROVE  chain'[v][m] = ChainOf(v, m)'
  <2>1. chain[v][m] = ChainOf(v, m)
    BY <1>7 DEF AuditInv
  <2>2. s(m) \o a(m) = IF m \in Flagged(rule) THEN <<"audit">> ELSE <<>>
    BY <1>2, <1>7
  <2> HIDE DEF s, a
  <2>3. QED BY <1>1, <1>5, <2>1, <2>2 DEF ChainOf
<1>8. \A v \in Workers : \A m \in Method : SmileAlone(chain'[v][m])
  <2> HIDE DEF s, a
  <2>1. QED BY <1>4, <1>5
<1>9. QED BY <1>1, <1>6, <1>7, <1>8

-----------------------------------------------------------------------------
(* The requests                                                            *)

\* What holds of a change of the classes that only this worker makes.
Classes ==
  /\ chain' \in [Workers -> Chain] /\ ruled' \in [Workers -> SUBSET Method]
  /\ \A v \in Workers : \A m \in Method : SmileAlone(chain'[v][m])
  /\ smile' = "never" =>
       \A v \in Workers : \A m \in Method : chain'[v][m] = ChainOf(v, m)'

LEMMA RuleTypes ==
  ASSUME AuditTypes
  PROVE  /\ rule \in Rule /\ NoRule \in Rule
         /\ \A F \in FlagSets : /\ [state |-> "draft", flags |-> F] \in Rule
                                /\ [rule EXCEPT !.flags = F] \in Rule
                                /\ [rule EXCEPT !.flags = F].state = rule.state
         /\ \A s \in {"draft", "subscribed"} :
              [rule EXCEPT !.state = s] \in Rule /\ [rule EXCEPT !.state = s].state = s
BY DEF AuditTypes, Rule, NoRule

LEMMA WriteStep ==
  ASSUME AuditInv, NEW w \in Workers, w \notin stale, NEW r \in Rule, WriteRule(r, w),
         UNCHANGED <<smile, rollbacks>>, Flagged(rule) \subseteq Flagged(r)
  PROVE  AuditInv'
<1>1. Classes /\ ruled'[w] = ruled[w] \cup Flagged(r)
      /\ \A v \in Workers : v # w => ruled'[v] = ruled[v]
  BY PatchStep DEF Classes, WriteRule
<1>2. /\ rule' = r
      /\ stale' = IF Flagged(r) \ ruled[w] # {} THEN stale \cup (Workers \ {w}) ELSE stale
  BY DEF WriteRule, Unpatched, UpdateRegistry
<1>3. AuditTypes'
  BY <1>1, <1>2 DEF AuditInv, AuditTypes, Classes
<1>4. ASSUME smile = "never", rollbacks = 0, NEW v \in Workers, v \notin stale'
      PROVE  ruled'[v] = Flagged(r)
  <2>1. v \notin stale /\ ruled[v] = Flagged(rule) /\ ruled[w] = Flagged(rule)
    BY <1>2, <1>4 DEF AuditInv
  <2>2. CASE v = w
    BY <1>1, <2>1, <2>2
  <2>3. CASE v # w
    <3>1. Flagged(r) \subseteq ruled[w]
      BY <1>2, <1>4, <2>3
    <3>2. QED BY <1>1, <2>1, <2>3, <3>1
  <2>4. QED BY <2>2, <2>3
<1>5. QED BY <1>1, <1>2, <1>3, <1>4 DEF AuditInv, Classes, Flagged

LEMMA LeaveStep ==
  ASSUME AuditInv, NEW w \in Workers, w \notin stale, NEW r \in Rule, LeaveRule(r, w),
         UNCHANGED <<smile, rollbacks>>, r.state # "subscribed"
  PROVE  AuditInv'
<1>1. Classes /\ ruled'[w] = ruled[w] \ Reverted(w)
      /\ \A v \in Workers : v # w => ruled'[v] = ruled[v]
  BY RevertStep DEF Classes, LeaveRule
<1>2. rule' \in {rule, r} /\ stale' \subseteq Workers
  BY DEF LeaveRule, UpdateRegistry, AuditInv, AuditTypes
<1>3. AuditTypes'
  BY <1>1, <1>2 DEF AuditInv, AuditTypes, Classes
<1>4. ASSUME smile = "never", rollbacks = 0, NEW v \in Workers, v \notin stale'
      PROVE  ruled'[v] = Flagged(rule')
  <2>1. ruled[w] = Flagged(rule) /\ (v \notin stale => ruled[v] = Flagged(rule))
    BY <1>4 DEF AuditInv
  <2>2. Wrapped(w) = rule.flags \cap ruled[w]
    <3>1. rule.flags \subseteq Method
      BY AuditRulesAssumption DEF AuditInv, AuditTypes, Rule
    <3>2. \A m \in Method : chain[w][m] # <<>> <=> m \in ruled[w]
      BY <1>4 DEF AuditInv, ChainOf
    <3>3. QED BY <3>1, <3>2 DEF Wrapped
  <2>3. Broken(w) = {} /\ Wrapped(w) = ruled[w]
    BY <2>1, <2>2 DEF Broken, Flagged
  <2>4. Reverted(w) = ruled[w]
    BY <2>3 DEF Reverted
  <2>5. /\ Flagged(rule') = {}
        /\ stale' = IF ruled[w] # {} THEN stale \cup (Workers \ {w}) ELSE stale
    BY <2>3 DEF LeaveRule, Flagged, UpdateRegistry
  <2>6. QED BY <1>1, <1>4, <2>1, <2>4, <2>5
<1>5. QED BY <1>1, <1>3, <1>4 DEF AuditInv, Classes

LEMMA RequestStep ==
  ASSUME AuditInv, NEW w \in Workers, Request(w) PROVE AuditInv'
<1>1. AuditTypes /\ w \notin stale /\ UNCHANGED rollbacks
  BY DEF AuditInv, Request
<1>2. CASE AuditRequest(w) /\ UNCHANGED smile
  <2>1. CASE \E F \in FlagSets : CreateRule(w, F)
    <3>1. PICK F \in FlagSets : CreateRule(w, F)
      BY <2>1
    <3>2. Flagged(rule) = {}
      BY <3>1 DEF CreateRule, Flagged, NoRule
    <3>3. QED BY <1>1, <1>2, <3>1, <3>2, RuleTypes, WriteStep DEF CreateRule
  <2>2. CASE \E F \in FlagSets : EditRule(w, F)
    <3>1. PICK F \in FlagSets : EditRule(w, F)
      BY <2>2
    <3>2. Flagged(rule) = {}
      BY <3>1 DEF EditRule, Flagged
    <3>3. QED BY <1>1, <1>2, <3>1, <3>2, RuleTypes, WriteStep DEF EditRule
  <2>3. CASE Rename(w)
    BY <1>1, <1>2, <2>3, RuleTypes, WriteStep DEF Rename
  <2>4. CASE Subscribe(w)
    <3>1. Flagged(rule) = {}
      BY <2>4 DEF Subscribe, Flagged
    <3>2. QED BY <1>1, <1>2, <2>4, <3>1, RuleTypes, WriteStep DEF Subscribe
  <2>5. CASE Unsubscribe(w)
    BY <1>1, <1>2, <2>5, RuleTypes, LeaveStep DEF Unsubscribe
  <2>6. CASE UnlinkRule(w)
    <3>1. NoRule.state # "subscribed"
      BY DEF NoRule
    <3>2. QED BY <1>1, <1>2, <2>6, <3>1, RuleTypes, LeaveStep DEF UnlinkRule
  <2>7. QED BY <1>2, <2>1, <2>2, <2>3, <2>4, <2>5, <2>6 DEF AuditRequest
<1>3. CASE SmileOn(w)
  <2>1. smile' = "on" /\ UNCHANGED <<rule, ruled, stale>>
    BY <1>3 DEF SmileOn
  <2>2. QED BY <1>1, <1>3, <2>1, SmileOnStep DEF AuditInv, AuditTypes
<1>4. CASE SmileOff(w)
  <2>1. smile' = "off" /\ UNCHANGED <<rule, chain, ruled, stale>>
    BY <1>4 DEF SmileOff
  <2>2. QED BY <1>1, <2>1 DEF AuditInv, AuditTypes
<1>5. QED BY <1>2, <1>3, <1>4 DEF Request

LEMMA RolledBackStep ==
  ASSUME AuditInv, NEW w \in Workers, RolledBack(w) PROVE AuditInv'
<1>1. UNCHANGED <<rule, smile, stale>> /\ rollbacks' = rollbacks + 1
  BY DEF RolledBack
<1>2. Classes
  <2>1. CASE PatchMethods([rule EXCEPT !.state = "subscribed"], w)
    BY <1>1, <2>1, RuleTypes, PatchStep DEF Classes, AuditInv
  <2>2. CASE RevertMethods(w)
    BY <1>1, <2>2, RevertStep DEF Classes
  <2>3. QED BY <2>1, <2>2 DEF RolledBack
<1>3. rollbacks' \in Nat /\ rollbacks' # 0
  BY <1>1 DEF AuditInv, AuditTypes
<1>4. QED BY <1>1, <1>2, <1>3 DEF AuditInv, AuditTypes, Classes

LEMMA AuditStep == AuditInv /\ [AuditNext]_auditVars => AuditInv'
<1> SUFFICES ASSUME AuditInv, [AuditNext]_auditVars PROVE AuditInv'
  OBVIOUS
<1>1. ASSUME NEW w \in Workers, Reload(w) PROVE AuditInv'
  <2>1. UNCHANGED <<rule, smile, rollbacks>> /\ stale' = stale \ {w}
    BY <1>1 DEF Reload
  <2>2. Classes /\ ruled'[w] = Flagged(rule) /\ \A v \in Workers : v # w => ruled'[v] = ruled[v]
    BY <1>1, <2>1, ReloadStep DEF Classes
  <2>3. QED BY <2>1, <2>2 DEF AuditInv, AuditTypes, Classes, Flagged
<1>2. CASE UNCHANGED auditVars
  BY <1>2 DEF auditVars, AuditInv, AuditTypes, ChainOf, Flagged
<1>3. QED BY <1>1, <1>2, RequestStep, RolledBackStep DEF AuditNext

LEMMA AuditStart == AuditInit => AuditInv
<1> SUFFICES ASSUME AuditInit PROVE AuditInv
  OBVIOUS
<1>1. Bare \in Chain /\ \A m \in Method : Bare[m] = <<>>
  BY DEF Bare, Chain
<1>2. SmileAlone(<<>>)
  BY DEF SmileAlone
<1>3. AuditTypes
  BY <1>1 DEF AuditInit, AuditTypes, NoRule, Rule
<1>4. QED BY <1>1, <1>2, <1>3 DEF AuditInit, AuditInv, ChainOf, Flagged, NoRule

\* Whatever the two audit modules wrap and unwrap around each other, on any
\* number of workers: smile_audit logs an operation once, and without it
\* auditlog logs what its rule asks for once, unless requests were rolled back.
THEOREM OperationsLoggedOnce == AuditSpec => []LoggedOnce
<1>1. AuditSpec => []AuditInv
  BY AuditStart, AuditStep, PTL DEF AuditSpec
<1>2. QED BY <1>1, AuditInvImplies, PTL

-----------------------------------------------------------------------------
(* Backups: what a turn does, and in which order.                            *)

\* The steps that dump a database and that store the file for good.
DumpAt(d) ==
    CASE d = "dropbox" -> 1
      [] d \in {"next_cloud", "amazon_s3"} -> 4
      [] OTHER -> 2

StoreAt(d) ==
    CASE d = "local" -> 2
      [] d \in {"next_cloud", "amazon_s3"} -> 5
      [] OTHER -> 3

Steps == {"connect", "dump", "store", "rotate", "mark", "mail"}

\* Where a program dumps, stores, marks and tells; and that nothing but
\* removing and telling is left once the file is stored.
InOrder(p, d, a, b) ==
    /\ Len(p) \in 4..6 /\ DOMAIN p = 1..Len(p)
    /\ a < Len(p)
    /\ d = "local" => a = b
    /\ d # "local" => a < b
    /\ d # "next_cloud" => b < Len(p)
    /\ d = "next_cloud" => Len(p) = 5 /\ b = 5 /\ a = 4
    /\ \A i \in 1..Len(p) :
         /\ p[i] \in Steps
         /\ p[i] = "dump" <=> i = a
         /\ p[i] = "store" <=> d # "local" /\ i = b
         /\ p[i] = "mark" => d = "amazon_s3" /\ i < a
         /\ d # "next_cloud" =>
              /\ p[i] = "mail" <=> i = Len(p)
              /\ i > b => p[i] \in {"rotate", "mail"}
              /\ d # "amazon_s3" /\ p[i] = "rotate" => i > b

\* All eight programs are ordered like that.
LEMMA ProgramOrder ==
  ASSUME NEW d \in Destinations
  PROVE  InOrder(Program(d), d, DumpAt(d), StoreAt(d)) /\ DumpAt(d) \in 1..4 /\ StoreAt(d) \in 2..5
<1>1. CASE d = "local"
  <2>1. InOrder(LocalProgram, "local", 2, 2)
    BY DEF LocalProgram, Steps, InOrder
  <2>2. Program("local") = LocalProgram /\ DumpAt("local") = 2 /\ StoreAt("local") = 2
    BY DEF Program, DumpAt, StoreAt
  <2> QED BY <1>1, <2>1, <2>2
<1>2. CASE d = "ftp"
  <2>1. InOrder(FtpProgram, "ftp", 2, 3)
    BY DEF FtpProgram, Steps, InOrder
  <2>2. Program("ftp") = FtpProgram /\ DumpAt("ftp") = 2 /\ StoreAt("ftp") = 3
    BY DEF Program, DumpAt, StoreAt
  <2> QED BY <1>2, <2>1, <2>2
<1>3. CASE d = "sftp"
  <2>1. InOrder(SftpProgram, "sftp", 2, 3)
    BY DEF SftpProgram, Steps, InOrder
  <2>2. Program("sftp") = SftpProgram /\ DumpAt("sftp") = 2 /\ StoreAt("sftp") = 3
    BY DEF Program, DumpAt, StoreAt
  <2> QED BY <1>3, <2>1, <2>2
<1>4. CASE d = "google_drive"
  <2>1. InOrder(GoogleProgram, "google_drive", 2, 3)
    BY DEF GoogleProgram, Steps, InOrder
  <2>2. Program("google_drive") = GoogleProgram /\ DumpAt("google_drive") = 2 /\ StoreAt("google_drive") = 3
    BY DEF Program, DumpAt, StoreAt
  <2> QED BY <1>4, <2>1, <2>2
<1>5. CASE d = "dropbox"
  <2>1. InOrder(DropboxProgram, "dropbox", 1, 3)
    BY DEF DropboxProgram, Steps, InOrder
  <2>2. Program("dropbox") = DropboxProgram /\ DumpAt("dropbox") = 1 /\ StoreAt("dropbox") = 3
    BY DEF Program, DumpAt, StoreAt
  <2> QED BY <1>5, <2>1, <2>2
<1>6. CASE d = "onedrive"
  <2>1. InOrder(OnedriveProgram, "onedrive", 2, 3)
    BY DEF OnedriveProgram, Steps, InOrder
  <2>2. Program("onedrive") = OnedriveProgram /\ DumpAt("onedrive") = 2 /\ StoreAt("onedrive") = 3
    BY DEF Program, DumpAt, StoreAt
  <2> QED BY <1>6, <2>1, <2>2
<1>7. CASE d = "next_cloud"
  <2>1. InOrder(NextCloudProgram, "next_cloud", 4, 5)
    BY DEF NextCloudProgram, Steps, InOrder
  <2>2. Program("next_cloud") = NextCloudProgram /\ DumpAt("next_cloud") = 4 /\ StoreAt("next_cloud") = 5
    BY DEF Program, DumpAt, StoreAt
  <2> QED BY <1>7, <2>1, <2>2
<1>8. CASE d = "amazon_s3"
  <2>1. InOrder(AmazonProgram, "amazon_s3", 4, 5)
    BY DEF AmazonProgram, Steps, InOrder
  <2>2. Program("amazon_s3") = AmazonProgram /\ DumpAt("amazon_s3") = 4 /\ StoreAt("amazon_s3") = 5
    BY DEF Program, DumpAt, StoreAt
  <2> QED BY <1>8, <2>1, <2>2
<1> QED
  BY <1>1, <1>2, <1>3, <1>4, <1>5, <1>6, <1>7, <1>8 DEF Destinations, OAuth

\* The records of a cron have a first one, as ids are positive.
LEMMA FirstRecord ==
  ASSUME NEW S \in SUBSET Records, S # {}
  PROVE  FirstOf(S) \in S
<1> DEFINE less == OpToRel(<, Nat)
<1>1. S \subseteq Nat /\ IsWellFoundedOn(less, Nat)
  BY BackupAssumption, NatLessThanWellFounded
<1>2. PICK x \in S : \A y \in S : <<y, x>> \notin less
  <2> HIDE DEF less
  <2> QED BY <1>1, WFMin, Zenon
<1>3. \A y \in S : x <= y
  <2> SUFFICES ASSUME NEW y \in S PROVE x <= y
    OBVIOUS
  <2>1. x \in Nat /\ y \in Nat
    BY <1>1
  <2>2. ~(y < x)
    BY <1>2, <2>1 DEF OpToRel
  <2> QED BY <2>1, <2>2
<1> QED BY <1>3 DEF FirstOf

-----------------------------------------------------------------------------
(* Backups: the steps of a cron.                                             *)

CronRecord == [pc: {"idle", "next", "turn", "delete"}, todo: SUBSET Records,
               rec: Records \cup {NoRecord}, at: 0..6, tmp: BOOLEAN,
               expired: SUBSET File]

Busy(c) == cron[c].pc \in {"turn", "delete"}
Dest_(c) == Conf_(c).dest

\* What the type invariant says of the turn of a cron.
LEMMA TurnTypes ==
  ASSUME TypeOK, NEW c \in Crons
  PROVE  /\ cron \in [Crons -> CronRecord] /\ cron[c] \in CronRecord
         /\ Busy(c) =>
              /\ cron[c].rec \in Records /\ cron[c].rec # NoRecord
              /\ Conf_(c) \in Conf /\ Dest_(c) \in Destinations /\ Folder_(c) \in Folders
              /\ cron[c].at \in 1..Len(Program(Dest_(c)))
              /\ InOrder(Program(Dest_(c)), Dest_(c), DumpAt(Dest_(c)), StoreAt(Dest_(c)))
              /\ DumpAt(Dest_(c)) \in 1..4 /\ StoreAt(Dest_(c)) \in 2..5
<1>1. cron \in [Crons -> CronRecord] /\ cron[c] \in CronRecord
  BY DEF TypeOK, CronRecord
<1>2. ASSUME Busy(c)
      PROVE  /\ cron[c].rec \in Records /\ cron[c].rec # NoRecord
             /\ Conf_(c) \in Conf /\ Dest_(c) \in Destinations /\ Folder_(c) \in Folders
             /\ cron[c].at \in DOMAIN Program(Dest_(c))
  <2>1. cron[c].rec \in Records /\ cron[c].at \in DOMAIN Program(Dest_(c))
    BY <1>2 DEF TypeOK, Busy, Dest_, Conf_
  <2>2. Conf_(c) \in Conf
    BY <2>1 DEF TypeOK, Conf_
  <2>3. Dest_(c) \in Destinations /\ Folder_(c) \in Folders
    BY <2>2 DEF Conf, Dest_, Folder_
  <2>4. cron[c].rec # NoRecord
    BY <2>1, BackupAssumption
  <2> QED BY <2>1, <2>2, <2>3, <2>4
<1>3. Busy(c) => /\ InOrder(Program(Dest_(c)), Dest_(c), DumpAt(Dest_(c)), StoreAt(Dest_(c)))
                 /\ DumpAt(Dest_(c)) \in 1..4 /\ StoreAt(Dest_(c)) \in 2..5
  BY <1>2, ProgramOrder
<1>4. Busy(c) => cron[c].at \in 1..Len(Program(Dest_(c)))
  BY <1>2, <1>3 DEF InOrder
<1> QED BY <1>1, <1>2, <1>3, <1>4

\* The types of the variables a cron does not share.
CronTypes(c) ==
    /\ cron[c] \in CronRecord
    /\ Busy(c) => /\ cron[c].rec \in Records
                  /\ cron[c].at \in DOMAIN Program(conf[cron[c].rec].dest)

\* What is left to show of the types when a cron has made a step.
LEMMA TypesKept ==
  ASSUME TypeOK, NEW c \in Crons, UNCHANGED settings, UNCHANGED half,
         cron' = [cron EXCEPT ![c] = cron'[c]], CronTypes(c)',
         folder' \in [Folders -> SUBSET File], ever' \subseteq Folders, due' \subseteq Crons,
         told' \in [Records -> {"nothing", "success", "failed"}], faults' \in 0..MaxFaults
  PROVE  TypeOK'
<1>1. cron' \in [Crons -> CronRecord]
  BY TurnTypes DEF CronTypes
<1>2. \A e \in Crons : cron'[e].pc \in {"turn", "delete"} =>
           /\ cron'[e].rec \in Records
           /\ cron'[e].at \in DOMAIN Program(conf'[cron'[e].rec].dest)
  <2> TAKE e \in Crons
  <2>1. CASE e = c
    BY <2>1 DEF CronTypes, Busy
  <2>2. CASE e # c
    <3>1. cron'[e] = cron[e] /\ conf' = conf
      BY <2>2, TurnTypes DEF settings
    <3> QED BY <3>1 DEF TypeOK
  <2> QED BY <2>1, <2>2
<1> QED BY <1>1, <1>2 DEF TypeOK, CronRecord, settings

\* The step after s, or the end of the turn, which only the mail is before
\* unless next_cloud does the work.
LEMMA AdvanceStep ==
  ASSUME TypeOK, NEW c \in Crons, Busy(c), NEW tmp \in BOOLEAN, Advance(c, tmp),
         conf' = conf
  PROVE  /\ cron' = [cron EXCEPT ![c] = cron'[c]] /\ CronTypes(c)'
         /\ \A e \in Crons \ {c} : cron'[e] = cron[e]
         /\ cron'[c].todo = cron[c].todo /\ cron'[c].rec = cron[c].rec
         /\ \/ cron[c].at = Len(Program(Dest_(c))) /\ cron'[c].pc = "next"
            \/ /\ cron[c].at < Len(Program(Dest_(c)))
               /\ cron'[c].pc = "turn" /\ cron'[c].at = cron[c].at + 1
               /\ cron'[c].tmp = tmp
<1> DEFINE n == Len(Program(Dest_(c)))
           over == TurnOver(c)
           on == [cron[c] EXCEPT !.pc = "turn", !.at = cron[c].at + 1, !.tmp = tmp, !.expired = {}]
<1>1. cron' = [cron EXCEPT ![c] = IF cron[c].at = n THEN over ELSE on]
  BY DEF Advance, Dest_, Conf_
<1>2. /\ n \in 4..6 /\ cron[c].at \in 1..n /\ DOMAIN Program(Dest_(c)) = 1..n
      /\ cron[c] \in CronRecord /\ cron[c].rec \in Records
  BY TurnTypes DEF InOrder
<1>3. /\ over \in CronRecord /\ over.pc = "next" /\ over.todo = cron[c].todo
      /\ over.rec = cron[c].rec
  <2>1. Idle \in CronRecord
    BY BackupAssumption DEF Idle, CronRecord
  <2> QED BY <1>2, <2>1 DEF TurnOver, CronRecord
<1>4. /\ cron[c].at # n => on \in CronRecord
      /\ on.pc = "turn" /\ on.todo = cron[c].todo /\ on.rec = cron[c].rec
      /\ on.at = cron[c].at + 1 /\ on.tmp = tmp
  <2>1. cron[c].at # n => cron[c].at + 1 \in 0..6
    <3> HIDE DEF n
    <3> QED BY <1>2
  <2> HIDE DEF n
  <2> QED BY <1>2, <2>1 DEF CronRecord
<1> HIDE DEF n, over, on
<1>5. /\ cron'[c] = (IF cron[c].at = n THEN over ELSE on)
      /\ \A e \in Crons \ {c} : cron'[e] = cron[e]
      /\ cron' = [cron EXCEPT ![c] = cron'[c]]
  BY <1>1, TurnTypes
<1>6. CASE cron[c].at = n
  <2>1. CronTypes(c)'
    BY <1>3, <1>5, <1>6 DEF CronTypes, Busy
  <2> QED BY <1>3, <1>5, <1>6, <2>1 DEF n
<1>7. CASE cron[c].at # n
  <2>1. cron[c].at < n /\ cron[c].at + 1 \in 1..n
    BY <1>2, <1>7
  <2>2. CronTypes(c)'
    BY <1>2, <1>4, <1>5, <1>7, <2>1 DEF CronTypes, Dest_, Conf_
  <2> QED BY <1>4, <1>5, <1>7, <2>1, <2>2 DEF n
<1> QED BY <1>6, <1>7

\* A mail is about the record of the turn.
LEMMA TellStep ==
  ASSUME TypeOK, NEW c \in Crons, Busy(c), NEW mail \in {"success", "failed"}, Tell(c, mail)
  PROVE  /\ told' \in [Records -> {"nothing", "success", "failed"}]
         /\ \A q \in Records \ {cron[c].rec} : told'[q] = told[q]
         /\ Conf_(c).notify => told'[cron[c].rec] = mail
<1>1. told \in [Records -> {"nothing", "success", "failed"}] /\ cron[c].rec \in Records
  BY TurnTypes DEF TypeOK
<1> QED BY <1>1 DEF Tell

\* An exception ends the run or, after a mail, the turn; only a failed removal
\* of next_cloud lets the turn go on.
LEMMA RaiseStep ==
  ASSUME TypeOK, NEW c \in Crons, Busy(c), NEW s, Raise(c, s), conf' = conf
  PROVE  /\ cron' = [cron EXCEPT ![c] = cron'[c]] /\ CronTypes(c)'
         /\ \A e \in Crons \ {c} : cron'[e] = cron[e]
         /\ cron'[c].todo \subseteq cron[c].todo /\ due' \subseteq Crons
         /\ told' \in [Records -> {"nothing", "success", "failed"}]
         /\ \A q \in Records \ {cron[c].rec} : told'[q] = told[q]
         /\ \/ cron'[c].pc = "idle"
            \/ /\ cron'[c].pc = "next" /\ Dest_(c) # "next_cloud"
               /\ Conf_(c).notify => told'[cron[c].rec] = "failed"
            \/ /\ Dest_(c) = "next_cloud"
               /\ cron'[c].pc = "turn" /\ cron'[c].rec = cron[c].rec /\ cron'[c].at = 4
<1> DEFINE over == TurnOver(c)
           on == [cron[c] EXCEPT !.pc = "turn", !.at = 4, !.expired = {}]
<1>1. /\ cron \in [Crons -> CronRecord] /\ cron[c] \in CronRecord
      /\ cron[c].rec \in Records /\ due \subseteq Crons
      /\ told \in [Records -> {"nothing", "success", "failed"}]
  BY TurnTypes DEF TypeOK
<1>2. Idle \in CronRecord /\ Idle.pc = "idle" /\ Idle.todo = {}
  BY BackupAssumption DEF Idle, CronRecord
<1>3. over \in CronRecord /\ over.pc = "next" /\ over.todo = cron[c].todo
  BY <1>1, <1>2 DEF TurnOver, CronRecord
<1>4. /\ on \in CronRecord /\ on.pc = "turn" /\ on.todo = cron[c].todo
      /\ on.rec = cron[c].rec /\ on.at = 4
  <2>1. 4 \in 0..6
    OBVIOUS
  <2> QED BY <1>1, <2>1 DEF CronRecord
<1>5. CASE Aborts(Dest_(c), s)
  <2>1. cron' = [cron EXCEPT ![c] = Idle] /\ due' = due \ {c}
    BY <1>5 DEF Raise, Dest_
  <2>2. Tell(c, "failed") \/ told' = told
    BY <1>5 DEF Raise, Dest_
  <2>3. /\ told' \in [Records -> {"nothing", "success", "failed"}]
        /\ \A q \in Records \ {cron[c].rec} : told'[q] = told[q]
    BY <1>1, <2>2, TellStep
  <2>4. cron'[c] = Idle /\ \A e \in Crons \ {c} : cron'[e] = cron[e]
    BY <1>1, <2>1
  <2>5. CronTypes(c)'
    BY <1>2, <2>4 DEF CronTypes, Busy
  <2> QED BY <1>1, <1>2, <2>1, <2>3, <2>4, <2>5
<1>6. CASE ~Aborts(Dest_(c), s)
  <2>1. Tell(c, "failed") /\ due' = due
    BY <1>6 DEF Raise, Dest_
  <2>2. /\ told' \in [Records -> {"nothing", "success", "failed"}]
        /\ \A q \in Records \ {cron[c].rec} : told'[q] = told[q]
        /\ Conf_(c).notify => told'[cron[c].rec] = "failed"
    BY <2>1, TellStep
  <2>3. CASE Dest_(c) = "next_cloud"
    <3>1. cron' = [cron EXCEPT ![c] = on]
      BY <1>6, <2>3 DEF Raise, Dest_
    <3> HIDE DEF on
    <3>2. cron'[c] = on /\ \A e \in Crons \ {c} : cron'[e] = cron[e]
      BY <1>1, <3>1
    <3>3. 4 \in DOMAIN Program(Dest_(c))
      BY <2>3, TurnTypes DEF InOrder
    <3>4. CronTypes(c)'
      BY <1>1, <1>4, <3>2, <3>3 DEF CronTypes, Dest_, Conf_
    <3> QED BY <1>1, <1>4, <2>1, <2>2, <2>3, <3>1, <3>2, <3>4
  <2>4. CASE Dest_(c) # "next_cloud"
    <3>1. cron' = [cron EXCEPT ![c] = over]
      BY <1>6, <2>4 DEF Raise, Dest_
    <3> HIDE DEF over
    <3>2. cron'[c] = over /\ \A e \in Crons \ {c} : cron'[e] = cron[e]
      BY <1>1, <3>1
    <3>3. CronTypes(c)'
      BY <1>3, <3>2 DEF CronTypes, Busy
    <3> QED BY <1>1, <1>3, <2>1, <2>2, <2>4, <3>1, <3>2, <3>3
  <2> QED BY <2>3, <2>4
<1> QED BY <1>5, <1>6

-----------------------------------------------------------------------------
(* Backups: the inductive invariant.  After its file is stored, a turn has a *)
(* fresh file that no removal of a day or more may take; before, what was    *)
(* dumped in the format zip can be restored; and nobody has been told of the *)
(* turn yet.                                                                 *)

\* Nobody removes the files of the folder at once.
Kept(f) == \A q \in Records : conf[q].folder = f => ~Removes(q, 0)

Fresh(r) ==
    \E x \in folder[conf[r].folder] :
        x.by = r /\ x.age = 0 /\ (conf[r].format = "zip" => x.good)

DumpGood(c) ==
    cron[c].at > DumpAt(Dest_(c)) /\ cron[c].at <= StoreAt(Dest_(c))
        => (Conf_(c).format = "zip" => cron[c].tmp)

FileThere(c) ==
    cron[c].at > StoreAt(Dest_(c)) /\ Dest_(c) \notin Unheard /\ Kept(Folder_(c))
        => Fresh(cron[c].rec)

OldExpire(c) ==
    cron[c].pc = "delete" =>
        /\ Program(Dest_(c))[cron[c].at] = "rotate"
        /\ Kept(Folder_(c)) => \A x \in cron[c].expired : x.age > 0

TurnHolds(c) ==
    /\ \A q \in cron[c].todo : conf[q].freq = c
    /\ Busy(c) =>
        /\ Conf_(c).freq = c
        /\ Dest_(c) # "next_cloud" => told[cron[c].rec] = "nothing"
        /\ DumpGood(c) /\ FileThere(c) /\ OldExpire(c)

BackupInv == TypeOK /\ NeverWithoutBackup /\ \A c \in Crons : TurnHolds(c)

\* Fresh files of records stay where they are kept.
FilesStay ==
    \A f \in Folders : Kept(f) =>
        \A x \in folder[f] : x.age = 0 /\ x.by # NoRecord => x \in folder'[f]

\* What another cron does leaves the turn of a cron as it was.
LEMMA OthersTurn ==
  ASSUME TypeOK, NEW c \in Crons, TurnHolds(c), NEW d \in Crons \ {c},
         UNCHANGED settings, cron'[c] = cron[c], FilesStay,
         \A q \in Records : conf[q].freq # d => told'[q] = told[q]
  PROVE  TurnHolds(c)'
<1>1. conf' = conf
  BY DEF settings
<1>2. \A q \in cron'[c].todo : conf'[q].freq = c
  BY <1>1 DEF TurnHolds
<1>3. ASSUME Busy(c)'
      PROVE  /\ Conf_(c)'.freq = c
             /\ Dest_(c)' # "next_cloud" => told'[cron'[c].rec] = "nothing"
             /\ DumpGood(c)' /\ FileThere(c)' /\ OldExpire(c)'
  <2>1. Busy(c) /\ Conf_(c)' = Conf_(c) /\ Dest_(c)' = Dest_(c) /\ Folder_(c)' = Folder_(c)
    BY <1>1, <1>3 DEF Busy, Conf_, Dest_, Folder_
  <2>2. /\ Conf_(c).freq = c /\ DumpGood(c) /\ FileThere(c) /\ OldExpire(c)
        /\ Dest_(c) # "next_cloud" => told[cron[c].rec] = "nothing"
    BY <2>1 DEF TurnHolds
  <2>3. cron[c].rec \in Records /\ cron[c].rec # NoRecord /\ Folder_(c) \in Folders
    BY <2>1, TurnTypes
  <2>4. \A f : Kept(f)' <=> Kept(f)
    BY <1>1 DEF Kept, Removes
  <2>5. told'[cron'[c].rec] = told[cron[c].rec]
    BY <2>2, <2>3 DEF Conf_
  <2>6. DumpGood(c)'
    BY <2>1, <2>2 DEF DumpGood
  <2>7. OldExpire(c)'
    BY <2>1, <2>2, <2>4 DEF OldExpire
  <2>8. ASSUME Kept(Folder_(c)), Fresh(cron[c].rec)
        PROVE  Fresh(cron[c].rec)'
    <3>1. PICK x \in folder[Folder_(c)] : /\ x.by = cron[c].rec /\ x.age = 0
                                          /\ Conf_(c).format = "zip" => x.good
      BY <2>8 DEF Fresh, Conf_, Folder_
    <3>2. x \in folder'[Folder_(c)]
      BY <2>3, <2>8, <3>1 DEF FilesStay
    <3> QED BY <1>1, <3>1, <3>2 DEF Fresh, Conf_, Folder_
  <2>9. FileThere(c)'
    BY <2>1, <2>2, <2>4, <2>8 DEF FileThere
  <2> QED BY <2>1, <2>2, <2>5, <2>6, <2>7, <2>9
<1> QED BY <1>2, <1>3 DEF TurnHolds

\* The turn after an exception.
LEMMA RaiseHolds ==
  ASSUME TypeOK, NEW c \in Crons, Busy(c), TurnHolds(c), NEW s, Raise(c, s), UNCHANGED settings
  PROVE  TurnHolds(c)'
<1>1. conf' = conf
  BY DEF settings
<1>2. \A q \in cron'[c].todo : conf'[q].freq = c
  BY <1>1, RaiseStep DEF TurnHolds
<1>3. ASSUME Busy(c)'
      PROVE  /\ Conf_(c)'.freq = c /\ Dest_(c)' = "next_cloud"
             /\ DumpGood(c)' /\ FileThere(c)' /\ OldExpire(c)'
  <2>1. /\ Dest_(c) = "next_cloud" /\ cron'[c].pc = "turn"
        /\ cron'[c].rec = cron[c].rec /\ cron'[c].at = 4
    BY <1>1, <1>3, RaiseStep DEF Busy
  <2>2. Conf_(c)' = Conf_(c) /\ Dest_(c)' = Dest_(c)
    BY <1>1, <2>1 DEF Conf_, Dest_
  <2>3. DumpAt(Dest_(c)) = 4 /\ StoreAt(Dest_(c)) = 5
    BY <2>1, TurnTypes DEF InOrder
  <2>4. DumpGood(c)' /\ FileThere(c)' /\ OldExpire(c)'
    BY <2>1, <2>2, <2>3 DEF DumpGood, FileThere, OldExpire
  <2> QED BY <2>1, <2>2, <2>4 DEF TurnHolds
<1> QED BY <1>2, <1>3 DEF TurnHolds

\* The turn after a step that neither dumps nor stores.
LEMMA AdvanceHolds ==
  ASSUME TypeOK, NEW c \in Crons, Busy(c), TurnHolds(c), UNCHANGED settings, FilesStay,
         Advance(c, cron[c].tmp), Program(Dest_(c))[cron[c].at] \notin {"dump", "store"},
         told' = told \/ Program(Dest_(c))[cron[c].at] = "mail"
  PROVE  TurnHolds(c)'
<1> DEFINE n == Len(Program(Dest_(c)))
           a == DumpAt(Dest_(c))
           b == StoreAt(Dest_(c))
<1>1. conf' = conf
  BY DEF settings
<1>2. /\ n \in 4..6 /\ cron[c].at \in 1..n /\ a \in 1..4 /\ b \in 2..5 /\ cron[c] \in CronRecord
      /\ cron[c].rec \in Records /\ cron[c].rec # NoRecord /\ Folder_(c) \in Folders
      /\ InOrder(Program(Dest_(c)), Dest_(c), a, b)
  BY TurnTypes DEF InOrder
<1>3. cron[c].tmp \in BOOLEAN
  BY <1>2 DEF CronRecord
<1>4. /\ cron'[c].todo = cron[c].todo /\ cron'[c].rec = cron[c].rec
      /\ \/ cron[c].at = n /\ cron'[c].pc = "next"
         \/ /\ cron[c].at < n
            /\ cron'[c].pc = "turn" /\ cron'[c].at = cron[c].at + 1
            /\ cron'[c].tmp = cron[c].tmp
  BY <1>1, <1>3, AdvanceStep
<1>5. cron[c].at # a /\ cron[c].at # b
  BY <1>2 DEF InOrder
<1>6. \A q \in cron'[c].todo : conf'[q].freq = c
  BY <1>1, <1>4 DEF TurnHolds
<1>7. ASSUME Busy(c)'
      PROVE  /\ Conf_(c)'.freq = c
             /\ Dest_(c)' # "next_cloud" => told'[cron'[c].rec] = "nothing"
             /\ DumpGood(c)' /\ FileThere(c)' /\ OldExpire(c)'
  <2>1. /\ cron[c].at < n /\ cron'[c].pc = "turn" /\ cron'[c].at = cron[c].at + 1
        /\ cron'[c].tmp = cron[c].tmp
    BY <1>4, <1>7 DEF Busy
  <2>2. Conf_(c)' = Conf_(c) /\ Dest_(c)' = Dest_(c) /\ Folder_(c)' = Folder_(c)
    BY <1>1, <1>4 DEF Conf_, Dest_, Folder_
  <2>3. /\ Conf_(c).freq = c /\ DumpGood(c) /\ FileThere(c)
        /\ Dest_(c) # "next_cloud" => told[cron[c].rec] = "nothing"
    BY DEF TurnHolds
  <2>4. Dest_(c) # "next_cloud" => told'[cron'[c].rec] = "nothing"
    <3>1. Dest_(c) # "next_cloud" =>
              (Program(Dest_(c))[cron[c].at] = "mail" <=> cron[c].at = n)
      BY <1>2 DEF InOrder
    <3>2. cron[c].at # n
      <4> HIDE DEF n
      <4> QED BY <1>2, <2>1
    <3> QED BY <1>4, <2>3, <3>1, <3>2
  <2>5. /\ cron'[c].at > a <=> cron[c].at > a
        /\ cron'[c].at > b <=> cron[c].at > b
        /\ cron'[c].at <= b <=> cron[c].at <= b
    <3> HIDE DEF a, b, n
    <3> QED BY <1>2, <1>5, <2>1
  <2>6. DumpGood(c)'
    BY <2>1, <2>2, <2>3, <2>5 DEF DumpGood
  <2>7. ASSUME Kept(Folder_(c)), Fresh(cron[c].rec)
        PROVE  Fresh(cron[c].rec)'
    <3>1. PICK x \in folder[Folder_(c)] : /\ x.by = cron[c].rec /\ x.age = 0
                                          /\ Conf_(c).format = "zip" => x.good
      BY <2>7 DEF Fresh, Conf_, Folder_
    <3>2. x \in folder'[Folder_(c)]
      BY <1>2, <2>7, <3>1 DEF FilesStay
    <3> QED BY <1>1, <1>4, <3>1, <3>2 DEF Fresh, Conf_, Folder_
  <2>8. Kept(Folder_(c))' => Kept(Folder_(c))
    BY <1>1, <2>2 DEF Kept, Removes
  <2>9. FileThere(c)'
    BY <1>4, <2>2, <2>3, <2>5, <2>7, <2>8 DEF FileThere
  <2> QED BY <2>1, <2>2, <2>3, <2>4, <2>6, <2>9 DEF OldExpire
<1> QED BY <1>6, <1>7 DEF TurnHolds

\* All users of a folder are careful and had their destination from the start.
Guarded(f) == \A r \in Records : conf[r].folder = f => Careful(r) /\ r \notin edited

LEMMA LastBackup ==
  ASSUME NeverWithoutBackup, UNCHANGED settings,
         \A f \in ever : Guarded(f) /\ (\E x \in folder[f] : x.good)
                             => \E x \in folder'[f] : x.good,
         \A f \in ever' \ ever : \E x \in folder'[f] : x.good
  PROVE  NeverWithoutBackup'
<1> SUFFICES ASSUME NEW f \in ever', Guarded(f)'
             PROVE  \E x \in folder'[f] : x.good
  BY DEF NeverWithoutBackup, Guarded
<1>1. Guarded(f)
  BY DEF Guarded, Careful, Removes, settings
<1> QED BY <1>1 DEF NeverWithoutBackup, Guarded

\* What OutcomeIsTold says of a step of one cron.
ToldTrue(c) ==
    LET r == cron[c].rec IN
    TurnEnds(c) /\ Honest(r) =>
        /\ told'[r] = "success" => Stored(r)'
        /\ told'[r] = "nothing" => conf[r].dest = "amazon_s3" /\ ~conf[r].keys

\* What there is to show of a step of a cron.
StepRight(c) ==
    /\ TypeOK' /\ NeverWithoutBackup' /\ TurnHolds(c)' /\ ToldTrue(c)
    /\ UNCHANGED settings /\ FilesStay
    /\ \A e \in Crons \ {c} : cron'[e] = cron[e]
    /\ \A q \in Records : conf[q].freq # c => told'[q] = told[q]

\* An exception is right whenever no file is lost with it.
LEMMA RaiseRight ==
  ASSUME BackupInv, NEW c \in Crons, Busy(c), NEW s, Raise(c, s), UNCHANGED <<settings, ever, half>>,
         folder' \in [Folders -> SUBSET File], faults' \in 0..MaxFaults,
         \A f \in Folders : folder[f] \subseteq folder'[f]
  PROVE  StepRight(c)
<1>1. TypeOK /\ NeverWithoutBackup /\ TurnHolds(c)
  BY DEF BackupInv
<1>2. conf' = conf /\ UNCHANGED settings
  BY DEF settings
<1>3. TypeOK'
  BY <1>1, <1>2, RaiseStep, TypesKept DEF TypeOK
<1>4. ever \subseteq Folders
  BY <1>1 DEF TypeOK
<1>5. NeverWithoutBackup'
  BY <1>1, <1>2, <1>4, LastBackup
<1>6. TurnHolds(c)'
  BY <1>1, <1>2, RaiseHolds
<1>7. FilesStay
  BY DEF FilesStay
<1>8. ToldTrue(c)
  BY <1>1, <1>2, RaiseStep DEF ToldTrue, TurnEnds, Honest, Conf_
<1>9. Conf_(c).freq = c /\ cron[c].rec \in Records
  BY <1>1, TurnTypes DEF TurnHolds
<1>10. \A q \in Records : conf[q].freq # c => told'[q] = told[q]
  BY <1>1, <1>2, <1>9, RaiseStep DEF Conf_
<1> QED
  BY <1>1, <1>2, <1>3, <1>5, <1>6, <1>7, <1>8, <1>10, RaiseStep DEF StepRight

\* Only next_cloud ends a turn with another step than the mail.
LEMMA EndsByMail ==
  ASSUME TypeOK, NEW c \in Crons, Busy(c), NEW tmp \in BOOLEAN, Advance(c, tmp), conf' = conf,
         cron'[c].pc = "next"
  PROVE  Dest_(c) = "next_cloud" \/ Program(Dest_(c))[cron[c].at] = "mail"
<1>1. cron[c].at = Len(Program(Dest_(c)))
  BY AdvanceStep
<1> QED BY <1>1, TurnTypes DEF InOrder

\* A step that leaves files and mails alone is right if it leads to the next.
LEMMA AdvanceRight ==
  ASSUME BackupInv, NEW c \in Crons, Busy(c), Advance(c, cron[c].tmp),
         Program(Dest_(c))[cron[c].at] \notin {"dump", "store", "mail"},
         UNCHANGED <<settings, folder, ever, half, due, told, faults>>
  PROVE  StepRight(c)
<1>1. TypeOK /\ NeverWithoutBackup /\ TurnHolds(c)
  BY DEF BackupInv
<1>2. conf' = conf /\ UNCHANGED settings /\ cron[c].tmp \in BOOLEAN
  BY <1>1, TurnTypes DEF settings, CronRecord
<1>3. TypeOK'
  BY <1>1, <1>2, AdvanceStep, TypesKept DEF TypeOK
<1>4. NeverWithoutBackup'
  BY <1>1, <1>2, LastBackup
<1>5. FilesStay
  BY DEF FilesStay
<1>6. TurnHolds(c)'
  BY <1>1, <1>2, <1>5, AdvanceHolds
<1>7. ToldTrue(c)
  <2>1. TurnEnds(c) => Dest_(c) = "next_cloud"
    BY <1>1, <1>2, EndsByMail DEF TurnEnds
  <2> QED BY <2>1 DEF ToldTrue, Honest, Dest_, Conf_
<1> QED
  BY <1>1, <1>2, <1>3, <1>4, <1>5, <1>6, <1>7, AdvanceStep DEF StepRight

-----------------------------------------------------------------------------
(* Backups: every step of a cron is right.                                   *)

LEMMA BeginRight ==
  ASSUME BackupInv, NEW c \in Crons, Begin(c)
  PROVE  StepRight(c)
<1> DEFINE new == [Idle EXCEPT !.pc = "next", !.todo = {r \in active : conf[r].freq = c}]
<1>1. TypeOK /\ NeverWithoutBackup /\ cron \in [Crons -> CronRecord]
  BY TurnTypes DEF BackupInv
<1>2. /\ UNCHANGED <<settings, folder, ever, half, due, told, faults>>
      /\ cron' = [cron EXCEPT ![c] = new] /\ cron[c].pc = "idle"
  BY DEF Begin
<1>3. active \subseteq Records /\ Idle \in CronRecord /\ Idle.rec = NoRecord
  BY <1>1, BackupAssumption DEF Idle, CronRecord, TypeOK
<1>4. /\ new \in CronRecord /\ new.pc = "next" /\ new.rec = NoRecord
      /\ new.todo = {r \in active : conf[r].freq = c}
  BY <1>3 DEF CronRecord
<1> HIDE DEF new
<1>5. cron'[c] = new /\ \A e \in Crons \ {c} : cron'[e] = cron[e]
  BY <1>1, <1>2
<1>6. CronTypes(c)'
  BY <1>4, <1>5 DEF CronTypes, Busy
<1>7. TypeOK'
  BY <1>1, <1>2, <1>5, <1>6, TypesKept DEF TypeOK
<1>8. NeverWithoutBackup' /\ FilesStay
  BY <1>1, <1>2, LastBackup DEF FilesStay
<1>9. TurnHolds(c)'
  BY <1>2, <1>4, <1>5 DEF TurnHolds, Busy, settings
<1>10. ToldTrue(c)
  BY <1>4, <1>5 DEF ToldTrue, TurnEnds
<1> QED BY <1>2, <1>5, <1>7, <1>8, <1>9, <1>10 DEF StepRight

LEMMA NextRecordRight ==
  ASSUME BackupInv, NEW c \in Crons, NextRecord(c)
  PROVE  StepRight(c)
<1> DEFINE r == FirstOf(cron[c].todo)
           new == [Idle EXCEPT !.pc = "turn", !.todo = cron[c].todo \ {r}, !.rec = r, !.at = 1]
<1>1. /\ TypeOK /\ NeverWithoutBackup /\ cron \in [Crons -> CronRecord] /\ cron[c] \in CronRecord
      /\ \A q \in cron[c].todo : conf[q].freq = c
  BY TurnTypes DEF BackupInv, TurnHolds
<1>2. /\ UNCHANGED <<settings, folder, ever, half, due, faults>> /\ conf' = conf
      /\ cron' = [cron EXCEPT ![c] = new] /\ told' = [told EXCEPT ![r] = "nothing"]
      /\ cron[c].pc = "next" /\ cron[c].todo # {}
  BY DEF NextRecord, settings
<1>3. cron[c].todo \in SUBSET Records /\ r \in cron[c].todo /\ r \in Records
  BY <1>1, <1>2, FirstRecord DEF CronRecord
<1>4. conf[r].freq = c /\ conf[r] \in Conf /\ conf[r].dest \in Destinations
  BY <1>1, <1>3 DEF TypeOK, Conf
<1>5. /\ InOrder(Program(conf[r].dest), conf[r].dest, DumpAt(conf[r].dest), StoreAt(conf[r].dest))
      /\ DumpAt(conf[r].dest) \in 1..4 /\ StoreAt(conf[r].dest) \in 2..5
  BY <1>4, ProgramOrder
<1>6. 1 \in DOMAIN Program(conf[r].dest)
  <2>1. PICK n \in 4..6 : DOMAIN Program(conf[r].dest) = 1..n
    BY <1>5 DEF InOrder
  <2>2. 1 \in 1..n
    OBVIOUS
  <2> QED BY <2>1, <2>2
<1> HIDE DEF r
<1>7. /\ new \in CronRecord /\ new.pc = "turn" /\ new.rec = r /\ new.at = 1
      /\ new.todo = cron[c].todo \ {r}
  <2>1. Idle \in CronRecord /\ 1 \in 0..6
    BY BackupAssumption DEF Idle, CronRecord
  <2> QED BY <1>1, <1>3, <2>1 DEF CronRecord
<1> HIDE DEF new
<1>8. cron'[c] = new /\ \A e \in Crons \ {c} : cron'[e] = cron[e]
  BY <1>1, <1>2
<1>9. CronTypes(c)'
  BY <1>2, <1>3, <1>6, <1>7, <1>8 DEF CronTypes
<1>10. /\ told' \in [Records -> {"nothing", "success", "failed"}] /\ told'[r] = "nothing"
       /\ \A q \in Records : conf[q].freq # c => told'[q] = told[q]
  BY <1>1, <1>2, <1>3, <1>4 DEF TypeOK
<1>11. TypeOK'
  BY <1>1, <1>2, <1>8, <1>9, <1>10, TypesKept DEF TypeOK
<1>12. NeverWithoutBackup' /\ FilesStay
  BY <1>1, <1>2, LastBackup DEF FilesStay
<1>13. TurnHolds(c)'
  <2>1. Conf_(c)' = conf[r] /\ Dest_(c)' = conf[r].dest
    BY <1>2, <1>7, <1>8 DEF Conf_, Dest_
  <2>2. DumpGood(c)' /\ FileThere(c)'
    BY <1>5, <1>7, <1>8, <2>1 DEF DumpGood, FileThere
  <2>3. OldExpire(c)'
    BY <1>7, <1>8 DEF OldExpire
  <2>4. \A q \in cron'[c].todo : conf'[q].freq = c
    BY <1>1, <1>2, <1>7, <1>8
  <2> QED BY <1>4, <1>7, <1>8, <1>10, <2>1, <2>2, <2>3, <2>4 DEF TurnHolds
<1>14. ToldTrue(c)
  BY <1>7, <1>8 DEF ToldTrue, TurnEnds
<1> QED BY <1>2, <1>8, <1>10, <1>11, <1>12, <1>13, <1>14 DEF StepRight

\* The cron goes to rest: after its records, or as the server stops.
LEMMA RestRight ==
  ASSUME BackupInv, NEW c \in Crons, cron' = [cron EXCEPT ![c] = Idle],
         UNCHANGED <<settings, ever, half, told>>, due' \subseteq Crons, faults' \in 0..MaxFaults,
         folder' \in [Folders -> SUBSET File], \A f \in Folders : folder[f] \subseteq folder'[f]
  PROVE  StepRight(c)
<1>1. TypeOK /\ NeverWithoutBackup /\ cron \in [Crons -> CronRecord] /\ ever \subseteq Folders
  BY TurnTypes DEF BackupInv, TypeOK
<1>2. Idle \in CronRecord /\ Idle.pc = "idle" /\ Idle.todo = {}
  BY BackupAssumption DEF Idle, CronRecord
<1>3. cron'[c] = Idle /\ \A e \in Crons \ {c} : cron'[e] = cron[e]
  BY <1>1
<1>4. CronTypes(c)'
  BY <1>2, <1>3 DEF CronTypes, Busy
<1>5. TypeOK'
  BY <1>1, <1>3, <1>4, TypesKept DEF TypeOK
<1>6. NeverWithoutBackup' /\ FilesStay
  BY <1>1, LastBackup DEF FilesStay
<1>7. TurnHolds(c)' /\ ToldTrue(c)
  BY <1>2, <1>3 DEF TurnHolds, Busy, ToldTrue, TurnEnds
<1> QED BY <1>3, <1>5, <1>6, <1>7 DEF StepRight

\* What a failing step leaves behind is added to the folder.
LEMMA LeftoverFiles ==
  ASSUME TypeOK, NEW c \in Crons, Busy(c), NEW s, NEW L \in Leftovers(cron[c].rec, s),
         folder' = [folder EXCEPT ![Folder_(c)] = @ \cup L]
  PROVE  folder' \in [Folders -> SUBSET File] /\ \A f \in Folders : folder[f] \subseteq folder'[f]
<1>1. folder \in [Folders -> SUBSET File] /\ Folder_(c) \in Folders /\ cron[c].rec \in Records
  BY TurnTypes DEF TypeOK
<1>2. L \subseteq File
  <2>1. 0 \in 0..MaxAge
    BY BackupAssumption
  <2>2. [by |-> cron[c].rec, age |-> 0, good |-> FALSE] \in File
    BY <1>1, <2>1 DEF File
  <2> QED BY <2>2 DEF Leftovers
<1> QED BY <1>1, <1>2

LEMMA StepFailsRight ==
  ASSUME BackupInv, NEW c \in Crons, StepFails(c)
  PROVE  StepRight(c)
<1> DEFINE s == Program(Conf_(c).dest)[cron[c].at]
<1>1. TypeOK /\ Busy(c)
  BY DEF BackupInv, StepFails, Busy
<1>2. Raise(c, s) /\ UNCHANGED <<settings, ever, half>>
  BY DEF StepFails
<1>3. PICK L \in Leftovers(cron[c].rec, s) : folder' = [folder EXCEPT ![Folder_(c)] = @ \cup L]
  BY DEF StepFails
<1>4. folder' \in [Folders -> SUBSET File] /\ \A f \in Folders : folder[f] \subseteq folder'[f]
  BY <1>1, <1>3, LeftoverFiles
<1>5. faults' \in 0..MaxFaults
  BY <1>1, BackupAssumption DEF StepFails, TypeOK
<1> HIDE DEF s
<1> QED BY <1>1, <1>2, <1>4, <1>5, RaiseRight

LEMMA CrashRight ==
  ASSUME BackupInv, NEW c \in Crons, Crash(c)
  PROVE  StepRight(c)
<1>1. TypeOK
  BY DEF BackupInv
<1>2. folder' \in [Folders -> SUBSET File] /\ \A f \in Folders : folder[f] \subseteq folder'[f]
  <2>1. PICK L \in (IF cron[c].pc = "turn"
                    THEN Leftovers(cron[c].rec, Program(Conf_(c).dest)[cron[c].at]) ELSE {{}}) :
            folder' = IF L = {} THEN folder ELSE [folder EXCEPT ![Folder_(c)] = @ \cup L]
    BY DEF Crash
  <2>2. CASE L = {}
    BY <1>1, <2>1, <2>2 DEF TypeOK
  <2>3. CASE L # {}
    <3>1. Busy(c) /\ L \in Leftovers(cron[c].rec, Program(Conf_(c).dest)[cron[c].at])
      BY <2>1, <2>3 DEF Busy
    <3> QED BY <1>1, <2>1, <2>3, <3>1, LeftoverFiles
  <2> QED BY <2>2, <2>3
<1>3. faults' \in 0..MaxFaults /\ due' \subseteq Crons
  BY <1>1, BackupAssumption DEF Crash, TypeOK
<1>4. cron' = [cron EXCEPT ![c] = Idle] /\ UNCHANGED <<settings, ever, half, told>>
  BY DEF Crash
<1> QED BY <1>2, <1>3, <1>4, RestRight

LEMMA FinishRight ==
  ASSUME BackupInv, NEW c \in Crons, Finish(c)
  PROVE  StepRight(c)
<1>1. /\ folder' \in [Folders -> SUBSET File] /\ due' \subseteq Crons /\ faults' \in 0..MaxFaults
      /\ \A f \in Folders : folder[f] \subseteq folder'[f]
  BY DEF Finish, BackupInv, TypeOK
<1>2. cron' = [cron EXCEPT ![c] = Idle] /\ UNCHANGED <<settings, ever, half, told>>
  BY DEF Finish
<1> QED BY <1>1, <1>2, RestRight

LEMMA ConnectRight ==
  ASSUME BackupInv, NEW c \in Crons, Connect(c)
  PROVE  StepRight(c)
<1>1. /\ TypeOK /\ NeverWithoutBackup /\ TurnHolds(c) /\ Busy(c)
      /\ Program(Dest_(c))[cron[c].at] = "connect"
  BY DEF BackupInv, Connect, InTurn, Busy, Dest_
<1>2. UNCHANGED <<settings, folder, ever, half, faults>> /\ conf' = conf
  BY DEF Connect, settings
<1>3. CASE Raise(c, "connect")
  <2>1. folder' \in [Folders -> SUBSET File] /\ faults' \in 0..MaxFaults
    BY <1>1, <1>2 DEF TypeOK
  <2> QED BY <1>1, <1>2, <1>3, <2>1, RaiseRight
<1>4. CASE NoKeys(c) /\ cron' = [cron EXCEPT ![c] = TurnOver(c)] /\ UNCHANGED <<due, told>>
  <2> DEFINE over == TurnOver(c)
  <2>1. cron \in [Crons -> CronRecord] /\ cron[c] \in CronRecord
    BY <1>1, TurnTypes
  <2>2. over \in CronRecord /\ over.pc = "next" /\ over.todo = cron[c].todo
    <3>1. Idle \in CronRecord
      BY BackupAssumption DEF Idle, CronRecord
    <3> QED BY <2>1, <3>1 DEF TurnOver, CronRecord
  <2> HIDE DEF over
  <2>3. cron'[c] = over /\ \A e \in Crons \ {c} : cron'[e] = cron[e]
    BY <1>4, <2>1 DEF over
  <2>4. CronTypes(c)'
    BY <2>2, <2>3 DEF CronTypes, Busy
  <2>5. TypeOK'
    BY <1>1, <1>2, <1>4, <2>3, <2>4, TypesKept DEF TypeOK, over
  <2>6. NeverWithoutBackup' /\ FilesStay
    BY <1>1, <1>2, LastBackup DEF FilesStay
  <2>7. TurnHolds(c)'
    BY <1>1, <1>2, <2>2, <2>3 DEF TurnHolds, Busy
  <2>8. ToldTrue(c)
    <3>1. Dest_(c) # "next_cloud" => /\ Dest_(c) = "amazon_s3" /\ ~Conf_(c).keys
                                     /\ told'[cron[c].rec] = "nothing"
      BY <1>1, <1>4 DEF NoKeys, TurnHolds, Dest_
    <3> QED BY <3>1 DEF ToldTrue, Honest, Dest_, Conf_
  <2> QED BY <1>2, <1>4, <2>3, <2>5, <2>6, <2>7, <2>8 DEF StepRight
<1>5. CASE Advance(c, cron[c].tmp) /\ UNCHANGED <<due, told>>
  BY <1>1, <1>2, <1>5, AdvanceRight
<1> QED BY <1>3, <1>4, <1>5 DEF Connect

\* Where nobody removes files at once, only files of an earlier day expire.
LEMMA ExpiredAreOld ==
  ASSUME BackupInv, NEW c \in Crons, Busy(c), Conf_(c).auto, Kept(Folder_(c)),
         NEW x \in Expired(c)
  PROVE  x.age > 0
<1>1. /\ Conf_(c) \in Conf /\ cron[c].rec \in Records /\ half \in {0, 1}
      /\ x \in File /\ DaysOld(Dest_(c), x) >= Conf_(c).days
  BY TurnTypes DEF BackupInv, TypeOK, Expired, Dest_
<1>2. Conf_(c).days \in Nat /\ ~(Conf_(c).days <= 0)
  BY <1>1 DEF Kept, Removes, Conf_, Folder_, Conf
<1>3. x.age \in Nat
  BY <1>1, BackupAssumption DEF File
<1>4. CASE Dest_(c) \in {"next_cloud", "amazon_s3"}
  <2>1. (x.age + 1 - half) \div 2 >= Conf_(c).days
    BY <1>1, <1>4 DEF DaysOld
  <2> QED BY <1>1, <1>2, <1>3, <2>1
<1>5. CASE Dest_(c) \notin {"next_cloud", "amazon_s3"}
  <2>1. x.age \div 2 >= Conf_(c).days
    BY <1>1, <1>5 DEF DaysOld
  <2> QED BY <1>2, <1>3, <2>1
<1> QED BY <1>4, <1>5

LEMMA RotateRight ==
  ASSUME BackupInv, NEW c \in Crons, Rotate(c)
  PROVE  StepRight(c)
<1>1. /\ TypeOK /\ NeverWithoutBackup /\ TurnHolds(c) /\ Busy(c)
      /\ Program(Dest_(c))[cron[c].at] = "rotate"
  BY DEF BackupInv, Rotate, InTurn, Busy, Dest_
<1>2. UNCHANGED <<settings, folder, ever, half, faults>> /\ conf' = conf
  BY DEF Rotate, settings
<1>3. CASE Raise(c, "rotate")
  <2>1. folder' \in [Folders -> SUBSET File] /\ faults' \in 0..MaxFaults
    BY <1>1, <1>2 DEF TypeOK
  <2> QED BY <1>1, <1>2, <1>3, <2>1, RaiseRight
<1>4. CASE Advance(c, cron[c].tmp) /\ UNCHANGED <<due, told>>
  BY <1>1, <1>2, <1>4, AdvanceRight
<1>5. CASE /\ Conf_(c).auto /\ UNCHANGED <<due, told>>
           /\ cron' = [cron EXCEPT ![c].pc = "delete", ![c].expired = Expired(c)]
  <2> DEFINE new == [cron[c] EXCEPT !.pc = "delete", !.expired = Expired(c)]
  <2>1. /\ cron \in [Crons -> CronRecord] /\ cron[c] \in CronRecord /\ Folder_(c) \in Folders
        /\ cron[c].rec \in Records /\ cron[c].at \in DOMAIN Program(Dest_(c))
    BY <1>1, TurnTypes DEF InOrder
  <2>2. Expired(c) \subseteq File
    BY <1>1, <2>1 DEF Expired, TypeOK
  <2>3. /\ new \in CronRecord /\ new.pc = "delete" /\ new.todo = cron[c].todo
        /\ new.rec = cron[c].rec /\ new.at = cron[c].at /\ new.tmp = cron[c].tmp
        /\ new.expired = Expired(c)
    BY <2>1, <2>2 DEF CronRecord
  <2>4. cron' = [cron EXCEPT ![c] = new]
    BY <1>5, <2>1
  <2> HIDE DEF new
  <2>5. cron'[c] = new /\ \A e \in Crons \ {c} : cron'[e] = cron[e]
    BY <2>1, <2>4
  <2>6. CronTypes(c)'
    BY <1>2, <2>1, <2>3, <2>5 DEF CronTypes, Dest_, Conf_
  <2>7. TypeOK'
    BY <1>1, <1>2, <1>5, <2>4, <2>5, <2>6, TypesKept DEF TypeOK
  <2>8. NeverWithoutBackup' /\ FilesStay
    BY <1>1, <1>2, LastBackup DEF FilesStay
  <2>9. Conf_(c)' = Conf_(c) /\ Dest_(c)' = Dest_(c) /\ Folder_(c)' = Folder_(c)
    BY <1>2, <2>3, <2>5 DEF Conf_, Dest_, Folder_
  <2>10. DumpGood(c)'
    BY <1>1, <2>3, <2>5, <2>9 DEF TurnHolds, DumpGood
  <2>11. Kept(Folder_(c))' <=> Kept(Folder_(c))
    BY <1>2, <2>9 DEF Kept, Removes
  <2>12. Fresh(cron[c].rec) => Fresh(cron[c].rec)'
    BY <1>2, <2>3, <2>5 DEF Fresh
  <2>13. FileThere(c)'
    BY <1>1, <2>3, <2>5, <2>9, <2>11, <2>12 DEF TurnHolds, FileThere
  <2>14. OldExpire(c)'
    BY <1>1, <1>5, <2>3, <2>5, <2>9, <2>11, ExpiredAreOld DEF OldExpire
  <2>15. TurnHolds(c)'
    BY <1>1, <1>2, <1>5, <2>3, <2>5, <2>9, <2>10, <2>13, <2>14 DEF TurnHolds
  <2>16. ToldTrue(c)
    BY <2>3, <2>5 DEF ToldTrue, TurnEnds
  <2> QED BY <1>2, <1>5, <2>5, <2>7, <2>8, <2>15, <2>16 DEF StepRight
<1> QED BY <1>3, <1>4, <1>5 DEF Rotate

LEMMA MailRight ==
  ASSUME BackupInv, NEW c \in Crons, Mail(c)
  PROVE  StepRight(c)
<1>1. /\ TypeOK /\ NeverWithoutBackup /\ TurnHolds(c) /\ Busy(c)
      /\ Program(Dest_(c))[cron[c].at] = "mail"
  BY DEF BackupInv, Mail, InTurn, Busy, Dest_
<1>2. /\ UNCHANGED <<settings, folder, ever, half, due, faults>> /\ conf' = conf
      /\ Advance(c, cron[c].tmp) /\ cron[c].tmp \in BOOLEAN /\ Tell(c, "success")
  BY <1>1, TurnTypes DEF Mail, settings, CronRecord
<1>3. /\ told' \in [Records -> {"nothing", "success", "failed"}]
      /\ \A q \in Records \ {cron[c].rec} : told'[q] = told[q]
      /\ Conf_(c).notify => told'[cron[c].rec] = "success"
  BY <1>1, <1>2, TellStep
<1>4. TypeOK'
  BY <1>1, <1>2, <1>3, AdvanceStep, TypesKept DEF TypeOK
<1>5. NeverWithoutBackup' /\ FilesStay
  BY <1>1, <1>2, LastBackup DEF FilesStay
<1>6. TurnHolds(c)'
  BY <1>1, <1>2, <1>5, AdvanceHolds
<1>7. \A q \in Records : conf[q].freq # c => told'[q] = told[q]
  BY <1>1, <1>3 DEF TurnHolds, Conf_
<1>8. ToldTrue(c)
  <2>1. SUFFICES ASSUME Honest(cron[c].rec)
                 PROVE  Stored(cron[c].rec)' /\ told'[cron[c].rec] = "success"
    BY DEF ToldTrue
  <2>2. /\ Conf_(c).notify /\ Dest_(c) \notin Unheard /\ Dest_(c) # "next_cloud"
        /\ Kept(Folder_(c))
    BY <2>1 DEF Honest, Kept, Sharing, Conf_, Dest_, Folder_
  <2>3. /\ cron[c].at = Len(Program(Dest_(c))) /\ StoreAt(Dest_(c)) < Len(Program(Dest_(c)))
    BY <1>1, <2>2, TurnTypes DEF InOrder
  <2>4. Fresh(cron[c].rec)
    BY <1>1, <2>2, <2>3 DEF TurnHolds, FileThere
  <2>5. Stored(cron[c].rec)'
    BY <1>2, <1>1, <2>4, AdvanceStep DEF Fresh, Stored
  <2> QED BY <1>3, <2>2, <2>5
<1> QED BY <1>1, <1>2, <1>4, <1>5, <1>6, <1>7, <1>8, AdvanceStep DEF StepRight

\* A file is put into the folder after a dump or an upload.
LEMMA PutFile ==
  ASSUME TypeOK, NEW c \in Crons, Busy(c), NEW good \in BOOLEAN,
         Put(Folder_(c), [by |-> cron[c].rec, age |-> 0, good |-> good])
  PROVE  /\ folder' \in [Folders -> SUBSET File] /\ ever' \subseteq Folders
         /\ \A f \in Folders : folder[f] \subseteq folder'[f]
         /\ [by |-> cron[c].rec, age |-> 0, good |-> good] \in folder'[Folder_(c)]
         /\ \A f \in ever' \ ever : \E x \in folder'[f] : x.good
<1> DEFINE x == [by |-> cron[c].rec, age |-> 0, good |-> good]
<1>1. /\ folder \in [Folders -> SUBSET File] /\ ever \subseteq Folders
      /\ Folder_(c) \in Folders /\ cron[c].rec \in Records
  BY TurnTypes DEF TypeOK
<1>2. x \in File /\ x.good = good
  <2>1. 0 \in 0..MaxAge
    BY BackupAssumption
  <2> QED BY <1>1, <2>1 DEF File
<1>3. /\ folder' = [folder EXCEPT ![Folder_(c)] = folder[Folder_(c)] \cup {x}]
      /\ ever' = IF x.good THEN ever \cup {Folder_(c)} ELSE ever
  BY DEF Put
<1> HIDE DEF x
<1>4. /\ folder' \in [Folders -> SUBSET File] /\ x \in folder'[Folder_(c)]
      /\ \A f \in Folders : folder[f] \subseteq folder'[f]
  BY <1>1, <1>2, <1>3
<1>5. ever' \subseteq Folders /\ \A f \in ever' \ ever : \E y \in folder'[f] : y.good
  BY <1>1, <1>2, <1>3, <1>4
<1> QED BY <1>4, <1>5 DEF x

\* A step on a file is right if the turn holds after it.
LEMMA FileStepRight ==
  ASSUME BackupInv, NEW c \in Crons, Busy(c), NEW tmp \in BOOLEAN, Advance(c, tmp),
         Program(Dest_(c))[cron[c].at] # "mail",
         UNCHANGED <<settings, half, due, told>>, faults' \in 0..MaxFaults,
         folder' \in [Folders -> SUBSET File], ever' \subseteq Folders,
         \A f \in ever : Guarded(f) /\ (\E x \in folder[f] : x.good)
                             => \E x \in folder'[f] : x.good,
         \A f \in ever' \ ever : \E x \in folder'[f] : x.good,
         FilesStay, DumpGood(c)', FileThere(c)'
  PROVE  StepRight(c)
<1>1. TypeOK /\ NeverWithoutBackup /\ TurnHolds(c) /\ conf' = conf /\ UNCHANGED settings
  BY DEF BackupInv, settings
<1>2. TypeOK'
  BY <1>1, AdvanceStep, TypesKept DEF TypeOK
<1>3. NeverWithoutBackup'
  BY <1>1, LastBackup
<1>4. TurnHolds(c)'
  <2>1. /\ cron'[c].todo = cron[c].todo /\ cron'[c].rec = cron[c].rec /\ cron'[c].pc # "delete"
        /\ Busy(c)' => cron'[c].pc = "turn"
    BY <1>1, AdvanceStep DEF Busy
  <2>2. Conf_(c)' = Conf_(c) /\ Dest_(c)' = Dest_(c)
    BY <1>1, <2>1 DEF Conf_, Dest_
  <2> QED BY <1>1, <2>1, <2>2 DEF TurnHolds, OldExpire
<1>5. ToldTrue(c)
  <2>1. TurnEnds(c) => Dest_(c) = "next_cloud"
    BY <1>1, EndsByMail DEF TurnEnds
  <2> QED BY <2>1 DEF ToldTrue, Honest, Dest_, Conf_
<1> QED BY <1>1, <1>2, <1>3, <1>4, <1>5, AdvanceStep DEF StepRight

LEMMA DumpRight ==
  ASSUME BackupInv, NEW c \in Crons, Dump(c)
  PROVE  StepRight(c)
<1> DEFINE x(good) == [by |-> cron[c].rec, age |-> 0, good |-> good]
<1>1. /\ TypeOK /\ NeverWithoutBackup /\ TurnHolds(c) /\ Busy(c)
      /\ Program(Dest_(c))[cron[c].at] = "dump"
  BY DEF BackupInv, Dump, InTurn, Busy, Dest_
<1>2. PICK good \in BOOLEAN :
        /\ \/ good /\ UNCHANGED faults
           \/ ~good /\ Conf_(c).format = "dump"
              /\ faults < MaxFaults /\ faults' = faults + 1
        /\ Advance(c, good)
        /\ IF Dest_(c) = "local" THEN Put(Folder_(c), x(good)) ELSE UNCHANGED <<folder, ever>>
  BY DEF Dump, Dest_
<1>3. UNCHANGED <<settings, half, due, told>> /\ conf' = conf
  BY DEF Dump, settings
<1>4. faults' \in 0..MaxFaults
  BY <1>1, <1>2, BackupAssumption DEF TypeOK
<1>5. Conf_(c).format = "zip" => good
  BY <1>2
<1>6. /\ folder' \in [Folders -> SUBSET File] /\ ever' \subseteq Folders
      /\ \A f \in Folders : folder[f] \subseteq folder'[f]
      /\ Dest_(c) = "local" => x(good) \in folder'[Folder_(c)]
      /\ \A f \in ever' \ ever : \E y \in folder'[f] : y.good
  <2>1. CASE Dest_(c) = "local"
    BY <1>1, <1>2, <2>1, PutFile
  <2>2. CASE Dest_(c) # "local"
    BY <1>1, <1>2, <2>2 DEF TypeOK
  <2> QED BY <2>1, <2>2
<1>7. /\ cron[c].at = DumpAt(Dest_(c)) /\ DumpAt(Dest_(c)) \in 1..4 /\ StoreAt(Dest_(c)) \in 2..5
      /\ Dest_(c) # "local" => DumpAt(Dest_(c)) < StoreAt(Dest_(c))
  BY <1>1, TurnTypes DEF InOrder
<1>8. FilesStay
  BY <1>6 DEF FilesStay
<1>9. /\ cron'[c].rec = cron[c].rec
      /\ cron'[c].pc # "next" => cron'[c].tmp = good /\ cron'[c].at = cron[c].at + 1
  BY <1>1, <1>2, <1>3, AdvanceStep
<1>10. Conf_(c)' = Conf_(c) /\ Dest_(c)' = Dest_(c) /\ Folder_(c)' = Folder_(c)
  BY <1>3, <1>9 DEF Conf_, Dest_, Folder_
<1>11. cron'[c].pc # "next"
  <2>1. Len(Program(Dest_(c))) > cron[c].at
    BY <1>1, <1>7, TurnTypes DEF InOrder
  <2> QED BY <1>1, <1>2, <1>3, <2>1, AdvanceStep
<1>12. DumpGood(c)'
  BY <1>5, <1>9, <1>10, <1>11 DEF DumpGood
<1>13. FileThere(c)'
  <2>1. SUFFICES ASSUME cron'[c].at > StoreAt(Dest_(c)) PROVE Fresh(cron[c].rec)'
    BY <1>9, <1>10 DEF FileThere
  <2>2. Dest_(c) = "local"
    BY <1>7, <1>9, <1>11, <2>1
  <2>3. x(good) \in folder'[conf'[cron[c].rec].folder]
    BY <1>3, <1>6, <2>2 DEF Folder_, Conf_
  <2>4. /\ x(good).by = cron[c].rec /\ x(good).age = 0
        /\ Conf_(c).format = "zip" => x(good).good
    BY <1>5
  <2> HIDE DEF x
  <2> QED BY <1>3, <1>9, <2>3, <2>4 DEF Fresh, Conf_
<1>14. \A f \in ever : (\E y \in folder[f] : y.good) => \E y \in folder'[f] : y.good
  BY <1>1, <1>6 DEF TypeOK
<1> QED
  BY <1>1, <1>2, <1>3, <1>4, <1>6, <1>8, <1>12, <1>13, <1>14, FileStepRight

LEMMA StoreRight ==
  ASSUME BackupInv, NEW c \in Crons, Store(c)
  PROVE  StepRight(c)
<1> DEFINE x == [by |-> cron[c].rec, age |-> 0, good |-> cron[c].tmp]
<1>1. /\ TypeOK /\ NeverWithoutBackup /\ TurnHolds(c) /\ Busy(c)
      /\ Program(Dest_(c))[cron[c].at] = "store" /\ cron[c].tmp \in BOOLEAN
  BY TurnTypes DEF BackupInv, Store, InTurn, Busy, Dest_, CronRecord
<1>2. /\ UNCHANGED <<settings, half, due, told>> /\ conf' = conf /\ Advance(c, FALSE)
      /\ \/ Put(Folder_(c), x) /\ UNCHANGED faults
         \/ /\ Dest_(c) \in Unheard /\ faults < MaxFaults /\ faults' = faults + 1
            /\ UNCHANGED <<folder, ever>>
  BY DEF Store, settings, Dest_
<1>3. faults' \in 0..MaxFaults
  BY <1>1, <1>2, BackupAssumption DEF TypeOK
<1>4. /\ folder' \in [Folders -> SUBSET File] /\ ever' \subseteq Folders
      /\ \A f \in Folders : folder[f] \subseteq folder'[f]
      /\ Dest_(c) \notin Unheard => x \in folder'[Folder_(c)]
      /\ \A f \in ever' \ ever : \E y \in folder'[f] : y.good
  <2>1. CASE Put(Folder_(c), x)
    BY <1>1, <2>1, PutFile
  <2>2. CASE Dest_(c) \in Unheard /\ UNCHANGED <<folder, ever>>
    BY <1>1, <2>2 DEF TypeOK
  <2> QED BY <1>2, <2>1, <2>2
<1>5. /\ cron[c].at = StoreAt(Dest_(c)) /\ DumpAt(Dest_(c)) \in 1..4 /\ StoreAt(Dest_(c)) \in 2..5
      /\ DumpAt(Dest_(c)) < StoreAt(Dest_(c))
  BY <1>1, TurnTypes DEF InOrder
<1>6. Conf_(c).format = "zip" => cron[c].tmp
  BY <1>1, <1>5 DEF TurnHolds, DumpGood
<1>7. FilesStay
  BY <1>4 DEF FilesStay
<1>8. /\ cron'[c].rec = cron[c].rec /\ cron'[c].at \in {cron[c].at + 1, 0}
  <2>1. cron'[c].rec = cron[c].rec
    BY <1>1, <1>2, AdvanceStep
  <2>2. cron'[c].at \in {cron[c].at + 1, 0}
    <3>1. cron \in [Crons -> CronRecord]
      BY <1>1, TurnTypes
    <3>2. TurnOver(c).at = 0
      BY DEF TurnOver, Idle
    <3>3. CASE cron[c].at = Len(Program(Dest_(c)))
      BY <1>2, <3>1, <3>2, <3>3 DEF Advance, Dest_
    <3>4. CASE cron[c].at # Len(Program(Dest_(c)))
      BY <1>1, <1>2, <3>4, AdvanceStep
    <3> QED BY <3>3, <3>4
  <2> QED BY <2>1, <2>2
<1>9. Conf_(c)' = Conf_(c) /\ Dest_(c)' = Dest_(c) /\ Folder_(c)' = Folder_(c)
  BY <1>2, <1>8 DEF Conf_, Dest_, Folder_
<1>10. DumpGood(c)'
  <2>1. ~(cron'[c].at > DumpAt(Dest_(c)) /\ cron'[c].at <= StoreAt(Dest_(c)))
    BY <1>5, <1>8
  <2> QED BY <1>9, <2>1 DEF DumpGood
<1>11. FileThere(c)'
  <2>1. SUFFICES ASSUME Dest_(c) \notin Unheard PROVE Fresh(cron[c].rec)'
    BY <1>8, <1>9 DEF FileThere
  <2>2. x \in folder'[conf'[cron[c].rec].folder]
    BY <1>2, <1>4, <2>1 DEF Folder_, Conf_
  <2>3. /\ x.by = cron[c].rec /\ x.age = 0
        /\ Conf_(c).format = "zip" => x.good
    BY <1>6
  <2> HIDE DEF x
  <2> QED BY <1>2, <1>8, <2>2, <2>3 DEF Fresh, Conf_
<1>12. \A f \in ever : (\E y \in folder[f] : y.good) => \E y \in folder'[f] : y.good
  BY <1>1, <1>4 DEF TypeOK
<1> QED
  BY <1>1, <1>2, <1>3, <1>4, <1>7, <1>10, <1>11, <1>12, FileStepRight

LEMMA MarkRight ==
  ASSUME BackupInv, NEW c \in Crons, Mark(c)
  PROVE  StepRight(c)
<1> DEFINE marker == [by |-> NoRecord, age |-> 0, good |-> FALSE]
           left == {x \in folder[Folder_(c)] : x.by # NoRecord} \cup {marker}
<1>1. /\ TypeOK /\ NeverWithoutBackup /\ TurnHolds(c) /\ Busy(c)
      /\ Program(Dest_(c))[cron[c].at] = "mark"
  BY DEF BackupInv, Mark, InTurn, Busy, Dest_
<1>2. /\ UNCHANGED <<settings, ever, half, due, told, faults>> /\ conf' = conf
      /\ Advance(c, FALSE) /\ folder' = [folder EXCEPT ![Folder_(c)] = left]
  BY DEF Mark, settings
<1>3. /\ folder \in [Folders -> SUBSET File] /\ ever \subseteq Folders /\ faults \in 0..MaxFaults
      /\ Folder_(c) \in Folders /\ cron[c].rec \in Records
  BY <1>1, TurnTypes DEF TypeOK
<1>4. marker \in File
  <2>1. 0 \in 0..MaxAge
    BY BackupAssumption
  <2> QED BY <2>1 DEF File
<1>5. left \subseteq File /\ \A x \in folder[Folder_(c)] : x.by # NoRecord => x \in left
  BY <1>3, <1>4
<1> HIDE DEF left
<1>6. /\ folder' \in [Folders -> SUBSET File] /\ folder'[Folder_(c)] = left
      /\ \A f \in Folders \ {Folder_(c)} : folder'[f] = folder[f]
  BY <1>2, <1>3, <1>5
<1>7. FilesStay
  BY <1>5, <1>6 DEF FilesStay
<1>8. Dest_(c) = "amazon_s3" /\ cron[c].at < DumpAt(Dest_(c)) /\ DumpAt(Dest_(c)) < StoreAt(Dest_(c))
  BY <1>1, TurnTypes DEF InOrder
<1>9. \A f \in ever : Guarded(f) /\ (\E x \in folder[f] : x.good) => \E x \in folder'[f] : x.good
  <2> SUFFICES ASSUME NEW f \in ever, Guarded(f), \E x \in folder[f] : x.good
               PROVE  \E x \in folder'[f] : x.good
    OBVIOUS
  <2>1. f # Folder_(c)
    BY <1>3, <1>8 DEF Guarded, Careful, Folder_, Conf_, Dest_
  <2> QED BY <1>3, <1>6, <2>1
<1>10. /\ cron'[c].rec = cron[c].rec /\ cron'[c].at \in {cron[c].at + 1, 0}
  <2>1. cron'[c].rec = cron[c].rec
    BY <1>1, <1>2, AdvanceStep
  <2>2. cron'[c].at = cron[c].at + 1
    <3>1. cron[c].at # Len(Program(Dest_(c)))
      BY <1>1, TurnTypes DEF InOrder
    <3> QED BY <1>1, <1>2, <3>1, AdvanceStep
  <2> QED BY <2>1, <2>2
<1>11. Conf_(c)' = Conf_(c) /\ Dest_(c)' = Dest_(c)
  BY <1>2, <1>10 DEF Conf_, Dest_
<1>12. DumpGood(c)' /\ FileThere(c)'
  <2>1. cron[c].at \in Nat /\ DumpAt(Dest_(c)) \in Nat /\ StoreAt(Dest_(c)) \in Nat
    BY <1>1, TurnTypes
  <2>2. ~(cron'[c].at > DumpAt(Dest_(c))) /\ ~(cron'[c].at > StoreAt(Dest_(c)))
    BY <1>8, <1>10, <2>1
  <2> QED BY <1>11, <2>2 DEF DumpGood, FileThere
<1> QED
  BY <1>1, <1>2, <1>3, <1>6, <1>7, <1>9, <1>12, FileStepRight

LEMMA DeleteRight ==
  ASSUME BackupInv, NEW c \in Crons, Delete(c)
  PROVE  StepRight(c)
<1>1. /\ TypeOK /\ NeverWithoutBackup /\ TurnHolds(c) /\ Busy(c) /\ cron[c].pc = "delete"
      /\ Program(Dest_(c))[cron[c].at] = "rotate"
  BY DEF BackupInv, Delete, TurnHolds, OldExpire, Busy
<1>2. UNCHANGED <<settings, ever, half, faults>> /\ conf' = conf
  BY DEF Delete, settings
<1>3. /\ cron \in [Crons -> CronRecord] /\ cron[c] \in CronRecord /\ Folder_(c) \in Folders
      /\ folder \in [Folders -> SUBSET File] /\ faults \in 0..MaxFaults
      /\ cron[c].rec \in Records /\ cron[c].at \in DOMAIN Program(Dest_(c))
  BY <1>1, TurnTypes DEF InOrder, TypeOK
<1>4. CASE Advance(c, cron[c].tmp) /\ UNCHANGED <<folder, due, told>>
  BY <1>1, <1>2, <1>4, AdvanceRight
<1>5. CASE Raise(c, "rotate") /\ UNCHANGED folder
  BY <1>1, <1>2, <1>3, <1>5, RaiseRight
<1>6. ASSUME NEW x \in cron[c].expired,
             folder' = [folder EXCEPT ![Folder_(c)] = @ \ {x}],
             cron' = [cron EXCEPT ![c].expired = @ \ {x}], UNCHANGED <<due, told>>
      PROVE  StepRight(c)
  <2> DEFINE new == [cron[c] EXCEPT !.expired = cron[c].expired \ {x}]
  <2>1. /\ folder' \in [Folders -> SUBSET File]
        /\ folder'[Folder_(c)] = folder[Folder_(c)] \ {x}
        /\ \A f \in Folders \ {Folder_(c)} : folder'[f] = folder[f]
    BY <1>3, <1>6
  <2>2. /\ new \in CronRecord /\ new.pc = "delete" /\ new.todo = cron[c].todo
        /\ new.rec = cron[c].rec /\ new.at = cron[c].at /\ new.tmp = cron[c].tmp
        /\ new.expired = cron[c].expired \ {x}
    BY <1>1, <1>3 DEF CronRecord
  <2>3. cron' = [cron EXCEPT ![c] = new]
    BY <1>3, <1>6
  <2> HIDE DEF new
  <2>4. cron'[c] = new /\ \A e \in Crons \ {c} : cron'[e] = cron[e]
    BY <1>3, <2>3
  <2>5. CronTypes(c)'
    BY <1>2, <1>3, <2>2, <2>4 DEF CronTypes, Dest_, Conf_
  <2>6. TypeOK'
    BY <1>1, <1>2, <1>6, <2>1, <2>3, <2>4, <2>5, TypesKept DEF TypeOK
  <2>7. Kept(Folder_(c)) => x.age > 0 /\ \A y \in cron[c].expired : y.age > 0
    BY <1>1 DEF TurnHolds, OldExpire
  <2>8. FilesStay
    BY <1>3, <2>1, <2>7 DEF FilesStay
  <2>9. \A f \in ever : Guarded(f) /\ (\E y \in folder[f] : y.good) => \E y \in folder'[f] : y.good
    <3> SUFFICES ASSUME NEW f \in ever, Guarded(f), \E y \in folder[f] : y.good
                 PROVE  \E y \in folder'[f] : y.good
      OBVIOUS
    <3>1. f \in Folders
      BY <1>1 DEF TypeOK
    <3>2. CASE f # Folder_(c)
      BY <2>1, <3>1, <3>2
    <3>3. CASE f = Folder_(c)
      <4>1. Kept(Folder_(c)) /\ Careful(cron[c].rec)
        BY <1>3, <3>3 DEF Guarded, Careful, Kept, Folder_, Conf_
      <4>2. /\ Dest_(c) \in {"local", "ftp", "sftp", "dropbox"} /\ Conf_(c).format = "zip"
        BY <4>1 DEF Careful, Dest_, Conf_
      <4>3. Dest_(c) \notin Unheard /\ Dest_(c) # "next_cloud" /\ Dest_(c) # "amazon_s3"
        BY <4>2 DEF Unheard
      <4>4. cron[c].at > StoreAt(Dest_(c))
        BY <1>1, <4>3, TurnTypes DEF InOrder
      <4>5. Fresh(cron[c].rec)
        BY <1>1, <4>1, <4>3, <4>4 DEF TurnHolds, FileThere
      <4>6. PICK y \in folder[Folder_(c)] : y.age = 0 /\ y.good
        BY <4>2, <4>5 DEF Fresh, Folder_, Conf_
      <4>7. y # x
        BY <2>7, <4>1, <4>6
      <4> QED BY <2>1, <3>3, <4>6, <4>7
    <3> QED BY <3>2, <3>3
  <2>10. NeverWithoutBackup'
    BY <1>1, <1>2, <2>9, LastBackup
  <2>11. Conf_(c)' = Conf_(c) /\ Dest_(c)' = Dest_(c) /\ Folder_(c)' = Folder_(c)
    BY <1>2, <2>2, <2>4 DEF Conf_, Dest_, Folder_
  <2>12. Kept(Folder_(c))' <=> Kept(Folder_(c))
    BY <1>2, <2>11 DEF Kept, Removes
  <2>13. DumpGood(c)' /\ OldExpire(c)'
    BY <1>1, <2>2, <2>4, <2>7, <2>11, <2>12 DEF TurnHolds, DumpGood, OldExpire
  <2>14. Kept(Folder_(c)) /\ Fresh(cron[c].rec) => Fresh(cron[c].rec)'
    <3> SUFFICES ASSUME Kept(Folder_(c)), Fresh(cron[c].rec) PROVE Fresh(cron[c].rec)'
      OBVIOUS
    <3>1. PICK y \in folder[Folder_(c)] : /\ y.by = cron[c].rec /\ y.age = 0
                                          /\ Conf_(c).format = "zip" => y.good
      BY DEF Fresh, Conf_, Folder_
    <3>2. y \in folder'[Folder_(c)]
      BY <2>1, <2>7, <3>1
    <3> QED BY <1>2, <2>2, <2>4, <3>1, <3>2 DEF Fresh, Conf_, Folder_
  <2>15. FileThere(c)'
    BY <1>1, <2>2, <2>4, <2>11, <2>12, <2>14 DEF TurnHolds, FileThere
  <2>16. TurnHolds(c)'
    BY <1>1, <1>2, <1>6, <2>2, <2>4, <2>11, <2>13, <2>15 DEF TurnHolds
  <2>17. ToldTrue(c)
    BY <2>2, <2>4 DEF ToldTrue, TurnEnds
  <2> QED BY <1>2, <1>6, <2>4, <2>6, <2>8, <2>10, <2>16, <2>17 DEF StepRight
<1> QED BY <1>4, <1>5, <1>6 DEF Delete

-----------------------------------------------------------------------------
(* Backups: users, the clock, and the theorems.                              *)

LEMMA BackupInit ==
  ASSUME Init
  PROVE  BackupInv
<1>1. TypeOK
  <2>1. /\ conf \in [Records -> Conf] /\ Idle \in CronRecord
    BY BackupAssumption DEF Init, Idle, CronRecord
  <2>2. /\ cron \in [Crons -> CronRecord] /\ \A c \in Crons : cron[c].pc = "idle"
    BY <2>1 DEF Init, Idle
  <2>3. faults \in 0..MaxFaults
    BY BackupAssumption DEF Init
  <2>4. /\ token \in [Records -> SUBSET OAuth] /\ folder \in [Folders -> SUBSET File]
        /\ told \in [Records -> {"nothing", "success", "failed"}]
    BY DEF Init
  <2> QED BY <2>1, <2>2, <2>3, <2>4 DEF TypeOK, Init, CronRecord
<1>2. NeverWithoutBackup
  BY DEF Init, NeverWithoutBackup
<1>3. \A c \in Crons : TurnHolds(c)
  BY DEF Init, TurnHolds, Busy, Idle
<1> QED BY <1>1, <1>2, <1>3 DEF BackupInv

\* A user's step changes settings while no cron is at work.
LEMMA UserHolds ==
  ASSUME BackupInv, User
  PROVE  BackupInv' /\ UNCHANGED cron
<1>1. PICK r \in Records :
        \/ TestCloud(r) \/ TestServer(r) \/ Authorize(r) \/ ToggleActive(r)
        \/ \E d \in NewDests : EditDestination(r, d)
  BY DEF User
<1>2. /\ Quiet /\ UNCHANGED <<folder, ever, half, due, cron, told>>
      /\ faults' \in 0..MaxFaults /\ edited \subseteq edited' /\ edited' \subseteq Records
      /\ active' \subseteq Records /\ hideActive' \subseteq Records
  <2>1. /\ faults \in 0..MaxFaults /\ edited \subseteq Records
        /\ active \subseteq Records /\ hideActive \subseteq Records
    BY DEF BackupInv, TypeOK
  <2> QED
    BY <1>1, <2>1, BackupAssumption
    DEF TestCloud, TestServer, Authorize, ToggleActive, EditDestination
<1>3. /\ conf' \in [Records -> Conf]
      /\ \A q \in Records : conf'[q].freq = conf[q].freq /\ conf'[q].folder = conf[q].folder
      /\ \A q \in Records \ edited' : conf'[q] = conf[q]
  <2>1. CASE conf' = conf
    BY <2>1 DEF BackupInv, TypeOK
  <2>2. ASSUME NEW d \in NewDests, EditDestination(r, d)
        PROVE  /\ conf' \in [Records -> Conf]
               /\ \A q \in Records : conf'[q].freq = conf[q].freq /\ conf'[q].folder = conf[q].folder
               /\ \A q \in Records \ edited' : conf'[q] = conf[q]
    <3>1. conf \in [Records -> Conf] /\ d \in Destinations
      BY BackupAssumption DEF BackupInv, TypeOK
    <3>2. /\ conf' = [conf EXCEPT ![r] = [conf[r] EXCEPT !.dest = d]]
          /\ edited' = edited \cup {r}
      BY <2>2 DEF EditDestination
    <3>3. /\ [conf[r] EXCEPT !.dest = d] \in Conf
          /\ [conf[r] EXCEPT !.dest = d].freq = conf[r].freq
          /\ [conf[r] EXCEPT !.dest = d].folder = conf[r].folder
      BY <3>1 DEF Conf
    <3> QED BY <3>1, <3>2, <3>3
  <2> QED
    BY <1>1, <2>1, <2>2 DEF TestCloud, TestServer, Authorize, ToggleActive
<1>4. token' \in [Records -> SUBSET OAuth]
  <2>1. token \in [Records -> SUBSET OAuth]
    BY DEF BackupInv, TypeOK
  <2>2. CASE Authorize(r)
    BY <2>1, <2>2 DEF Authorize, GetTokens
  <2>3. CASE token' = token
    BY <2>1, <2>3
  <2> QED
    BY <1>1, <2>2, <2>3 DEF TestCloud, TestServer, ToggleActive, EditDestination
<1>5. TypeOK'
  BY <1>2, <1>3, <1>4 DEF BackupInv, TypeOK, Quiet
<1>6. NeverWithoutBackup'
  <2> SUFFICES ASSUME NEW f \in ever', Guarded(f)'
               PROVE  \E x \in folder'[f] : x.good
    BY DEF NeverWithoutBackup, Guarded
  <2>1. Guarded(f)
    BY <1>2, <1>3 DEF Guarded, Careful, Removes
  <2> QED BY <1>2, <2>1 DEF BackupInv, NeverWithoutBackup, Guarded
<1>7. \A c \in Crons : TurnHolds(c)'
  <2> TAKE c \in Crons
  <2>1. cron[c].todo \subseteq Records /\ cron[c] \in CronRecord
    BY TurnTypes DEF BackupInv, CronRecord
  <2> QED BY <1>2, <1>3, <2>1 DEF BackupInv, TurnHolds, Quiet, Busy
<1> QED BY <1>2, <1>5, <1>6, <1>7 DEF BackupInv

\* Files grow older only while no turn has stored one and not ended.
LEMMA TickHolds ==
  ASSUME BackupInv, Tick
  PROVE  BackupInv' /\ UNCHANGED cron
<1> DEFINE Older(x) == [x EXCEPT !.age = IF x.age = MaxAge THEN x.age ELSE x.age + 1]
<1>1. /\ TypeOK /\ UNCHANGED <<settings, ever, cron, told, faults>> /\ conf' = conf
      /\ \A c \in Crons : ~Short(c)
      /\ folder' = [f \in Folders |-> {Older(x) : x \in folder[f]}]
      /\ half' = 1 - half /\ due' \subseteq due \cup Crons
  BY DEF Tick, BackupInv, settings
<1>2. \A x \in File : Older(x) \in File /\ Older(x).good = x.good
  <2> TAKE x \in File
  <2>1. x.age \in 0..MaxAge
    BY DEF File
  <2>2. (IF x.age = MaxAge THEN x.age ELSE x.age + 1) \in 0..MaxAge
    BY <2>1, BackupAssumption
  <2> QED BY <2>2 DEF File
<1> HIDE DEF Older
<1>3. TypeOK'
  <2>1. folder' \in [Folders -> SUBSET File]
    BY <1>1, <1>2 DEF TypeOK
  <2>2. half' \in {0, 1}
    BY <1>1 DEF TypeOK
  <2> QED BY <1>1, <2>1, <2>2 DEF TypeOK, settings
<1>4. NeverWithoutBackup'
  <2>1. \A f \in ever : (\E x \in folder[f] : x.good) => \E x \in folder'[f] : x.good
    <3> SUFFICES ASSUME NEW f \in ever, NEW x \in folder[f], x.good
                 PROVE  \E y \in folder'[f] : y.good
      OBVIOUS
    <3>1. f \in Folders /\ x \in File
      BY <1>1 DEF TypeOK
    <3>2. Older(x) \in folder'[f] /\ Older(x).good
      BY <1>1, <1>2, <3>1
    <3> QED BY <3>2
  <2> QED BY <1>1, <2>1, LastBackup DEF BackupInv
<1>5. \A c \in Crons : TurnHolds(c)'
  <2> TAKE c \in Crons
  <2>1. TurnHolds(c)
    BY DEF BackupInv
  <2>2. \A q \in cron'[c].todo : conf'[q].freq = c
    BY <1>1, <2>1 DEF TurnHolds
  <2>3. ASSUME Busy(c)'
        PROVE  /\ Conf_(c)'.freq = c
               /\ Dest_(c)' # "next_cloud" => told'[cron'[c].rec] = "nothing"
               /\ DumpGood(c)' /\ FileThere(c)' /\ OldExpire(c)'
    <3>1. Busy(c) /\ cron[c].pc = "turn"
      BY <1>1, <2>3 DEF Busy, Short
    <3>2. Conf_(c)' = Conf_(c) /\ Dest_(c)' = Dest_(c)
      BY <1>1 DEF Conf_, Dest_
    <3>3. Program(Dest_(c))[cron[c].at] \notin {"rotate", "mail"}
      BY <1>1, <3>1 DEF Short, InTurn, Dest_
    <3>4. ~(cron[c].at > StoreAt(Dest_(c)))
      <4>1. CASE Dest_(c) = "next_cloud"
        <5>1. cron[c].at \in 1..5 /\ StoreAt(Dest_(c)) = 5
          BY <1>1, <3>1, <4>1, TurnTypes DEF InOrder
        <5> QED BY <5>1
      <4>2. CASE Dest_(c) # "next_cloud"
        BY <1>1, <3>1, <3>3, <4>2, TurnTypes DEF InOrder
      <4> QED BY <4>1, <4>2
    <3> QED
      BY <1>1, <2>1, <3>1, <3>2, <3>4 DEF TurnHolds, DumpGood, FileThere, OldExpire
  <2> QED BY <2>2, <2>3 DEF TurnHolds
<1> QED BY <1>1, <1>3, <1>4, <1>5 DEF BackupInv

\* The steps of all crons, and the failures that befall them.
LEMMA CronRight ==
  ASSUME BackupInv, NEW c \in Crons, CronStep(c) \/ StepFails(c) \/ Crash(c)
  PROVE  StepRight(c)
BY BeginRight, NextRecordRight, FinishRight, ConnectRight, DumpRight, StoreRight, MarkRight,
   RotateRight, DeleteRight, MailRight, StepFailsRight, CrashRight DEF CronStep

LEMMA RightHolds ==
  ASSUME BackupInv, NEW c \in Crons, StepRight(c)
  PROVE  BackupInv' /\ \A e \in Crons : ToldTrue(e)
<1>1. \A e \in Crons \ {c} : TurnHolds(e)'
  BY OthersTurn DEF BackupInv, StepRight
<1>2. \A e \in Crons \ {c} : ToldTrue(e)
  BY DEF StepRight, ToldTrue, TurnEnds
<1> QED BY <1>1, <1>2 DEF StepRight, BackupInv

LEMMA BackupStep ==
  ASSUME BackupInv, [Next]_vars
  PROVE  BackupInv' /\ \A c \in Crons : ToldTrue(c)
<1>1. ASSUME UNCHANGED cron PROVE \A c \in Crons : ToldTrue(c)
  BY <1>1 DEF ToldTrue, TurnEnds
<1>2. CASE User
  BY <1>1, <1>2, UserHolds
<1>3. ASSUME NEW c \in Crons, CronStep(c) \/ StepFails(c) \/ Crash(c)
      PROVE  BackupInv' /\ \A e \in Crons : ToldTrue(e)
  BY <1>3, CronRight, RightHolds
<1>4. CASE Tick
  BY <1>1, <1>4, TickHolds
<1>5. CASE UNCHANGED vars
  <2>1. BackupInv'
    <3>1. TypeOK'
      BY <1>5 DEF vars, BackupInv, TypeOK
    <3>2. NeverWithoutBackup'
      BY <1>5 DEF vars, BackupInv, NeverWithoutBackup, Careful, Removes
    <3>3. \A c \in Crons : TurnHolds(c)'
      BY <1>5 DEF vars, BackupInv, TurnHolds, Busy, DumpGood, FileThere, OldExpire, Conf_, Dest_,
                  Folder_, Fresh, Kept, Removes
    <3> QED BY <3>1, <3>2, <3>3 DEF BackupInv
  <2> QED BY <1>1, <1>5, <2>1 DEF vars
<1> QED BY <1>2, <1>3, <1>4, <1>5 DEF Next

\* Crons, records, folders and files stay what they are, whoever activates,
\* changes, fails or restarts what: the steps of a turn are within its
\* program (_schedule_auto_backup).
THEOREM BackupTypes == Spec => []TypeOK
<1>1. BackupInv => TypeOK
  BY DEF BackupInv
<1> QED BY <1>1, BackupInit, BackupStep, PTL DEF Spec

\* For any number of records, crons, folders and failures: no folder that
\* careful records share is without a good backup once it held one.
THEOREM NoFolderWithoutBackup == Spec => []NeverWithoutBackup
<1>1. BackupInv => NeverWithoutBackup
  BY DEF BackupInv
<1> QED BY <1>1, BackupInit, BackupStep, PTL DEF Spec

\* For any number of them: whoever asked for mails is told the truth of every
\* turn that ends.
THEOREM MailsTellTheOutcome == Spec => OutcomeIsTold
<1>1. (\A c \in Crons : ToldTrue(c)) =>
        [\A c \in Crons : LET r == cron[c].rec IN
           TurnEnds(c) /\ Honest(r) =>
               /\ told'[r] = "success" => Stored(r)'
               /\ told'[r] = "nothing" =>
                      conf[r].dest = "amazon_s3" /\ ~conf[r].keys]_vars
  BY DEF ToldTrue
<1> QED BY <1>1, BackupInit, BackupStep, PTL DEF Spec, OutcomeIsTold

\* Records that have a token where one is needed, active or not yet.
TokenInv ==
    /\ TypeOK
    /\ \A r \in (active \cup hideActive) \ edited :
           conf[r].dest \in OAuth => conf[r].dest \in token[r]

\* A record that users have activated for its service, and whose destination
\* they left alone, has the tokens the service asks for.
THEOREM ActiveRecordsHaveTokens == Spec => []ActiveHasToken
<1>1. Init => TokenInv
  BY BackupInit DEF BackupInv, Init, TokenInv, OAuth
<1>2. TokenInv /\ TypeOK' /\ [Next]_vars => TokenInv'
  <2> SUFFICES ASSUME TokenInv, TypeOK', [Next]_vars, UNCHANGED settings => TokenInv'
               PROVE  TokenInv'
    BY DEF TokenInv, settings
  <2>1. CASE User
    <3>1. PICK r \in Records :
            \/ TestCloud(r) \/ TestServer(r) \/ Authorize(r) \/ ToggleActive(r)
            \/ \E d \in NewDests : EditDestination(r, d)
      BY <2>1 DEF User
    <3>2. token \in [Records -> SUBSET OAuth] /\ conf \in [Records -> Conf] /\ active \subseteq Records
          /\ hideActive \subseteq Records
      BY DEF TokenInv, TypeOK
    <3>3. CASE TestCloud(r)
      BY <3>3 DEF TestCloud, TokenInv, OAuth
    <3>4. CASE TestServer(r)
      BY <3>4 DEF TestServer, TokenInv, OAuth
    <3>5. CASE Authorize(r)
      BY <3>2, <3>5 DEF Authorize, GetTokens, TokenInv
    <3>6. CASE ToggleActive(r)
      BY <3>6 DEF ToggleActive, TokenInv
    <3>7. ASSUME NEW d \in NewDests, EditDestination(r, d) PROVE TokenInv'
      BY <3>2, <3>7 DEF EditDestination, TokenInv
    <3> QED BY <3>1, <3>3, <3>4, <3>5, <3>6, <3>7
  <2>2. ASSUME NEW c \in Crons, CronStep(c) \/ StepFails(c) \/ Crash(c)
        PROVE  UNCHANGED settings
    BY <2>2 DEF CronStep, Begin, NextRecord, Finish, Connect, Dump, Store, Mark, Rotate, Delete,
                Mail, StepFails, Crash
  <2>3. CASE Tick \/ UNCHANGED vars
    BY <2>3 DEF Tick, vars, settings
  <2> QED BY <2>1, <2>2, <2>3 DEF Next
<1>3. TokenInv => ActiveHasToken
  BY DEF TokenInv, ActiveHasToken
<1> QED BY <1>1, <1>2, <1>3, BackupTypes, PTL DEF Spec

-----------------------------------------------------------------------------
(* Sums of amounts                                                         *)

AddAmount(c, a, e) == a + e
\* Total is a fold of Folding_proofs with this operation, whose lemmas hold here.
Sums == INSTANCE Folding_proofs WITH Op <- AddAmount

LEMMA TotalIsFold == \A s : Total(s) = Sums!Fold(0, 0, s)
BY DEF Total, AddAmount, FoldLeft, MapThenFoldSet, Max,
       Sums!Fold, Sums!FoldLeft, Sums!MapThenFoldSet, Sums!Max

\* The partial sums.
LEMMA TotalTable ==
  \A n \in Nat : \A s \in [1..n -> Int] :
    \E f : /\ f[0] = 0 /\ f[n] = Total(s)
           /\ \A k \in 1..n : f[k] = f[k - 1] + s[k]
<1> SUFFICES ASSUME NEW n \in Nat, NEW s \in [1..n -> Int]
             PROVE  \E f : /\ f[0] = 0 /\ f[n] = Total(s)
                           /\ \A k \in 1..n : f[k] = f[k - 1] + s[k]
  OBVIOUS
<1>1. DOMAIN s = 1..n
  OBVIOUS
<1>2. PICK f : Sums!Table(f, 0, 0, s, n) /\ f[n] = Sums!Fold(0, 0, s)
  BY <1>1, Sums!FoldTable
<1>3. QED BY <1>2, TotalIsFold DEF Sums!Table, AddAmount

LEMMA TotalAppend ==
  \A s \in Seq(Int), e \in Int : Total(Append(s, e)) = Total(s) + e
BY TotalIsFold, Sums!FoldAppend DEF AddAmount

LEMMA TotalEmpty == Total(<<>>) = 0
BY TotalIsFold, Sums!FoldEmpty

\* A sum is an integer, and not negative if no amount is.
LEMMA TotalType ==
  ASSUME NEW n \in Nat, NEW s \in [1..n -> Int]
  PROVE  /\ Total(s) \in Int
         /\ (\A k \in 1..n : s[k] >= 0) => Total(s) \in Nat
<1>1. PICK f : /\ f[0] = 0 /\ f[n] = Total(s)
               /\ \A k \in 1..n : f[k] = f[k - 1] + s[k]
  BY TotalTable
<1> DEFINE S == {k \in Nat : k <= n => /\ f[k] \in Int
                                       /\ (\A j \in 1..n : s[j] >= 0) => f[k] >= 0}
<1>2. 0 \in S
  BY <1>1
<1>3. ASSUME NEW k \in Nat, k \in S PROVE k + 1 \in S
  <2>1. SUFFICES ASSUME k + 1 <= n
                 PROVE  f[k + 1] \in Int /\ ((\A j \in 1..n : s[j] >= 0) => f[k + 1] >= 0)
    OBVIOUS
  <2>2. k <= n /\ k + 1 \in 1..n /\ (k + 1) - 1 = k
    BY <2>1
  <2>3. f[k + 1] = f[k] + s[k + 1] /\ s[k + 1] \in Int
    BY <1>1, <2>2
  <2>4. QED BY <1>3, <2>2, <2>3
<1>4. Nat \subseteq S
  <2> HIDE DEF S
  <2> QED BY <1>2, <1>3, Sums!Induction
<1>5. QED BY <1>1, <1>4

\* Amounts that are as large make a sum that is as large.
LEMMA TotalGrows ==
  ASSUME NEW n \in Nat, NEW s \in [1..n -> Int], NEW t \in [1..n -> Int],
         \A k \in 1..n : s[k] <= t[k]
  PROVE  Total(s) <= Total(t)
<1>1. PICK f : /\ f[0] = 0 /\ f[n] = Total(s)
               /\ \A k \in 1..n : f[k] = f[k - 1] + s[k]
  BY TotalTable
<1>2. PICK g : /\ g[0] = 0 /\ g[n] = Total(t)
               /\ \A k \in 1..n : g[k] = g[k - 1] + t[k]
  BY TotalTable
<1> DEFINE S == {k \in Nat : k <= n => f[k] \in Int /\ g[k] \in Int /\ f[k] <= g[k]}
<1>3. 0 \in S
  BY <1>1, <1>2
<1>4. ASSUME NEW k \in Nat, k \in S PROVE k + 1 \in S
  <2>1. SUFFICES ASSUME k + 1 <= n
                 PROVE  f[k + 1] \in Int /\ g[k + 1] \in Int /\ f[k + 1] <= g[k + 1]
    OBVIOUS
  <2>2. k <= n /\ k + 1 \in 1..n /\ (k + 1) - 1 = k
    BY <2>1
  <2>3. /\ f[k + 1] = f[k] + s[k + 1] /\ g[k + 1] = g[k] + t[k + 1]
        /\ s[k + 1] \in Int /\ t[k + 1] \in Int /\ s[k + 1] <= t[k + 1]
    BY <1>1, <1>2, <2>2
  <2>4. QED BY <1>4, <2>2, <2>3
<1>5. Nat \subseteq S
  <2> HIDE DEF S
  <2> QED BY <1>3, <1>4, Sums!Induction
<1>6. QED BY <1>1, <1>2, <1>5

\* When one amount changes, the sum changes by as much.
LEMMA TotalChanges ==
  \A n \in Nat : \A s, t \in [1..n -> Int] : \A i \in 1..n :
    (\A k \in 1..n : k # i => s[k] = t[k]) => Total(t) = Total(s) - s[i] + t[i]
<1> SUFFICES ASSUME NEW n \in Nat, NEW s \in [1..n -> Int], NEW t \in [1..n -> Int],
                    NEW i \in 1..n, \A k \in 1..n : k # i => s[k] = t[k]
             PROVE  Total(t) = Total(s) - s[i] + t[i]
  OBVIOUS
<1>1. PICK f : /\ f[0] = 0 /\ f[n] = Total(s)
               /\ \A k \in 1..n : f[k] = f[k - 1] + s[k]
  BY TotalTable
<1>2. PICK g : /\ g[0] = 0 /\ g[n] = Total(t)
               /\ \A k \in 1..n : g[k] = g[k - 1] + t[k]
  BY TotalTable
<1> DEFINE S == {k \in Nat : k <= n =>
                   /\ f[k] \in Int
                   /\ g[k] = IF k < i THEN f[k] ELSE f[k] - s[i] + t[i]}
<1>3. 0 \in S
  BY <1>1, <1>2
<1>4. ASSUME NEW k \in Nat, k \in S PROVE k + 1 \in S
  <2>1. SUFFICES ASSUME k + 1 <= n
                 PROVE  /\ f[k + 1] \in Int
                        /\ g[k + 1] = IF k + 1 < i THEN f[k + 1]
                                      ELSE f[k + 1] - s[i] + t[i]
    OBVIOUS
  <2>2. k <= n /\ k + 1 \in 1..n /\ (k + 1) - 1 = k
    BY <2>1
  <2>3. /\ f[k + 1] = f[k] + s[k + 1] /\ g[k + 1] = g[k] + t[k + 1]
        /\ s[k + 1] \in Int /\ t[k + 1] \in Int /\ (k + 1 # i => s[k + 1] = t[k + 1])
        /\ s[i] \in Int /\ t[i] \in Int
    BY <1>1, <1>2, <2>2
  <2>4. f[k] \in Int /\ g[k] = IF k < i THEN f[k] ELSE f[k] - s[i] + t[i]
    BY <1>4, <2>2
  <2>5. CASE k + 1 = i
    BY <2>3, <2>4, <2>5
  <2>6. CASE k + 1 # i
    <3>1. CASE k < i
      <4>1. k + 1 < i /\ s[k + 1] = t[k + 1] /\ g[k] = f[k]
        BY <1>2, <2>4, <2>3, <2>6, <3>1
      <4>2. QED BY <2>3, <2>4, <4>1
    <3>2. CASE ~(k < i)
      <4>1. ~(k + 1 < i) /\ s[k + 1] = t[k + 1] /\ g[k] = f[k] - s[i] + t[i]
        BY <1>2, <2>4, <2>3, <2>6, <3>2
      <4>2. QED BY <2>3, <2>4, <4>1
    <3>3. QED BY <3>1, <3>2
  <2>7. QED BY <2>5, <2>6
<1>5. Nat \subseteq S
  <2> HIDE DEF S
  <2> QED BY <1>3, <1>4, Sums!Induction
<1>6. QED BY <1>1, <1>2, <1>5

-----------------------------------------------------------------------------
(* Stock promised to procurements                                          *)

OpenPart(v) == IF IsOpen(v) THEN v.qty ELSE 0
ReservedPart(v) == IF IsOpen(v) THEN v.reserved ELSE 0
BoughtPart(v, S) == IF v.purchase \in S THEN v.qty ELSE 0

\* A move is ordered or not by its method; what it reserves is its own, and
\* nothing while its purchase is on its way.
MoveOK(v) ==
  /\ v.purchase = "none" <=> v.method = "mts"
  /\ v.reserved <= v.qty
  /\ v.method = "mto" /\ v.purchase # "done" => v.reserved = 0

LargestUom == CHOOSE u \in Uoms : \A w \in Uoms : w <= u

CoveredBy(stock, ms) ==
  /\ stock + BoughtQty(ms, {"draft", "sure"}) - OpenQty(ms) > - LargestUom
  /\ ReservedQty(ms) <= stock

Covered(ms) == CoveredBy(inStock, ms)

SplitInv ==
  /\ MtsMtoTypeOK
  /\ \A i \in DOMAIN moves : MoveOK(moves[i])
  /\ Covered(moves)

LEMMA PartsAreNat ==
  ASSUME NEW v \in StockMoves, NEW S
  PROVE  OpenPart(v) \in Nat /\ ReservedPart(v) \in Nat /\ BoughtPart(v, S) \in Nat
BY DEF StockMoves, OpenPart, ReservedPart, BoughtPart

LEMMA QtyIsTotal ==
  ASSUME NEW ms, NEW S
  PROVE  /\ OpenQty(ms) = Total([i \in DOMAIN ms |-> OpenPart(ms[i])])
         /\ ReservedQty(ms) = Total([i \in DOMAIN ms |-> ReservedPart(ms[i])])
         /\ BoughtQty(ms, S) = Total([i \in DOMAIN ms |-> BoughtPart(ms[i], S)])
BY DEF OpenQty, ReservedQty, BoughtQty, OpenPart, ReservedPart, BoughtPart

LEMMA PartsAreAmounts ==
  ASSUME NEW ms \in Seq(StockMoves), NEW S
  PROVE  /\ [i \in DOMAIN ms |-> OpenPart(ms[i])] \in [1..Len(ms) -> Nat]
         /\ [i \in DOMAIN ms |-> ReservedPart(ms[i])] \in [1..Len(ms) -> Nat]
         /\ [i \in DOMAIN ms |-> BoughtPart(ms[i], S)] \in [1..Len(ms) -> Nat]
<1>1. DOMAIN ms = 1..Len(ms) /\ \A i \in DOMAIN ms : ms[i] \in StockMoves
  OBVIOUS
<1>2. \A i \in DOMAIN ms : /\ OpenPart(ms[i]) \in Nat /\ ReservedPart(ms[i]) \in Nat
                           /\ BoughtPart(ms[i], S) \in Nat
  BY <1>1, PartsAreNat
<1>3. QED BY <1>1, <1>2

LEMMA QtyType ==
  ASSUME NEW ms \in Seq(StockMoves), NEW S
  PROVE  OpenQty(ms) \in Nat /\ ReservedQty(ms) \in Nat /\ BoughtQty(ms, S) \in Nat
<1>1. Len(ms) \in Nat
  OBVIOUS
<1>2. ASSUME NEW s \in [1..Len(ms) -> Nat] PROVE Total(s) \in Nat
  <2>1. s \in [1..Len(ms) -> Int] /\ \A k \in 1..Len(ms) : s[k] >= 0
    OBVIOUS
  <2>2. QED BY <1>1, <2>1, TotalType
<1>3. OpenQty(ms) \in Nat
  BY <1>2, PartsAreAmounts, QtyIsTotal
<1>4. ReservedQty(ms) \in Nat
  BY <1>2, PartsAreAmounts, QtyIsTotal
<1>5. BoughtQty(ms, S) \in Nat
  <2> DEFINE s == [i \in DOMAIN ms |-> BoughtPart(ms[i], S)]
  <2>1. s \in [1..Len(ms) -> Nat]
    BY PartsAreAmounts
  <2> HIDE DEF s
  <2>2. Total(s) \in Nat
    BY <1>2, <2>1
  <2>3. QED BY <2>2, QtyIsTotal DEF s
<1>6. QED BY <1>3, <1>4, <1>5

LEMMA BoughtMore ==
  ASSUME NEW ms \in Seq(StockMoves), NEW S, NEW T, S \subseteq T
  PROVE  BoughtQty(ms, S) <= BoughtQty(ms, T)
<1> DEFINE s == [i \in DOMAIN ms |-> BoughtPart(ms[i], S)]
           t == [i \in DOMAIN ms |-> BoughtPart(ms[i], T)]
<1>1. Len(ms) \in Nat /\ DOMAIN ms = 1..Len(ms) /\ \A i \in DOMAIN ms : ms[i] \in StockMoves
  OBVIOUS
<1>2. s \in [1..Len(ms) -> Int] /\ t \in [1..Len(ms) -> Int]
  <2>1. s \in [1..Len(ms) -> Nat]
    BY PartsAreAmounts
  <2>2. t \in [1..Len(ms) -> Nat]
    BY PartsAreAmounts
  <2>3. QED BY <2>1, <2>2
<1>3. \A k \in 1..Len(ms) : s[k] <= t[k]
  BY <1>1 DEF BoughtPart, StockMoves
<1> HIDE DEF s, t
<1>4. Total(s) <= Total(t)
  BY <1>1, <1>2, <1>3, TotalGrows
<1>5. QED BY <1>4, QtyIsTotal DEF s, t

LEMMA AppendIsFunction ==
  ASSUME NEW n \in Nat, NEW s \in [1..n -> Int], NEW a \in Int
  PROVE  Append(s, a) = [i \in 1..(n + 1) |-> IF i = n + 1 THEN a ELSE s[i]]
<1> DEFINE t == Append(s, a)
<1>1. s \in Seq(Int) /\ Len(s) = n
  OBVIOUS
<1>2. t \in Seq(Int) /\ Len(t) = n + 1
  BY <1>1
<1>3. t[n + 1] = a
  BY <1>1
<1>4. \A i \in 1..n : t[i] = s[i]
  BY <1>1
<1> HIDE DEF t
<1>5. DOMAIN t = 1..(n + 1) /\ t = [i \in DOMAIN t |-> t[i]]
  BY <1>2
<1>6. t = [i \in 1..(n + 1) |-> IF i = n + 1 THEN a ELSE s[i]]
  BY <1>3, <1>4, <1>5
<1>7. QED BY <1>6 DEF t

LEMMA TotalMore ==
  \A n \in Nat : \A s \in [1..n -> Int] : \A t \in [1..(n + 1) -> Int] :
    (\A i \in 1..n : t[i] = s[i]) => Total(t) = Total(s) + t[n + 1]
<1> SUFFICES ASSUME NEW n \in Nat, NEW s \in [1..n -> Int], NEW t \in [1..(n + 1) -> Int],
                    \A i \in 1..n : t[i] = s[i]
             PROVE  Total(t) = Total(s) + t[n + 1]
  OBVIOUS
<1> DEFINE a == t[n + 1]
<1>1. s \in Seq(Int) /\ a \in Int
  OBVIOUS
<1>2. t = [i \in 1..(n + 1) |-> IF i = n + 1 THEN a ELSE s[i]]
  OBVIOUS
<1> HIDE DEF a
<1>3. t = Append(s, a)
  BY <1>1, <1>2, AppendIsFunction
<1>4. QED BY <1>1, <1>3, TotalAppend DEF a

\* A move more.
LEMMA QtyAppend ==
  ASSUME NEW ms \in Seq(StockMoves), NEW v \in StockMoves, NEW S
  PROVE  /\ Append(ms, v) \in Seq(StockMoves)
         /\ OpenQty(Append(ms, v)) = OpenQty(ms) + OpenPart(v)
         /\ ReservedQty(Append(ms, v)) = ReservedQty(ms) + ReservedPart(v)
         /\ BoughtQty(Append(ms, v), S) = BoughtQty(ms, S) + BoughtPart(v, S)
<1> DEFINE mv == Append(ms, v)
           n == Len(ms)
<1>1. /\ n \in Nat /\ DOMAIN ms = 1..n /\ DOMAIN mv = 1..(n + 1) /\ mv[n + 1] = v
      /\ mv \in Seq(StockMoves) /\ \A i \in 1..n : mv[i] = ms[i]
  OBVIOUS
<1> HIDE DEF mv, n
<1>2. ASSUME NEW s \in [1..n -> Nat], NEW a \in Nat, NEW t,
             t = [i \in 1..(n + 1) |-> IF i = n + 1 THEN a ELSE s[i]]
      PROVE  Total(t) = Total(s) + a
  <2>1. s \in [1..n -> Int] /\ t \in [1..(n + 1) -> Int] /\ t[n + 1] = a
        /\ \A i \in 1..n : t[i] = s[i]
    BY <1>1, <1>2
  <2>2. QED BY <1>1, <2>1, TotalMore
<1>3. OpenQty(mv) = OpenQty(ms) + OpenPart(v)
  <2> DEFINE s == [i \in DOMAIN ms |-> OpenPart(ms[i])]
             t == [i \in DOMAIN mv |-> OpenPart(mv[i])]
  <2>1. s \in [1..n -> Nat] /\ OpenPart(v) \in Nat
    BY PartsAreAmounts, PartsAreNat DEF n
  <2>2. t = [i \in 1..(n + 1) |-> IF i = n + 1 THEN OpenPart(v) ELSE s[i]]
    BY <1>1
  <2> HIDE DEF s, t
  <2>3. Total(t) = Total(s) + OpenPart(v)
    BY <1>2, <2>1, <2>2
  <2>4. QED BY <2>3, QtyIsTotal DEF s, t
<1>4. ReservedQty(mv) = ReservedQty(ms) + ReservedPart(v)
  <2> DEFINE s == [i \in DOMAIN ms |-> ReservedPart(ms[i])]
             t == [i \in DOMAIN mv |-> ReservedPart(mv[i])]
  <2>1. s \in [1..n -> Nat] /\ ReservedPart(v) \in Nat
    BY PartsAreAmounts, PartsAreNat DEF n
  <2>2. t = [i \in 1..(n + 1) |-> IF i = n + 1 THEN ReservedPart(v) ELSE s[i]]
    BY <1>1
  <2> HIDE DEF s, t
  <2>3. Total(t) = Total(s) + ReservedPart(v)
    BY <1>2, <2>1, <2>2
  <2>4. QED BY <2>3, QtyIsTotal DEF s, t
<1>5. BoughtQty(mv, S) = BoughtQty(ms, S) + BoughtPart(v, S)
  <2> DEFINE s == [i \in DOMAIN ms |-> BoughtPart(ms[i], S)]
             t == [i \in DOMAIN mv |-> BoughtPart(mv[i], S)]
  <2>1. s \in [1..n -> Nat] /\ BoughtPart(v, S) \in Nat
    BY PartsAreAmounts, PartsAreNat DEF n
  <2>2. t = [i \in 1..(n + 1) |-> IF i = n + 1 THEN BoughtPart(v, S) ELSE s[i]]
    BY <1>1
  <2> HIDE DEF s, t
  <2>3. Total(t) = Total(s) + BoughtPart(v, S)
    BY <1>2, <2>1, <2>2
  <2>4. QED BY <2>3, QtyIsTotal DEF s, t
<1>6. QED BY <1>1, <1>3, <1>4, <1>5 DEF mv

\* A move that changes.
LEMMA QtyChange ==
  \A ms \in Seq(StockMoves) : \A i \in DOMAIN ms : \A v \in StockMoves : \A S, mv :
    mv = [ms EXCEPT ![i] = v] =>
      /\ mv \in Seq(StockMoves)
      /\ OpenQty(mv) = OpenQty(ms) - OpenPart(ms[i]) + OpenPart(v)
      /\ ReservedQty(mv) = ReservedQty(ms) - ReservedPart(ms[i]) + ReservedPart(v)
      /\ BoughtQty(mv, S) = BoughtQty(ms, S) - BoughtPart(ms[i], S) + BoughtPart(v, S)
<1> SUFFICES ASSUME NEW ms \in Seq(StockMoves), NEW i \in DOMAIN ms, NEW v \in StockMoves,
                    NEW S, NEW mv, mv = [ms EXCEPT ![i] = v]
             PROVE  /\ mv \in Seq(StockMoves)
                    /\ OpenQty(mv) = OpenQty(ms) - OpenPart(ms[i]) + OpenPart(v)
                    /\ ReservedQty(mv) = ReservedQty(ms) - ReservedPart(ms[i]) + ReservedPart(v)
                    /\ BoughtQty(mv, S) = BoughtQty(ms, S) - BoughtPart(ms[i], S) + BoughtPart(v, S)
  OBVIOUS
<1> DEFINE n == Len(ms)
<1>1. /\ n \in Nat /\ DOMAIN ms = 1..n /\ DOMAIN mv = 1..n /\ Len(mv) = n /\ mv[i] = v
      /\ mv \in Seq(StockMoves) /\ \A k \in 1..n : k # i => mv[k] = ms[k]
  OBVIOUS
<1>2. ASSUME NEW s \in [1..n -> Nat], NEW t \in [1..n -> Nat],
             \A k \in 1..n : k # i => s[k] = t[k]
      PROVE  Total(t) = Total(s) - s[i] + t[i]
  <2>1. s \in [1..n -> Int] /\ t \in [1..n -> Int] /\ i \in 1..n
    BY <1>1
  <2> HIDE DEF n
  <2>2. \A ss, tt \in [1..n -> Int] : \A j \in 1..n :
          (\A k \in 1..n : k # j => ss[k] = tt[k]) => Total(tt) = Total(ss) - ss[j] + tt[j]
    BY <1>1, TotalChanges
  <2>3. (\A k \in 1..n : k # i => s[k] = t[k]) => Total(t) = Total(s) - s[i] + t[i]
    BY <2>1, <2>2
  <2>4. QED BY <1>2, <2>3
<1> HIDE DEF n
<1>3. OpenQty(mv) = OpenQty(ms) - OpenPart(ms[i]) + OpenPart(v)
  <2> DEFINE s == [k \in DOMAIN ms |-> OpenPart(ms[k])]
             t == [k \in DOMAIN mv |-> OpenPart(mv[k])]
  <2>1. s \in [1..n -> Nat] /\ t \in [1..n -> Nat]
    BY <1>1, PartsAreAmounts DEF n
  <2>2. (\A k \in 1..n : k # i => s[k] = t[k]) /\ s[i] = OpenPart(ms[i]) /\ t[i] = OpenPart(v)
    BY <1>1
  <2> HIDE DEF s, t
  <2>3. Total(t) = Total(s) - s[i] + t[i]
    BY <1>2, <2>1, <2>2
  <2>4. QED BY <2>2, <2>3, QtyIsTotal DEF s, t
<1>4. ReservedQty(mv) = ReservedQty(ms) - ReservedPart(ms[i]) + ReservedPart(v)
  <2> DEFINE s == [k \in DOMAIN ms |-> ReservedPart(ms[k])]
             t == [k \in DOMAIN mv |-> ReservedPart(mv[k])]
  <2>1. s \in [1..n -> Nat] /\ t \in [1..n -> Nat]
    BY <1>1, PartsAreAmounts DEF n
  <2>2. /\ \A k \in 1..n : k # i => s[k] = t[k]
        /\ s[i] = ReservedPart(ms[i]) /\ t[i] = ReservedPart(v)
    BY <1>1
  <2> HIDE DEF s, t
  <2>3. Total(t) = Total(s) - s[i] + t[i]
    BY <1>2, <2>1, <2>2
  <2>4. QED BY <2>2, <2>3, QtyIsTotal DEF s, t
<1>5. BoughtQty(mv, S) = BoughtQty(ms, S) - BoughtPart(ms[i], S) + BoughtPart(v, S)
  <2> DEFINE s == [k \in DOMAIN ms |-> BoughtPart(ms[k], S)]
             t == [k \in DOMAIN mv |-> BoughtPart(mv[k], S)]
  <2>1. s \in [1..n -> Nat] /\ t \in [1..n -> Nat]
    <3>1. s \in [1..n -> Nat]
      BY PartsAreAmounts DEF n
    <3>2. \A mm \in Seq(StockMoves) :
             [k \in DOMAIN mm |-> BoughtPart(mm[k], S)] \in [1..Len(mm) -> Nat]
      BY PartsAreAmounts
    <3>3. QED BY <1>1, <3>1, <3>2
  <2>2. /\ \A k \in 1..n : k # i => s[k] = t[k]
        /\ s[i] = BoughtPart(ms[i], S) /\ t[i] = BoughtPart(v, S)
    BY <1>1
  <2> HIDE DEF s, t
  <2>3. Total(t) = Total(s) - s[i] + t[i]
    BY <1>2, <2>1, <2>2
  <2>4. Total(s) = BoughtQty(ms, S)
    BY QtyIsTotal DEF s
  <2>5. Total(t) = BoughtQty(mv, S)
    BY QtyIsTotal DEF t
  <2>6. QED BY <2>2, <2>3, <2>4, <2>5
<1>6. QED BY <1>1, <1>3, <1>4, <1>5

-----------------------------------------------------------------------------

\* Every move in order, and the moves covered.
Good(ms) == (\A i \in DOMAIN ms : MoveOK(ms[i])) /\ Covered(ms)

LEMMA LargestUomType ==
  LargestUom \in Nat \ {0} /\ \A u \in Uoms : u \in Nat \ {0} /\ u <= LargestUom
BY MtsMtoAssumption DEF LargestUom

\* One move replaced by another that is open or not as before, for as much.
LEMMA ReserveKeepsQty ==
  \A ms \in Seq(StockMoves) : \A i \in DOMAIN ms : \A r \in Nat : IsOpen(ms[i]) =>
    LET mv == [ms EXCEPT ![i].reserved = r]
    IN  /\ mv \in Seq(StockMoves) /\ DOMAIN mv = DOMAIN ms
        /\ mv[i] = [ms[i] EXCEPT !.reserved = r]
        /\ \A k \in DOMAIN ms : k # i => mv[k] = ms[k]
        /\ OpenQty(mv) = OpenQty(ms)
        /\ ReservedQty(mv) = ReservedQty(ms) - ms[i].reserved + r
        /\ BoughtQty(mv, {"draft", "sure"}) = BoughtQty(ms, {"draft", "sure"})
<1> DEFINE S == {"draft", "sure"}
<1> SUFFICES ASSUME NEW ms \in Seq(StockMoves), NEW i \in DOMAIN ms, NEW r \in Nat,
                    IsOpen(ms[i])
             PROVE  LET mv == [ms EXCEPT ![i].reserved = r]
                    IN  /\ mv \in Seq(StockMoves) /\ DOMAIN mv = DOMAIN ms
                        /\ mv[i] = [ms[i] EXCEPT !.reserved = r]
                        /\ \A k \in DOMAIN ms : k # i => mv[k] = ms[k]
                        /\ OpenQty(mv) = OpenQty(ms)
                        /\ ReservedQty(mv) = ReservedQty(ms) - ms[i].reserved + r
                        /\ BoughtQty(mv, S) = BoughtQty(ms, S)
  OBVIOUS
<1> HIDE DEF S
<1> DEFINE v == [ms[i] EXCEPT !.reserved = r]
           mv == [ms EXCEPT ![i] = v]
<1>1. ms[i] \in StockMoves
  OBVIOUS
<1>2. /\ v \in StockMoves /\ v.qty = ms[i].qty /\ v.state = ms[i].state
      /\ v.purchase = ms[i].purchase /\ v.reserved = r
  BY <1>1 DEF StockMoves
<1>3. /\ mv \in Seq(StockMoves)
      /\ OpenQty(mv) = OpenQty(ms) - OpenPart(ms[i]) + OpenPart(v)
      /\ ReservedQty(mv) = ReservedQty(ms) - ReservedPart(ms[i]) + ReservedPart(v)
      /\ BoughtQty(mv, S) = BoughtQty(ms, S) - BoughtPart(ms[i], S) + BoughtPart(v, S)
  <2> HIDE DEF v
  <2> QED BY <1>2, QtyChange
<1>4. /\ OpenPart(v) = OpenPart(ms[i]) /\ BoughtPart(v, S) = BoughtPart(ms[i], S)
      /\ ReservedPart(v) = r /\ ReservedPart(ms[i]) = ms[i].reserved
  BY <1>2 DEF OpenPart, BoughtPart, ReservedPart, IsOpen
<1>5. /\ OpenQty(ms) \in Nat /\ ReservedQty(ms) \in Nat /\ BoughtQty(ms, S) \in Nat
      /\ OpenPart(ms[i]) \in Nat /\ BoughtPart(ms[i], S) \in Nat /\ ms[i].reserved \in Nat
  BY <1>1, QtyType, PartsAreNat DEF StockMoves
<1>6. /\ OpenQty(mv) = OpenQty(ms) /\ BoughtQty(mv, S) = BoughtQty(ms, S)
      /\ ReservedQty(mv) = ReservedQty(ms) - ms[i].reserved + r
  <2> HIDE DEF v, mv
  <2> QED BY <1>3, <1>4, <1>5
<1>7. /\ DOMAIN mv = DOMAIN ms /\ mv[i] = v
      /\ \A k \in DOMAIN ms : k # i => mv[k] = ms[k]
  OBVIOUS
<1>8. QED BY <1>3, <1>6, <1>7

\* What stands while moves are assigned.
Reserving(ms) ==
  {mv \in Seq(StockMoves) :
     /\ DOMAIN mv = DOMAIN ms
     /\ \A i \in DOMAIN mv : MoveOK(mv[i])
     /\ OpenQty(mv) = OpenQty(ms)
     /\ BoughtQty(mv, {"draft", "sure"}) = BoughtQty(ms, {"draft", "sure"})
     /\ ReservedQty(mv) <= inStock}

LEMMA AssignMoveReserves ==
  ASSUME NEW ms, inStock \in Nat, NEW mv \in Reserving(ms), NEW i \in DOMAIN mv
  PROVE  AssignMove(mv, i) \in Reserving(ms)
<1>1. CASE mv[i].state # "open" \/ mv[i].method = "mto"
  BY <1>1 DEF AssignMove
<1>2. CASE ~(mv[i].state # "open" \/ mv[i].method = "mto")
  <2> DEFINE v == mv[i]
             free == inStock - ReservedQty(mv)
             r == v.reserved + Least(free, v.qty - v.reserved)
             new == [mv EXCEPT ![i].reserved = r]
  <2>1. /\ mv \in Seq(StockMoves) /\ v \in StockMoves /\ MoveOK(v) /\ v.method = "mts"
        /\ IsOpen(v) /\ ReservedQty(mv) <= inStock
    <3>1. mv \in Seq(StockMoves) /\ MoveOK(v) /\ ReservedQty(mv) <= inStock
      BY DEF Reserving
    <3>2. v \in StockMoves
      BY <3>1
    <3>3. QED BY <1>2, <3>1, <3>2 DEF IsOpen, StockMoves
  <2>2. ReservedQty(mv) \in Nat /\ v.qty \in Nat /\ v.reserved \in Nat /\ v.reserved <= v.qty
    BY <2>1, QtyType DEF StockMoves, MoveOK
  <2>3. free \in Nat /\ v.qty - v.reserved \in Nat
    BY <2>1, <2>2
  <2>4. r \in Nat /\ r <= v.qty /\ r <= v.reserved + free
    <3> HIDE DEF free, v
    <3> QED BY <2>2, <2>3 DEF Least
  <2>5. /\ new \in Seq(StockMoves) /\ DOMAIN new = DOMAIN mv
        /\ new[i] = [v EXCEPT !.reserved = r]
        /\ \A k \in DOMAIN mv : k # i => new[k] = mv[k]
        /\ OpenQty(new) = OpenQty(mv)
        /\ ReservedQty(new) = ReservedQty(mv) - v.reserved + r
        /\ BoughtQty(new, {"draft", "sure"}) = BoughtQty(mv, {"draft", "sure"})
    <3> HIDE DEF r
    <3> QED BY <2>1, <2>4, ReserveKeepsQty
  <2>6. MoveOK(new[i])
    <3> HIDE DEF r, new
    <3> QED BY <2>1, <2>4, <2>5 DEF MoveOK, StockMoves
  <2>7. ReservedQty(new) <= inStock
    <3>1. ReservedQty(new) <= ReservedQty(mv) + free
      <4> HIDE DEF r, new, v, free
      <4> QED BY <2>2, <2>3, <2>4, <2>5
    <3>2. ReservedQty(new) \in Nat
      BY <2>5, QtyType
    <3> HIDE DEF new
    <3>3. QED BY <2>2, <3>1, <3>2
  <2>8. AssignMove(mv, i) = new
    BY <1>2 DEF AssignMove
  <2>9. new \in Reserving(ms)
    <3> HIDE DEF new
    <3> QED BY <2>5, <2>6, <2>7 DEF Reserving
  <2>10. QED BY <2>8, <2>9
<1>3. QED BY <1>1, <1>2

AssignOf(g, seen, i) == IF seen[i].group = g THEN AssignMove(seen, i) ELSE seen
Assigns == INSTANCE Folding_proofs WITH Op <- AssignOf

LEMMA AssignGroupIsFold ==
  \A ms, g : AssignGroup(ms, g) = Assigns!Fold(g, ms, [i \in 1..Len(ms) |-> i])
BY DEF AssignGroup, AssignOf, FoldLeft, MapThenFoldSet, Max,
       Assigns!Fold, Assigns!FoldLeft, Assigns!MapThenFoldSet, Assigns!Max

LEMMA AssignGroupReserves ==
  ASSUME inStock \in Nat, NEW ms \in Seq(StockMoves), NEW g,
         \A i \in DOMAIN ms : MoveOK(ms[i]), ReservedQty(ms) <= inStock
  PROVE  AssignGroup(ms, g) \in Reserving(ms)
<1> DEFINE A == Reserving(ms)
           n == Len(ms)
           s == [i \in 1..n |-> i]
<1>1. n \in Nat /\ DOMAIN ms = 1..n /\ DOMAIN s = 1..n /\ \A i \in 1..n : s[i] = i
  OBVIOUS
<1>2. ms \in A
  BY DEF Reserving
<1>3. ASSUME NEW a \in A, NEW k \in 1..n PROVE AssignOf(g, a, s[k]) \in A
  <2>1. DOMAIN a = 1..n
    BY <1>1 DEF Reserving
  <2> HIDE DEF A, n, s
  <2>2. AssignMove(a, k) \in A
    BY <2>1, AssignMoveReserves DEF A
  <2>3. QED BY <1>1, <2>2 DEF AssignOf
<1> HIDE DEF A, n, s
<1>4. Assigns!Fold(g, ms, s) \in A
  BY <1>1, <1>2, <1>3, Assigns!FoldStays
<1>5. QED BY <1>4, AssignGroupIsFold DEF A, n, s

LEMMA InUomBound ==
  \A V \in Int : \A u \in Nat \ {0} : InUom(V, u) \in Int /\ InUom(V, u) * u < V + u
<1> SUFFICES ASSUME NEW V \in Int, NEW u \in Nat \ {0}
             PROVE  InUom(V, u) \in Int /\ InUom(V, u) * u < V + u
  OBVIOUS
<1> DEFINE x == V + u - 1
           q == x \div u
<1>1. x \in Int /\ u \in Int /\ u > 0
  OBVIOUS
<1> HIDE DEF x
<1>2. q \in Int
  BY <1>1
<1>3. x = u * q + (x % u) /\ 0 <= x % u
  BY <1>1
<1>4. QED BY <1>1, <1>2, <1>3 DEF x, InUom

Procurements == [qty : Nat \ {0}, uom : Uoms, group : Groups \cup {NoGroup}]

LEMMA PullMoves ==
  \A ms \in Seq(StockMoves) : \A p \in Procurements : \A q \in Nat :
  \A method \in {"mts", "mto"} :
    (\A i \in DOMAIN ms : MoveOK(ms[i])) =>
      LET mv == Pull(ms, p, q, method)
      IN  /\ mv \in Seq(StockMoves)
          /\ \A i \in DOMAIN mv : MoveOK(mv[i])
          /\ OpenQty(mv) = OpenQty(ms) + q * p.uom
          /\ ReservedQty(mv) = ReservedQty(ms)
          /\ BoughtQty(mv, {"draft", "sure"})
               = BoughtQty(ms, {"draft", "sure"}) + (IF method = "mto" THEN q * p.uom ELSE 0)
<1> DEFINE S == {"draft", "sure"}
<1>0. "draft" \in S /\ "none" \notin S
  OBVIOUS
<1> SUFFICES ASSUME NEW ms \in Seq(StockMoves), NEW p \in Procurements, NEW q \in Nat,
                    NEW method \in {"mts", "mto"}, \A i \in DOMAIN ms : MoveOK(ms[i])
             PROVE  LET mv == Pull(ms, p, q, method)
                    IN  /\ mv \in Seq(StockMoves)
                        /\ \A i \in DOMAIN mv : MoveOK(mv[i])
                        /\ OpenQty(mv) = OpenQty(ms) + q * p.uom
                        /\ ReservedQty(mv) = ReservedQty(ms)
                        /\ BoughtQty(mv, S) = BoughtQty(ms, S)
                                                + (IF method = "mto" THEN q * p.uom ELSE 0)
  OBVIOUS
<1> HIDE DEF S
<1> DEFINE units == q * p.uom
           v == [method |-> method, qty |-> units, reserved |-> 0, group |-> p.group,
                 state |-> "open", purchase |-> IF method = "mto" THEN "draft" ELSE "none"]
           mv == Append(ms, v)
<1>1. units \in Nat
  <2>1. p.uom \in Nat
    BY LargestUomType DEF Procurements
  <2>2. QED BY <2>1
<1> HIDE DEF units
<1>2. v \in StockMoves /\ MoveOK(v)
  BY <1>1 DEF StockMoves, MoveOK, Procurements
<1>3. /\ OpenPart(v) = units /\ ReservedPart(v) = 0
      /\ BoughtPart(v, S) = IF method = "mto" THEN units ELSE 0
  BY <1>0 DEF OpenPart, ReservedPart, BoughtPart, IsOpen
<1>4. OpenQty(ms) \in Nat /\ ReservedQty(ms) \in Nat /\ BoughtQty(ms, S) \in Nat
  BY QtyType
<1>5. \A i \in DOMAIN mv : (i = Len(ms) + 1 /\ mv[i] = v) \/ (i \in DOMAIN ms /\ mv[i] = ms[i])
  <2> HIDE DEF v
  <2>1. /\ DOMAIN mv = 1..(Len(ms) + 1) /\ mv[Len(ms) + 1] = v /\ DOMAIN ms = 1..Len(ms)
        /\ \A i \in DOMAIN ms : mv[i] = ms[i]
    BY <1>2
  <2>2. Len(ms) \in Nat
    OBVIOUS
  <2> HIDE DEF mv
  <2>3. \A i \in DOMAIN mv : i = Len(ms) + 1 \/ i \in DOMAIN ms
    BY <2>1, <2>2
  <2> TAKE i \in DOMAIN mv
  <2>4. CASE i = Len(ms) + 1
    <3>1. mv[i] = v
      BY <2>1, <2>4
    <3>2. QED BY <2>4, <3>1, Zenon
  <2>5. CASE i \in DOMAIN ms
    BY <2>1, <2>5, Zenon
  <2> QED BY <2>3, <2>4, <2>5, Zenon
<1>6. \A i \in DOMAIN mv : MoveOK(mv[i])
  <2> HIDE DEF v, mv
  <2> QED BY <1>2, <1>5
<1>7. /\ mv \in Seq(StockMoves)
      /\ OpenQty(mv) = OpenQty(ms) + OpenPart(v)
      /\ ReservedQty(mv) = ReservedQty(ms) + ReservedPart(v)
      /\ BoughtQty(mv, S) = BoughtQty(ms, S) + BoughtPart(v, S)
  <2> HIDE DEF v
  <2> QED BY <1>2, QtyAppend
<1>8. mv = Pull(ms, p, q, method)
  BY DEF Pull, units
<1> HIDE DEF v, mv
<1>9. QED BY <1>3, <1>4, <1>6, <1>7, <1>8 DEF units

\* The procurements of one call are promised one after another.
LEMMA SplitOneGood ==
  ASSUME inStock \in Nat, NEW r, NEW p \in Procurements,
         r.moves \in Seq(StockMoves), Good(r.moves), r.raised = FALSE
  PROVE  SplitOne(r, p).moves \in Seq(StockMoves) /\ Good(SplitOne(r, p).moves)
<1> DEFINE ms == r.moves
           S == {"draft", "sure"}
           u == p.uom
           V == VirtualAvailable(ms)
           available == InUom(V, u)
           needed == MtoQtyToOrder(ms, p)
           fromStock == Pull(ms, p, p.qty - needed, "mts")
           both == needed \notin {0, p.qty}
           result == SplitOne(r, p).moves
<1>1. p.qty \in Nat \ {0} /\ u \in Nat \ {0} /\ u <= LargestUom /\ LargestUom \in Nat
  BY LargestUomType DEF Procurements
<1>2. OpenQty(ms) \in Nat /\ BoughtQty(ms, {"sure"}) \in Nat /\ BoughtQty(ms, S) \in Nat
  <2>1. \A T : OpenQty(ms) \in Nat /\ BoughtQty(ms, T) \in Nat
    BY QtyType
  <2>2. QED BY <2>1
<1>3. BoughtQty(ms, {"sure"}) <= BoughtQty(ms, S)
  <2>1. {"sure"} \subseteq S
    OBVIOUS
  <2> HIDE DEF S
  <2> QED BY <2>1, BoughtMore
<1>4. V \in Int /\ V <= inStock + BoughtQty(ms, S) - OpenQty(ms)
  BY <1>2, <1>3 DEF VirtualAvailable
<1>5. available \in Int /\ available * u < V + u
  <2> HIDE DEF V, u
  <2> QED BY <1>1, <1>4, InUomBound
<1>6. /\ \A i \in DOMAIN ms : MoveOK(ms[i])
      /\ inStock + BoughtQty(ms, S) - OpenQty(ms) > - LargestUom
      /\ ReservedQty(ms) <= inStock
  BY DEF Good, Covered, CoveredBy
<1>7. needed = IF available <= 0 THEN p.qty
               ELSE IF available >= p.qty THEN 0 ELSE p.qty - available
  BY DEF MtoQtyToOrder
<1>8. result = IF needed = 0 THEN fromStock
               ELSE Pull(IF both THEN AssignGroup(fromStock, p.group) ELSE ms, p, needed, "mto")
  BY DEF SplitOne
<1> HIDE DEF V, available, ms, needed, result
<1>9. ms \in Seq(StockMoves)
  BY DEF ms
<1>10. CASE available <= 0
  <2>1. needed = p.qty /\ result = Pull(ms, p, p.qty, "mto")
    BY <1>1, <1>7, <1>8, <1>10
  <2>2. /\ result \in Seq(StockMoves) /\ \A i \in DOMAIN result : MoveOK(result[i])
        /\ OpenQty(result) = OpenQty(ms) + p.qty * u
        /\ ReservedQty(result) = ReservedQty(ms)
        /\ BoughtQty(result, S) = BoughtQty(ms, S) + p.qty * u
    BY <1>1, <1>6, <1>9, <2>1, PullMoves
  <2>3. p.qty * u \in Nat
    BY <1>1
  <2>4. inStock + BoughtQty(result, S) - OpenQty(result) > - LargestUom
    <3> HIDE DEF u, S
    <3> QED BY <1>1, <1>2, <1>6, <2>2, <2>3
  <2>5. QED BY <1>6, <2>2, <2>4 DEF Good, Covered, CoveredBy, result
<1>11. CASE available > 0 /\ available >= p.qty
  <2>1. needed = 0 /\ result = Pull(ms, p, p.qty, "mts")
    BY <1>1, <1>5, <1>7, <1>8, <1>11
  <2>2. /\ result \in Seq(StockMoves) /\ \A i \in DOMAIN result : MoveOK(result[i])
        /\ OpenQty(result) = OpenQty(ms) + p.qty * u
        /\ ReservedQty(result) = ReservedQty(ms)
        /\ BoughtQty(result, S) = BoughtQty(ms, S) + 0
    BY <1>1, <1>6, <1>9, <2>1, PullMoves
  <2>3. p.qty * u \in Nat /\ p.qty * u <= available * u /\ available * u \in Int
    BY <1>1, <1>5, <1>11
  <2>4. inStock + BoughtQty(result, S) - OpenQty(result) > - LargestUom
    <3> DEFINE w == p.qty * u
               x == available * u
    <3>1. w \in Nat /\ x \in Int /\ w <= x /\ x < V + u
      BY <2>3, <1>5
    <3>2. OpenQty(result) = OpenQty(ms) + w /\ BoughtQty(result, S) = BoughtQty(ms, S)
      BY <2>2, <1>2
    <3> HIDE DEF u, S, w, x
    <3> QED BY <1>1, <1>2, <1>4, <3>1, <3>2
  <2>5. QED BY <1>6, <2>2, <2>4 DEF Good, Covered, CoveredBy, result
<1>12. CASE available > 0 /\ available < p.qty
  <2>1. needed = p.qty - available /\ both /\ needed # 0 /\ needed \in Nat
        /\ p.qty - needed = available /\ available \in Nat
    BY <1>1, <1>5, <1>7, <1>12
  <2> DEFINE assigned == AssignGroup(fromStock, p.group)
  <2>2. result = Pull(assigned, p, needed, "mto")
    BY <1>8, <2>1
  <2>3. /\ fromStock \in Seq(StockMoves) /\ \A i \in DOMAIN fromStock : MoveOK(fromStock[i])
        /\ OpenQty(fromStock) = OpenQty(ms) + available * u
        /\ ReservedQty(fromStock) = ReservedQty(ms)
        /\ BoughtQty(fromStock, S) = BoughtQty(ms, S) + 0
    <3>1. fromStock = Pull(ms, p, available, "mts")
      BY <2>1
    <3> HIDE DEF fromStock
    <3> QED BY <1>6, <1>9, <2>1, <3>1, PullMoves
  <2>4. assigned \in Reserving(fromStock)
    <3> HIDE DEF fromStock
    <3> QED BY <1>6, <2>3, AssignGroupReserves
  <2>5. /\ assigned \in Seq(StockMoves) /\ \A i \in DOMAIN assigned : MoveOK(assigned[i])
        /\ OpenQty(assigned) = OpenQty(fromStock)
        /\ BoughtQty(assigned, S) = BoughtQty(fromStock, S)
        /\ ReservedQty(assigned) <= inStock
    BY <2>4 DEF Reserving
  <2> HIDE DEF assigned, fromStock
  <2>6. /\ result \in Seq(StockMoves) /\ \A i \in DOMAIN result : MoveOK(result[i])
        /\ OpenQty(result) = OpenQty(assigned) + needed * u
        /\ ReservedQty(result) = ReservedQty(assigned)
        /\ BoughtQty(result, S) = BoughtQty(assigned, S) + needed * u
    BY <2>1, <2>2, <2>5, PullMoves
  <2>7. inStock + BoughtQty(result, S) - OpenQty(result) > - LargestUom
    <3> DEFINE w == needed * u
               x == available * u
    <3>1. w \in Nat /\ x \in Int /\ x < V + u
      <4>1. w \in Nat
        BY <1>1, <2>1
      <4>2. x \in Int
        BY <1>1, <1>5
      <4> QED BY <1>5, <4>1, <4>2
    <3>2. OpenQty(result) = OpenQty(ms) + x + w /\ BoughtQty(result, S) = BoughtQty(ms, S) + w
      BY <2>3, <2>5, <2>6, <1>2
    <3> HIDE DEF u, S, w, x
    <3> QED BY <1>1, <1>2, <1>4, <3>1, <3>2
  <2>8. QED BY <2>5, <2>6, <2>7 DEF Good, Covered, CoveredBy, result
<1>13. QED BY <1>1, <1>5, <1>10, <1>11, <1>12

SplitStep(c, run, p) == SplitOne(run, p)
Splits == INSTANCE Folding_proofs WITH Op <- SplitStep

LEMMA SplitIsFold ==
  \A base, s : FoldLeft(SplitOne, base, s) = Splits!Fold(0, base, s)
BY DEF SplitStep, FoldLeft, MapThenFoldSet, Max,
       Splits!Fold, Splits!FoldLeft, Splits!MapThenFoldSet, Splits!Max

LEMMA RunsGood ==
  ASSUME SplitInv, NEW procurements \in Calls
  PROVE  LET run == FoldLeft(SplitOne, [raised |-> FALSE, moves |-> moves], procurements)
         IN  run.moves \in Seq(StockMoves) /\ Good(run.moves)
<1> DEFINE A == {r \in [raised : BOOLEAN, moves : Seq(StockMoves)] : Good(r.moves)}
           base == [raised |-> FALSE, moves |-> moves]
           n == Len(procurements)
<1>1. /\ n \in Nat /\ DOMAIN procurements = 1..n
      /\ \A k \in 1..n : procurements[k] \in Procurements
  <2>1. procurements \in Seq(Procurements)
    BY MtsMtoAssumption DEF Procurements
  <2>2. QED BY <2>1
<1>2. base \in A /\ inStock \in Nat
  BY DEF SplitInv, MtsMtoTypeOK, Good
<1>3. ASSUME NEW a \in A, NEW k \in 1..n PROVE SplitStep(0, a, procurements[k]) \in A
  <2> DEFINE p == procurements[k]
             split == SplitOne(a, p)
  <2>1. p \in Procurements /\ a.raised \in BOOLEAN
    BY <1>1
  <2> HIDE DEF p
  <2>2. CASE a.raised
    BY <2>2 DEF SplitOne, SplitStep
  <2>3. CASE ~a.raised
    <3>1. split.moves \in Seq(StockMoves) /\ Good(split.moves)
      <4>1. a.moves \in Seq(StockMoves) /\ Good(a.moves) /\ a.raised = FALSE
        BY <2>1, <2>3
      <4>2. QED BY <1>2, <2>1, <4>1, SplitOneGood
    <3>2. split = [raised |-> split.raised, moves |-> split.moves] /\ split.raised \in BOOLEAN
      BY <2>3 DEF SplitOne
    <3> HIDE DEF split
    <3>3. split \in A
      BY <3>1, <3>2
    <3>4. QED BY <3>3 DEF split, SplitStep, p
  <2>4. QED BY <2>1, <2>2, <2>3
<1> HIDE DEF A, base, n
<1>4. Splits!Fold(0, base, procurements) \in A
  BY <1>1, <1>2, <1>3, Splits!FoldStays
<1>5. QED BY <1>4, SplitIsFold DEF A, base

-----------------------------------------------------------------------------

LEMMA SplitInitInv == SplitInit => SplitInv
<1> SUFFICES ASSUME SplitInit PROVE SplitInv
  OBVIOUS
<1>1. moves = <<>> /\ inStock \in Nat /\ moves \in Seq(StockMoves) /\ DOMAIN moves = {}
  BY MtsMtoAssumption DEF SplitInit
<1>2. OpenQty(moves) = 0 /\ ReservedQty(moves) = 0 /\ BoughtQty(moves, {"draft", "sure"}) = 0
  <2>1. /\ [i \in DOMAIN moves |-> OpenPart(moves[i])] = <<>>
        /\ [i \in DOMAIN moves |-> ReservedPart(moves[i])] = <<>>
        /\ [i \in DOMAIN moves |-> BoughtPart(moves[i], {"draft", "sure"})] = <<>>
    BY <1>1
  <2>2. /\ OpenQty(moves) = Total([i \in DOMAIN moves |-> OpenPart(moves[i])])
        /\ ReservedQty(moves) = Total([i \in DOMAIN moves |-> ReservedPart(moves[i])])
        /\ \A S : BoughtQty(moves, S) = Total([i \in DOMAIN moves |-> BoughtPart(moves[i], S)])
    BY QtyIsTotal
  <2>3. QED BY <2>1, <2>2, TotalEmpty
<1>3. LargestUom \in Nat \ {0}
  BY LargestUomType
<1>4. QED BY <1>1, <1>2, <1>3 DEF SplitInv, MtsMtoTypeOK, Covered, CoveredBy

LEMMA PartsOfMoves ==
  \A v \in StockMoves : /\ OpenPart(v) \in Nat /\ ReservedPart(v) \in Nat
                       /\ BoughtPart(v, {"draft", "sure"}) \in Nat
BY PartsAreNat

\* One move replaced, and what is in stock with it.
LEMMA ChangeKeepsCovered ==
  ASSUME NEW ms \in Seq(StockMoves), NEW i \in DOMAIN ms, NEW v \in StockMoves,
         NEW before \in Nat, NEW after \in Int, CoveredBy(before, ms), NEW mv,
         mv = [ms EXCEPT ![i] = v],
         after + BoughtPart(v, {"draft", "sure"}) - OpenPart(v)
           >= before + BoughtPart(ms[i], {"draft", "sure"}) - OpenPart(ms[i]),
         after - ReservedPart(v) >= before - ReservedPart(ms[i])
  PROVE  mv \in Seq(StockMoves) /\ CoveredBy(after, mv) /\ after \in Nat
<1> DEFINE S == {"draft", "sure"}
<1>1. ms[i] \in StockMoves
  OBVIOUS
<1>2. /\ OpenPart(v) \in Nat /\ ReservedPart(v) \in Nat /\ BoughtPart(v, S) \in Nat
      /\ OpenPart(ms[i]) \in Nat /\ ReservedPart(ms[i]) \in Nat /\ BoughtPart(ms[i], S) \in Nat
  BY <1>1, PartsOfMoves
<1>3. /\ mv \in Seq(StockMoves)
      /\ OpenQty(mv) = OpenQty(ms) - OpenPart(ms[i]) + OpenPart(v)
      /\ ReservedQty(mv) = ReservedQty(ms) - ReservedPart(ms[i]) + ReservedPart(v)
      /\ BoughtQty(mv, S) = BoughtQty(ms, S) - BoughtPart(ms[i], S) + BoughtPart(v, S)
  <2> HIDE DEF S
  <2> QED BY QtyChange, Zenon
<1>4. /\ OpenQty(ms) \in Nat /\ ReservedQty(ms) \in Nat /\ BoughtQty(ms, S) \in Nat
  <2> HIDE DEF S
  <2> QED BY QtyType
<1>5. ReservedQty(mv) \in Nat
  BY <1>3, QtyType
<1>6. LargestUom \in Nat
  BY LargestUomType
<1> DEFINE o == OpenPart(ms[i])  b == BoughtPart(ms[i], S)  r == ReservedPart(ms[i])
           ov == OpenPart(v)  bv == BoughtPart(v, S)  rv == ReservedPart(v)
           os == OpenQty(ms)  bs == BoughtQty(ms, S)  rs == ReservedQty(ms)
           largest == LargestUom
<1>7. /\ before + bs - os > - largest /\ rs <= before
      /\ after + bv - ov >= before + b - o /\ after - rv >= before - r
      /\ o \in Nat /\ b \in Nat /\ r \in Nat /\ ov \in Nat /\ bv \in Nat /\ rv \in Nat
      /\ os \in Nat /\ bs \in Nat /\ rs \in Nat /\ largest \in Nat
  BY <1>2, <1>4, <1>6 DEF CoveredBy
<1>8. ReservedQty(mv) <= after
  <2>1. ReservedQty(mv) = rs - r + rv
    BY <1>3
  <2> HIDE DEF o, b, r, ov, bv, rv, os, bs, rs, largest
  <2>2. rs - r + rv <= after
    BY ONLY <1>7, before \in Nat, after \in Int
  <2>3. QED BY ONLY <2>1, <2>2
<1>9. after + BoughtQty(mv, S) - OpenQty(mv) > - LargestUom
  <2>1. BoughtQty(mv, S) = bs - b + bv /\ OpenQty(mv) = os - o + ov
    BY <1>3
  <2> HIDE DEF o, b, r, ov, bv, rv, os, bs, rs, largest
  <2>2. after + (bs - b + bv) - (os - o + ov) > - largest
    BY ONLY <1>7, before \in Nat, after \in Int
  <2>3. QED BY ONLY <2>1, <2>2 DEF largest
<1>10. QED BY <1>3, <1>5, <1>8, <1>9 DEF CoveredBy, S

LEMMA ChangeOne ==
  ASSUME SplitInv, NEW i \in DOMAIN moves, NEW v \in StockMoves, MoveOK(v),
         moves' = [moves EXCEPT ![i] = v], inStock' \in Int,
         inStock' + BoughtPart(v, {"draft", "sure"}) - OpenPart(v)
           >= inStock + BoughtPart(moves[i], {"draft", "sure"}) - OpenPart(moves[i]),
         inStock' - ReservedPart(v) >= inStock - ReservedPart(moves[i])
  PROVE  SplitInv'
<1>1. /\ moves \in Seq(StockMoves) /\ inStock \in Nat /\ CoveredBy(inStock, moves)
      /\ \A k \in DOMAIN moves : MoveOK(moves[k])
  BY DEF SplitInv, MtsMtoTypeOK, Covered
<1>2. moves' \in Seq(StockMoves) /\ CoveredBy(inStock', moves') /\ inStock' \in Nat
  BY <1>1, ChangeKeepsCovered
<1>3. \A k \in DOMAIN moves' : MoveOK(moves'[k])
  BY <1>1
<1>4. QED BY <1>2, <1>3 DEF SplitInv, MtsMtoTypeOK, Covered

LEMMA SplitNextInv == SplitInv /\ [SplitNext]_splitVars => SplitInv'
<1> SUFFICES ASSUME SplitInv, [SplitNext]_splitVars PROVE SplitInv'
  OBVIOUS
<1> USE DEF SplitInv
<1>0. inStock \in Nat /\ moves \in Seq(StockMoves) /\ \A i \in DOMAIN moves : MoveOK(moves[i])
  BY DEF MtsMtoTypeOK
<1>1. ASSUME NEW procurements \in Calls, RunSplitProcurement(procurements) PROVE SplitInv'
  <2>1. moves' \in Seq(StockMoves) /\ Good(moves') /\ inStock' = inStock
    BY <1>1, RunsGood DEF RunSplitProcurement
  <2>2. QED BY <2>1, <1>0 DEF Good, Covered, CoveredBy, MtsMtoTypeOK
<1>2. ASSUME NEW i \in DOMAIN moves, CheckAvailability(i) PROVE SplitInv'
  <2>1. moves \in Reserving(moves)
    BY <1>0 DEF Reserving, Covered, CoveredBy
  <2>2. moves' \in Reserving(moves) /\ inStock' = inStock
    BY <1>0, <1>2, <2>1, AssignMoveReserves DEF CheckAvailability
  <2>3. QED BY <1>0, <2>2 DEF Reserving, Covered, CoveredBy, MtsMtoTypeOK
<1>3. ASSUME NEW i \in DOMAIN moves PROVE moves[i] \in StockMoves /\ MoveOK(moves[i])
  BY <1>0
<1> HIDE DEF SplitInv
<1>4. ASSUME NEW i \in DOMAIN moves, ConfirmPurchase(i) PROVE SplitInv'
  <2> DEFINE v == [moves[i] EXCEPT !.purchase = "sure"]
  <2>1. v \in StockMoves /\ MoveOK(v) /\ moves' = [moves EXCEPT ![i] = v]
    BY <1>3, <1>4 DEF ConfirmPurchase, StockMoves, MoveOK
  <2>2. /\ BoughtPart(v, {"draft", "sure"}) = BoughtPart(moves[i], {"draft", "sure"})
        /\ OpenPart(v) = OpenPart(moves[i]) /\ ReservedPart(v) = ReservedPart(moves[i])
    BY <1>3, <1>4 DEF ConfirmPurchase, StockMoves, BoughtPart, OpenPart, ReservedPart, IsOpen
  <2>3. inStock' = inStock
    BY <1>4 DEF ConfirmPurchase
  <2> HIDE DEF v
  <2>5. /\ inStock' \in Int
        /\ inStock' + BoughtPart(v, {"draft", "sure"}) - OpenPart(v)
             >= inStock + BoughtPart(moves[i], {"draft", "sure"}) - OpenPart(moves[i])
        /\ inStock' - ReservedPart(v) >= inStock - ReservedPart(moves[i])
    <3>1. /\ OpenPart(moves[i]) \in Nat /\ ReservedPart(moves[i]) \in Nat
          /\ BoughtPart(moves[i], {"draft", "sure"}) \in Nat
          /\ OpenPart(v) \in Nat /\ ReservedPart(v) \in Nat
      BY <1>3, <2>1, PartsOfMoves
    <3>2. QED BY <1>0, <1>3, <2>2, <2>3, <3>1
  <2>6. QED BY <1>3, <2>1, <2>5, ChangeOne
<1>5. ASSUME NEW i \in DOMAIN moves, ReceivePurchase(i) PROVE SplitInv'
  <2> DEFINE v == [moves[i] EXCEPT !.purchase = "done",
                                   !.reserved = IF IsOpen(moves[i]) THEN moves[i].qty ELSE 0]
  <2>1. v \in StockMoves /\ MoveOK(v) /\ moves' = [moves EXCEPT ![i] = v]
    <3>1. v \in StockMoves
      BY <1>3, <1>5 DEF ReceivePurchase, StockMoves
    <3>2. MoveOK(v)
      BY <1>3, <1>5 DEF ReceivePurchase, StockMoves, MoveOK
    <3>3. moves' = [moves EXCEPT ![i] = v]
      BY <1>5 DEF ReceivePurchase
    <3>4. QED BY <3>1, <3>2, <3>3
  <2>2. /\ BoughtPart(v, {"draft", "sure"}) = 0
        /\ BoughtPart(moves[i], {"draft", "sure"}) = moves[i].qty
        /\ OpenPart(v) = OpenPart(moves[i])
    BY <1>3, <1>5 DEF ReceivePurchase, StockMoves, BoughtPart, OpenPart, IsOpen
  <2>3. ReservedPart(moves[i]) = 0 /\ ReservedPart(v) <= moves[i].qty /\ moves[i].qty \in Nat
    BY <1>3, <1>5 DEF ReceivePurchase, StockMoves, ReservedPart, IsOpen, MoveOK
  <2>4. inStock' = inStock + moves[i].qty
    BY <1>5 DEF ReceivePurchase
  <2> HIDE DEF v
  <2>5. /\ inStock' \in Int
        /\ inStock' + BoughtPart(v, {"draft", "sure"}) - OpenPart(v)
             >= inStock + BoughtPart(moves[i], {"draft", "sure"}) - OpenPart(moves[i])
        /\ inStock' - ReservedPart(v) >= inStock - ReservedPart(moves[i])
    <3>1. /\ OpenPart(moves[i]) \in Nat /\ ReservedPart(moves[i]) \in Nat
          /\ BoughtPart(moves[i], {"draft", "sure"}) \in Nat
          /\ OpenPart(v) \in Nat /\ ReservedPart(v) \in Nat
      BY <1>3, <2>1, PartsOfMoves
    <3>2. QED BY <1>0, <1>3, <2>2, <2>3, <2>4, <3>1
  <2>6. QED BY <1>3, <2>1, <2>5, ChangeOne
<1>6. ASSUME NEW i \in DOMAIN moves, DeliverMove(i) PROVE SplitInv'
  <2> DEFINE v == [moves[i] EXCEPT !.state = "done", !.reserved = 0]
  <2>1. v \in StockMoves /\ MoveOK(v) /\ moves' = [moves EXCEPT ![i] = v]
    <3>1. v \in StockMoves
      BY <1>3, <1>6 DEF DeliverMove, StockMoves
    <3>2. MoveOK(v)
      BY <1>3, <1>6 DEF DeliverMove, StockMoves, MoveOK
    <3>3. moves' = [moves EXCEPT ![i] = v]
      BY <1>6 DEF DeliverMove
    <3>4. QED BY <3>1, <3>2, <3>3
  <2>2. /\ BoughtPart(v, {"draft", "sure"}) = BoughtPart(moves[i], {"draft", "sure"})
        /\ OpenPart(v) = 0 /\ OpenPart(moves[i]) = moves[i].qty
        /\ ReservedPart(v) = 0 /\ ReservedPart(moves[i]) = moves[i].qty
    BY <1>3, <1>6 DEF DeliverMove, StockMoves, BoughtPart, OpenPart, ReservedPart, IsOpen
  <2>3. inStock' = inStock - moves[i].qty /\ moves[i].qty \in Nat
    BY <1>3, <1>6 DEF DeliverMove, StockMoves
  <2> HIDE DEF v
  <2>5. /\ inStock' \in Int
        /\ inStock' + BoughtPart(v, {"draft", "sure"}) - OpenPart(v)
             >= inStock + BoughtPart(moves[i], {"draft", "sure"}) - OpenPart(moves[i])
        /\ inStock' - ReservedPart(v) >= inStock - ReservedPart(moves[i])
    <3>1. /\ OpenPart(moves[i]) \in Nat /\ ReservedPart(moves[i]) \in Nat
          /\ BoughtPart(moves[i], {"draft", "sure"}) \in Nat
          /\ OpenPart(v) \in Nat /\ ReservedPart(v) \in Nat
      BY <1>3, <2>1, PartsOfMoves
    <3>2. QED BY <1>0, <1>3, <2>2, <2>3, <3>1
  <2>6. QED BY <1>3, <2>1, <2>5, ChangeOne
<1>7. ASSUME NEW i \in DOMAIN moves, CancelMove(i) PROVE SplitInv'
  <2> DEFINE v == [moves[i] EXCEPT !.state = "cancel", !.reserved = 0]
  <2>1. v \in StockMoves /\ MoveOK(v) /\ moves' = [moves EXCEPT ![i] = v]
    <3>1. v \in StockMoves
      BY <1>3, <1>7 DEF CancelMove, StockMoves
    <3>2. MoveOK(v)
      BY <1>3, <1>7 DEF CancelMove, StockMoves, MoveOK
    <3>3. moves' = [moves EXCEPT ![i] = v]
      BY <1>7 DEF CancelMove
    <3>4. QED BY <3>1, <3>2, <3>3
  <2>2. /\ BoughtPart(v, {"draft", "sure"}) = BoughtPart(moves[i], {"draft", "sure"})
        /\ OpenPart(v) = 0 /\ ReservedPart(v) = 0
    BY <1>3, <1>7 DEF CancelMove, StockMoves, BoughtPart, OpenPart, ReservedPart, IsOpen
  <2>3. inStock' = inStock
    BY <1>7 DEF CancelMove
  <2>4. OpenPart(moves[i]) \in Nat /\ ReservedPart(moves[i]) \in Nat
        /\ BoughtPart(moves[i], {"draft", "sure"}) \in Nat
    BY <1>3, PartsAreNat
  <2> HIDE DEF v
  <2>5. /\ inStock' \in Int
        /\ inStock' + BoughtPart(v, {"draft", "sure"}) - OpenPart(v)
             >= inStock + BoughtPart(moves[i], {"draft", "sure"}) - OpenPart(moves[i])
        /\ inStock' - ReservedPart(v) >= inStock - ReservedPart(moves[i])
    <3>1. /\ OpenPart(moves[i]) \in Nat /\ ReservedPart(moves[i]) \in Nat
          /\ BoughtPart(moves[i], {"draft", "sure"}) \in Nat
          /\ OpenPart(v) \in Nat /\ ReservedPart(v) \in Nat
      BY <1>3, <2>1, PartsOfMoves
    <3>2. QED BY <1>0, <1>3, <2>2, <2>3, <3>1
  <2>6. QED BY <1>3, <2>1, <2>5, ChangeOne
<1>8. CASE UNCHANGED splitVars
  BY <1>8 DEF splitVars, SplitInv, MtsMtoTypeOK, Covered
<1>9. QED BY <1>1, <1>2, <1>4, <1>5, <1>6, <1>7, <1>8 DEF SplitNext

\* Each step keeps what is open covered.
LEMMA SplitAlways == SplitSpec => []SplitInv
<1>1. SplitInit => SplitInv
  BY SplitInitInv
<1>2. SplitInv /\ [SplitNext]_splitVars => SplitInv'
  BY SplitNextInv
<1>3. QED BY <1>1, <1>2, PTL DEF SplitSpec

\* Moves and stock keep their types: no quantity in stock, moved or reserved
\* falls below zero (stock_rule.py:45-113).
THEOREM MovesAreTyped == SplitSpec => []MtsMtoTypeOK
<1>1. SplitInv => MtsMtoTypeOK
  BY DEF SplitInv
<1>2. QED BY <1>1, SplitAlways, PTL

\* However procurements are split between stock and purchases, delivered,
\* received, cancelled and assigned, the same units are never promised twice,
\* but for what _compute_quantity rounds up; and no more is reserved than there
\* is (stock_rule.py:45-62 in the loop of 68-113).
THEOREM PromisedOnceHolds == SplitSpec => []PromisedOnce
<1>1. SplitInv => PromisedOnce
  BY DEF SplitInv, Covered, CoveredBy, PromisedOnce, LargestUom
<1>2. QED BY <1>1, SplitAlways, PTL

-----------------------------------------------------------------------------
(* Invoices of deliveries                                                  *)

PickingType == [kind : {"out", "in"}, demand : [OrderLines -> Nat],
                done : [OrderLines -> Nat], form : Forms]
InvoiceType == [picking : Nat, sign : {1, -1}, qty : [OrderLines -> Nat], form : Forms]

LEMMA Opposite == \A x \in Int : -x = 0 - x
OBVIOUS

LEMMA MovedCharged ==
  \A l \in OrderLines : /\ \A p \in PickingType : Moved(p, l) \in Int
                        /\ \A v \in InvoiceType : Charged(v, l) \in Int
BY DEF Moved, Charged, PickingType, InvoiceType

LEMMA QtysAreTotals ==
  ASSUME NEW P, NEW I, NEW l
  PROVE  /\ QtyDelivered(P, l) = Total([k \in DOMAIN P |-> Moved(P[k], l)])
         /\ QtyInvoiced(I, l) = Total([i \in DOMAIN I |-> Charged(I[i], l)])
BY DEF QtyDelivered, QtyInvoiced, Total

LEMMA DeliveredTotals ==
  ASSUME NEW P \in Seq(PickingType), NEW l \in OrderLines
  PROVE  /\ [k \in DOMAIN P |-> Moved(P[k], l)] \in [1..Len(P) -> Int]
         /\ QtyDelivered(P, l) \in Int
<1> DEFINE s == [k \in DOMAIN P |-> Moved(P[k], l)]
<1>1. Len(P) \in Nat /\ DOMAIN P = 1..Len(P) /\ \A k \in DOMAIN P : P[k] \in PickingType
  OBVIOUS
<1>2. s \in [1..Len(P) -> Int]
  BY <1>1, MovedCharged
<1> HIDE DEF s
<1>3. Total(s) \in Int
  BY <1>1, <1>2, TotalType
<1>4. QED BY <1>2, <1>3, QtysAreTotals DEF s

LEMMA InvoicedTotals ==
  ASSUME NEW I \in Seq(InvoiceType), NEW l \in OrderLines
  PROVE  /\ [i \in DOMAIN I |-> Charged(I[i], l)] \in [1..Len(I) -> Int]
         /\ QtyInvoiced(I, l) \in Int
<1> DEFINE s == [i \in DOMAIN I |-> Charged(I[i], l)]
<1>1. Len(I) \in Nat /\ DOMAIN I = 1..Len(I) /\ \A k \in DOMAIN I : I[k] \in InvoiceType
  OBVIOUS
<1>2. s \in [1..Len(I) -> Int]
  BY <1>1, MovedCharged
<1> HIDE DEF s
<1>3. Total(s) \in Int
  BY <1>1, <1>2, TotalType
<1>4. QED BY <1>2, <1>3, QtysAreTotals DEF s

\* A sequence and one element more.
LEMMA OneMore ==
  \A X : \A s \in Seq(X) : \A v \in X :
    LET t == Append(s, v)
    IN  /\ t \in Seq(X) /\ Len(s) \in Nat /\ Len(t) = Len(s) + 1
        /\ DOMAIN s = 1..Len(s) /\ DOMAIN t = 1..(Len(s) + 1)
        /\ t[Len(s) + 1] = v /\ \A i \in DOMAIN s : t[i] = s[i]
        /\ \A i \in DOMAIN t : i = Len(s) + 1 \/ i \in DOMAIN s
OBVIOUS

LEMMA InvoicedMore ==
  ASSUME NEW I \in Seq(InvoiceType), NEW v \in InvoiceType, NEW l \in OrderLines
  PROVE  QtyInvoiced(Append(I, v), l) = QtyInvoiced(I, l) + Charged(v, l)
<1> DEFINE J == Append(I, v)
           n == Len(I)
           s == [i \in DOMAIN I |-> Charged(I[i], l)]
           t == [i \in DOMAIN J |-> Charged(J[i], l)]
<1>1. /\ n \in Nat /\ DOMAIN I = 1..n /\ DOMAIN J = 1..(n + 1) /\ J[n + 1] = v
      /\ \A i \in 1..n : J[i] = I[i]
  BY OneMore
<1>2. s \in [1..n -> Int] /\ Charged(v, l) \in Int
  BY InvoicedTotals, MovedCharged
<1> HIDE DEF n, J
<1>3. t = [i \in 1..(n + 1) |-> IF i = n + 1 THEN Charged(v, l) ELSE s[i]]
  BY <1>1
<1>4. t \in [1..(n + 1) -> Int] /\ t[n + 1] = Charged(v, l) /\ \A i \in 1..n : t[i] = s[i]
  BY <1>1, <1>2, <1>3
<1> HIDE DEF s, t
<1>5. \A u \in [1..(n + 1) -> Int] :
        (\A i \in 1..n : u[i] = s[i]) => Total(u) = Total(s) + u[n + 1]
  BY <1>1, <1>2, TotalMore
<1>6. Total(t) = Total(s) + Charged(v, l)
  BY <1>4, <1>5
<1>7. QED BY <1>6, QtysAreTotals DEF s, t, J

LEMMA DeliveredMore ==
  ASSUME NEW P \in Seq(PickingType), NEW v \in PickingType, NEW l \in OrderLines
  PROVE  QtyDelivered(Append(P, v), l) = QtyDelivered(P, l) + Moved(v, l)
<1> DEFINE J == Append(P, v)
           n == Len(P)
           s == [i \in DOMAIN P |-> Moved(P[i], l)]
           t == [i \in DOMAIN J |-> Moved(J[i], l)]
<1>1. /\ n \in Nat /\ DOMAIN P = 1..n /\ DOMAIN J = 1..(n + 1) /\ J[n + 1] = v
      /\ \A i \in 1..n : J[i] = P[i]
  BY OneMore
<1>2. s \in [1..n -> Int] /\ Moved(v, l) \in Int
  BY DeliveredTotals, MovedCharged
<1> HIDE DEF n, J
<1>3. t = [i \in 1..(n + 1) |-> IF i = n + 1 THEN Moved(v, l) ELSE s[i]]
  BY <1>1
<1>4. t \in [1..(n + 1) -> Int] /\ t[n + 1] = Moved(v, l) /\ \A i \in 1..n : t[i] = s[i]
  BY <1>1, <1>2, <1>3
<1> HIDE DEF s, t
<1>5. \A u \in [1..(n + 1) -> Int] :
        (\A i \in 1..n : u[i] = s[i]) => Total(u) = Total(s) + u[n + 1]
  BY <1>1, <1>2, TotalMore
<1>6. Total(t) = Total(s) + Moved(v, l)
  BY <1>4, <1>5
<1>7. QED BY <1>6, QtysAreTotals DEF s, t, J

LEMMA DeliveredChanges ==
  ASSUME NEW P \in Seq(PickingType), NEW k \in DOMAIN P, NEW v \in PickingType,
         NEW l \in OrderLines
  PROVE  QtyDelivered([P EXCEPT ![k] = v], l) = QtyDelivered(P, l) - Moved(P[k], l) + Moved(v, l)
<1> DEFINE J == [P EXCEPT ![k] = v]
           n == Len(P)
           s == [i \in DOMAIN P |-> Moved(P[i], l)]
           t == [i \in DOMAIN J |-> Moved(J[i], l)]
<1>1. /\ n \in Nat /\ DOMAIN P = 1..n /\ DOMAIN J = 1..n /\ J[k] = v /\ Len(J) = n
      /\ J \in Seq(PickingType) /\ \A i \in 1..n : i # k => J[i] = P[i]
  OBVIOUS
<1> HIDE DEF J
<1>2. s \in [1..n -> Int]
  BY DeliveredTotals
<1>3. t \in [1..n -> Int]
  BY <1>1, DeliveredTotals
<1> HIDE DEF n
<1>4. k \in 1..n /\ s[k] = Moved(P[k], l) /\ t[k] = Moved(v, l)
      /\ \A i \in 1..n : i # k => s[i] = t[i]
  BY <1>1
<1> HIDE DEF s, t
<1>5. \A i \in 1..n : (\A j \in 1..n : j # i => s[j] = t[j]) => Total(t) = Total(s) - s[i] + t[i]
  BY <1>1, <1>2, <1>3, TotalChanges
<1>6. Total(t) = Total(s) - s[k] + t[k]
  BY <1>4, <1>5
<1>7. QED BY <1>4, <1>6, QtysAreTotals DEF s, t, J

\* The status of an order of which something was moved and not yet invoiced.
Alike == \A l, m \in OrderLines : policy[l] = policy[m]

LEMMA StatusOfMoved ==
  ASSUME NEW P, NEW I, NEW done \in [OrderLines -> Nat], done # Open, Alike,
         policy \in [OrderLines -> {"order", "delivery"}],
         \A l \in OrderLines : QtyInvoiced(I, l) \in Int
  PROVE  /\ (\A l \in OrderLines : QtyDelivered(P, l) = QtyInvoiced(I, l) + done[l])
              => Invoices(P, I)
         /\ (\A l \in OrderLines : QtyDelivered(P, l) = QtyInvoiced(I, l) - done[l])
              => InvoiceStatus(P, I) \in {"to invoice", "invoiced"}
<1>1. PICK l \in OrderLines : done[l] # 0
  BY DEF Open, Zeros
<1>2. done[l] \in Nat \ {0} /\ \A m \in OrderLines : Ordered[m] \in Nat /\ done[m] \in Nat
  BY <1>1, DeliveriesAssumption
<1> DEFINE S == {LineStatus(P, I, m) : m \in OrderLines}
<1>3. CASE "to invoice" \in S
  BY <1>3 DEF InvoiceStatus, Invoices
<1>4. CASE "to invoice" \notin S
  <2>1. \A m \in OrderLines : QtyToInvoice(P, I, m) = 0
    <3>1. ASSUME NEW m \in OrderLines, QtyToInvoice(P, I, m) # 0 PROVE FALSE
      <4>1. LineStatus(P, I, m) = "to invoice"
        BY <3>1 DEF LineStatus
      <4>2. QED BY <1>4, <4>1
    <3>2. QED BY <3>1
  <2>2. ASSUME \A m \in OrderLines : QtyDelivered(P, m) = QtyInvoiced(I, m) + done[m]
        PROVE  Invoices(P, I)
    <3>1. policy[l] = "order"
      BY <1>2, <2>1, <2>2 DEF QtyToInvoice
    <3>2. \A m \in OrderLines : policy[m] = "order" /\ QtyInvoiced(I, m) = Ordered[m]
      <4>1. \A m \in OrderLines : policy[m] = "order"
        BY <3>1 DEF Alike
      <4>2. TAKE m \in OrderLines
      <4>3. policy[m] = "order" /\ QtyToInvoice(P, I, m) = 0 /\ Ordered[m] \in Int
            /\ QtyInvoiced(I, m) \in Int
        BY <1>2, <2>1, <4>1
      <4>4. Ordered[m] - QtyInvoiced(I, m) = 0
        BY <4>3 DEF QtyToInvoice
      <4>5. QED BY <4>3, <4>4
    <3>3. LineStatus(P, I, l) = "upselling"
      BY <1>2, <2>1, <2>2, <3>2 DEF LineStatus
    <3>4. \A m \in OrderLines : LineStatus(P, I, m) \in {"invoiced", "upselling"}
      <4>1. TAKE m \in OrderLines
      <4>2. QtyDelivered(P, m) = Ordered[m] + done[m] /\ QtyInvoiced(I, m) = Ordered[m]
            /\ Ordered[m] \in Nat /\ done[m] \in Nat /\ QtyToInvoice(P, I, m) = 0
            /\ policy[m] = "order"
        BY <1>2, <2>1, <2>2, <3>2
      <4>3. QtyInvoiced(I, m) >= Ordered[m]
        BY <4>2
      <4>4. QED BY <4>2, <4>3 DEF LineStatus
    <3>5. S # {"invoiced"} /\ S \subseteq {"invoiced", "upselling"} /\ "to invoice" \notin S
      BY <3>3, <3>4
    <3> HIDE DEF S
    <3>6. InvoiceStatus(P, I) = "upselling"
      BY <3>5 DEF InvoiceStatus, S
    <3>7. QED BY <3>6 DEF Invoices
  <2>3. ASSUME \A m \in OrderLines : QtyDelivered(P, m) = QtyInvoiced(I, m) - done[m]
        PROVE  InvoiceStatus(P, I) \in {"to invoice", "invoiced"}
    <3>1. policy[l] = "order"
      BY <1>2, <2>1, <2>3 DEF QtyToInvoice
    <3>2. \A m \in OrderLines : policy[m] = "order" /\ QtyInvoiced(I, m) = Ordered[m]
      <4>1. \A m \in OrderLines : policy[m] = "order"
        BY <3>1 DEF Alike
      <4>2. TAKE m \in OrderLines
      <4>3. policy[m] = "order" /\ QtyToInvoice(P, I, m) = 0 /\ Ordered[m] \in Int
            /\ QtyInvoiced(I, m) \in Int
        BY <1>2, <2>1, <4>1
      <4>4. Ordered[m] - QtyInvoiced(I, m) = 0
        BY <4>3 DEF QtyToInvoice
      <4>5. QED BY <4>3, <4>4
    <3>3. \A m \in OrderLines : LineStatus(P, I, m) = "invoiced"
      BY <1>2, <2>1, <2>3, <3>2 DEF LineStatus
    <3>4. S = {"invoiced"}
      BY <3>3
    <3> HIDE DEF S
    <3>5. "to invoice" \notin S
      BY <3>4
    <3>6. InvoiceStatus(P, I) = "invoiced"
      BY <3>4, <3>5 DEF InvoiceStatus, S
    <3>7. QED BY <3>6
  <2>4. QED BY <2>2, <2>3
<1>5. QED BY <1>3, <1>4

-----------------------------------------------------------------------------

\* Every invoice of a picking is of one that is done, and has its reference.
Linked(P, I) ==
  \A i \in DOMAIN I : I[i].picking # 0 =>
    /\ I[i].picking \in DOMAIN P /\ IsDone(P[I[i].picking])
    /\ I[i].sign = 1 => I[i].form = P[I[i].picking].form

NoTwo(I) ==
  \A i, j \in DOMAIN I : i # j => I[i].picking = 0 \/ I[i].picking # I[j].picking

EachHasOne(P, I) ==
  \A k \in DOMAIN P : IsDone(P[k]) => \E i \in DOMAIN I : I[i].picking = k

AddsUp(P, I) == \A l \in OrderLines : QtyInvoiced(I, l) = QtyDelivered(P, l)

LeftAlone == ~madeByHand /\ ~manyAsked /\ Alike

DType ==
  /\ policy \in Policies /\ restrictions \in Settings
  /\ onHand \in [OrderLines -> Int] /\ touches \in 0..MaxTouches
  /\ pickings \in Seq(PickingType) /\ Len(pickings) <= MaxPickings
  /\ invoices \in Seq(InvoiceType) /\ Len(invoices) <= MaxInvoices
  /\ madeByHand \in BOOLEAN /\ manyAsked \in BOOLEAN

DInv ==
  /\ DType
  /\ Linked(pickings, invoices)
  /\ ~manyAsked => NoTwo(invoices)
  /\ LeftAlone => EachHasOne(pickings, invoices) /\ AddsUp(pickings, invoices)

ZerosType == Zeros \in [OrderLines -> Nat] /\ Open \in [OrderLines -> Nat]

LEMMA ZerosAreAmounts == ZerosType
BY DEF ZerosType, Zeros, Open

LEMMA DeliveryInitInv == DeliveryInit => DInv
<1> SUFFICES ASSUME DeliveryInit PROVE DInv
  OBVIOUS
<1> DEFINE p == [kind |-> "out", demand |-> Ordered, done |-> Open, form |-> NoForm]
<1>1. p \in PickingType /\ pickings = <<p>> /\ invoices = <<>>
  BY DeliveriesAssumption, ZerosAreAmounts DEF DeliveryInit, PickingType, ZerosType
<1>2. pickings \in Seq(PickingType) /\ Len(pickings) = 1 /\ invoices \in Seq(InvoiceType)
      /\ Len(invoices) = 0
  <2> HIDE DEF p
  <2> QED BY <1>1
<1>3. DType
  <2>1. onHand \in [OrderLines -> Int] /\ touches \in 0..MaxTouches
    BY DeliveriesAssumption DEF DeliveryInit
  <2>2. Len(pickings) <= MaxPickings /\ Len(invoices) <= MaxInvoices
    BY <1>2, DeliveriesAssumption
  <2>3. policy \in Policies /\ restrictions \in Settings /\ madeByHand \in BOOLEAN
        /\ manyAsked \in BOOLEAN
    BY DEF DeliveryInit
  <2>4. QED BY <1>2, <2>1, <2>2, <2>3 DEF DType
<1>4. Linked(pickings, invoices) /\ NoTwo(invoices)
  BY <1>1 DEF Linked, NoTwo
<1>5. EachHasOne(pickings, invoices)
  BY <1>1 DEF EachHasOne, IsDone
<1>6. AddsUp(pickings, invoices)
  <2> SUFFICES ASSUME NEW l \in OrderLines
               PROVE  QtyInvoiced(invoices, l) = QtyDelivered(pickings, l)
    BY DEF AddsUp
  <2>1. [i \in DOMAIN invoices |-> Charged(invoices[i], l)] = <<>>
    BY <1>1
  <2>2. QtyInvoiced(invoices, l) = Total(<<>>)
    <3>1. QtyInvoiced(invoices, l) = Total([i \in DOMAIN invoices |-> Charged(invoices[i], l)])
      BY QtysAreTotals
    <3>2. QED BY <2>1, <3>1
  <2>3. <<>> \in Seq(PickingType) /\ pickings = Append(<<>>, p)
    BY <1>1
  <2>4. [k \in DOMAIN <<>> |-> Moved(<<>>[k], l)] = <<>>
    OBVIOUS
  <2>5. QtyDelivered(<<>>, l) = Total(<<>>)
    <3>1. QtyDelivered(<<>>, l) = Total([k \in DOMAIN <<>> |-> Moved(<<>>[k], l)])
      BY QtysAreTotals
    <3>2. QED BY <2>4, <3>1
  <2>6. Moved(p, l) = 0
    BY DEF Moved, Open, Zeros
  <2> HIDE DEF p
  <2>7. QtyDelivered(pickings, l) = QtyDelivered(<<>>, l) + Moved(p, l)
    BY <1>1, <2>3, DeliveredMore
  <2>8. QED BY <2>2, <2>5, <2>6, <2>7, TotalEmpty
<1>7. QED BY <1>3, <1>4, <1>5, <1>6 DEF DInv

\* An invoice for a picking that is done.
LEMMA InvoiceAdded ==
  \A P \in Seq(PickingType) : \A I \in Seq(InvoiceType) : \A v \in InvoiceType :
    /\ v.picking \in DOMAIN P /\ IsDone(P[v.picking]) /\ Linked(P, I)
    /\ (v.sign = 1 => v.form = P[v.picking].form)
    => /\ Append(I, v) \in Seq(InvoiceType) /\ Len(Append(I, v)) = Len(I) + 1
       /\ Linked(P, Append(I, v))
       /\ (NoTwo(I) /\ \A i \in DOMAIN I : I[i].picking # v.picking) => NoTwo(Append(I, v))
       /\ \E i \in DOMAIN Append(I, v) : Append(I, v)[i].picking = v.picking
       /\ \A i \in DOMAIN I : i \in DOMAIN Append(I, v) /\ Append(I, v)[i] = I[i]
<1> SUFFICES ASSUME NEW P \in Seq(PickingType), NEW I \in Seq(InvoiceType),
                    NEW v \in InvoiceType, v.picking \in DOMAIN P, IsDone(P[v.picking]),
                    v.sign = 1 => v.form = P[v.picking].form, Linked(P, I)
             PROVE  /\ Append(I, v) \in Seq(InvoiceType) /\ Len(Append(I, v)) = Len(I) + 1
                    /\ Linked(P, Append(I, v))
                    /\ (NoTwo(I) /\ \A i \in DOMAIN I : I[i].picking # v.picking) => NoTwo(Append(I, v))
                    /\ \E i \in DOMAIN Append(I, v) : Append(I, v)[i].picking = v.picking
                    /\ \A i \in DOMAIN I : i \in DOMAIN Append(I, v) /\ Append(I, v)[i] = I[i]
  OBVIOUS
<1> DEFINE J == Append(I, v)
           n == Len(I)
<1>1. /\ J \in Seq(InvoiceType) /\ n \in Nat /\ Len(J) = n + 1 /\ DOMAIN I = 1..n
      /\ DOMAIN J = 1..(n + 1) /\ J[n + 1] = v
      /\ \A i \in DOMAIN I : J[i] = I[i]
      /\ \A i \in DOMAIN J : i = n + 1 \/ i \in DOMAIN I
      /\ n + 1 \in DOMAIN J /\ n + 1 \notin DOMAIN I
  BY OneMore
<1>2. \A i \in DOMAIN I : i \in DOMAIN J
  BY <1>1
<1> HIDE DEF J, n
<1>3. Linked(P, J)
  BY <1>1 DEF Linked
<1>4. ASSUME NoTwo(I), \A i \in DOMAIN I : I[i].picking # v.picking
      PROVE  NoTwo(J)
  BY <1>1, <1>4 DEF NoTwo
<1>5. QED BY <1>1, <1>2, <1>3, <1>4 DEF J, n

\* What a delivery or a return adds: nothing, or one invoice of the picking.
LEMMA ActionDoneAdds ==
  \A P \in Seq(PickingType) : \A I \in Seq(InvoiceType) : \A k \in DOMAIN P :
    LET J == ActionDone(P, I, k)
    IN  \/ J = I
        \/ \E v \in InvoiceType :
              /\ J = Append(I, v) /\ v.picking = k /\ v.qty = P[k].done
              /\ v.sign = (IF P[k].kind = "out" THEN 1 ELSE -1)
              /\ (v.sign = 1 => v.form = P[k].form)
<1> SUFFICES ASSUME NEW P \in Seq(PickingType), NEW I \in Seq(InvoiceType), NEW k \in DOMAIN P,
                    NEW J, J = ActionDone(P, I, k)
             PROVE  \/ J = I
                    \/ \E v \in InvoiceType :
                          /\ J = Append(I, v) /\ v.picking = k /\ v.qty = P[k].done
                          /\ v.sign = (IF P[k].kind = "out" THEN 1 ELSE -1)
                          /\ (v.sign = 1 => v.form = P[k].form)
  OBVIOUS
<1>1. P[k] \in PickingType /\ k \in Nat /\ NoForm \in Forms
  BY DeliveriesAssumption
<1> DEFINE v == Invoice(k, 1, P[k].done, P[k].form)
           w == Invoice(k, -1, P[k].done, NoForm)
<1>2. v \in InvoiceType /\ w \in InvoiceType
  BY <1>1 DEF PickingType, InvoiceType, Invoice
<1>3. /\ v.picking = k /\ v.qty = P[k].done /\ v.sign = 1 /\ v.form = P[k].form
      /\ w.picking = k /\ w.qty = P[k].done /\ w.sign = -1
  BY DEF Invoice
<1>4. P[k].kind = "out" => J = I \/ J = Append(I, v)
  BY DEF ActionDone, CreateInvoice
<1>5. P[k].kind # "out" => J = I \/ J = Append(I, w)
  BY DEF ActionDone, CreateCustomerCredit
<1> HIDE DEF v, w
<1>6. QED BY <1>2, <1>3, <1>4, <1>5

\* A picking more, of which nothing is done.
LEMMA PickingAdded ==
  \A P \in Seq(PickingType) : \A I \in Seq(InvoiceType) : \A b \in PickingType :
    b.done = Open =>
      LET Q == Append(P, b)
      IN  /\ Q \in Seq(PickingType) /\ Len(Q) = Len(P) + 1
          /\ (Linked(P, I) => Linked(Q, I))
          /\ (EachHasOne(P, I) => EachHasOne(Q, I))
          /\ (AddsUp(P, I) => AddsUp(Q, I))
<1> SUFFICES ASSUME NEW P \in Seq(PickingType), NEW I \in Seq(InvoiceType),
                    NEW b \in PickingType, b.done = Open, NEW Q, Q = Append(P, b)
             PROVE  /\ Q \in Seq(PickingType) /\ Len(Q) = Len(P) + 1
                    /\ (Linked(P, I) => Linked(Q, I))
                    /\ (EachHasOne(P, I) => EachHasOne(Q, I))
                    /\ (AddsUp(P, I) => AddsUp(Q, I))
  OBVIOUS
<1> DEFINE n == Len(P)
<1>1. /\ Q \in Seq(PickingType) /\ n \in Nat /\ Len(Q) = n + 1 /\ DOMAIN P = 1..n
      /\ DOMAIN Q = 1..(n + 1) /\ Q[n + 1] = b
      /\ \A i \in DOMAIN P : Q[i] = P[i]
      /\ \A i \in DOMAIN Q : i = n + 1 \/ i \in DOMAIN P
  BY OneMore
<1>2. \A i \in DOMAIN P : i \in DOMAIN Q
  BY <1>1
<1> HIDE DEF n
<1>3. Linked(P, I) => Linked(Q, I)
  BY <1>1, <1>2 DEF Linked
<1>4. EachHasOne(P, I) => EachHasOne(Q, I)
  BY <1>1 DEF EachHasOne, IsDone
<1>5. ASSUME NEW l \in OrderLines PROVE QtyDelivered(Q, l) = QtyDelivered(P, l)
  <2>1. Moved(b, l) = 0
    <3>1. b.done[l] = 0
      BY DEF Open, Zeros
    <3>2. Moved(b, l) \in {b.done[l], -b.done[l]}
      BY DEF Moved
    <3>3. -b.done[l] = 0
      <4>1. -b.done[l] = 0 - b.done[l]
        BY Opposite DEF PickingType
      <4>2. QED BY <3>1, <4>1
    <3>4. QED BY <3>1, <3>2, <3>3
  <2>2. QtyDelivered(Q, l) = QtyDelivered(P, l) + Moved(b, l)
    BY DeliveredMore
  <2>3. QtyDelivered(P, l) \in Int
    BY DeliveredTotals
  <2>4. QED BY <2>1, <2>2, <2>3
<1>6. AddsUp(P, I) => AddsUp(Q, I)
  BY <1>5 DEF AddsUp
<1>7. QED BY <1>1, <1>3, <1>4, <1>6 DEF n

LEMMA ValidateInv ==
  ASSUME DInv, NEW k \in DOMAIN pickings, NEW done \in [OrderLines -> 0..2],
         NEW backorder \in BOOLEAN, Validate(k, done, backorder)
  PROVE  DInv'
<1> DEFINE p == pickings[k]
           v == [p EXCEPT !.done = done]
           P == [pickings EXCEPT ![k].done = done]
           rest == [l \in OrderLines |-> Max({p.demand[l] - done[l], 0})]
           b == [p EXCEPT !.demand = rest, !.form = NoForm]
           J == ActionDone(P, invoices, k)
<1>1. /\ pickings \in Seq(PickingType) /\ invoices \in Seq(InvoiceType)
      /\ p \in PickingType /\ done \in [OrderLines -> Nat] /\ Len(pickings) \in Nat
      /\ DOMAIN pickings = 1..Len(pickings) /\ k \in Nat \ {0}
  <2>1. pickings \in Seq(PickingType) /\ invoices \in Seq(InvoiceType)
    BY DEF DInv, DType
  <2>2. QED BY <2>1
<1>2. v \in PickingType
  BY <1>1 DEF PickingType
<1>3. /\ P \in Seq(PickingType) /\ Len(P) = Len(pickings) /\ DOMAIN P = DOMAIN pickings
      /\ P = [pickings EXCEPT ![k] = v] /\ P[k] = v
      /\ \A j \in DOMAIN pickings : j # k => P[j] = pickings[j]
  <2>1. P = [pickings EXCEPT ![k] = v]
    OBVIOUS
  <2> HIDE DEF P, v
  <2>2. QED BY <1>1, <1>2, <2>1
<1>4. /\ ~IsDone(p) /\ IsDone(v) /\ v.done = done /\ done # Open /\ p.done = Open
      /\ v.kind = p.kind /\ v.form = p.form
  BY <1>1 DEF Validate, IsDone, PickingType
<1>5. b \in PickingType
  <2>1. rest \in [OrderLines -> Nat]
    <3>1. ASSUME NEW a \in Int PROVE Max({a, 0}) \in Nat
      BY DEF Max
    <3>2. \A l \in OrderLines : p.demand[l] - done[l] \in Int
      BY <1>1 DEF PickingType
    <3>3. QED BY <3>1, <3>2
  <2> HIDE DEF rest
  <2>2. QED BY <1>1, <2>1, DeliveriesAssumption DEF PickingType
<1>6. ~IsDone(b) /\ b.done = Open
  BY <1>1, <1>4 DEF IsDone, PickingType
<1>7. /\ invoices' = J
      /\ \/ pickings' = P
         \/ pickings' = Append(P, b) /\ Len(pickings) < MaxPickings
      /\ policy' = policy /\ restrictions' = restrictions /\ madeByHand' = madeByHand
      /\ manyAsked' = manyAsked /\ touches' = touches /\ Len(invoices) < MaxInvoices
  <2>1. invoices' = J
    BY DEF Validate
  <2>2. /\ backorder => Len(pickings) < MaxPickings
        /\ pickings' = IF backorder THEN Append(P, b) ELSE P
        /\ UNCHANGED <<policy, restrictions, ghosts, touches>> /\ Len(invoices) < MaxInvoices
    BY DEF Validate
  <2> HIDE DEF P, b, J
  <2>3. QED BY <2>1, <2>2 DEF ghosts
<1>8. onHand' \in [OrderLines -> Int]
  <2> DEFINE sign == IF p.kind = "out" THEN -1 ELSE 1
  <2>1. onHand' = [l \in OrderLines |-> onHand[l] + sign * done[l]]
    BY DEF Validate
  <2>2. \A l \in OrderLines : onHand[l] \in Int /\ done[l] \in Int /\ sign \in {-1, 1}
    BY <1>1 DEF DInv, DType
  <2> HIDE DEF sign
  <2>3. \A l \in OrderLines : onHand[l] + sign * done[l] \in Int
    BY <2>2
  <2>4. QED BY <2>1, <2>3
\* The picking is done, and not yet linked to an invoice.
<1>9. Linked(P, invoices) /\ \A i \in DOMAIN invoices : invoices[i].picking # k
  <2>1. Linked(pickings, invoices)
    BY DEF DInv
  <2>2. \A i \in DOMAIN invoices : invoices[i].picking # k
    BY <1>1, <1>4, <2>1 DEF Linked
  <2> HIDE DEF P
  <2>3. QED BY <1>3, <2>1, <2>2 DEF Linked
<1> HIDE DEF P, v, b, J, p
<1>10. \/ J = invoices
       \/ \E w \in InvoiceType :
             /\ J = Append(invoices, w) /\ w.picking = k /\ w.qty = done
             /\ w.sign = (IF p.kind = "out" THEN 1 ELSE -1)
             /\ w.sign = 1 => w.form = P[k].form
  <2>1. k \in DOMAIN P /\ P[k].done = done /\ P[k].kind = p.kind
    BY <1>3, <1>4
  <2>2. \/ J = invoices
        \/ \E w \in InvoiceType :
              /\ J = Append(invoices, w) /\ w.picking = k /\ w.qty = P[k].done
              /\ w.sign = (IF P[k].kind = "out" THEN 1 ELSE -1)
              /\ (w.sign = 1 => w.form = P[k].form)
    <3>1. P \in Seq(PickingType) /\ invoices \in Seq(InvoiceType) /\ k \in DOMAIN P
      BY <1>1, <1>3, <2>1
    <3>2. QED BY ONLY <3>1, ActionDoneAdds, Zenon DEF J
  <2>3. QED BY <2>1, <2>2
<1>11. /\ J \in Seq(InvoiceType) /\ Len(J) <= MaxInvoices
       /\ Linked(P, J) /\ (NoTwo(invoices) => NoTwo(J))
  <2>1. CASE J = invoices
    BY <1>1, <1>7, <1>9, <2>1, DeliveriesAssumption
  <2>2. ASSUME NEW w \in InvoiceType, J = Append(invoices, w), w.picking = k,
               w.sign = 1 => w.form = P[k].form
        PROVE  <1>11
    <3>1. w.picking \in DOMAIN P /\ IsDone(P[w.picking])
      BY <1>3, <1>4, <2>2
    <3>2. /\ J \in Seq(InvoiceType) /\ Len(J) = Len(invoices) + 1 /\ Linked(P, J)
          /\ (NoTwo(invoices) /\ \A i \in DOMAIN invoices : invoices[i].picking # w.picking)
               => NoTwo(J)
      <4>1. P \in Seq(PickingType) /\ invoices \in Seq(InvoiceType) /\ w \in InvoiceType
            /\ Linked(P, invoices) /\ w.picking \in DOMAIN P /\ IsDone(P[w.picking])
            /\ (w.sign = 1 => w.form = P[w.picking].form)
        BY <1>1, <1>3, <1>9, <2>2, <3>1
      <4>2. QED BY ONLY <4>1, <2>2, InvoiceAdded, Zenon
    <3>3. Len(invoices) \in Nat
      BY <1>1
    <3>4. QED BY <1>7, <1>9, <2>2, <3>2, <3>3, DeliveriesAssumption
  <2>3. QED BY <1>10, <2>1, <2>2
\* Left alone, an order is always in a state that lets the invoice be made.
<1>12. ASSUME LeftAlone
       PROVE  EachHasOne(P, J) /\ AddsUp(P, J)
  <2>1. EachHasOne(pickings, invoices) /\ AddsUp(pickings, invoices) /\ Alike
    BY <1>12 DEF DInv, LeftAlone
  <2>2. ASSUME NEW l \in OrderLines
        PROVE  /\ QtyInvoiced(invoices, l) \in Int
               /\ QtyDelivered(P, l) = QtyInvoiced(invoices, l)
                                         + (IF p.kind = "out" THEN done[l] ELSE -done[l])
    <3>1. QtyDelivered(P, l) = QtyDelivered(pickings, l) - Moved(p, l) + Moved(v, l)
      <4>1. QtyDelivered([pickings EXCEPT ![k] = v], l)
              = QtyDelivered(pickings, l) - Moved(pickings[k], l) + Moved(v, l)
        BY <1>1, <1>2, DeliveredChanges
      <4>2. QED BY <1>3, <4>1 DEF p
    <3>2. Moved(p, l) = 0
      <4>1. p.done[l] = 0
        BY <1>4 DEF Open, Zeros
      <4>2. Moved(p, l) \in {p.done[l], -p.done[l]}
        BY DEF Moved
      <4>3. -p.done[l] = 0
        <5>1. -p.done[l] = 0 - p.done[l]
          BY <1>1, Opposite DEF PickingType
        <5>2. QED BY <4>1, <5>1
      <4>4. QED BY <4>1, <4>2, <4>3
    <3>3. Moved(v, l) = IF p.kind = "out" THEN done[l] ELSE -done[l]
      BY <1>4 DEF Moved
    <3>4. QtyInvoiced(invoices, l) = QtyDelivered(pickings, l)
      BY <2>1 DEF AddsUp
    <3>5. QtyDelivered(pickings, l) \in Int
      BY <1>1, DeliveredTotals
    <3>6. QED BY <3>1, <3>2, <3>3, <3>4, <3>5
  <2>3. J # invoices
    <3>1. policy \in [OrderLines -> {"order", "delivery"}]
      BY DeliveriesAssumption DEF DInv, DType
    <3>2. /\ (\A l \in OrderLines : QtyDelivered(P, l) = QtyInvoiced(invoices, l) + done[l])
                => Invoices(P, invoices)
          /\ (\A l \in OrderLines : QtyDelivered(P, l) = QtyInvoiced(invoices, l) - done[l])
                => InvoiceStatus(P, invoices) \in {"to invoice", "invoiced"}
      BY <1>1, <1>4, <2>1, <2>2, <3>1, StatusOfMoved
    <3>3. ASSUME NEW w PROVE Append(invoices, w) # invoices
      BY <1>1
    <3>4. CASE p.kind = "out"
      <4>1. Invoices(P, invoices)
        BY <2>2, <3>2, <3>4
      <4>2. P[k].kind = "out"
        BY <1>3, <1>4, <3>4
      <4>3. QED BY <3>3, <4>1, <4>2 DEF J, ActionDone, CreateInvoice
    <3>5. CASE p.kind # "out"
      <4>1. \A l \in OrderLines : QtyDelivered(P, l) = QtyInvoiced(invoices, l) - done[l]
        BY <1>1, <2>2, <3>5
      <4>2. P[k].kind # "out"
        BY <1>3, <1>4, <3>5
      <4>3. QED BY <3>2, <3>3, <4>1, <4>2 DEF J, ActionDone, CreateCustomerCredit
    <3>6. QED BY <3>4, <3>5
  <2>4. PICK w \in InvoiceType :
           /\ J = Append(invoices, w) /\ w.picking = k /\ w.qty = done
           /\ w.sign = (IF p.kind = "out" THEN 1 ELSE -1)
           /\ (w.sign = 1 => w.form = P[k].form)
    BY <1>10, <2>3
  <2>5. AddsUp(P, J)
    <3> SUFFICES ASSUME NEW l \in OrderLines
                 PROVE  QtyInvoiced(J, l) = QtyDelivered(P, l)
      BY DEF AddsUp
    <3>1. QtyInvoiced(J, l) = QtyInvoiced(invoices, l) + Charged(w, l)
      BY <1>1, <2>4, InvoicedMore
    <3>2. Charged(w, l) = IF p.kind = "out" THEN done[l] ELSE -done[l]
      BY <1>1, <2>4 DEF Charged
    <3>3. QED BY <2>2, <3>1, <3>2
  <2>6. EachHasOne(P, J)
    <3>1. w.picking \in DOMAIN P /\ IsDone(P[w.picking]) /\ Linked(P, invoices)
          /\ (w.sign = 1 => w.form = P[w.picking].form)
      BY <1>3, <1>4, <1>9, <2>4
    <3>2. P \in Seq(PickingType) /\ invoices \in Seq(InvoiceType) /\ w \in InvoiceType
      BY <1>1, <1>3
    <3>3. /\ \E i \in DOMAIN Append(invoices, w) : Append(invoices, w)[i].picking = w.picking
          /\ \A i \in DOMAIN invoices : /\ i \in DOMAIN Append(invoices, w)
                                        /\ Append(invoices, w)[i] = invoices[i]
      BY ONLY <3>1, <3>2, InvoiceAdded, Zenon
    <3>4. \A j \in DOMAIN P : j # k /\ IsDone(P[j]) => \E i \in DOMAIN invoices : invoices[i].picking = j
      BY <1>3, <2>1 DEF EachHasOne
    <3>5. QED BY <2>4, <3>3, <3>4 DEF EachHasOne
  <2>7. QED BY <2>5, <2>6
<1>13. /\ pickings' \in Seq(PickingType) /\ Len(pickings') <= MaxPickings
       /\ Linked(pickings', J)
       /\ LeftAlone => EachHasOne(pickings', J) /\ AddsUp(pickings', J)
  <2>1. CASE pickings' = P
    <3>1. Len(pickings) <= MaxPickings
      BY DEF DInv, DType
    <3>2. QED BY <1>3, <1>11, <1>12, <2>1, <3>1
  <2>2. CASE pickings' = Append(P, b) /\ Len(pickings) < MaxPickings
    <3>1. P \in Seq(PickingType) /\ J \in Seq(InvoiceType) /\ b \in PickingType /\ b.done = Open
      BY <1>3, <1>5, <1>6, <1>11
    <3>2. /\ Append(P, b) \in Seq(PickingType) /\ Len(Append(P, b)) = Len(P) + 1
          /\ (Linked(P, J) => Linked(Append(P, b), J))
          /\ (EachHasOne(P, J) => EachHasOne(Append(P, b), J))
          /\ (AddsUp(P, J) => AddsUp(Append(P, b), J))
      BY ONLY <3>1, PickingAdded, Zenon
    <3>3. Len(P) + 1 <= MaxPickings
      BY <1>1, <1>3, <2>2, DeliveriesAssumption
    <3>4. QED BY <1>11, <1>12, <2>2, <3>2, <3>3
  <2>3. QED BY <1>7, <2>1, <2>2
<1>14. (LeftAlone => LeftAlone') /\ (LeftAlone' => LeftAlone)
  BY <1>7 DEF LeftAlone, Alike
<1>15. DType'
  BY <1>7, <1>8, <1>11, <1>13 DEF DInv, DType
<1>16. ~manyAsked' => NoTwo(invoices')
  BY <1>7, <1>11 DEF DInv
<1>17. QED BY <1>7, <1>13, <1>14, <1>15, <1>16 DEF DInv

LEMMA CreateReturnsInv ==
  ASSUME DInv, NEW k \in DOMAIN pickings, CreateReturns(k)
  PROVE  DInv'
<1> DEFINE p == pickings[k]
           b == [kind |-> IF p.kind = "out" THEN "in" ELSE "out", demand |-> p.done,
                 done |-> Open, form |-> NoForm]
           Q == Append(pickings, b)
<1>1. pickings \in Seq(PickingType) /\ invoices \in Seq(InvoiceType)
  BY DEF DInv, DType
<1>2. p \in PickingType
  BY <1>1
<1>3. b \in PickingType /\ b.done = Open
  BY <1>2, DeliveriesAssumption, ZerosAreAmounts DEF PickingType, ZerosType
<1>4. /\ pickings' = Q /\ Len(pickings) < MaxPickings /\ invoices' = invoices
      /\ policy' = policy /\ restrictions' = restrictions /\ onHand' = onHand
      /\ madeByHand' = madeByHand /\ manyAsked' = manyAsked /\ touches' = touches
  BY DEF CreateReturns, ghosts
<1> HIDE DEF b
<1>5. /\ Q \in Seq(PickingType) /\ Len(Q) = Len(pickings) + 1
      /\ (Linked(pickings, invoices) => Linked(Q, invoices))
      /\ (EachHasOne(pickings, invoices) => EachHasOne(Q, invoices))
      /\ (AddsUp(pickings, invoices) => AddsUp(Q, invoices))
  BY ONLY <1>1, <1>3, PickingAdded, Zenon
<1>6. Len(Q) <= MaxPickings
  <2>1. Len(pickings) \in Nat
    BY <1>1
  <2> HIDE DEF Q
  <2>2. QED BY <1>4, <1>5, <2>1, DeliveriesAssumption
<1> HIDE DEF Q
<1>7. DType'
  BY <1>4, <1>5, <1>6 DEF DInv, DType
<1>8. LeftAlone' => LeftAlone
  BY <1>4 DEF LeftAlone, Alike
<1>9. QED BY <1>4, <1>5, <1>7, <1>8 DEF DInv

LEMMA WriteFormInv ==
  ASSUME DInv, NEW k \in DOMAIN pickings, NEW form \in Forms, WriteForm(k, form)
  PROVE  DInv'
<1> DEFINE Q == [pickings EXCEPT ![k].form = form]
           J == [i \in DOMAIN invoices |->
                   IF invoices[i].picking = k
                   THEN [invoices[i] EXCEPT !.form = form] ELSE invoices[i]]
<1>1. /\ pickings \in Seq(PickingType) /\ invoices \in Seq(InvoiceType)
      /\ Len(pickings) <= MaxPickings /\ Len(invoices) <= MaxInvoices
  BY DEF DInv, DType
<1>2. /\ pickings' = Q /\ invoices' = J /\ touches < MaxTouches /\ touches' = touches + 1
      /\ policy' = policy /\ restrictions' = restrictions /\ onHand' = onHand
      /\ madeByHand' = madeByHand /\ manyAsked' = manyAsked
  BY DEF WriteForm, Touch, ghosts
<1>3. pickings[k] \in PickingType /\ \A i \in DOMAIN invoices : invoices[i] \in InvoiceType
  BY <1>1
<1>4. /\ Q \in Seq(PickingType) /\ Len(Q) = Len(pickings) /\ DOMAIN Q = DOMAIN pickings
      /\ Q[k] = [pickings[k] EXCEPT !.form = form]
      /\ \A j \in DOMAIN pickings : j # k => Q[j] = pickings[j]
  <2>1. [pickings[k] EXCEPT !.form = form] \in PickingType
    BY <1>3 DEF PickingType
  <2>2. QED BY <1>1, <2>1
<1>5. \A j \in DOMAIN Q : /\ Q[j].kind = pickings[j].kind /\ Q[j].done = pickings[j].done
                          /\ Q[j].form = IF j = k THEN form ELSE pickings[j].form
  <2> HIDE DEF Q
  <2> QED BY <1>3, <1>4 DEF PickingType
<1>6. \A i \in DOMAIN J : /\ J[i] \in InvoiceType /\ J[i].picking = invoices[i].picking
                          /\ J[i].sign = invoices[i].sign /\ J[i].qty = invoices[i].qty
                          /\ J[i].form = IF J[i].picking = k THEN form ELSE invoices[i].form
  BY <1>3 DEF InvoiceType
<1>7. J \in Seq(InvoiceType) /\ Len(J) = Len(invoices) /\ DOMAIN J = DOMAIN invoices
  <2>1. DOMAIN J = 1..Len(invoices) /\ Len(invoices) \in Nat /\ J = [i \in DOMAIN J |-> J[i]]
        /\ DOMAIN J = DOMAIN invoices
    BY <1>1
  <2> HIDE DEF J
  <2>2. J \in [1..Len(invoices) -> InvoiceType]
    BY <1>6, <2>1
  <2>3. QED BY <2>1, <2>2
<1> HIDE DEF Q, J
<1>8. Linked(Q, J)
  <2>1. Linked(pickings, invoices)
    BY DEF DInv
  <2>2. \A j \in DOMAIN Q : IsDone(Q[j]) <=> IsDone(pickings[j])
    BY <1>5 DEF IsDone
  <2>3. QED BY <1>4, <1>5, <1>6, <1>7, <2>1, <2>2 DEF Linked
<1>9. NoTwo(invoices) => NoTwo(J)
  BY <1>6, <1>7 DEF NoTwo
<1>10. EachHasOne(pickings, invoices) => EachHasOne(Q, J)
  BY <1>4, <1>5, <1>6, <1>7 DEF EachHasOne, IsDone
<1>11. AddsUp(pickings, invoices) => AddsUp(Q, J)
  <2>1. ASSUME NEW l \in OrderLines
        PROVE  /\ QtyDelivered(Q, l) = QtyDelivered(pickings, l)
               /\ QtyInvoiced(J, l) = QtyInvoiced(invoices, l)
    <3>1. [j \in DOMAIN Q |-> Moved(Q[j], l)] = [j \in DOMAIN pickings |-> Moved(pickings[j], l)]
      BY <1>4, <1>5 DEF Moved
    <3>2. [i \in DOMAIN J |-> Charged(J[i], l)] = [i \in DOMAIN invoices |-> Charged(invoices[i], l)]
      BY <1>6, <1>7 DEF Charged
    <3>3. QED BY <3>1, <3>2 DEF QtyDelivered, QtyInvoiced
  <2>2. QED BY <2>1 DEF AddsUp
<1>12. LeftAlone' => LeftAlone
  BY <1>2 DEF LeftAlone, Alike
<1>13. DType'
  <2>1. touches' \in 0..MaxTouches
    BY <1>2, DeliveriesAssumption DEF DInv, DType
  <2>2. QED BY <1>1, <1>2, <1>4, <1>7, <2>1 DEF DInv, DType
<1>14. QED BY <1>2, <1>8, <1>9, <1>10, <1>11, <1>12, <1>13 DEF DInv

-----------------------------------------------------------------------------

AskedInvoice(ks, I, k) ==
  IF Asked(pickings, invoices, ks, k) THEN CreateInvoice(pickings, I, k) ELSE I
Wizard == INSTANCE Folding_proofs WITH Op <- AskedInvoice

LEMMA WizardFolds ==
  ASSUME NEW ks, PickingMultiInvoice(ks)
  PROVE  invoices' = Wizard!Fold(ks, invoices, ks)
BY DEF PickingMultiInvoice, AskedInvoice, FoldLeft, MapThenFoldSet, Max,
       Wizard!Fold, Wizard!FoldLeft, Wizard!MapThenFoldSet, Wizard!Max

LEMMA WizardOnce ==
  \A X, ks, I, k : \A s \in Seq(X) :
    Wizard!Fold(ks, I, Append(s, k)) = AskedInvoice(ks, Wizard!Fold(ks, I, s), k)
BY Wizard!FoldAppend DEF AskedInvoice

LEMMA PickingMultiInvoiceInv ==
  ASSUME DInv, NEW ks \in Seq(DOMAIN pickings), PickingMultiInvoice(ks)
  PROVE  DInv'
<1> DEFINE A == {I \in Seq(InvoiceType) : Linked(pickings, I)}
           n == Len(ks)
<1>1. /\ pickings \in Seq(PickingType) /\ invoices \in Seq(InvoiceType)
      /\ Linked(pickings, invoices) /\ DOMAIN pickings \subseteq Nat \ {0}
      /\ (~manyAsked => NoTwo(invoices))
  BY DEF DInv, DType
<1>2. /\ n \in Nat /\ DOMAIN ks = 1..n /\ \A i \in 1..n : ks[i] \in DOMAIN pickings
  OBVIOUS
<1>3. /\ touches < MaxTouches /\ touches' = touches + 1 /\ Len(invoices') <= MaxInvoices
      /\ manyAsked' = (manyAsked \/ n > 1)
      /\ policy' = policy /\ restrictions' = restrictions /\ onHand' = onHand
      /\ pickings' = pickings /\ madeByHand' = madeByHand
      /\ \A i \in DOMAIN ks : Asked(pickings, invoices, ks, ks[i]) => pickings[ks[i]].kind = "out"
  BY DEF PickingMultiInvoice, Touch
\* Each turn makes an invoice for the picking, or none.
<1>4. ASSUME NEW I \in A, NEW i \in 1..n
      PROVE  LET J == AskedInvoice(ks, I, ks[i])
             IN  /\ J \in A
                 /\ NoTwo(I) /\ (\A j \in DOMAIN I : I[j].picking # ks[i]) => NoTwo(J)
  <2> DEFINE k == ks[i]
             J == AskedInvoice(ks, I, k)
  <2>1. I \in Seq(InvoiceType) /\ Linked(pickings, I) /\ k \in DOMAIN pickings
    BY <1>2
  <2>2. CASE ~Asked(pickings, invoices, ks, k)
    BY <2>2 DEF AskedInvoice
  <2>3. CASE Asked(pickings, invoices, ks, k)
    <3>1. pickings[k].kind = "out" /\ IsDone(pickings[k])
      BY <1>2, <1>3, <2>3 DEF Asked
    <3>2. J = ActionDone(pickings, I, k)
      BY <2>3, <3>1 DEF AskedInvoice, ActionDone
    <3>3. \/ J = I
          \/ \E v \in InvoiceType :
                /\ J = Append(I, v) /\ v.picking = k /\ v.qty = pickings[k].done
                /\ v.sign = (IF pickings[k].kind = "out" THEN 1 ELSE -1)
                /\ (v.sign = 1 => v.form = pickings[k].form)
      <4>1. \/ ActionDone(pickings, I, k) = I
            \/ \E v \in InvoiceType :
                  /\ ActionDone(pickings, I, k) = Append(I, v) /\ v.picking = k
                  /\ v.qty = pickings[k].done
                  /\ v.sign = (IF pickings[k].kind = "out" THEN 1 ELSE -1)
                  /\ (v.sign = 1 => v.form = pickings[k].form)
        <5>1. pickings \in Seq(PickingType) /\ I \in Seq(InvoiceType) /\ k \in DOMAIN pickings
          BY <1>1, <2>1
        <5> HIDE DEF k, A, n, J
        <5>2. QED BY ONLY <5>1, ActionDoneAdds, Zenon
      <4> HIDE DEF J
      <4>2. QED BY ONLY <3>2, <4>1
    <3>4. ASSUME NEW v \in InvoiceType, J = Append(I, v), v.picking = k,
                 v.sign = 1 => v.form = pickings[k].form
          PROVE  J \in A /\ ((NoTwo(I) /\ \A j \in DOMAIN I : I[j].picking # k) => NoTwo(J))
      <4>1. /\ v.picking \in DOMAIN pickings /\ IsDone(pickings[v.picking])
            /\ Linked(pickings, I) /\ (v.sign = 1 => v.form = pickings[v.picking].form)
        BY <2>1, <3>1, <3>4
      <4>2. /\ Append(I, v) \in Seq(InvoiceType)
            /\ Linked(pickings, Append(I, v))
            /\ (NoTwo(I) /\ \A j \in DOMAIN I : I[j].picking # v.picking) => NoTwo(Append(I, v))
        BY ONLY <1>1, <2>1, <4>1, v \in InvoiceType, InvoiceAdded, Zenon
      <4>3. QED BY <3>4, <4>2
    <3> HIDE DEF J, k, A
    <3>5. I \in A
      OBVIOUS
    <3>6. QED BY <3>3, <3>4, <3>5 DEF J, k
  <2>4. QED BY <2>2, <2>3
<1>5. invoices' \in A
  <2>1. invoices \in A
    BY <1>1
  <2>2. \A I \in A : \A i \in 1..n : AskedInvoice(ks, I, ks[i]) \in A
    BY <1>4
  <2> HIDE DEF A, n
  <2>3. Wizard!Fold(ks, invoices, ks) \in A
    BY <1>2, <2>1, <2>2, Wizard!FoldStays
  <2>4. QED BY <2>3, WizardFolds
<1>6. n = 0 => invoices' = invoices
  <2>1. ASSUME n = 0 PROVE ks = <<>>
    BY <2>1
  <2>2. Wizard!Fold(ks, invoices, <<>>) = invoices
    BY Wizard!FoldEmpty
  <2>3. QED BY <2>1, <2>2, WizardFolds
<1>7. n = 1 => invoices' = AskedInvoice(ks, invoices, ks[1])
  <2>1. SUFFICES ASSUME n = 1 PROVE invoices' = AskedInvoice(ks, invoices, ks[1])
    OBVIOUS
  <2> DEFINE none == SubSeq(ks, 1, 0)
  <2>2. none = <<>> /\ ks = Append(none, ks[1]) /\ none \in Seq(DOMAIN pickings)
    BY <1>2, <2>1
  <2>3. Wizard!Fold(ks, invoices, none) = invoices
    BY <2>2, Wizard!FoldEmpty
  <2> HIDE DEF none, A, n
  <2>4. Wizard!Fold(ks, invoices, Append(none, ks[1]))
          = AskedInvoice(ks, Wizard!Fold(ks, invoices, none), ks[1])
    <3>1. none \in Seq(DOMAIN pickings)
      BY <2>2
    <3>2. \A X, qs, I, k : none \in Seq(X) =>
            Wizard!Fold(qs, I, Append(none, k)) = AskedInvoice(qs, Wizard!Fold(qs, I, none), k)
      BY ONLY WizardOnce
    <3>3. \A qs, I, k :
            Wizard!Fold(qs, I, Append(none, k)) = AskedInvoice(qs, Wizard!Fold(qs, I, none), k)
      BY ONLY <3>1, <3>2
    <3>4. QED BY ONLY <3>3
  <2>5. Wizard!Fold(ks, invoices, ks) = AskedInvoice(ks, invoices, ks[1])
    BY <2>2, <2>3, <2>4, Zenon
  <2>6. QED BY <2>5, WizardFolds
\* An only picking is asked for if it has no invoice.
<1>8. ASSUME n = 1, Asked(pickings, invoices, ks, ks[1])
      PROVE  \A j \in DOMAIN invoices : invoices[j].picking # ks[1]
  <2> DEFINE S == {i \in DOMAIN invoices : invoices[i].picking = ks[1]}
  <2>1. Cardinality(S) = 0
    BY <1>8 DEF Asked, InvoiceCount, Last
  <2>2. IsFiniteSet(S)
    <3>1. DOMAIN invoices = 1..Len(invoices) /\ Len(invoices) \in Nat
      BY <1>1
    <3>2. IsFiniteSet(DOMAIN invoices) /\ S \subseteq DOMAIN invoices
      BY <3>1, FS_Interval
    <3>3. QED BY <3>2, FS_Subset
  <2> HIDE DEF S
  <2>3. S = {}
    BY <2>1, <2>2, FS_EmptySet
  <2>4. QED BY <2>3 DEF S
<1>9. ~manyAsked' => NoTwo(invoices')
  <2> SUFFICES ASSUME ~manyAsked' PROVE NoTwo(invoices')
    OBVIOUS
  <2>1. ~manyAsked /\ n \in {0, 1} /\ NoTwo(invoices)
    <3>1. ~(n > 1) /\ ~manyAsked
      BY <1>3
    <3>2. QED BY <1>1, <1>2, <3>1
  <2>2. CASE n = 0
    BY <1>6, <2>1, <2>2
  <2>3. CASE n = 1
    <3>1. CASE Asked(pickings, invoices, ks, ks[1])
      BY <1>1, <1>4, <1>7, <1>8, <2>1, <2>3, <3>1
    <3>2. CASE ~Asked(pickings, invoices, ks, ks[1])
      BY <1>7, <2>1, <2>3, <3>2 DEF AskedInvoice
    <3>3. QED BY <3>1, <3>2
  <2>4. QED BY <2>1, <2>2, <2>3
<1>10. LeftAlone' => LeftAlone /\ invoices' = invoices
  <2> SUFFICES ASSUME LeftAlone' PROVE LeftAlone /\ invoices' = invoices
    OBVIOUS
  <2>1. LeftAlone /\ n \in {0, 1}
    <3>1. ~manyAsked' /\ ~madeByHand' /\ Alike'
      BY DEF LeftAlone
    <3>2. ~(n > 1) /\ ~manyAsked /\ ~madeByHand
      BY <1>3, <3>1
    <3>3. Alike
      BY <1>3, <3>1 DEF Alike
    <3>4. QED BY <1>2, <3>2, <3>3 DEF LeftAlone
  <2>2. CASE n = 0
    BY <1>6, <2>1, <2>2
  <2>3. CASE n = 1
    <3>1. EachHasOne(pickings, invoices)
      BY <2>1 DEF DInv
    <3>2. ~Asked(pickings, invoices, ks, ks[1])
      BY <1>2, <1>8, <2>3, <3>1 DEF Asked, EachHasOne
    <3>3. QED BY <1>7, <2>1, <2>3, <3>2 DEF AskedInvoice
  <2>4. QED BY <2>1, <2>2, <2>3
<1>11. DType'
  <2>1. touches' \in 0..MaxTouches
    BY <1>3, DeliveriesAssumption DEF DInv, DType
  <2>2. manyAsked' \in BOOLEAN
    BY <1>3
  <2>3. QED BY <1>3, <1>5, <2>1, <2>2 DEF DInv, DType
<1>12. QED BY <1>3, <1>5, <1>9, <1>10, <1>11 DEF DInv

LEMMA InvoiceByHandInv ==
  ASSUME DInv, InvoiceByHand
  PROVE  DInv'
<1> DEFINE qty == [l \in OrderLines |-> Max({QtyToInvoice(pickings, invoices, l), 0})]
           v == Invoice(0, 1, qty, NoForm)
           J == Append(invoices, v)
           n == Len(invoices)
<1>1. /\ pickings \in Seq(PickingType) /\ invoices \in Seq(InvoiceType) /\ n \in Nat
      /\ Linked(pickings, invoices) /\ (~manyAsked => NoTwo(invoices))
  BY DEF DInv, DType
<1>2. v \in InvoiceType /\ v.picking = 0
  <2>1. ASSUME NEW l \in OrderLines PROVE QtyToInvoice(pickings, invoices, l) \in Int
    <3>1. QtyDelivered(pickings, l) \in Int /\ QtyInvoiced(invoices, l) \in Int
          /\ Ordered[l] \in Int
      BY <1>1, DeliveredTotals, InvoicedTotals, DeliveriesAssumption
    <3>2. QED BY <3>1 DEF QtyToInvoice
  <2>2. ASSUME NEW a \in Int PROVE Max({a, 0}) \in Nat
    BY DEF Max
  <2>3. qty \in [OrderLines -> Nat]
    BY <2>1, <2>2
  <2> HIDE DEF qty
  <2>4. QED BY <2>3, DeliveriesAssumption DEF Invoice, InvoiceType
<1>3. /\ invoices' = J /\ n < MaxInvoices /\ touches < MaxTouches /\ touches' = touches + 1
      /\ policy' = policy /\ restrictions' = restrictions /\ onHand' = onHand
      /\ pickings' = pickings /\ madeByHand' = TRUE /\ manyAsked' = manyAsked
  BY DEF InvoiceByHand, Touch
<1> HIDE DEF v
<1>4. /\ J \in Seq(InvoiceType) /\ Len(J) = n + 1
      /\ DOMAIN invoices = 1..n /\ DOMAIN J = 1..(n + 1) /\ J[n + 1] = v
      /\ \A i \in DOMAIN invoices : J[i] = invoices[i]
      /\ \A i \in DOMAIN J : i = n + 1 \/ i \in DOMAIN invoices
  BY <1>1, <1>2, OneMore
<1>5. n + 1 <= MaxInvoices /\ touches' \in 0..MaxTouches
  BY <1>1, <1>3, DeliveriesAssumption DEF DInv, DType
<1> HIDE DEF J, n
<1>6. Linked(pickings, J)
  BY <1>1, <1>2, <1>4 DEF Linked
<1>7. NoTwo(invoices) => NoTwo(J)
  BY <1>2, <1>4 DEF NoTwo
<1>8. DType'
  BY <1>3, <1>4, <1>5 DEF DInv, DType
<1>9. ~LeftAlone'
  BY <1>3 DEF LeftAlone
<1>10. QED BY <1>1, <1>3, <1>6, <1>7, <1>8, <1>9 DEF DInv

LEMMA Joined ==
  \A X : \A a, b \in Seq(X) : \A j \in 1..(Len(a) + Len(b)) :
    (a \o b)[j] = IF j <= Len(a) THEN a[j] ELSE b[j - Len(a)]
<1> SUFFICES ASSUME NEW X, NEW a \in Seq(X), NEW b \in Seq(X),
                    NEW j \in 1..(Len(a) + Len(b))
             PROVE  (a \o b)[j] = IF j <= Len(a) THEN a[j] ELSE b[j - Len(a)]
  OBVIOUS
<1>1. CASE j <= Len(a)
  BY <1>1
<1>2. CASE ~(j <= Len(a))
  BY <1>2
<1>3. QED BY <1>1, <1>2

LEMMA OneLess ==
  \A X : \A s \in Seq(X) : \A i \in DOMAIN s :
    LET t == RemoveAt(s, i)
    IN  /\ t \in Seq(X) /\ Len(s) \in Nat /\ Len(t) = Len(s) - 1
        /\ \A j \in DOMAIN t : LET m == IF j < i THEN j ELSE j + 1
                               IN  m \in DOMAIN s /\ t[j] = s[m]
<1> SUFFICES ASSUME NEW X, NEW s \in Seq(X), NEW i \in DOMAIN s, NEW t, t = RemoveAt(s, i)
             PROVE  /\ t \in Seq(X) /\ Len(s) \in Nat /\ Len(t) = Len(s) - 1
                    /\ \A j \in DOMAIN t : LET m == IF j < i THEN j ELSE j + 1
                                           IN  m \in DOMAIN s /\ t[j] = s[m]
  OBVIOUS
<1> DEFINE a == SubSeq(s, 1, i - 1)
           b == SubSeq(s, i + 1, Len(s))
<1>1. Len(s) \in Nat /\ i \in Nat /\ 1 <= i /\ i <= Len(s) /\ DOMAIN s = 1..Len(s)
  OBVIOUS
<1>2. /\ a \in Seq(X) /\ Len(a) = i - 1 /\ \A j \in 1..(i - 1) : a[j] = s[j]
  BY <1>1
<1>3. /\ b \in Seq(X) /\ Len(b) = Len(s) - i /\ \A j \in 1..(Len(s) - i) : b[j] = s[i + j]
  BY <1>1
<1>4. t = a \o b
  BY DEF RemoveAt
<1> HIDE DEF a, b
<1>5. /\ t \in Seq(X) /\ Len(t) = Len(s) - 1
      /\ \A j \in 1..(Len(s) - 1) : t[j] = IF j < i THEN a[j] ELSE b[j - (i - 1)]
  <2>1. t \in Seq(X)
    BY <1>2, <1>3, <1>4
  <2>2. Len(t) = Len(a) + Len(b)
    BY <1>2, <1>3, <1>4
  <2>3. \A j \in 1..(Len(a) + Len(b)) : t[j] = IF j <= Len(a) THEN a[j] ELSE b[j - Len(a)]
    <3>1. a \in Seq(X) /\ b \in Seq(X)
      BY <1>2, <1>3
    <3>2. \A j \in 1..(Len(a) + Len(b)) :
            (a \o b)[j] = IF j <= Len(a) THEN a[j] ELSE b[j - Len(a)]
      BY ONLY <3>1, Joined, Zenon
    <3>3. QED BY ONLY <1>4, <3>2, Zenon
  <2>4. Len(a) + Len(b) = Len(s) - 1
    BY <1>1, <1>2, <1>3
  <2>5. \A j \in 1..(Len(s) - 1) : (j <= Len(a)) <=> (j < i)
    BY <1>1, <1>2
  <2>6. QED BY <1>2, <2>1, <2>2, <2>3, <2>4, <2>5
<1>6. ASSUME NEW j \in 1..(Len(s) - 1)
      PROVE  LET m == IF j < i THEN j ELSE j + 1 IN m \in DOMAIN s /\ t[j] = s[m]
  <2>1. CASE j < i
    <3>1. j \in 1..(i - 1) /\ j \in DOMAIN s
      BY <1>1, <2>1
    <3>2. QED BY <1>2, <1>5, <2>1, <3>1
  <2>2. CASE ~(j < i)
    <3>1. j - (i - 1) \in 1..(Len(s) - i) /\ i + (j - (i - 1)) = j + 1 /\ j + 1 \in DOMAIN s
      BY <1>1, <2>2
    <3>2. QED BY <1>3, <1>5, <2>2, <3>1
  <2>3. QED BY <2>1, <2>2
<1>7. DOMAIN t = 1..(Len(s) - 1)
  BY <1>1, <1>5
<1>8. QED BY <1>1, <1>5, <1>6, <1>7

LEMMA DeleteInvoiceInv ==
  ASSUME DInv, NEW d \in DOMAIN invoices, DeleteInvoice(d)
  PROVE  DInv'
<1> DEFINE J == RemoveAt(invoices, d)
           m(j) == IF j < d THEN j ELSE j + 1
<1>1. /\ pickings \in Seq(PickingType) /\ invoices \in Seq(InvoiceType)
      /\ Linked(pickings, invoices) /\ (~manyAsked => NoTwo(invoices))
      /\ Len(invoices) <= MaxInvoices
  BY DEF DInv, DType
<1>2. /\ invoices' = J /\ touches < MaxTouches /\ touches' = touches + 1
      /\ policy' = policy /\ restrictions' = restrictions /\ onHand' = onHand
      /\ pickings' = pickings /\ madeByHand' = TRUE /\ manyAsked' = manyAsked
  BY DEF DeleteInvoice, Touch
<1>3. /\ J \in Seq(InvoiceType) /\ Len(invoices) \in Nat /\ Len(J) = Len(invoices) - 1
      /\ \A j \in DOMAIN J : m(j) \in DOMAIN invoices /\ J[j] = invoices[m(j)]
  BY <1>1, OneLess
<1>4. DOMAIN J \subseteq Nat /\ d \in Nat
  BY <1>1, <1>3
<1> HIDE DEF J
<1>5. \A i, j \in DOMAIN J : i # j => m(i) # m(j)
  BY <1>4
<1>6. Len(J) <= MaxInvoices /\ touches' \in 0..MaxTouches
  BY <1>1, <1>2, <1>3, DeliveriesAssumption DEF DInv, DType
<1> HIDE DEF m
<1>7. Linked(pickings, J)
  BY <1>1, <1>3 DEF Linked
<1>8. NoTwo(invoices) => NoTwo(J)
  BY <1>3, <1>5 DEF NoTwo
<1>9. DType'
  BY <1>2, <1>3, <1>6 DEF DInv, DType
<1>10. ~LeftAlone'
  BY <1>2 DEF LeftAlone
<1>11. QED BY <1>1, <1>2, <1>7, <1>8, <1>9, <1>10 DEF DInv

LEMMA DeliveryNextInv == DInv /\ [DeliveryNext]_deliveryVars => DInv'
<1> SUFFICES ASSUME DInv, [DeliveryNext]_deliveryVars PROVE DInv'
  OBVIOUS
<1>1. CASE UNCHANGED deliveryVars
  BY <1>1 DEF deliveryVars, ghosts, DInv, DType, LeftAlone, Alike
<1>2. ASSUME NEW S \in SUBSET (DOMAIN pickings), NEW ks \in SetToSeqs(S), PickingMultiInvoice(ks)
      PROVE  DInv'
  <2>1. DOMAIN pickings = 1..Len(pickings) /\ Len(pickings) \in Nat
    BY DEF DInv, DType
  <2>2. IsFiniteSet(DOMAIN pickings)
    BY <2>1, FS_Interval
  <2>3. Cardinality(S) \in Nat
    BY <2>2, FS_Subset, FS_CardinalityType
  <2>4. ks \in [1..Cardinality(S) -> S]
    BY DEF SetToSeqs
  <2>5. ks \in Seq(DOMAIN pickings)
    BY <2>3, <2>4
  <2>6. QED BY <1>2, <2>5, PickingMultiInvoiceInv
<1>3. CASE DeliveryNext
  BY <1>2, <1>3, ValidateInv, CreateReturnsInv, WriteFormInv, InvoiceByHandInv, DeleteInvoiceInv
     DEF DeliveryNext
<1>4. QED BY <1>1, <1>3

\* Each step keeps pickings and invoices linked.
LEMMA DeliveryAlways == DeliverySpec => []DInv
<1>1. DeliveryInit => DInv
  BY DeliveryInitInv
<1>2. DInv /\ [DeliveryNext]_deliveryVars => DInv'
  BY DeliveryNextInv
<1>3. QED BY <1>1, <1>2, PTL DEF DeliverySpec

\* Every invoice is of no picking or of one there is, and the quantities of both
\* keep their types, in any order of deliveries, returns and invoices.
THEOREM DeliveriesAreTyped == DeliverySpec => []DeliveryTypeOK
<1>1. DInv => DeliveryTypeOK
  <2> SUFFICES ASSUME DInv PROVE DeliveryTypeOK
    OBVIOUS
  <2>1. DType /\ Linked(pickings, invoices)
    BY DEF DInv
  <2>2. \A k \in DOMAIN pickings : pickings[k].form \in Forms
    <3>1. pickings \in Seq(PickingType)
      BY <2>1 DEF DType
    <3>2. \A k \in DOMAIN pickings : pickings[k] \in PickingType
      BY <3>1
    <3>3. QED BY <3>2 DEF PickingType
  <2>3. \A i \in DOMAIN invoices : invoices[i].picking \in {0} \cup DOMAIN pickings
    BY <2>1 DEF Linked
  <2>4. QED BY <2>1, <2>2, <2>3 DEF DType, DeliveryTypeOK
<1>2. QED BY <1>1, DeliveryAlways, PTL

\* What button_validate, picking_multi_invoice and the customs reference do to
\* the invoices: they add up to what was delivered while users leave them alone,
\* no picking has two, and all have the reference of their delivery.
THEOREM InvoicesFollowHolds == DeliverySpec => []InvoicesFollow
<1>1. DInv => InvoicesFollow
  <2> SUFFICES ASSUME DInv PROVE InvoicesFollow
    OBVIOUS
  <2>1. InvoicedAsDelivered
    BY DEF DInv, InvoicedAsDelivered, LeftAlone, Alike, AddsUp
  <2>2. OneInvoiceEach
    BY DEF DInv, OneInvoiceEach, NoTwo, Linked
  <2>3. QED BY <2>1, <2>2 DEF InvoicesFollow
<1>2. QED BY <1>1, DeliveryAlways, PTL

-----------------------------------------------------------------------------
(* The logs of the audited record                                          *)

RequestRows == [id: Row, day: 1..MaxDay]
SessionRows == [id: Row, user: {"user", "excluded"}, day: 1..MaxDay]
Https == [kind: {"none", "http", "cron"}, user: {"none", "user", "excluded"},
          cached: Row \cup {None}, ops: 0..MaxOps, tries: {0, 1}]

\* The rows of auditlog on day d, when identifiers up to n were used.
RowsOK(L, Q, S, d, n) ==
  /\ L \subseteq Log /\ Q \subseteq RequestRows /\ S \subseteq SessionRows
  /\ \A l \in L : l.day <= d /\ l.id <= n /\ l.request <= n
  /\ \A q \in Q : q.day <= d /\ q.id <= n
  /\ \A l, k \in L : l.id = k.id => l = k
  /\ \A l \in L : l.request # None => \E q \in Q : q.id = l.request
  /\ \A l \in L : \A q \in Q : q.id = l.request => q.day = l.day
  /\ \A l, k \in L :
       l.day = k.day /\ l.request # None /\ k.request # None => l.request = k.request

\* Logs that tell values are of the record's one life, in which it is there at
\* the end of each day.
LifeOK(r, L, b, p, d) ==
  /\ b \in BOOLEAN /\ p[d] = r
  /\ ~b => /\ \A l \in L : l.method \notin {"create", "write"}
           /\ \A e \in 0..d : p[e] = Absent
  /\ r # Absent =>
       \A l \in L : l.method \in {"create", "write"} => \A e \in l.day..d : p[e] # Absent

Tells(l, f) == l.method \in {"create", "write"} /\ f \in DOMAIN l.lines
AboutIn(L, f) == {l \in L : Tells(l, f)}

\* The newest log of a field tells its value, and older ones lead to it.
Told(t, L, r, f) ==
  \E n \in AboutIn(L, f) :
    /\ \A k \in AboutIn(L, f) : k.id <= n.id
    /\ n.lines[f].new = r[f]
    /\ t = "full" => \A l \in AboutIn(L, f) \ {n} : \E k \in AboutIn(L, f) :
         k.id > l.id /\ k.lines[f].old = l.lines[f].new

\* Created within the days that are kept.
Young(p, d) == \E e \in 1..d : e + Days > d /\ p[e - 1] = Absent

MustTell(t, r, f) == t = "full" \/ (f \notin Computed /\ r[f] # Falsy)

WholeOK(t, r, L, h, p, d) ==
  r # Absent /\ ~h /\ Young(p, d) =>
    \A f \in Fields \ FieldsToExclude : MustTell(t, r, f) => Told(t, L, r, f)

\* Of the changes of a field since the end of day e, one of the first day of
\* them starts from the value the field had then.
Since(A, e, f) == {a \in A : a.day > e /\ f \in DOMAIN a.old}
FirstTells(A, r, p, e, f) ==
  IF Since(A, e, f) = {} THEN r[f] = p[e][f]
  ELSE \E a \in Since(A, e, f) :
         (\A b \in Since(A, e, f) : a.day <= b.day) /\ a.old[f] = p[e][f]

AuditsOK(A, r, p, d) ==
  /\ IsFiniteSet(A)
  /\ \A a \in A : a.day \in 1..d
  /\ r # Absent =>
       \A e \in 0..d : p[e] # Absent => \A f \in Fields : FirstTells(A, r, p, e, f)

RecordOK(r) == r = Absent \/ r \in [Fields -> Values]

\* Content c with the days p before and up to d.
ContentOK(c, t, p, d, n) ==
  /\ RecordOK(c[1]) /\ c[6] \in BOOLEAN
  /\ RowsOK(c[2], c[3], c[4], d, n)
  /\ LifeOK(c[1], c[2], c[7], p, d)
  /\ WholeOK(t, c[1], c[2], c[6], p, d)
  /\ AuditsOK(c[5], c[1], p, d)

\* What holds while a transaction is open: rows are only added, and those of
\* its day have its request.
TxOK ==
  /\ 1 <= day /\ http.user # "none"
  /\ saved[2] \subseteq logs /\ saved[3] \subseteq requests
  /\ \A l \in logs : l.day = day /\ l.request # None =>
       http.kind = "http" /\ l.request = http.cached
  /\ \A q \in requests : q.id = http.cached => q.day = day

TrailTypes ==
  /\ logType \in LogType /\ captureRecord \in BOOLEAN /\ logCreate \in BOOLEAN
  /\ http \in Https /\ day \in 0..MaxDay /\ DOMAIN past = 0..day
  /\ \E i \in 0..MaxWork : lastId = 3 * i

TrailInv ==
  /\ TrailTypes
  /\ ContentOK(content, logType, past, day, lastId)
  /\ http.kind # "none" => TxOK /\ ContentOK(saved, logType, past, day - 1, lastId)

-----------------------------------------------------------------------------
(* Days and rollbacks                                                      *)

LEMMA PresentRecords == \A r \in [Fields -> Values] : r # Absent
BY AuditTrailAssumption DEF Absent

LEMMA RowTypes ==
  \A l \in Log : /\ l.id \in Nat /\ l.request \in Nat /\ l.day \in Nat
                 /\ l.request # None => l.request \in Row
BY AuditTrailAssumption DEF Log, Row, None

\* A day more, at whose end the record is as it was: nothing else changes.
LEMMA DayMore ==
  ASSUME NEW c, NEW t, NEW p, NEW q, NEW d \in Nat, NEW n \in Nat, NEW m \in Nat, n <= m,
         ContentOK(c, t, p, d, n), \A e \in 0..d : q[e] = p[e], q[d + 1] = c[1]
  PROVE  ContentOK(c, t, q, d + 1, m)
<1>1. RecordOK(c[1]) /\ c[6] \in BOOLEAN
  BY DEF ContentOK
<1>2. RowsOK(c[2], c[3], c[4], d + 1, m)
  <2>1. RowsOK(c[2], c[3], c[4], d, n)
    BY DEF ContentOK
  <2>2. \A l \in c[2] : l.id \in Nat /\ l.request \in Nat /\ l.day \in Nat
    BY <2>1, RowTypes DEF RowsOK
  <2>3. \A s \in c[3] : s.id \in Nat /\ s.day \in Nat
    BY <2>1, AuditTrailAssumption DEF RowsOK, RequestRows, Row
  <2>4. /\ \A l \in c[2] : l.day <= d + 1 /\ l.id <= m /\ l.request <= m
        /\ \A s \in c[3] : s.day <= d + 1 /\ s.id <= m
    BY <2>1, <2>2, <2>3 DEF RowsOK
  <2>5. QED BY <2>1, <2>4 DEF RowsOK
<1>3. LifeOK(c[1], c[2], c[7], q, d + 1)
  <2>1. LifeOK(c[1], c[2], c[7], p, d) /\ p[d] = c[1]
    BY DEF ContentOK, LifeOK
  <2>2. \A e \in 0..(d + 1) : e = d + 1 \/ (e \in 0..d /\ q[e] = p[e])
    OBVIOUS
  <2>3. ~c[7] => \A e \in 0..(d + 1) : q[e] = Absent
    BY <2>1, <2>2 DEF LifeOK
  <2>4. ASSUME c[1] # Absent, NEW l \in c[2], l.method \in {"create", "write"},
               NEW e \in l.day..(d + 1)
        PROVE  q[e] # Absent
    <3>1. l.day \in Nat
      BY RowTypes DEF ContentOK, RowsOK
    <3>2. CASE e = d + 1
      BY <2>4, <3>2
    <3>3. CASE e # d + 1
      <4>1. e \in l.day..d /\ e \in 0..d
        BY <3>1, <3>3
      <4>2. QED BY <2>1, <2>4, <4>1 DEF LifeOK
    <3>4. QED BY <3>2, <3>3
  <2>5. QED BY <2>1, <2>3, <2>4 DEF LifeOK
<1>4. WholeOK(t, c[1], c[2], c[6], q, d + 1)
  <2>1. p[d] = c[1] /\ Days \in Nat
    BY AuditTrailAssumption DEF ContentOK, LifeOK
  <2>2. c[1] # Absent /\ Young(q, d + 1) => Young(p, d)
    <3> SUFFICES ASSUME c[1] # Absent, Young(q, d + 1) PROVE Young(p, d)
      OBVIOUS
    <3>1. PICK e \in 1..(d + 1) : e + Days > d + 1 /\ q[e - 1] = Absent
      BY DEF Young
    <3>2. e - 1 \in 0..d /\ q[e - 1] = p[e - 1]
      OBVIOUS
    <3>3. e # d + 1
      BY <2>1, <3>1, <3>2
    <3>4. e \in 1..d /\ e + Days > d
      BY <2>1, <3>1, <3>3
    <3>5. QED BY <3>1, <3>2, <3>4 DEF Young
  <2>3. QED BY <2>2 DEF ContentOK, WholeOK
<1>5. AuditsOK(c[5], c[1], q, d + 1)
  <2>1. AuditsOK(c[5], c[1], p, d)
    BY DEF ContentOK
  <2>2. \A a \in c[5] : a.day \in 1..d /\ a.day \in 1..(d + 1)
    BY <2>1 DEF AuditsOK
  <2>3. ASSUME c[1] # Absent, NEW e \in 0..(d + 1), q[e] # Absent, NEW f \in Fields
        PROVE  FirstTells(c[5], c[1], q, e, f)
    <3>1. CASE e = d + 1
      <4>1. Since(c[5], e, f) = {}
        BY <2>2, <3>1 DEF Since
      <4>2. QED BY <3>1, <4>1 DEF FirstTells
    <3>2. CASE e # d + 1
      <4>1. e \in 0..d /\ q[e] = p[e]
        BY <3>2
      <4>2. FirstTells(c[5], c[1], p, e, f)
        BY <2>1, <2>3, <4>1 DEF AuditsOK
      <4>3. QED BY <4>1, <4>2 DEF FirstTells
    <3>3. QED BY <3>1, <3>2
  <2>4. QED BY <2>1, <2>2, <2>3 DEF AuditsOK
<1>6. QED BY <1>1, <1>2, <1>3, <1>4, <1>5 DEF ContentOK

-----------------------------------------------------------------------------
(* A log                                                                   *)

Logged == {"create", "read", "write", "unlink"}

\* What create_logs adds: nothing but the trace of an excluded user, or one log.
Added1(m, ln) ==
  \/ logs' = logs /\ hidden' = (hidden \/ m # "read")
  \/ /\ hidden' = hidden
     /\ \/ logs' = logs /\ DOMAIN ln = {}
        \/ \E x \in Log : /\ x.id = lastId + 3 /\ x.method = m /\ x.lines = ln
                          /\ x.day = day /\ logs' = logs \cup {x}

LEMMA IdsMore ==
  ASSUME TrailTypes, Running
  PROVE  /\ lastId \in Nat /\ lastId + 1 \in Row /\ lastId + 2 \in Row /\ lastId + 3 \in Row
         /\ \E i \in 0..MaxWork : lastId + 3 = 3 * i
<1>1. PICK i \in 0..MaxWork : lastId = 3 * i
  BY DEF TrailTypes
<1>2. MaxWork \in Nat /\ lastId < 3 * MaxWork
  BY AuditTrailAssumption DEF Running
<1>3. i + 1 \in 0..MaxWork /\ lastId + 3 = 3 * (i + 1)
  BY <1>1, <1>2
<1>4. lastId \in Nat /\ lastId + 3 <= 3 * MaxWork
  BY <1>1, <1>2, <1>3
<1>5. \E k \in 0..MaxWork : lastId + 3 = 3 * k
  BY <1>3
<1>6. QED BY <1>2, <1>4, <1>5 DEF Row

LEMMA CreateLogRows ==
  ASSUME TrailInv, Running, NEW m \in Logged, NEW ln \in Lines, CreateLog(m, ln),
         UNCHANGED <<rules, saved, day>>
  PROVE  /\ http' \in Https /\ http'.kind = http.kind
         /\ (\E i \in 0..MaxWork : lastId' = 3 * i) /\ lastId <= lastId'
         /\ RowsOK(logs', requests', sessions', day, lastId')
         /\ TxOK' /\ hidden' \in BOOLEAN /\ Added1(m, ln)
<1>1. /\ TrailTypes /\ http.kind # "none" /\ TxOK /\ http \in Https
      /\ RowsOK(logs, requests, sessions, day, lastId) /\ hidden \in BOOLEAN
      /\ http.ops < MaxOps /\ MaxOps \in Nat
  BY AuditTrailAssumption DEF TrailInv, Running, ContentOK, content, TrailTypes
<1>2. /\ lastId \in Nat /\ lastId + 1 \in Row /\ lastId + 2 \in Row /\ lastId + 3 \in Row
      /\ \E i \in 0..MaxWork : lastId + 3 = 3 * i
  BY <1>1, IdsMore
<1>3. day \in 1..MaxDay /\ http.ops + 1 \in 0..MaxOps
  BY <1>1, AuditTrailAssumption DEF TrailTypes, TxOK, Https
<1>4. CASE http.user = "excluded"
  <2>1. /\ hidden' = (hidden \/ m # "read")
        /\ UNCHANGED <<logs, requests, sessions, lastId>>
        /\ http' = [http EXCEPT !.ops = @ + 1]
    BY <1>4 DEF CreateLog
  <2>2. /\ http' \in Https /\ http'.kind = http.kind /\ http'.user = http.user
        /\ http'.cached = http.cached
    BY <1>1, <1>3, <2>1 DEF Https
  <2>3. TxOK'
    BY <1>1, <2>1, <2>2 DEF TxOK
  <2>4. \E i \in 0..MaxWork : lastId' = 3 * i
    BY <1>1, <2>1 DEF TrailTypes
  <2>5. hidden' \in BOOLEAN /\ Added1(m, ln)
    BY <1>1, <2>1 DEF Added1
  <2>6. QED BY <1>1, <1>2, <2>1, <2>2, <2>3, <2>4, <2>5
<1>5. CASE http.user # "excluded"
  <2> DEFINE session == IF FoundSession # {} THEN (CHOOSE s \in FoundSession : TRUE).id
                                             ELSE lastId + 1
             request == IF FoundRequest # {} THEN (CHOOSE r \in FoundRequest : TRUE).id
                                             ELSE lastId + 2
             byHttp == http.kind = "http"
             x == [id |-> lastId + 3, method |-> m, lines |-> ln, day |-> day,
                   request |-> IF byHttp THEN request ELSE None,
                   session |-> IF byHttp THEN session ELSE None]
             q == [id |-> request, day |-> day]
             s1 == [id |-> session, user |-> http.user, day |-> day]
  <2>1. /\ http' = [http EXCEPT !.ops = @ + 1, !.cached = IF byHttp THEN request ELSE @]
        /\ sessions' = IF byHttp /\ FoundSession = {} THEN sessions \cup {s1} ELSE sessions
        /\ requests' = IF byHttp /\ FoundRequest = {} THEN requests \cup {q} ELSE requests
        /\ logs' = IF m = "unlink" \/ DOMAIN ln # {} THEN logs \cup {x} ELSE logs
        /\ lastId' = lastId + 3 /\ UNCHANGED hidden
    BY <1>5 DEF CreateLog
  <2>2. session \in Row /\ http.user = "user"
    <3>1. \A s \in sessions : s.id \in Row
      BY <1>1 DEF RowsOK, SessionRows
    <3>2. http.user = "user"
      BY <1>1, <1>5 DEF Https, TxOK
    <3>3. QED BY <1>2, <3>1, <3>2 DEF FoundSession
  <2>3. /\ FoundRequest # {} => request = http.cached /\ \E r \in requests : r.id = http.cached
        /\ FoundRequest = {} => request = lastId + 2 /\ \A r \in requests : r.id # http.cached
    BY DEF FoundRequest
  <2>4. request \in Row
    BY <1>1, <1>2, <2>3 DEF RowsOK, RequestRows
  <2> HIDE DEF session, request
  <2>5. x \in Log
    BY <1>2, <1>3, <2>2, <2>4 DEF Log, Logged
  <2>6. /\ http' \in Https /\ http'.kind = http.kind /\ http'.user = http.user
        /\ http'.cached = IF byHttp THEN request ELSE http.cached
    BY <1>1, <1>3, <2>1, <2>4 DEF Https
  <2>7. x.id = lastId + 3 /\ x.method = m /\ x.lines = ln /\ x.day = day
        /\ x.request = IF byHttp THEN request ELSE None
    OBVIOUS
  <2>8. Added1(m, ln)
    BY <2>1, <2>5, <2>7 DEF Added1
  <2> HIDE DEF x
  <2>a. /\ \A k \in logs' : k \in logs \/ k = x
        /\ \A r \in requests' :
             r \in requests \/ (r = q /\ byHttp /\ FoundRequest = {})
        /\ requests \subseteq requests' /\ logs \subseteq logs'
    BY <2>1
  <2>b. byHttp => \E r \in requests' : r.id = request
    <3>1. CASE FoundRequest # {}
      BY <2>3, <2>a, <3>1
    <3>2. CASE byHttp /\ FoundRequest = {}
      <4>1. q \in requests'
        BY <2>1, <3>2
      <4>2. QED BY <4>1
    <3>3. QED BY <3>1, <3>2
  <2>c. \A l \in logs : /\ l.id \in Nat /\ l.request \in Nat /\ l.day \in Nat
                         /\ l.id <= lastId /\ l.request <= lastId /\ l.day <= day
    BY <1>1, RowTypes DEF RowsOK
  <2>d. \A r \in requests : r.id \in Nat /\ r.id <= lastId /\ r.day \in Nat /\ r.day <= day
    BY <1>1, AuditTrailAssumption DEF RowsOK, RequestRows, Row
  <2>e. \A l \in logs : l.day = day /\ l.request # None => byHttp /\ l.request = request
    BY <1>1, <2>3 DEF TxOK, RowsOK
  <2>f. \A r \in requests' : r.id = request => r.day = day
    <3>1. CASE FoundRequest # {}
      BY <1>1, <2>3, <2>a, <3>1 DEF TxOK
    <3>2. CASE FoundRequest = {}
      <4>1. request = lastId + 2
        BY <2>3, <3>2
      <4>2. \A r \in requests : r.id # request
        BY <1>2, <2>d, <4>1
      <4>3. QED BY <2>a, <4>2
    <3>3. QED BY <3>1, <3>2
  <2>g. \A l \in logs : \A r \in requests' : r.id = l.request => r.day = l.day
    <3> SUFFICES ASSUME NEW l \in logs, NEW r \in requests', r.id = l.request
                 PROVE  r.day = l.day
      OBVIOUS
    <3>1. CASE r \in requests
      BY <1>1, <3>1 DEF RowsOK
    <3>2. CASE r = q /\ FoundRequest = {}
      <4>1. l.request = lastId + 2
        BY <2>3, <3>2
      <4>2. l.request <= lastId
        BY <2>c
      <4>3. QED BY <1>2, <4>1, <4>2
    <3>3. QED BY <2>a, <3>1, <3>2
  <2>9. RowsOK(logs', requests', sessions', day, lastId')
    <3>1. logs' \subseteq Log
      BY <1>1, <2>5, <2>a DEF RowsOK
    <3>2. requests' \subseteq RequestRows
      <4>1. q \in RequestRows
        BY <1>3, <2>4 DEF RequestRows
      <4>2. QED BY <1>1, <2>a, <4>1 DEF RowsOK
    <3>3. sessions' \subseteq SessionRows
      <4>1. s1 \in SessionRows
        BY <1>3, <2>2 DEF SessionRows
      <4>2. QED BY <1>1, <2>1, <4>1 DEF RowsOK
    <3>4. request <= lastId + 2 /\ request \in Nat
      BY <1>2, <2>3, <2>d DEF FoundRequest
    <3>5. \A l \in logs' : l.day <= day /\ l.id <= lastId' /\ l.request <= lastId'
      <4> SUFFICES ASSUME NEW l \in logs' PROVE l.day <= day /\ l.id <= lastId' /\ l.request <= lastId'
        OBVIOUS
      <4>1. CASE l \in logs
        BY <1>2, <2>1, <2>c, <4>1
      <4>2. CASE l = x
        BY <1>2, <1>3, <2>1, <2>7, <3>4, <4>2 DEF None
      <4>3. QED BY <2>a, <4>1, <4>2
    <3>6. \A r \in requests' : r.day <= day /\ r.id <= lastId'
      <4> SUFFICES ASSUME NEW r \in requests' PROVE r.day <= day /\ r.id <= lastId'
        OBVIOUS
      <4>1. CASE r \in requests
        BY <1>2, <2>1, <2>d, <4>1
      <4>2. CASE r = q
        BY <1>2, <1>3, <2>1, <3>4, <4>2
      <4>3. QED BY <2>a, <4>1, <4>2
    <3>7. \A l, k \in logs' : l.id = k.id => l = k
      <4>1. \A l \in logs : l.id # x.id
        BY <1>2, <2>7, <2>c
      <4>2. QED BY <1>1, <2>a, <4>1 DEF RowsOK
    <3>8. \A l \in logs' : l.request # None => \E r \in requests' : r.id = l.request
      BY <1>1, <2>7, <2>a, <2>b DEF RowsOK
    <3>9. \A l \in logs' : \A r \in requests' : r.id = l.request => r.day = l.day
      <4>1. \A r \in requests' : r.id # None
        BY <3>2, AuditTrailAssumption DEF RequestRows, Row, None
      <4>2. QED BY <2>7, <2>a, <2>f, <2>g, <4>1
    <3>10. \A l, k \in logs' :
             l.day = k.day /\ l.request # None /\ k.request # None => l.request = k.request
      <4>1. x.request # None => x.request = request
        BY <2>7
      <4>2. QED BY <1>1, <2>7, <2>a, <2>e, <4>1 DEF RowsOK
    <3>11. QED BY <3>1, <3>2, <3>3, <3>5, <3>6, <3>7, <3>8, <3>9, <3>10 DEF RowsOK
  <2>10. TxOK'
    <3>1. \A l \in logs' : l.day = day /\ l.request # None => byHttp /\ l.request = http'.cached
      BY <2>6, <2>7, <2>a, <2>e
    <3>2. \A r \in requests' : r.id = http'.cached => r.day = day
      <4>1. CASE byHttp
        BY <2>6, <2>f, <4>1
      <4>2. CASE ~byHttp
        BY <1>1, <2>a, <2>6, <4>2 DEF TxOK
      <4>3. QED BY <4>1, <4>2
    <3>3. QED BY <1>1, <2>6, <2>a, <3>1, <3>2 DEF TxOK
  <2>11. lastId <= lastId'
    BY <1>2, <2>1
  <2>12. QED BY <1>1, <1>2, <2>1, <2>6, <2>8, <2>9, <2>10, <2>11
<1>6. QED BY <1>4, <1>5

-----------------------------------------------------------------------------
(* The lines of a log                                                      *)

PartOf(r) == DOMAIN r \subseteq Fields /\ \A f \in DOMAIN r : r[f] \in Values

LEMMA RecordsAreParts ==
  /\ PartOf(Absent) /\ DOMAIN Absent = {}
  /\ \A S \in SUBSET Fields : \A r \in [S -> Values] : PartOf(r)
BY DEF PartOf, Absent

LinesMade(ln, S, old, new) ==
  /\ ln \in Lines /\ DOMAIN ln = S \ FieldsToExclude
  /\ \A f \in S \ FieldsToExclude : /\ f \in DOMAIN old => ln[f].old = old[f]
                                    /\ f \in DOMAIN new => ln[f].new = new[f]

LEMMA MadeLines ==
  \A S \in SUBSET Fields : \A old, new :
    PartOf(old) /\ PartOf(new) => LinesMade(MakeLines(S, old, new), S, old, new)
<1> SUFFICES ASSUME NEW S \in SUBSET Fields, NEW old, NEW new, PartOf(old), PartOf(new)
             PROVE  LinesMade(MakeLines(S, old, new), S, old, new)
  OBVIOUS
<1> DEFINE v(f, r) == IF f \in DOMAIN r THEN r[f] ELSE Falsy
           T == S \ FieldsToExclude
<1>1. MakeLines(S, old, new) = [f \in T |-> [old |-> v(f, old), new |-> v(f, new)]]
  BY DEF MakeLines
<1>2. \A f \in T : v(f, old) \in Values /\ v(f, new) \in Values
  BY AuditTrailAssumption DEF PartOf
<1>3. T \in SUBSET Fields
  OBVIOUS
<1> HIDE DEF T
<1>4. \A f \in T : /\ f \in DOMAIN old => v(f, old) = old[f]
                   /\ f \in DOMAIN new => v(f, new) = new[f]
  OBVIOUS
<1> HIDE DEF v
<1>5. MakeLines(S, old, new) \in [T -> [old: Values, new: Values]]
  BY <1>1, <1>2
<1>6. MakeLines(S, old, new) \in Lines
  BY <1>3, <1>5 DEF Lines
<1>7. \A f \in T : /\ f \in DOMAIN old => MakeLines(S, old, new)[f].old = old[f]
                   /\ f \in DOMAIN new => MakeLines(S, old, new)[f].new = new[f]
  BY <1>1, <1>4
<1>8. QED BY <1>5, <1>6, <1>7 DEF T, LinesMade

WrittenLines(ln, S, vals, before, after) ==
  /\ ln \in Lines
  /\ logType = "full" =>
       /\ DOMAIN ln = {f \in Fields \ FieldsToExclude : after[f] # before[f]}
       /\ \A f \in DOMAIN ln : ln[f].old = before[f] /\ ln[f].new = after[f]
  /\ logType # "full" =>
       /\ DOMAIN ln = {f \in S \ FieldsToExclude : vals[f] # Falsy}
       /\ \A f \in DOMAIN ln : ln[f].new = vals[f]

LEMMA WriteLines ==
  \A S \in SUBSET Fields : \A vals \in [S -> Values] : \A before, after \in [Fields -> Values] :
    WrittenLines(LinesOnWrite(vals, before, after), S, vals, before, after)
<1> SUFFICES ASSUME NEW S \in SUBSET Fields, NEW vals \in [S -> Values],
                    NEW before \in [Fields -> Values], NEW after \in [Fields -> Values], NEW ln,
                    ln = LinesOnWrite(vals, before, after)
             PROVE  WrittenLines(ln, S, vals, before, after)
  OBVIOUS
<1>1. PartOf(before) /\ PartOf(after) /\ PartOf(vals)
  BY RecordsAreParts
<1>2. CASE logType = "full"
  <2> DEFINE C == Changed(after, before)
  <2>1. ln = MakeLines(C, before, after)
    BY <1>2 DEF LinesOnWrite, NewValues, OldValues
  <2>2. C = {f \in Fields : after[f] # before[f]} /\ C \in SUBSET Fields
    BY DEF Changed
  <2> HIDE DEF C
  <2>3. LinesMade(ln, C, before, after)
    <3>1. C \in SUBSET Fields
      BY <2>2
    <3>2. QED BY ONLY <1>1, <2>1, <3>1, MadeLines, Zenon
  <2>4. QED BY <1>2, <2>2, <2>3 DEF LinesMade, WrittenLines
<1>3. CASE logType # "full"
  <2> DEFINE none == [f \in S |-> Falsy]
             C == Changed(vals, none)
  <2>1. ln = MakeLines(C, none, vals)
    BY <1>3 DEF LinesOnWrite, NewValues, OldValues
  <2>2. C = {f \in S : vals[f] # Falsy} /\ C \in SUBSET Fields
    BY DEF Changed
  <2>3. PartOf(none)
    BY AuditTrailAssumption DEF PartOf
  <2> HIDE DEF C, none
  <2>4. LinesMade(ln, C, none, vals)
    <3>1. C \in SUBSET Fields
      BY <2>2
    <3>2. QED BY ONLY <1>1, <2>1, <2>3, <3>1, MadeLines, Zenon
  <2>5. QED BY <1>3, <2>2, <2>4 DEF LinesMade, WrittenLines
<1>4. QED BY <1>2, <1>3

CreatedLines(ln, S, vals, after) ==
  /\ ln \in Lines
  /\ logType = "full" => /\ DOMAIN ln = Fields \ FieldsToExclude
                         /\ \A f \in DOMAIN ln : ln[f].new = after[f]
  /\ logType # "full" => /\ DOMAIN ln = S \ FieldsToExclude
                         /\ \A f \in DOMAIN ln : ln[f].new = vals[f]

LEMMA CreateLines ==
  \A S \in SUBSET Fields : \A vals \in [S -> Values] : \A after \in [Fields -> Values] :
    CreatedLines(LinesOnCreate(vals, after), S, vals, after)
<1> SUFFICES ASSUME NEW S \in SUBSET Fields, NEW vals \in [S -> Values],
                    NEW after \in [Fields -> Values], NEW ln, ln = LinesOnCreate(vals, after)
             PROVE  CreatedLines(ln, S, vals, after)
  OBVIOUS
<1> DEFINE new == NewValues(vals, after)
<1>1. /\ PartOf(new) /\ new = IF logType = "full" THEN after ELSE vals
      /\ DOMAIN new = IF logType = "full" THEN Fields ELSE S
  BY RecordsAreParts DEF NewValues
<1>2. ln = MakeLines(DOMAIN new, Absent, new)
  BY RecordsAreParts DEF LinesOnCreate, Added
<1>3. DOMAIN new \in SUBSET Fields
  BY <1>1
<1> HIDE DEF new
<1>4. LinesMade(ln, DOMAIN new, Absent, new)
  BY ONLY <1>1, <1>2, <1>3, RecordsAreParts, MadeLines, Zenon
<1>5. QED BY <1>1, <1>4 DEF LinesMade, CreatedLines

LEMMA OtherLines ==
  ASSUME RecordOK(record)
  PROVE  LinesOnUnlink(record) \in Lines /\ LinesOnRead({Source}, record) \in Lines
<1>1. PartOf(record) /\ PartOf(Absent)
  BY RecordsAreParts DEF RecordOK
<1>2. \A S \in SUBSET Fields : LinesOnRead(S, record) \in Lines
  BY <1>1, MadeLines DEF LinesOnRead, LinesMade
<1>3. [f \in {} |-> Falsy] \in Lines
  <2>1. [f \in {} |-> Falsy] \in [{} -> [old: Values, new: Values]] /\ {} \in SUBSET Fields
    OBVIOUS
  <2>2. QED BY ONLY <2>1, Zenon DEF Lines
<1>4. QED BY <1>2, <1>3, AuditTrailAssumption DEF LinesOnUnlink

\* What is stored: values given, or those there were, and what is computed.
LEMMA StoredValues ==
  ASSUME NEW S \in SUBSET (Fields \ Computed), NEW vals \in [S -> Values],
         NEW old \in [Fields -> Values], NEW r,
         r = Recompute([f \in Fields |-> IF f \in DOMAIN vals THEN vals[f] ELSE old[f]])
  PROVE  /\ r \in [Fields -> Values]
         /\ \A f \in Fields \ Computed : r[f] = IF f \in S THEN vals[f] ELSE old[f]
<1> DEFINE g == [f \in Fields |-> IF f \in DOMAIN vals THEN vals[f] ELSE old[f]]
<1>1. g \in [Fields -> Values] /\ \A f \in Fields : g[f] = IF f \in S THEN vals[f] ELSE old[f]
  OBVIOUS
<1> HIDE DEF g
<1>2. r = [f \in Fields |-> IF f \in Computed THEN g[Source] ELSE g[f]]
  BY DEF Recompute, g
<1>3. QED BY <1>1, <1>2, AuditTrailAssumption

-----------------------------------------------------------------------------
(* One log more                                                            *)

LEMMA SameTold ==
  \A t, L, M, r, s, f : AboutIn(L, f) = AboutIn(M, f) /\ r[f] = s[f] /\ Told(t, L, r, f)
                        => Told(t, M, s, f)
BY DEF Told

LEMMA AboutMore ==
  \A L, x, f : AboutIn(L \cup {x}, f) = IF Tells(x, f) THEN AboutIn(L, f) \cup {x} ELSE AboutIn(L, f)
BY DEF AboutIn

LEMMA OneMoreTold ==
  ASSUME NEW t, NEW L \in SUBSET Log, NEW r, NEW s, NEW f, NEW x \in Log, Tells(x, f),
         \A k \in L : k.id < x.id, x.lines[f].new = s[f],
         t = "full" => AboutIn(L, f) = {} \/ (Told(t, L, r, f) /\ x.lines[f].old = r[f])
  PROVE  Told(t, L \cup {x}, s, f)
<1> DEFINE A == AboutIn(L, f)
           B == AboutIn(L \cup {x}, f)
<1>1. B = A \cup {x} /\ A \subseteq L
  BY AboutMore DEF AboutIn
<1> HIDE DEF B
<1>2. \A k \in B : k.id <= x.id
  <2>1. x.id \in Nat /\ \A k \in A : k.id \in Nat /\ k.id < x.id
    BY <1>1, RowTypes
  <2>2. QED BY <1>1, <2>1
<1>3. t = "full" => \A l \in B \ {x} : \E k \in B : k.id > l.id /\ k.lines[f].old = l.lines[f].new
  <2> SUFFICES ASSUME t = "full", NEW l \in B \ {x}
               PROVE  \E k \in B : k.id > l.id /\ k.lines[f].old = l.lines[f].new
    OBVIOUS
  <2>1. l \in A /\ Told(t, L, r, f) /\ x.lines[f].old = r[f]
    BY <1>1
  <2>2. PICK n \in A : /\ n.lines[f].new = r[f]
                       /\ \A m \in A \ {n} : \E k \in A :
                            k.id > m.id /\ k.lines[f].old = m.lines[f].new
    BY <2>1 DEF Told
  <2>3. CASE l = n
    <3>1. l.id < x.id /\ l.id \in Nat /\ x.id \in Nat
      BY <1>1, <2>1, RowTypes
    <3>2. x.id > l.id
      BY <3>1
    <3>3. QED BY <1>1, <2>1, <2>2, <2>3, <3>2
  <2>4. CASE l # n
    BY <1>1, <2>1, <2>2, <2>4
  <2>5. QED BY <2>3, <2>4
<1>4. QED BY <1>1, <1>2, <1>3 DEF Told, B

\* Days after d and identifiers used since say nothing of the content on day d.
LEMMA DayAgrees ==
  ASSUME NEW c, NEW t, NEW p, NEW q, NEW d \in Nat, NEW n \in Nat, NEW m \in Nat, n <= m,
         ContentOK(c, t, p, d, n), \A e \in 0..d : q[e] = p[e]
  PROVE  ContentOK(c, t, q, d, m)
<1>1. RecordOK(c[1]) /\ c[6] \in BOOLEAN
  BY DEF ContentOK
<1>2. RowsOK(c[2], c[3], c[4], d, m)
  <2>1. RowsOK(c[2], c[3], c[4], d, n)
    BY DEF ContentOK
  <2>2. \A l \in c[2] : l.id \in Nat /\ l.request \in Nat
    BY <2>1, RowTypes DEF RowsOK
  <2>3. \A s \in c[3] : s.id \in Nat
    BY <2>1, AuditTrailAssumption DEF RowsOK, RequestRows, Row
  <2>4. /\ \A l \in c[2] : l.id <= m /\ l.request <= m
        /\ \A s \in c[3] : s.id <= m
    BY <2>1, <2>2, <2>3 DEF RowsOK
  <2>5. QED BY <2>1, <2>4 DEF RowsOK
<1>3. LifeOK(c[1], c[2], c[7], q, d)
  <2>1. LifeOK(c[1], c[2], c[7], p, d)
    BY DEF ContentOK
  <2>2. ASSUME NEW l \in c[2], NEW e \in l.day..d PROVE q[e] = p[e]
    <3>1. l.day \in Nat
      BY RowTypes DEF ContentOK, RowsOK
    <3>2. e \in 0..d
      BY <3>1
    <3>3. QED BY <3>2
  <2>3. q[d] = p[d]
    OBVIOUS
  <2>4. QED BY <2>1, <2>2, <2>3 DEF LifeOK
<1>4. WholeOK(t, c[1], c[2], c[6], q, d)
  <2>1. \A e \in 1..d : q[e - 1] = p[e - 1]
    OBVIOUS
  <2>2. Young(q, d) => Young(p, d)
    BY <2>1 DEF Young
  <2>3. QED BY <2>2 DEF ContentOK, WholeOK
<1>5. AuditsOK(c[5], c[1], q, d)
  BY DEF ContentOK, AuditsOK, FirstTells
<1>6. QED BY <1>1, <1>2, <1>3, <1>4, <1>5 DEF ContentOK

-----------------------------------------------------------------------------
(* Operations on the record                                                *)

\* The record becomes r today; the days before stay.
Becomes(r) ==
  /\ record' = r /\ RecordOK(r) /\ DOMAIN past' = 0..day /\ past'[day] = r
  /\ \A e \in 0..day : e # day => past'[e] = past[e]

LEMMA StoredToday ==
  \A r : TrailTypes /\ RecordOK(r) /\ StoreRecord(r) => Becomes(r)
BY DEF TrailTypes, StoreRecord, Becomes

\* An operation keeps the invariant if it does what one record needs.
LEMMA OperationDone ==
  ASSUME TrailInv, Running, NEW m \in Logged, NEW ln \in Lines, CreateLog(m, ln),
         UNCHANGED <<rules, saved, day>>, NEW r, Becomes(r),
         LifeOK(r, logs', born', past', day),
         WholeOK(logType, r, logs', hidden', past', day),
         AuditsOK(audits', r, past', day)
  PROVE  TrailInv'
<1>1. /\ http' \in Https /\ http'.kind = http.kind
      /\ (\E i \in 0..MaxWork : lastId' = 3 * i) /\ lastId <= lastId'
      /\ RowsOK(logs', requests', sessions', day, lastId')
      /\ TxOK' /\ hidden' \in BOOLEAN
  BY CreateLogRows
<1>2. day' = day /\ logType' = logType /\ saved' = saved /\ record' = r /\ RecordOK(r)
  BY DEF rules, Becomes
<1>3. TrailTypes /\ TxOK /\ ContentOK(saved, logType, past, day - 1, lastId)
  BY DEF TrailInv, Running
<1>4. TrailTypes'
  BY <1>1, <1>2, <1>3 DEF TrailTypes, Becomes, rules
<1>5. ContentOK(content, logType, past, day, lastId)'
  BY <1>1, <1>2 DEF ContentOK, content
<1>6. ContentOK(saved, logType, past', day - 1, lastId')
  <2>1. day - 1 \in Nat
    BY <1>3 DEF TrailTypes, TxOK
  <2>2. lastId \in Nat /\ lastId' \in Nat
    BY <1>1, <1>3 DEF TrailTypes
  <2>3. \A e \in 0..(day - 1) : past'[e] = past[e]
    <3>1. \A e \in 0..(day - 1) : e \in 0..day /\ e # day
      BY <1>3 DEF TrailTypes
    <3>2. QED BY <3>1 DEF Becomes
  <2>4. QED BY <1>1, <1>3, <2>1, <2>2, <2>3, DayAgrees
<1>7. QED BY <1>1, <1>2, <1>4, <1>5, <1>6 DEF TrailInv

\* The record was there or is made now, or it goes.
LEMMA LifeMore ==
  ASSUME TrailInv, http.kind # "none", NEW m, NEW ln, Added1(m, ln), NEW r, Becomes(r),
         born' = TRUE, record # Absent \/ ~born \/ r = Absent
  PROVE  LifeOK(r, logs', born', past', day)
<1>1. /\ day \in Nat /\ logs \subseteq Log /\ LifeOK(record, logs, born, past, day)
  BY AuditTrailAssumption DEF TrailInv, TrailTypes, ContentOK, content, RowsOK
<1>2. \A l \in logs' : l \in logs \/ l.day = day
  BY DEF Added1
<1>3. ASSUME r # Absent, NEW l \in logs', l.method \in {"create", "write"}, NEW e \in l.day..day
      PROVE  past'[e] # Absent
  <2>1. CASE e = day
    BY <1>3, <2>1 DEF Becomes
  <2>2. CASE e # day /\ l.day = day
    <3>1. e = day
      BY <1>1, <2>2
    <3>2. QED BY <2>2, <3>1
  <2>3. CASE e # day /\ l \in logs
    <3>1. l.day \in Nat
      BY <1>1, <2>3, RowTypes
    <3>2. e \in 0..day
      BY <1>1, <3>1
    <3>3. record # Absent
      BY <1>1, <1>3, <2>3 DEF LifeOK
    <3>4. past[e] # Absent
      BY <1>1, <1>3, <2>3, <3>3 DEF LifeOK
    <3>5. QED BY <2>3, <3>2, <3>4 DEF Becomes
  <2>4. QED BY <1>2, <2>1, <2>2, <2>3
<1>4. QED BY <1>3 DEF LifeOK, Becomes

LEMMA DaysOfAudits ==
  ASSUME TrailInv, http.kind # "none"
  PROVE  /\ day \in Nat /\ day \in 1..day /\ AuditsOK(audits, record, past, day)
         /\ \A a \in audits : a.day \in 1..day
BY AuditTrailAssumption DEF TrailInv, TrailTypes, TxOK, ContentOK, content, AuditsOK

\* A change is one log more, with the old values of what differs.
LEMMA OneAudit ==
  \A m, old, new : AuditLog(m, old, new) =>
    \/ audits' = audits /\ (m = "write" => old = new)
    \/ \E b : b.day = day /\ b.old = KeptOld(old, new) /\ audits' = audits \cup {b}
<1> SUFFICES ASSUME NEW m, NEW old, NEW new, AuditLog(m, old, new)
             PROVE  \/ audits' = audits /\ (m = "write" => old = new)
                    \/ \E b : /\ b.day = day /\ b.old = KeptOld(old, new)
                             /\ audits' = audits \cup {b}
  OBVIOUS
<1> DEFINE b == [method |-> m, day |-> day, op |-> http.ops, old |-> KeptOld(old, new)]
<1>1. audits' = audits \/ audits' = audits \cup {b}
  BY DEF AuditLog
<1>2. b.day = day /\ b.old = KeptOld(old, new)
  OBVIOUS
<1>3. m = "write" /\ old # new => audits' = audits \cup {b}
  BY DEF AuditLog
<1> HIDE DEF b
<1>4. QED BY <1>1, <1>2, <1>3

\* A creation: there was no record before.
LEMMA CreateAudits ==
  ASSUME TrailInv, http.kind # "none", ~born, NEW r, Becomes(r), AuditLog("create", Absent, r)
  PROVE  AuditsOK(audits', r, past', day)
<1>1. /\ day \in Nat /\ day \in 1..day /\ AuditsOK(audits, record, past, day)
      /\ \A a \in audits : a.day \in 1..day
  BY DaysOfAudits
<1>2. IsFiniteSet(audits') /\ \A a \in audits' : a.day \in 1..day
  <2>1. PICK b : b.day = day /\ (audits' = audits \/ audits' = audits \cup {b})
    <3>1. CASE audits' = audits
      <4>1. PICK b : b = [day |-> day]
        OBVIOUS
      <4>2. b.day = day
        BY <4>1
      <4>3. QED BY <3>1, <4>2
    <3>2. CASE audits' # audits
      BY <3>2, OneAudit
    <3>3. QED BY <3>1, <3>2
  <2>2. QED BY <1>1, <2>1, FS_AddElement DEF AuditsOK
<1>3. \A e \in 0..day : e # day => past'[e] = Absent
  <2>1. \A e \in 0..day : past[e] = Absent
    BY DEF TrailInv, ContentOK, content, LifeOK
  <2>2. QED BY <2>1 DEF Becomes
<1>4. \A f : Since(audits', day, f) = {}
  BY <1>1, <1>2 DEF Since
<1>5. \A f \in Fields : FirstTells(audits', r, past', day, f)
  BY <1>4 DEF FirstTells, Becomes
<1>6. QED BY <1>2, <1>3, <1>5 DEF AuditsOK

LEMMA Kept1 ==
  \A old, new \in [Fields -> Values] :
    LET k == KeptOld(old, new)
    IN  \A f \in Fields : /\ f \in DOMAIN k <=> old[f] # new[f]
                          /\ f \in DOMAIN k => k[f] = old[f]
BY DEF KeptOld

LEMMA SinceMore ==
  \A A, b, e, f : Since(A \cup {b}, e, f) =
    IF b.day > e /\ f \in DOMAIN b.old THEN Since(A, e, f) \cup {b} ELSE Since(A, e, f)
BY DEF Since

\* A write: the first change of a field since any day is this one or was before.
LEMMA WriteAudits ==
  ASSUME TrailInv, http.kind # "none", record \in [Fields -> Values],
         NEW r \in [Fields -> Values], Becomes(r), AuditLog("write", record, r)
  PROVE  AuditsOK(audits', r, past', day)
<1>1. /\ day \in Nat /\ day \in 1..day /\ AuditsOK(audits, record, past, day)
      /\ \A a \in audits : a.day \in 1..day
  BY DaysOfAudits
<1>2. CASE audits' = audits /\ record = r
  <2>1. past[day] = r
    BY <1>2 DEF TrailInv, ContentOK, content, LifeOK
  <2>2. \A e \in 0..day : past'[e] = past[e]
    BY <2>1 DEF Becomes
  <2>3. QED BY <1>1, <1>2, <2>2 DEF AuditsOK, FirstTells
<1>3. ASSUME NEW b, b.day = day, b.old = KeptOld(record, r), audits' = audits \cup {b}
      PROVE  AuditsOK(audits', r, past', day)
  <2>1. IsFiniteSet(audits') /\ \A a \in audits' : a.day \in 1..day
    BY <1>1, <1>3, FS_AddElement DEF AuditsOK
  <2>2. ASSUME NEW e \in 0..day, past'[e] # Absent, NEW f \in Fields
        PROVE  FirstTells(audits', r, past', e, f)
    <3>1. CASE e = day
      <4>1. Since(audits', e, f) = {}
        BY <2>1, <3>1 DEF Since
      <4>2. QED BY <3>1, <4>1 DEF FirstTells, Becomes
    <3>2. CASE e # day
      <4>1. past'[e] = past[e] /\ record # Absent /\ day > e
        BY <1>1, <3>2, PresentRecords DEF Becomes
      <4>2. FirstTells(audits, record, past, e, f)
        BY <1>1, <2>2, <4>1 DEF AuditsOK
      <4>3. (f \in DOMAIN b.old <=> record[f] # r[f]) /\ (f \in DOMAIN b.old => b.old[f] = record[f])
        BY <1>3, Kept1
      <4>4. CASE record[f] = r[f]
        <5>1. Since(audits', e, f) = Since(audits, e, f)
          <6>1. ~(b.day > e /\ f \in DOMAIN b.old)
            BY <4>3, <4>4
          <6>2. Since(audits \cup {b}, e, f) = Since(audits, e, f)
            BY <6>1 DEF Since
          <6>3. QED BY <1>3, <6>2
        <5>2. QED BY <4>1, <4>2, <4>4, <5>1 DEF FirstTells
      <4>5. CASE record[f] # r[f]
        <5>1. Since(audits', e, f) = Since(audits, e, f) \cup {b}
          BY <1>3, <4>1, <4>3, <4>5, SinceMore
        <5>2. b.old[f] = record[f] /\ \A a \in Since(audits', e, f) : a.day \in 1..day
          BY <2>1, <4>3, <4>5 DEF Since
        <5>3. CASE Since(audits, e, f) = {}
          <6>1. record[f] = past[e][f] /\ Since(audits', e, f) = {b}
            BY <4>2, <5>1, <5>3 DEF FirstTells
          <6>2. \A c \in Since(audits', e, f) : b.day <= c.day
            BY <1>1, <1>3, <6>1
          <6>3. b \in Since(audits', e, f) /\ b.old[f] = past'[e][f]
            BY <4>1, <5>2, <6>1
          <6>4. QED BY <6>2, <6>3 DEF FirstTells
        <5>4. CASE Since(audits, e, f) # {}
          <6>1. PICK a \in Since(audits, e, f) :
                  (\A c \in Since(audits, e, f) : a.day <= c.day) /\ a.old[f] = past[e][f]
            BY <4>2, <5>4 DEF FirstTells
          <6>2. a.day \in 1..day
            BY <5>1, <5>2, <6>1
          <6>3. a.day <= b.day
            BY <1>1, <1>3, <6>2
          <6>4. /\ a \in Since(audits', e, f) /\ a.old[f] = past'[e][f]
                /\ \A c \in Since(audits', e, f) : a.day <= c.day
            BY <4>1, <5>1, <6>1, <6>3
          <6>5. QED BY <6>4 DEF FirstTells
        <5>5. QED BY <5>3, <5>4
      <4>6. QED BY <4>4, <4>5
    <3>3. QED BY <3>1, <3>2
  <2>3. QED BY <2>1, <2>2 DEF AuditsOK
<1>4. QED BY <1>2, <1>3, OneAudit

\* What one log adds to those about a field.
LEMMA AboutAdded ==
  ASSUME TrailInv, NEW m \in Logged, NEW ln, Added1(m, ln), ~hidden', NEW f
  PROVE  /\ m # "read" => ~hidden
         /\ m = "read" => AboutIn(logs', f) = AboutIn(logs, f)
         /\ f \notin DOMAIN ln => AboutIn(logs', f) = AboutIn(logs, f)
         /\ m \in {"create", "write"} /\ f \in DOMAIN ln =>
              \E x \in Log : /\ Tells(x, f) /\ x.lines = ln /\ logs' = logs \cup {x}
                            /\ \A k \in logs : k.id < x.id
<1>1. /\ logs \subseteq Log /\ lastId \in Nat /\ \A k \in logs : k.id \in Nat /\ k.id <= lastId
      /\ hidden \in BOOLEAN
  BY RowTypes DEF TrailInv, TrailTypes, ContentOK, content, RowsOK
<1>2. CASE logs' = logs /\ (DOMAIN ln = {} \/ m = "read")
  <2>1. m # "read" => hidden' = hidden
    BY <1>2 DEF Added1, Logged
  <2>2. m \in {"create", "write"} => f \notin DOMAIN ln
    BY <1>2
  <2>3. QED BY <1>2, <2>1, <2>2
<1>3. ASSUME NEW x \in Log, x.id = lastId + 3, x.method = m, x.lines = ln, logs' = logs \cup {x},
             hidden' = hidden
      PROVE  /\ m # "read" => ~hidden
             /\ m = "read" => AboutIn(logs', f) = AboutIn(logs, f)
             /\ f \notin DOMAIN ln => AboutIn(logs', f) = AboutIn(logs, f)
             /\ m \in {"create", "write"} /\ f \in DOMAIN ln =>
                  \E y \in Log : /\ Tells(y, f) /\ y.lines = ln /\ logs' = logs \cup {y}
                                /\ \A k \in logs : k.id < y.id
  <2>1. Tells(x, f) <=> (m \in {"create", "write"} /\ f \in DOMAIN ln)
    BY <1>3 DEF Tells
  <2>2. ~Tells(x, f) => AboutIn(logs', f) = AboutIn(logs, f)
    BY <1>3 DEF AboutIn
  <2>3. \A k \in logs : k.id < x.id
    BY <1>1, <1>3
  <2>4. QED BY <1>3, <2>1, <2>2, <2>3
<1>4. CASE m # "read" /\ hidden' = (hidden \/ m # "read")
  BY <1>4
<1>5. (logs' = logs /\ (DOMAIN ln = {} \/ m = "read"))
      \/ (m # "read" /\ hidden' = (hidden \/ m # "read"))
      \/ (hidden' = hidden /\ \E x \in Log : x.id = lastId + 3 /\ x.method = m /\ x.lines = ln
                                            /\ logs' = logs \cup {x})
  BY DEF Added1
<1>6. QED BY <1>2, <1>3, <1>4, <1>5

LEMMA YoungBefore ==
  \A r : TrailTypes /\ Becomes(r) /\ Young(past', day) => Young(past, day)
<1> SUFFICES ASSUME NEW r, TrailTypes, Becomes(r), Young(past', day) PROVE Young(past, day)
  OBVIOUS
<1>1. \A e \in 1..day : e - 1 \in 0..day /\ e - 1 # day
  BY AuditTrailAssumption DEF TrailTypes
<1>2. \A e \in 1..day : past'[e - 1] = past[e - 1]
  BY <1>1 DEF Becomes
<1>3. QED BY <1>2 DEF Young

LEMMA WriteWhole ==
  ASSUME TrailInv, NEW S \in SUBSET (Fields \ Computed), NEW vals \in [S -> Values],
         record \in [Fields -> Values], NEW r, Becomes(r),
         r = Recompute([f \in Fields |-> IF f \in DOMAIN vals THEN vals[f] ELSE record[f]]),
         NEW ln, ln = LinesOnWrite(vals, record, r), Added1("write", ln)
  PROVE  WholeOK(logType, r, logs', hidden', past', day)
<1> SUFFICES ASSUME ~hidden', Young(past', day), NEW f \in Fields \ FieldsToExclude,
                    MustTell(logType, r, f)
             PROVE  Told(logType, logs', r, f)
  BY DEF WholeOK
<1>1. /\ r \in [Fields -> Values]
      /\ f \notin Computed => r[f] = IF f \in S THEN vals[f] ELSE record[f]
  BY StoredValues
<1>2. /\ logType = "full" =>
           /\ DOMAIN ln = {g \in Fields \ FieldsToExclude : r[g] # record[g]}
           /\ \A g \in DOMAIN ln : ln[g].old = record[g] /\ ln[g].new = r[g]
      /\ logType # "full" =>
           /\ DOMAIN ln = {g \in S \ FieldsToExclude : vals[g] # Falsy}
           /\ \A g \in DOMAIN ln : ln[g].new = vals[g]
  <2>1. S \in SUBSET Fields
    OBVIOUS
  <2>2. WrittenLines(ln, S, vals, record, r)
    BY ONLY <1>1, <2>1, vals \in [S -> Values], record \in [Fields -> Values], ln = LinesOnWrite(vals, record, r),
       WriteLines, Zenon
  <2>3. QED BY <2>2 DEF WrittenLines
<1>3. /\ ~hidden
      /\ f \notin DOMAIN ln => AboutIn(logs', f) = AboutIn(logs, f)
      /\ f \in DOMAIN ln =>
           \E x \in Log : /\ Tells(x, f) /\ x.lines = ln /\ logs' = logs \cup {x}
                         /\ \A k \in logs : k.id < x.id
  BY AboutAdded DEF Logged
<1>4. MustTell(logType, record, f) => Told(logType, logs, record, f)
  <2>1. Young(past, day)
    BY YoungBefore DEF TrailInv
  <2>2. record # Absent
    BY PresentRecords
  <2>3. QED BY <1>3, <2>1, <2>2 DEF TrailInv, ContentOK, content, WholeOK
<1>5. CASE f \in DOMAIN ln
  <2>1. PICK x \in Log : /\ Tells(x, f) /\ x.lines = ln /\ logs' = logs \cup {x}
                         /\ \A k \in logs : k.id < x.id
    BY <1>3, <1>5
  <2>2. x.lines[f].new = r[f]
    BY <1>1, <1>2, <1>5, <2>1 DEF MustTell
  <2>3. logType = "full" => Told(logType, logs, record, f) /\ x.lines[f].old = record[f]
    BY <1>2, <1>4, <1>5, <2>1 DEF MustTell
  <2>4. logs \in SUBSET Log
    BY DEF TrailInv, ContentOK, content, RowsOK
  <2>5. QED BY <2>1, <2>2, <2>3, <2>4, OneMoreTold
<1>6. CASE f \notin DOMAIN ln
  <2>1. r[f] = record[f] /\ MustTell(logType, record, f)
    BY <1>1, <1>2, <1>6 DEF MustTell
  <2>2. QED BY <1>3, <1>4, <1>6, <2>1, SameTold
<1>7. QED BY <1>5, <1>6

LEMMA CreateWhole ==
  ASSUME TrailInv, ~born, NEW S \in SUBSET (Fields \ Computed), NEW vals \in [S -> Values],
         NEW r, Becomes(r),
         r = Recompute([f \in Fields |-> IF f \in DOMAIN vals THEN vals[f] ELSE Falsy]),
         NEW ln, ln = LinesOnCreate(vals, r), Added1("create", ln)
  PROVE  WholeOK(logType, r, logs', hidden', past', day)
<1> SUFFICES ASSUME ~hidden', NEW f \in Fields \ FieldsToExclude, MustTell(logType, r, f)
             PROVE  Told(logType, logs', r, f)
  BY DEF WholeOK
<1>1. /\ r \in [Fields -> Values]
      /\ f \notin Computed => r[f] = IF f \in S THEN vals[f] ELSE Falsy
  <2> DEFINE old == [g \in Fields |-> Falsy]
  <2>1. old \in [Fields -> Values] /\ \A g \in Fields : old[g] = Falsy
    BY AuditTrailAssumption
  <2> HIDE DEF old
  <2>2. [g \in Fields |-> IF g \in DOMAIN vals THEN vals[g] ELSE Falsy]
        = [g \in Fields |-> IF g \in DOMAIN vals THEN vals[g] ELSE old[g]]
    BY <2>1
  <2>3. r = Recompute([g \in Fields |-> IF g \in DOMAIN vals THEN vals[g] ELSE old[g]])
    BY <2>2
  <2>4. /\ r \in [Fields -> Values]
        /\ \A g \in Fields \ Computed : r[g] = IF g \in S THEN vals[g] ELSE old[g]
    BY <2>1, <2>3, StoredValues
  <2>5. QED BY <2>1, <2>4
<1>2. /\ logType = "full" => /\ DOMAIN ln = Fields \ FieldsToExclude
                             /\ \A g \in DOMAIN ln : ln[g].new = r[g]
      /\ logType # "full" => /\ DOMAIN ln = S \ FieldsToExclude
                             /\ \A g \in DOMAIN ln : ln[g].new = vals[g]
  <2>1. S \in SUBSET Fields
    OBVIOUS
  <2>2. CreatedLines(ln, S, vals, r)
    BY ONLY <1>1, <2>1, vals \in [S -> Values], ln = LinesOnCreate(vals, r),
       CreateLines, Zenon
  <2>3. QED BY <2>2 DEF CreatedLines
<1>3. f \in DOMAIN ln
  BY <1>1, <1>2 DEF MustTell
<1>4. PICK x \in Log : /\ Tells(x, f) /\ x.lines = ln /\ logs' = logs \cup {x}
                       /\ \A k \in logs : k.id < x.id
  BY <1>3, AboutAdded DEF Logged
<1>5. x.lines[f].new = r[f]
  BY <1>1, <1>2, <1>3, <1>4 DEF MustTell
<1>6. AboutIn(logs, f) = {}
  BY DEF TrailInv, ContentOK, content, LifeOK, AboutIn, Tells
<1>7. logs \in SUBSET Log
  BY DEF TrailInv, ContentOK, content, RowsOK
<1>8. QED BY <1>4, <1>5, <1>6, <1>7, OneMoreTold

LEMMA OpenRecord ==
  ASSUME TrailInv, Running
  PROVE  /\ TrailTypes /\ http.kind # "none" /\ RecordOK(record) /\ born \in BOOLEAN
         /\ record # Absent => record \in [Fields -> Values] /\ born = TRUE
         /\ past[day] = record /\ day \in Nat /\ DOMAIN past = 0..day
<1>1. /\ TrailTypes /\ RecordOK(record) /\ LifeOK(record, logs, born, past, day) /\ day \in 0..day
  BY AuditTrailAssumption DEF TrailInv, ContentOK, content, TrailTypes
<1>2. record # Absent => born = TRUE
  BY <1>1 DEF LifeOK
<1>3. QED BY <1>1, <1>2, AuditTrailAssumption DEF LifeOK, RecordOK, TrailTypes, Running

LEMMA WriteHolds ==
  ASSUME TrailInv, NEW vals \in Vals, WriteRecord(vals)
  PROVE  TrailInv'
<1> DEFINE r == Recompute([f \in Fields |-> IF f \in DOMAIN vals THEN vals[f] ELSE record[f]])
           ln == LinesOnWrite(vals, record, r)
<1>1. PICK S \in SUBSET (Fields \ Computed) : vals \in [S -> Values]
  BY DEF Vals
<1>2. /\ Running /\ record # Absent /\ StoreRecord(r) /\ CreateLog("write", ln)
      /\ AuditLog("write", record, r) /\ UNCHANGED <<rules, born, saved, day>>
  BY DEF WriteRecord
<1>3. /\ TrailTypes /\ http.kind # "none" /\ record \in [Fields -> Values] /\ born = TRUE
  BY <1>2, OpenRecord
<1>4. r \in [Fields -> Values]
  BY <1>1, <1>3, StoredValues
<1>5. ln \in Lines
  <2>1. S \in SUBSET Fields
    OBVIOUS
  <2> HIDE DEF r
  <2>2. WrittenLines(ln, S, vals, record, r)
    BY ONLY <1>1, <1>3, <1>4, <2>1, WriteLines, Zenon
  <2>3. QED BY <2>2 DEF WrittenLines
<1>6. Becomes(r)
  <2> HIDE DEF r
  <2> QED BY <1>2, <1>3, <1>4, StoredToday DEF RecordOK
<1> HIDE DEF ln
<1>7. Added1("write", ln)
  BY <1>2, <1>5, CreateLogRows DEF Logged
<1>8. WholeOK(logType, r, logs', hidden', past', day)
  BY <1>1, <1>3, <1>6, <1>7, WriteWhole DEF ln
<1> HIDE DEF r
<1>9. LifeOK(r, logs', born', past', day)
  BY <1>2, <1>3, <1>6, <1>7, LifeMore
<1>10. AuditsOK(audits', r, past', day)
  BY <1>2, <1>3, <1>4, <1>6, WriteAudits
<1>11. QED BY <1>2, <1>5, <1>6, <1>8, <1>9, <1>10, OperationDone DEF Logged

LEMMA CreateHolds ==
  ASSUME TrailInv, NEW vals \in Vals, CreateRecord(vals)
  PROVE  TrailInv'
<1> DEFINE r == Recompute([f \in Fields |-> IF f \in DOMAIN vals THEN vals[f] ELSE Falsy])
           ln == LinesOnCreate(vals, r)
<1>1. PICK S \in SUBSET (Fields \ Computed) : vals \in [S -> Values]
  BY DEF Vals
<1>2. /\ Running /\ ~born /\ born' = TRUE /\ StoreRecord(r) /\ CreateLog("create", ln)
      /\ AuditLog("create", Absent, r) /\ UNCHANGED <<rules, saved, day>>
  BY DEF CreateRecord
<1>3. TrailTypes /\ http.kind # "none"
  BY <1>2, OpenRecord
<1>4. r \in [Fields -> Values]
  <2> DEFINE old == [g \in Fields |-> Falsy]
             g0 == [f \in Fields |-> IF f \in DOMAIN vals THEN vals[f] ELSE Falsy]
  <2>1. g0 \in [Fields -> Values]
    BY <1>1, AuditTrailAssumption
  <2> HIDE DEF g0
  <2>2. r = Recompute(g0)
    BY DEF g0
  <2>3. QED BY <2>1, <2>2, AuditTrailAssumption DEF Recompute
<1>5. ln \in Lines
  <2>1. S \in SUBSET Fields
    OBVIOUS
  <2> HIDE DEF r
  <2>2. CreatedLines(ln, S, vals, r)
    BY ONLY <1>1, <1>4, <2>1, CreateLines, Zenon
  <2>3. QED BY <2>2 DEF CreatedLines
<1>6. Becomes(r)
  <2> HIDE DEF r
  <2> QED BY <1>2, <1>3, <1>4, StoredToday DEF RecordOK
<1> HIDE DEF ln
<1>7. Added1("create", ln)
  BY <1>2, <1>5, CreateLogRows DEF Logged
<1>8. WholeOK(logType, r, logs', hidden', past', day)
  BY <1>1, <1>2, <1>6, <1>7, CreateWhole DEF ln
<1> HIDE DEF r
<1>9. LifeOK(r, logs', born', past', day)
  BY <1>2, <1>3, <1>6, <1>7, LifeMore
<1>10. AuditsOK(audits', r, past', day)
  BY <1>2, <1>3, <1>6, CreateAudits
<1>11. QED BY <1>2, <1>5, <1>6, <1>8, <1>9, <1>10, OperationDone DEF Logged

LEMMA ReadHolds ==
  ASSUME TrailInv, ReadRecord({Source})
  PROVE  TrailInv'
<1> DEFINE ln == LinesOnRead({Source}, record)
<1>1. /\ Running /\ record # Absent /\ CreateLog("read", ln)
      /\ UNCHANGED <<rules, record, born, audits, saved, day, past>>
  BY DEF ReadRecord
<1>2. /\ TrailTypes /\ http.kind # "none" /\ RecordOK(record) /\ born = TRUE /\ past[day] = record
      /\ DOMAIN past = 0..day /\ ln \in Lines
  BY <1>1, OpenRecord, OtherLines
<1> HIDE DEF ln
<1>3. Becomes(record)
  BY <1>1, <1>2 DEF Becomes
<1>4. Added1("read", ln)
  BY <1>1, <1>2, CreateLogRows DEF Logged
<1>5. LifeOK(record, logs', born', past', day)
  BY <1>1, <1>2, <1>3, <1>4, LifeMore
<1>6. AuditsOK(audits', record, past', day)
  BY <1>1 DEF TrailInv, ContentOK, content
<1>7. WholeOK(logType, record, logs', hidden', past', day)
  <2> SUFFICES ASSUME ~hidden', Young(past', day), NEW f \in Fields \ FieldsToExclude,
                      MustTell(logType, record, f)
               PROVE  Told(logType, logs', record, f)
    BY DEF WholeOK
  <2>1. AboutIn(logs', f) = AboutIn(logs, f)
    BY <1>4, AboutAdded DEF Logged
  <2>2. ~hidden
    BY <1>4 DEF Added1, TrailInv, ContentOK, content
  <2>3. Told(logType, logs, record, f)
    BY <1>1, <2>2 DEF TrailInv, ContentOK, content, WholeOK
  <2>4. QED BY <2>1, <2>3 DEF Told
<1>8. QED BY <1>1, <1>2, <1>3, <1>5, <1>6, <1>7, OperationDone DEF Logged

LEMMA UnlinkHolds ==
  ASSUME TrailInv, UnlinkRecord
  PROVE  TrailInv'
<1> DEFINE ln == LinesOnUnlink(record)
<1>1. /\ Running /\ record # Absent /\ StoreRecord(Absent) /\ CreateLog("unlink", ln)
      /\ AuditLog("unlink", record, Absent) /\ UNCHANGED <<rules, born, saved, day>>
  BY DEF UnlinkRecord
<1>2. TrailTypes /\ http.kind # "none" /\ RecordOK(record) /\ born = TRUE /\ ln \in Lines
  BY <1>1, OpenRecord, OtherLines
<1> HIDE DEF ln
<1>3. Becomes(Absent)
  BY <1>1, <1>2, StoredToday DEF RecordOK
<1>4. Added1("unlink", ln)
  BY <1>1, <1>2, CreateLogRows DEF Logged
<1>5. LifeOK(Absent, logs', born', past', day)
  BY <1>1, <1>2, <1>3, <1>4, LifeMore
<1>6. AuditsOK(audits', Absent, past', day)
  <2>1. /\ day \in 1..day /\ AuditsOK(audits, record, past, day)
        /\ \A a \in audits : a.day \in 1..day
    BY <1>2, DaysOfAudits
  <2>2. CASE audits' = audits
    BY <2>1, <2>2 DEF AuditsOK
  <2>3. ASSUME NEW b, b.day = day, audits' = audits \cup {b}
        PROVE  AuditsOK(audits', Absent, past', day)
    BY <2>1, <2>3, FS_AddElement DEF AuditsOK
  <2>4. QED BY <1>1, <2>2, <2>3, OneAudit
<1>7. WholeOK(logType, Absent, logs', hidden', past', day)
  BY DEF WholeOK
<1>8. QED BY <1>1, <1>2, <1>3, <1>5, <1>6, <1>7, OperationDone DEF Logged

-----------------------------------------------------------------------------
(* Transactions and the cron                                               *)

LEMMA StartHolds ==
  ASSUME TrailInv, NEW kind \in {"http", "cron"}, NEW user \in {"user", "excluded"},
         StartRequest(kind, user)
  PROVE  TrailInv'
<1>1. /\ http' = [NoHttp EXCEPT !.kind = kind, !.user = user]
      /\ day < MaxDay /\ day' = day + 1
      /\ past' = [d \in 0..(day + 1) |-> IF d \in DOMAIN past THEN past[d] ELSE record]
      /\ saved' = content
      /\ logType' = logType /\ captureRecord' = captureRecord /\ logCreate' = logCreate
      /\ content' = content /\ logs' = logs /\ requests' = requests /\ lastId' = lastId
  BY DEF StartRequest, rules, content
<1>2. /\ TrailTypes /\ ContentOK(content, logType, past, day, lastId)
      /\ RowsOK(logs, requests, sessions, day, lastId)
      /\ day \in Nat /\ lastId \in Nat /\ DOMAIN past = 0..day
  BY AuditTrailAssumption DEF TrailInv, TrailTypes, ContentOK, content
<1>3. /\ http' \in Https /\ http'.kind = kind /\ http'.user = user /\ http'.cached = None
  <2>1. http' = [kind |-> kind, user |-> user, cached |-> None, ops |-> 0, tries |-> 0]
    BY <1>1 DEF NoHttp
  <2>2. 0 \in 0..MaxOps
    BY AuditTrailAssumption
  <2>3. QED BY <2>1, <2>2 DEF Https
<1>4. TrailTypes'
  BY <1>1, <1>2, <1>3, AuditTrailAssumption DEF TrailTypes
<1>5. /\ \A e \in 0..day : past'[e] = past[e]
      /\ past'[day + 1] = record /\ record = content[1]
  BY <1>1, <1>2 DEF content
<1>6. ContentOK(content, logType, past', day + 1, lastId)
  BY <1>2, <1>5, DayMore
<1>7. ContentOK(content, logType, past', day, lastId)
  BY <1>2, <1>5, DayAgrees
<1>8. TxOK'
  <2>1. \A l \in logs : l.day # day + 1
    BY <1>2, RowTypes DEF RowsOK
  <2>2. \A q \in requests : q.id # None
    BY <1>2, AuditTrailAssumption DEF RowsOK, RequestRows, Row, None
  <2>3. saved'[2] = logs /\ saved'[3] = requests
    BY <1>1 DEF content
  <2>4. QED BY <1>1, <1>2, <1>3, <2>1, <2>2, <2>3 DEF TxOK
<1>9. (day + 1) - 1 = day
  BY <1>2
<1>10. QED BY <1>1, <1>4, <1>6, <1>7, <1>8, <1>9 DEF TrailInv

LEMMA CommitHolds ==
  ASSUME TrailInv, Commit
  PROVE  TrailInv'
<1>1. /\ http' = NoHttp /\ UNCHANGED <<rules, content, day, lastId, past>>
  BY DEF Commit
<1>2. NoHttp \in Https /\ NoHttp.kind = "none"
  BY AuditTrailAssumption DEF NoHttp, Https
<1>3. TrailTypes'
  BY <1>1, <1>2 DEF TrailInv, TrailTypes, rules
<1>4. QED BY <1>1, <1>2, <1>3 DEF TrailInv, rules

\* A rollback brings back what was true the day before.
LEMMA Restored ==
  ASSUME TrailInv, http.kind # "none", Restore, UNCHANGED <<rules, day, lastId>>
  PROVE  /\ ContentOK(content, logType, past, day, lastId)'
         /\ ContentOK(saved, logType, past', day - 1, lastId)
         /\ DOMAIN past' = 0..day
<1>1. /\ TrailTypes /\ ContentOK(saved, logType, past, day - 1, lastId)
      /\ day - 1 \in Nat /\ lastId \in Nat /\ (day - 1) + 1 = day /\ day \in 0..day
  BY AuditTrailAssumption DEF TrailInv, TrailTypes, TxOK
<1>2. /\ past' = [past EXCEPT ![day] = saved[1]] /\ DOMAIN past = 0..day
      /\ record' = saved[1] /\ logs' = saved[2] /\ requests' = saved[3]
      /\ sessions' = saved[4] /\ audits' = saved[5] /\ hidden' = saved[6] /\ born' = saved[7]
  BY <1>1 DEF Restore, TrailTypes
<1>3. /\ DOMAIN past' = 0..day /\ past'[(day - 1) + 1] = saved[1]
      /\ \A e \in 0..(day - 1) : past'[e] = past[e]
  BY <1>1, <1>2
<1> DEFINE d == day - 1
<1>a. d \in Nat /\ d + 1 = day /\ ContentOK(saved, logType, past, d, lastId)
      /\ past'[d + 1] = saved[1] /\ \A e \in 0..d : past'[e] = past[e]
  BY <1>1, <1>3
<1>b. lastId <= lastId
  BY <1>1
<1> HIDE DEF d
<1>4. ContentOK(saved, logType, past', day, lastId)
  <2>1. ContentOK(saved, logType, past', d + 1, lastId)
    BY <1>1, <1>a, <1>b, DayMore
  <2>2. QED BY <2>1, <1>a
<1>5. ContentOK(saved, logType, past', day - 1, lastId)
  <2>1. ContentOK(saved, logType, past', d, lastId)
    BY <1>1, <1>a, <1>b, DayAgrees
  <2>2. QED BY <2>1 DEF d
<1>6. ContentOK(content, logType, past, day, lastId)'
  BY <1>2, <1>4 DEF ContentOK, content, rules
<1>7. QED BY <1>3, <1>5, <1>6

LEMMA FailHolds ==
  ASSUME TrailInv, Fail
  PROVE  TrailInv'
<1>1. /\ http.kind # "none" /\ Restore /\ http' = NoHttp /\ UNCHANGED <<rules, day, lastId>>
  BY DEF Fail
<1>2. NoHttp \in Https /\ NoHttp.kind = "none"
  BY AuditTrailAssumption DEF NoHttp, Https
<1>3. ContentOK(content, logType, past, day, lastId)' /\ DOMAIN past' = 0..day
  BY <1>1, Restored
<1>4. TrailTypes'
  BY <1>1, <1>2, <1>3 DEF TrailInv, TrailTypes, rules
<1>5. QED BY <1>1, <1>2, <1>3, <1>4 DEF TrailInv

LEMMA RetryHolds ==
  ASSUME TrailInv, Retry
  PROVE  TrailInv'
<1>1. /\ http.kind # "none" /\ Restore /\ UNCHANGED <<rules, saved, day, lastId>>
      /\ http' = [http EXCEPT !.tries = 1, !.ops = 0]
  BY DEF Retry
<1>2. TrailTypes /\ TxOK /\ http \in Https
  BY <1>1 DEF TrailInv, TrailTypes
<1>3. /\ http' \in Https /\ http'.kind = http.kind /\ http'.user = http.user
      /\ http'.cached = http.cached
  <2>1. 0 \in 0..MaxOps /\ 1 \in {0, 1}
    BY AuditTrailAssumption
  <2>2. QED BY <1>1, <1>2, <2>1 DEF Https
<1>4. /\ ContentOK(content, logType, past, day, lastId)' /\ DOMAIN past' = 0..day
      /\ ContentOK(saved, logType, past', day - 1, lastId)
  BY <1>1, Restored
<1>5. TrailTypes'
  BY <1>1, <1>2, <1>3, <1>4 DEF TrailTypes, rules
<1>6. TxOK'
  <2>1. \A l \in saved[2] : l.day # day
    <3>1. RowsOK(saved[2], saved[3], saved[4], day - 1, lastId) /\ day \in Nat
      BY <1>2, <1>4, AuditTrailAssumption DEF ContentOK, TrailTypes
    <3>2. QED BY <3>1, RowTypes DEF RowsOK
  <2>2. logs' = saved[2] /\ requests' = saved[3] /\ saved' = saved /\ day' = day
    BY <1>1 DEF Restore
  <2>3. QED BY <1>2, <1>3, <2>1, <2>2 DEF TxOK
<1>7. QED BY <1>1, <1>4, <1>5, <1>6 DEF TrailInv, rules

LEMMA TrailInitHolds == TrailInit => TrailInv
<1> SUFFICES ASSUME TrailInit PROVE TrailInv
  OBVIOUS
<1>1. NoHttp \in Https /\ NoHttp.kind = "none"
  BY AuditTrailAssumption DEF NoHttp, Https
<1>2. TrailTypes
  <2>1. 0 \in 0..MaxWork /\ 0 = 3 * 0 /\ 0 \in 0..MaxDay /\ {0} = 0..0
    BY AuditTrailAssumption
  <2>2. \E i \in 0..MaxWork : lastId = 3 * i
    BY <2>1 DEF TrailInit
  <2>3. QED BY <1>1, <2>1, <2>2 DEF TrailInit, TrailTypes
<1>3. record = Absent /\ past[0] = Absent /\ day = 0 /\ lastId = 0
  BY DEF TrailInit
<1>4. RowsOK(logs, requests, sessions, day, lastId)
  BY DEF TrailInit, RowsOK
<1>5. LifeOK(record, logs, born, past, day)
  <2>1. \A e \in 0..0 : e = 0
    OBVIOUS
  <2>2. /\ logs = {} /\ born = FALSE /\ past[day] = record
        /\ \A e \in 0..day : past[e] = Absent
    BY <1>3, <2>1 DEF TrailInit
  <2>3. QED BY <1>3, <2>2 DEF LifeOK
<1>6. AuditsOK(audits, record, past, day)
  BY <1>3, FS_EmptySet DEF TrailInit, AuditsOK
<1>7. ContentOK(content, logType, past, day, lastId)
  BY <1>3, <1>4, <1>5, <1>6 DEF ContentOK, WholeOK, RecordOK, content, TrailInit
<1>8. QED BY <1>1, <1>2, <1>7 DEF TrailInv, TrailInit

\* What is left of a log whose request R or session S is removed.
Gone(x, T) == \E t \in T : t.id = x
Left(l, R, S) == [l EXCEPT !.request = IF Gone(@, R) THEN None ELSE @,
                           !.session = IF Gone(@, S) THEN None ELSE @]

LEMMA LeftTypes ==
  \A R, S : \A l \in Log :
    LET k == Left(l, R, S)
    IN  /\ k \in Log /\ k.id = l.id /\ k.method = l.method /\ k.lines = l.lines /\ k.day = l.day
        /\ k.request = IF Gone(l.request, R) THEN None ELSE l.request
<1> SUFFICES ASSUME NEW R, NEW S, NEW l \in Log, NEW k, k = Left(l, R, S)
             PROVE  /\ k \in Log /\ k.id = l.id /\ k.method = l.method /\ k.lines = l.lines
                    /\ k.day = l.day
                    /\ k.request = IF Gone(l.request, R) THEN None ELSE l.request
  OBVIOUS
<1> DEFINE q == IF Gone(l.request, R) THEN None ELSE l.request
           s == IF Gone(l.session, S) THEN None ELSE l.session
<1>1. k = [l EXCEPT !.request = q, !.session = s]
  BY DEF Left
<1>2. q \in Row \cup {None} /\ s \in Row \cup {None}
  BY DEF Log
<1> HIDE DEF q, s
<1>3. /\ k \in Log /\ k.id = l.id /\ k.method = l.method /\ k.lines = l.lines
      /\ k.day = l.day /\ k.request = q
  BY <1>1, <1>2 DEF Log
<1>4. QED BY <1>3 DEF q

\* The record's life is told by logs that are kept.
LEMMA AboutAreYoung ==
  ASSUME TrailInv, record # Absent, Young(past, day), NEW f, NEW l \in AboutIn(logs, f)
  PROVE  l.day + Days > day
<1>1. PICK e \in 1..day : e + Days > day /\ past[e - 1] = Absent
  BY DEF Young
<1>2. l \in logs /\ l.method \in {"create", "write"} /\ logs \subseteq Log
  BY DEF AboutIn, Tells, TrailInv, ContentOK, content, RowsOK
<1>3. \A g \in l.day..day : past[g] # Absent
  BY <1>2 DEF TrailInv, ContentOK, content, LifeOK
<1>4. l.day \in Nat /\ day \in Nat /\ Days \in Nat
  BY <1>2, RowTypes, AuditTrailAssumption DEF TrailInv, TrailTypes
<1>5. ~(l.day <= e - 1)
  <2>1. l.day <= e - 1 => e - 1 \in l.day..day
    BY <1>4
  <2>2. QED BY <1>1, <1>3, <2>1
<1>6. QED BY <1>1, <1>4, <1>5

LEMMA VacuumHolds ==
  ASSUME TrailInv, AutoVacuum
  PROVE  TrailInv'
<1>1. PICK L \in Vacuumed(logs), R \in Vacuumed(requests), S \in Vacuumed(sessions) :
        /\ requests' = requests \ R /\ sessions' = sessions \ S
        /\ logs' = {Left(l, R, S) : l \in logs \ L}
  BY DEF AutoVacuum, Left, Gone
<1>2. /\ http = NoHttp /\ http' = http /\ logType' = logType /\ captureRecord' = captureRecord
      /\ logCreate' = logCreate /\ record' = record /\ born' = born /\ audits' = audits
      /\ hidden' = hidden /\ day' = day /\ lastId' = lastId /\ past' = past
  BY DEF AutoVacuum, rules
<1>3. /\ \A l \in L : l.day + Days <= day
      /\ \A r \in R : r.day + Days <= day
  BY DEF Vacuumed, Old
<1>4. /\ TrailTypes /\ RowsOK(logs, requests, sessions, day, lastId)
      /\ LifeOK(record, logs, born, past, day) /\ RecordOK(record)
      /\ AuditsOK(audits, record, past, day) /\ hidden \in BOOLEAN
      /\ WholeOK(logType, record, logs, hidden, past, day) /\ logs \subseteq Log
  BY DEF TrailInv, ContentOK, content, RowsOK
<1> DEFINE E(l) == Left(l, R, S)
<1>5. \A l \in logs :
        /\ E(l) \in Log /\ E(l).id = l.id /\ E(l).method = l.method /\ E(l).lines = l.lines
        /\ E(l).day = l.day
        /\ E(l).request = IF Gone(l.request, R) THEN None ELSE l.request
  BY <1>4, LeftTypes
<1>6. logs' = {E(l) : l \in logs \ L}
  BY <1>1
<1> HIDE DEF E
<1>7. \A k \in logs' : \E l \in logs \ L : k = E(l)
  BY <1>6
<1>8. RowsOK(logs', requests', sessions', day, lastId)
  <2>1. logs' \subseteq Log /\ requests' \subseteq RequestRows /\ sessions' \subseteq SessionRows
    BY <1>1, <1>4, <1>5, <1>7 DEF RowsOK
  <2>2. \A l \in logs : E(l).request <= lastId
    BY <1>4, <1>5, RowTypes DEF RowsOK, None, TrailTypes
  <2>3. \A k \in logs' : k.day <= day /\ k.id <= lastId /\ k.request <= lastId
    BY <1>4, <1>5, <1>7, <2>2 DEF RowsOK
  <2>4. \A q \in requests' : q \in requests /\ q \notin R /\ q.id # None
    BY <1>1, <2>1, AuditTrailAssumption DEF RequestRows, Row, None
  <2>5. \A l, k \in logs' : l.id = k.id => l = k
    BY <1>4, <1>5, <1>7 DEF RowsOK
  <2>6. \A l \in logs : E(l).request # None => \E q \in requests' : q.id = E(l).request
    <3> SUFFICES ASSUME NEW l \in logs, E(l).request # None
                 PROVE  \E q \in requests' : q.id = E(l).request
      OBVIOUS
    <3>1. ~Gone(l.request, R) /\ E(l).request = l.request
      BY <1>5
    <3>2. PICK q \in requests : q.id = l.request
      BY <1>4, <3>1 DEF RowsOK
    <3>3. q \notin R
      BY <3>1, <3>2 DEF Gone
    <3>4. QED BY <1>1, <3>1, <3>2, <3>3
  <2>7. \A l \in logs' : l.request # None => \E q \in requests' : q.id = l.request
    BY <1>7, <2>6
  <2>8. \A l \in logs' : \A q \in requests' : q.id = l.request => q.day = l.day
    BY <1>4, <1>5, <1>7, <2>4 DEF RowsOK
  <2>9. \A l, k \in logs' :
          l.day = k.day /\ l.request # None /\ k.request # None => l.request = k.request
    BY <1>4, <1>5, <1>7 DEF RowsOK
  <2>10. \A q \in requests' : q.day <= day /\ q.id <= lastId
    BY <1>4, <2>4 DEF RowsOK
  <2>11. QED BY <2>1, <2>3, <2>5, <2>7, <2>8, <2>9, <2>10 DEF RowsOK
<1>9. LifeOK(record, logs', born, past, day)
  BY <1>4, <1>5, <1>7 DEF LifeOK
<1>10. WholeOK(logType, record, logs', hidden, past, day)
  <2> SUFFICES ASSUME record # Absent, ~hidden, Young(past, day),
                      NEW f \in Fields \ FieldsToExclude, MustTell(logType, record, f)
               PROVE  Told(logType, logs', record, f)
    BY DEF WholeOK
  <2> DEFINE A == AboutIn(logs, f)
             B == AboutIn(logs', f)
  <2>1. \A l \in A : l \in logs \ L
    <3>1. \A l \in A : l.day + Days > day /\ l \in logs
      BY AboutAreYoung DEF AboutIn
    <3>2. \A l \in logs : l.day \in Nat
      BY <1>4, RowTypes
    <3>3. day \in Nat /\ Days \in Nat
      BY <1>4, AuditTrailAssumption DEF TrailTypes
    <3>4. QED BY <1>3, <3>1, <3>2, <3>3
  <2>2. \A l \in A : E(l) \in B
    BY <1>5, <1>6, <2>1 DEF AboutIn, Tells
  <2>3. \A k \in B : \E l \in A : k = E(l)
    BY <1>5, <1>7 DEF AboutIn, Tells
  <2>4. \A l \in A : E(l).id = l.id /\ E(l).lines = l.lines
    BY <1>5 DEF AboutIn
  <2>5. PICK n \in A : /\ \A k \in A : k.id <= n.id
                       /\ n.lines[f].new = record[f]
                       /\ logType = "full" => \A l \in A \ {n} : \E k \in A :
                            k.id > l.id /\ k.lines[f].old = l.lines[f].new
    BY <1>4 DEF WholeOK, Told
  <2> HIDE DEF A, B
  <2>6. \A k \in B : k.id <= E(n).id
    BY <2>3, <2>4, <2>5
  <2>7. ASSUME logType = "full", NEW b \in B \ {E(n)}
        PROVE  \E c \in B : c.id > b.id /\ c.lines[f].old = b.lines[f].new
    <3>1. PICK l \in A : b = E(l)
      BY <2>3
    <3>2. PICK k \in A : k.id > l.id /\ k.lines[f].old = l.lines[f].new
      BY <2>5, <2>7, <3>1
    <3>3. QED BY <2>2, <2>4, <3>1, <3>2
  <2>8. E(n) \in B /\ E(n).lines[f].new = record[f]
    BY <2>2, <2>4, <2>5
  <2>9. QED BY <2>6, <2>7, <2>8 DEF Told, B
<1>11. ContentOK(content, logType, past, day, lastId)'
  BY <1>2, <1>4, <1>8, <1>9, <1>10 DEF ContentOK, content
<1>12. TrailTypes'
  BY <1>2, <1>4 DEF TrailTypes
<1>13. http'.kind = "none"
  BY <1>2 DEF NoHttp
<1>14. QED BY <1>11, <1>12, <1>13 DEF TrailInv

LEMMA TrailStep == TrailInv /\ [TrailNext]_trailVars => TrailInv'
<1> SUFFICES ASSUME TrailInv, [TrailNext]_trailVars PROVE TrailInv'
  OBVIOUS
<1>1. CASE UNCHANGED trailVars
  BY <1>1 DEF trailVars, TrailInv, TrailTypes, TxOK, ContentOK, content, rules
<1>2. CASE TrailNext
  BY <1>2, StartHolds, CreateHolds, WriteHolds, ReadHolds, UnlinkHolds, CommitHolds,
     RetryHolds, FailHolds, VacuumHolds DEF TrailNext
<1>3. QED BY <1>1, <1>2

LEMMA TrailAlways == TrailSpec => []TrailInv
<1>1. TrailInit => TrailInv
  BY TrailInitHolds
<1>2. TrailInv /\ [TrailNext]_trailVars => TrailInv'
  BY TrailStep
<1>3. QED BY <1>1, <1>2, PTL DEF TrailSpec

-----------------------------------------------------------------------------
(* What the invariant says                                                 *)

\* A set with one element has the one that is known to be in it.
LEMMA OnlyOne ==
  ASSUME NEW S, IsFiniteSet(S), Cardinality(S) = 1, NEW x \in S
  PROVE  S = {x}
<1>1. PICK y : S = {y}
  BY FS_Singleton
<1>2. QED BY <1>1

LEMMA WholeFromInv == TrailInv => TrailIsWhole
<1> SUFFICES ASSUME TrailInv, Unbroken, NEW f \in Fields \ FieldsToExclude,
                    MustTell(logType, record, f)
             PROVE  /\ About(f) # {} /\ Newest(f).lines[f].new = record[f]
                    /\ logType = "full" => \A l \in About(f) \ {Newest(f)} : \E k \in About(f) :
                         k.id > l.id /\ k.lines[f].old = l.lines[f].new
  BY DEF TrailIsWhole, MustTell
<1>1. About(f) = AboutIn(logs, f)
  BY DEF About, AboutIn, Tells
<1>2. record # Absent /\ ~hidden /\ Young(past, day)
  BY DEF Unbroken, Young
<1>3. PICK n \in About(f) : /\ \A k \in About(f) : k.id <= n.id
                            /\ n.lines[f].new = record[f]
                            /\ logType = "full" => \A l \in About(f) \ {n} : \E k \in About(f) :
                                 k.id > l.id /\ k.lines[f].old = l.lines[f].new
  BY <1>1, <1>2 DEF TrailInv, ContentOK, content, WholeOK, Told
<1>4. Newest(f) \in About(f) /\ \A k \in About(f) : k.id <= Newest(f).id
  BY <1>3 DEF Newest
<1>5. Newest(f) = n
  <2>1. \A k \in About(f) : k \in logs /\ k.id \in Nat
    BY <1>1, RowTypes DEF AboutIn, TrailInv, ContentOK, content, RowsOK
  <2>2. Newest(f).id = n.id
    BY <1>3, <1>4, <2>1
  <2>3. QED BY <1>4, <2>1, <2>2 DEF TrailInv, ContentOK, content, RowsOK
<1>6. QED BY <1>3, <1>5

LEMMA RequestFromInv == TrailInv => RequestExists
BY DEF TrailInv, ContentOK, content, RowsOK, RequestExists

LEMMA RevisionFromInv == TrailInv => RevisionIsPast
<1> SUFFICES ASSUME TrailInv, record # Absent, NEW a \in audits, NEW f \in Fields, NEW e,
                    e = IF logCreate THEN a.day ELSE a.day - 1,
                    past[e] # Absent, Cardinality(Revision(a.day, f)) = 1
             PROVE  Revision(a.day, f) = {past[e][f]}
  BY DEF RevisionIsPast
<1>1. /\ AuditsOK(audits, record, past, day) /\ day \in Nat /\ logCreate \in BOOLEAN
      /\ \A b \in audits : b.day \in 1..day
  BY AuditTrailAssumption DEF TrailInv, TrailTypes, ContentOK, content, AuditsOK
<1>2. e \in 0..day
  BY <1>1
<1>3. FirstTells(audits, record, past, e, f)
  BY <1>1, <1>2 DEF AuditsOK
<1> DEFINE A == {b \in Undone(a.day) : f \in DOMAIN b.old}
           days == {b.day : b \in A}
           first == Min(days)
<1>4. A = Since(audits, e, f)
  <2>1. \A b \in audits : (IF logCreate THEN b.day > a.day ELSE b.day >= a.day) <=> b.day > e
    BY <1>1
  <2>2. QED BY <2>1 DEF Undone, Since
<1>5. Revision(a.day, f) = IF A = {} THEN {record[f]} ELSE {b.old[f] : b \in {c \in A : c.day = first}}
  BY DEF Revision
<1>6. CASE A = {}
  BY <1>3, <1>4, <1>5, <1>6 DEF FirstTells
<1>7. CASE A # {}
  <2>1. PICK b \in A : (\A c \in A : b.day <= c.day) /\ b.old[f] = past[e][f]
    BY <1>3, <1>4, <1>7 DEF FirstTells
  <2>2. first = b.day
    <3>1. \A c \in A : c.day \in 1..day
      BY <1>1, <1>4 DEF Since
    <3>2. b.day \in days /\ \A d \in days : b.day <= d /\ d \in 1..day
      BY <2>1, <3>1
    <3> HIDE DEF days
    <3>3. first \in days /\ \A d \in days : first <= d
      BY <3>2 DEF Min
    <3>4. QED BY <3>2, <3>3
  <2> DEFINE V == {c.old[f] : c \in {d \in A : d.day = first}}
  <2>3. past[e][f] \in V
    BY <2>1, <2>2
  <2>4. IsFiniteSet(V)
    <3> DEFINE T == {d \in A : d.day = first}
    <3>1. T \subseteq audits
      BY <1>4 DEF Since
    <3>2. IsFiniteSet(T)
      BY <1>1, <3>1, FS_Subset DEF AuditsOK
    <3> HIDE DEF T
    <3> DEFINE W == {c.old[f] : c \in T}
               g == [c \in T |-> c.old[f]]
    <3>3. g \in Surjection(T, W)
      BY DEF Surjection
    <3> HIDE DEF W, g
    <3>4. IsFiniteSet(W)
      BY <3>2, <3>3, FS_Surjection
    <3>5. QED BY <3>4 DEF W, T
  <2>5. Revision(a.day, f) = V
    BY <1>5, <1>7
  <2> HIDE DEF V
  <2>6. QED BY <2>3, <2>4, <2>5, OnlyOne
<1>8. QED BY <1>6, <1>7

\* A young log keeps the request it has.
LEMMA RequestsAreKept ==
  TrailInv /\ [TrailNext]_trailVars =>
    \A l \in logs : l.day + Days > day => \A k \in logs' : k.id = l.id => k.request = l.request
<1> SUFFICES ASSUME TrailInv, [TrailNext]_trailVars,
                    NEW l \in logs, l.day + Days > day, NEW k \in logs', k.id = l.id
             PROVE  k.request = l.request
  OBVIOUS
<1>1. /\ RowsOK(logs, requests, sessions, day, lastId) /\ logs \subseteq Log /\ lastId \in Nat
      /\ \A x \in logs : x.id = l.id => x = l
      /\ l.id \in Nat /\ l.id <= lastId
  BY RowTypes DEF TrailInv, TrailTypes, ContentOK, content, RowsOK
<1>2. CASE logs' \subseteq logs
  BY <1>1, <1>2
<1>3. ASSUME NEW m \in Logged, NEW ln, Added1(m, ln)
      PROVE  k.request = l.request
  <2>1. k \in logs \/ k.id = lastId + 3
    BY <1>3 DEF Added1
  <2>2. k \in logs
    BY <1>1, <2>1
  <2>3. QED BY <1>1, <2>2
<1>4. ASSUME NEW m \in Logged, NEW ln, CreateLog(m, ln) PROVE k.request = l.request
  <2>1. k \in logs \/ k.id = lastId + 3
    BY <1>4 DEF CreateLog
  <2>2. k \in logs
    BY <1>1, <2>1
  <2>3. QED BY <1>1, <2>2
<1>5. CASE Retry \/ Fail
  <2>1. http.kind # "none" /\ logs' = saved[2]
    BY <1>5 DEF Retry, Fail, Restore
  <2>2. QED BY <1>2, <2>1 DEF TrailInv, TxOK
<1>6. CASE AutoVacuum
  <2>1. PICK L \in Vacuumed(logs), R \in Vacuumed(requests), S \in Vacuumed(sessions) :
          logs' = {Left(x, R, S) : x \in logs \ L}
    BY <1>6 DEF AutoVacuum, Left, Gone
  <2>2. PICK x \in logs : k = Left(x, R, S)
    BY <2>1
  <2>3. x = l
    BY <1>1, <2>2, LeftTypes
  <2>4. ~Gone(l.request, R)
    <3> SUFFICES ASSUME NEW r \in R, r.id = l.request PROVE FALSE
      BY DEF Gone
    <3>1. r \in requests /\ r.day + Days <= day
      BY DEF Vacuumed, Old
    <3>2. r.day = l.day
      BY <1>1, <3>1 DEF RowsOK
    <3>3. l.day \in Nat /\ day \in Nat /\ Days \in Nat
      BY <1>1, RowTypes, AuditTrailAssumption DEF TrailInv, TrailTypes
    <3>4. QED BY <3>1, <3>2, <3>3
  <2>5. QED BY <1>1, <2>2, <2>3, <2>4, LeftTypes
<1>7. CASE UNCHANGED trailVars
  BY <1>2, <1>7 DEF trailVars, content
<1>8. ASSUME NEW kind, NEW user, StartRequest(kind, user) PROVE k.request = l.request
  BY <1>2, <1>8 DEF StartRequest, content
<1>9. CASE Commit
  BY <1>2, <1>9 DEF Commit, content
<1>10. ASSUME NEW vals, CreateRecord(vals) \/ WriteRecord(vals) PROVE k.request = l.request
  BY <1>4, <1>10 DEF CreateRecord, WriteRecord, Logged
<1>11. CASE ReadRecord({Source})
  BY <1>4, <1>11 DEF ReadRecord, Logged
<1>12. CASE UnlinkRecord
  BY <1>4, <1>12 DEF UnlinkRecord, Logged
<1>13. QED BY <1>5, <1>6, <1>7, <1>8, <1>9, <1>10, <1>11, <1>12 DEF TrailNext

\* Rows of the audit modules keep their types, and identifiers their bound.
THEOREM TrailIsTyped == TrailSpec => []TrailTypeOK
<1>1. TrailInv => TrailTypeOK
  <2> SUFFICES ASSUME TrailInv PROVE TrailTypeOK
    OBVIOUS
  <2>1. TrailTypes /\ RecordOK(record) /\ RowsOK(logs, requests, sessions, day, lastId)
    BY DEF TrailInv, ContentOK, content
  <2>2. http.kind \in {"none", "http", "cron"} /\ http.ops \in 0..MaxOps
    BY <2>1 DEF TrailTypes, Https
  <2>3. QED BY <2>1, <2>2 DEF TrailTypes, RecordOK, RowsOK, RequestRows, SessionRows, TrailTypeOK
<1>2. QED BY <1>1, TrailAlways, PTL

\* Whatever is rolled back, tried again and removed, what auditlog and
\* smile_audit tell stays true: fast and full logs of a record within the days
\* that are kept, the requests of logs, and earlier revisions.
THEOREM TrailIsTrueHolds == TrailSpec => TrailIsTrue
<1>1. TrailInv => TrailIsWhole /\ RequestExists /\ RevisionIsPast
  BY WholeFromInv, RequestFromInv, RevisionFromInv
<1>2. TrailInv /\ [TrailNext]_trailVars => TrailInv'
  BY TrailStep
<1>3. TrailInv /\ [TrailNext]_trailVars =>
        \A l \in logs : l.day + Days > day => \A k \in logs' : k.id = l.id => k.request = l.request
  BY RequestsAreKept
<1>4. QED BY <1>1, <1>2, <1>3, TrailAlways, PTL DEF TrailSpec, TrailIsTrue, LogsKeepRequest

-----------------------------------------------------------------------------
(* The sheets of the monthly reports                                       *)

AddUntaxed(c, a, m) ==
  LET s == IF m.refund = (c = "purchase") THEN m.amount ELSE -m.amount
  IN  (IF m.refund THEN -Abs(s) ELSE IF c = "purchase" THEN Abs(s) ELSE s) + a
AddTax(c, a, m) ==
  LET x == IF m.taxed THEN m.amount ELSE 0
      s == IF m.refund = (c = "purchase") THEN x ELSE -x
  IN  (IF m.refund THEN -Abs(s) ELSE s) + a
AddColumn(c, a, s) == c[s].untaxed + a
AddTaxColumn(c, a, s) == c[s].tax + a

Untaxeds == INSTANCE Folding_proofs WITH Op <- AddUntaxed
Taxes == INSTANCE Folding_proofs WITH Op <- AddTax
Columns == INSTANCE Folding_proofs WITH Op <- AddColumn
TaxColumns == INSTANCE Folding_proofs WITH Op <- AddTaxColumn

LEMMA FiniteIsFinite ==
  \A S : IsFiniteSet(S) => Untaxeds!IsFiniteSet(S) /\ Taxes!IsFiniteSet(S)
                            /\ Columns!IsFiniteSet(S) /\ TaxColumns!IsFiniteSet(S)
BY DEF IsFiniteSet, Untaxeds!IsFiniteSet, Taxes!IsFiniteSet, Columns!IsFiniteSet,
       TaxColumns!IsFiniteSet

Amount == [untaxed : Int, tax : Int]

LEMMA AmountsAreFolds ==
  \A M : Amounts(M) = [untaxed |-> Untaxeds!SetFold(report, 0, M),
                       tax |-> Taxes!SetFold(report, 0, M)]
<1> TAKE M
<1>1. MapThenSumSet(Tax, M) = Taxes!SetFold(report, 0, M)
  BY DEF MapThenSumSet, MapThenFoldSet, Taxes!SetFold, Taxes!MapThenFoldSet, AddTax, Tax, Signed
<1>2. MapThenSumSet(Untaxed, M) = Untaxeds!SetFold(report, 0, M)
  BY DEF MapThenSumSet, MapThenFoldSet, Untaxeds!SetFold, Untaxeds!MapThenFoldSet, AddUntaxed,
         Untaxed, Signed
<1> QED BY <1>1, <1>2 DEF Amounts

\* The amounts of moves that are counted apart add up.
LEMMA AmountsFacts ==
  ASSUME NEW M \in SUBSET Moves, NEW N \in SUBSET Moves, IsFiniteSet(M), IsFiniteSet(N),
         M \cap N = {}
  PROVE  /\ Amounts(M) \in Amount /\ Amounts({}) = Zero
         /\ Amounts(M \cup N) = Plus(Amounts(M), Amounts(N))
<1> DEFINE S == M \cup N
           c == report
           u == [m \in S |-> LET s == IF m.refund = (c = "purchase") THEN m.amount ELSE -m.amount
                             IN  IF m.refund THEN -Abs(s) ELSE IF c = "purchase" THEN Abs(s) ELSE s]
           t == [m \in S |-> LET x == IF m.taxed THEN m.amount ELSE 0
                                 s == IF m.refund = (c = "purchase") THEN x ELSE -x
                             IN  IF m.refund THEN -Abs(s) ELSE s]
<1>1. IsFiniteSet(S) /\ M \in SUBSET S /\ N \in SUBSET S /\ {} \in SUBSET S
  BY FS_Union
<1>2. \A m \in S : m.amount \in Int
  BY MonthlyReportsAssumption
<1>3. \A x \in Int : Abs(x) \in Int /\ -Abs(x) \in Int /\ -x \in Int
  BY DEF Abs
<1>4. \A m \in S : u[m] \in Int /\ t[m] \in Int
  BY <1>2, <1>3
<1>5. Untaxeds!Adds(u, c, S)
  BY <1>4 DEF Untaxeds!Adds, AddUntaxed
<1>6. Taxes!Adds(t, c, S)
  BY <1>4 DEF Taxes!Adds, AddTax
<1> HIDE DEF S, c, u, t
<1>7. /\ Untaxeds!SetFold(c, 0, {}) = 0 /\ \A s \in SUBSET S : Untaxeds!SetFold(c, 0, s) \in Int
  BY <1>1, <1>5, FiniteIsFinite, Untaxeds!SumTakes
<1>8. /\ Taxes!SetFold(c, 0, {}) = 0 /\ \A s \in SUBSET S : Taxes!SetFold(c, 0, s) \in Int
  BY <1>1, <1>6, FiniteIsFinite, Taxes!SumTakes
<1>9. Untaxeds!SetFold(c, 0, M \cup N) = Untaxeds!SetFold(c, 0, M) + Untaxeds!SetFold(c, 0, N)
  BY <1>1, <1>5, FiniteIsFinite, Untaxeds!SumOfUnion
<1>10. Taxes!SetFold(c, 0, M \cup N) = Taxes!SetFold(c, 0, M) + Taxes!SetFold(c, 0, N)
  BY <1>1, <1>6, FiniteIsFinite, Taxes!SumOfUnion
<1>11. \A s : Amounts(s) = [untaxed |-> Untaxeds!SetFold(c, 0, s), tax |-> Taxes!SetFold(c, 0, s)]
  BY AmountsAreFolds DEF c
<1>12. QED
  BY <1>1, <1>7, <1>8, <1>9, <1>10, <1>11 DEF Amount, Zero, Plus

\* The moves a name is the total of, in the sections and in the summary.
Counted(s, m) ==
  \/ /\ report = "sales"
     /\ \/ s = "local" /\ m.partner \notin OtherPartners /\ m.taxed
        \/ s = "export" /\ m.partner \notin OtherPartners /\ ~m.taxed
        \/ s = "pm" /\ company.usd /\ m.partner = "usd" /\ ~m.taxed /\ ~m.credit
        \/ s = "aws" /\ company.sg /\ m.partner = "sg" /\ m.taxed /\ ~m.credit
  \/ /\ report = "purchase"
     /\ \/ s = "local" /\ Trader(m) /\ m.taxed
        \/ s = "export" /\ Trader(m) /\ ~m.taxed
        \/ s = "pm" /\ company.usd /\ m.partner = "usd" /\ ~m.taxed
        \/ s = "aws" /\ company.sg /\ m.partner = "sg" /\ m.taxed
        \/ s = "expenses" /\ m.trading = "non_traders" /\ ~m.taxed
  \/ report = "aws" /\ s = "pei" /\ m.country = "SG"
Part(s, M) == {m \in M : Counted(s, m)}

Compared == {"local", "export", "aws", "pei", "expenses"} \cup (IF company.my THEN {"pm"} ELSE {})
Summed == {"local", "export", "aws", "pei", "expenses", "pm"}

\* A section of the report, for the moves M.
SectionType(M) ==
  {x \in [name : Names, moves : SUBSET M, title : {NoTitle, 0, 1}, totalAt : {0, 1},
          after : 1..4, gap : {0, 2}] : x.totalAt < x.after}

\* The sections have names of their own, and what is compared is their moves.
SectionsAre(M, s) ==
  /\ \A i \in 1..Len(s) : s[i] \in SectionType(M)
  /\ \A i, j \in 1..Len(s) : s[i].name = s[j].name => i = j
  /\ \A i \in 1..Len(s) : s[i].name \in Compared => s[i].moves = Part(s[i].name, M)
  /\ \A n \in Compared : (\A i \in 1..Len(s) : s[i].name # n) => Part(n, M) = {}

Reports == {"sales", "aws", "purchase"}

LEMMA SectionsFacts ==
  ASSUME report \in Reports, NEW M
  PROVE  Len(Sections(M)) \in 1..6 /\ SectionsAre(M, Sections(M))
<1>1. ASSUME NEW n \in Names, NEW P, NEW t \in {NoTitle, 0, 1}, NEW a \in {0, 1}, NEW f \in 1..4,
             NEW g \in {0, 2}, P \subseteq M, a < f
      PROVE  Section(n, P, t, a, f, g) \in SectionType(M)
  BY <1>1 DEF Section, SectionType
<1>2. \A n, P, t, a, f, g : Section(n, P, t, a, f, g).name = n /\ Section(n, P, t, a, f, g).moves = P
  BY DEF Section
<1>3. CASE report = "sales"
  <2> DEFINE s == Sections(M)
  <2>1. /\ Len(s) = 5 /\ s[1] = SalesLocal(M) /\ s[2] = SalesExport(M) /\ s[3] = SalesPM(M)
        /\ s[4] = SalesAWS(M) /\ s[5] = SalesDebit(M)
    BY <1>3 DEF Sections
  <2>2. /\ SalesLocal(M) \in SectionType(M) /\ SalesExport(M) \in SectionType(M)
        /\ SalesPM(M) \in SectionType(M) /\ SalesAWS(M) \in SectionType(M)
        /\ SalesDebit(M) \in SectionType(M)
    BY <1>1 DEF SalesLocal, SalesExport, SalesPM, SalesAWS, SalesDebit, Names
  <2>3. /\ SalesLocal(M).name = "local" /\ SalesExport(M).name = "export"
        /\ SalesPM(M).name = "pm" /\ SalesAWS(M).name = "aws" /\ SalesDebit(M).name = "debit"
    BY <1>2 DEF SalesLocal, SalesExport, SalesPM, SalesAWS, SalesDebit
  <2>4. /\ SalesLocal(M).moves = Part("local", M) /\ SalesExport(M).moves = Part("export", M)
        /\ company.my => SalesPM(M).moves = Part("pm", M)
        /\ SalesAWS(M).moves = Part("aws", M)
    BY <1>2, <1>3 DEF SalesLocal, SalesExport, SalesPM, SalesAWS, Part, Counted
  <2>5. Part("pei", M) = {} /\ Part("expenses", M) = {}
    BY <1>3 DEF Part, Counted
  <2> HIDE DEF s
  <2>6. \A i \in 1..Len(s) : i = 1 \/ i = 2 \/ i = 3 \/ i = 4 \/ i = 5
    BY <2>1
  <2>7. 1 \in 1..Len(s) /\ 2 \in 1..Len(s) /\ 3 \in 1..Len(s) /\ 4 \in 1..Len(s) /\ 5 \in 1..Len(s)
    BY <2>1
  <2>8. \A i \in 1..Len(s) : s[i] \in SectionType(M)
    BY <2>1, <2>2, <2>6
  <2>9. \A i, j \in 1..Len(s) : s[i].name = s[j].name => i = j
    BY <2>1, <2>3, <2>6
  <2>10. \A i \in 1..Len(s) : s[i].name \in Compared => s[i].moves = Part(s[i].name, M)
    BY <2>1, <2>3, <2>4, <2>6 DEF Compared
  <2>11. \A n \in Compared : (\A i \in 1..Len(s) : s[i].name # n) => Part(n, M) = {}
    BY <2>1, <2>3, <2>5, <2>7 DEF Compared
  <2>12. SectionsAre(M, s)
    BY <2>8, <2>9, <2>10, <2>11 DEF SectionsAre
  <2>13. QED BY <2>1, <2>12 DEF s
<1>4. CASE report = "aws"
  <2> DEFINE s == Sections(M)
  <2>1. Len(s) = 2 /\ s[1] = AwsPEI(M) /\ s[2] = AwsPKS(M)
    BY <1>4 DEF Sections
  <2>2. AwsPEI(M) \in SectionType(M) /\ AwsPKS(M) \in SectionType(M)
    BY <1>1 DEF AwsPEI, AwsPKS, Names
  <2>3. AwsPEI(M).name = "pei" /\ AwsPKS(M).name = "pks"
    BY <1>2 DEF AwsPEI, AwsPKS
  <2>4. AwsPEI(M).moves = Part("pei", M)
    BY <1>2, <1>4 DEF AwsPEI, Part, Counted
  <2>5. \A n \in Compared : n # "pei" => Part(n, M) = {}
    BY <1>4 DEF Part, Counted
  <2> HIDE DEF s
  <2>6. (\A i \in 1..Len(s) : i = 1 \/ i = 2) /\ 1 \in 1..Len(s)
    BY <2>1
  <2>8. \A i \in 1..Len(s) : s[i] \in SectionType(M)
    BY <2>1, <2>2, <2>6
  <2>9. \A i, j \in 1..Len(s) : s[i].name = s[j].name => i = j
    BY <2>1, <2>3, <2>6
  <2>10. \A i \in 1..Len(s) : s[i].name \in Compared => s[i].moves = Part(s[i].name, M)
    BY <2>1, <2>3, <2>4, <2>6 DEF Compared
  <2>11. \A n \in Compared : (\A i \in 1..Len(s) : s[i].name # n) => Part(n, M) = {}
    BY <2>1, <2>3, <2>5, <2>6
  <2>12. SectionsAre(M, s)
    BY <2>8, <2>9, <2>10, <2>11 DEF SectionsAre
  <2>13. QED BY <2>1, <2>12 DEF s
<1>5. CASE report = "purchase"
  <2> DEFINE s == Sections(M)
  <2>1. /\ Len(s) = 6 /\ s[1] = PurchaseLocal(M) /\ s[2] = PurchaseImport(M)
        /\ s[3] = PurchasePM(M) /\ s[4] = PurchaseAWS(M) /\ s[5] = TaxableExpenses(M)
        /\ s[6] = Freighters(M)
    BY <1>5 DEF Sections
  <2>2. /\ PurchaseLocal(M) \in SectionType(M) /\ PurchaseImport(M) \in SectionType(M)
        /\ PurchasePM(M) \in SectionType(M) /\ PurchaseAWS(M) \in SectionType(M)
        /\ TaxableExpenses(M) \in SectionType(M) /\ Freighters(M) \in SectionType(M)
    BY <1>1 DEF PurchaseLocal, PurchaseImport, PurchasePM, PurchaseAWS, TaxableExpenses,
                Freighters, Names
  <2>3. /\ PurchaseLocal(M).name = "local" /\ PurchaseImport(M).name = "export"
        /\ PurchasePM(M).name = "pm" /\ PurchaseAWS(M).name = "aws"
        /\ TaxableExpenses(M).name = "expenses" /\ Freighters(M).name = "freight"
    BY <1>2 DEF PurchaseLocal, PurchaseImport, PurchasePM, PurchaseAWS, TaxableExpenses,
                Freighters
  <2>4. /\ PurchaseLocal(M).moves = Part("local", M)
        /\ PurchaseImport(M).moves = Part("export", M)
        /\ company.my => PurchasePM(M).moves = Part("pm", M)
        /\ PurchaseAWS(M).moves = Part("aws", M)
        /\ TaxableExpenses(M).moves = Part("expenses", M)
    BY <1>2, <1>5 DEF PurchaseLocal, PurchaseImport, PurchasePM, PurchaseAWS, TaxableExpenses,
                      Part, Counted
  <2>5. Part("pei", M) = {}
    BY <1>5 DEF Part, Counted
  <2> HIDE DEF s
  <2>6. \A i \in 1..Len(s) : i = 1 \/ i = 2 \/ i = 3 \/ i = 4 \/ i = 5 \/ i = 6
    BY <2>1
  <2>7. 1 \in 1..Len(s) /\ 2 \in 1..Len(s) /\ 3 \in 1..Len(s) /\ 4 \in 1..Len(s)
        /\ 5 \in 1..Len(s)
    BY <2>1
  <2>8. \A i \in 1..Len(s) : s[i] \in SectionType(M)
    BY <2>1, <2>2, <2>6
  <2>9. \A i, j \in 1..Len(s) : s[i].name = s[j].name => i = j
    BY <2>1, <2>3, <2>6
  <2>10. \A i \in 1..Len(s) : s[i].name \in Compared => s[i].moves = Part(s[i].name, M)
    BY <2>1, <2>3, <2>4, <2>6 DEF Compared
  <2>11. \A n \in Compared : (\A i \in 1..Len(s) : s[i].name # n) => Part(n, M) = {}
    BY <2>1, <2>3, <2>5, <2>7 DEF Compared
  <2>12. SectionsAre(M, s)
    BY <2>8, <2>9, <2>10, <2>11 DEF SectionsAre
  <2>13. QED BY <2>1, <2>12 DEF s
<1>6. QED BY <1>3, <1>4, <1>5 DEF Reports

\* No move is in two sections, but purchases from a carrier or seller of
\* expenses of the group.
LEMMA SectionsAreApart ==
  ASSUME report \in Reports, NEW M
  PROVE  \A i, j \in 1..Len(Sections(M)) : \A m \in Sections(M)[i].moves :
           /\ i # j /\ m \in Sections(M)[j].moves
           => report = "purchase" /\ m.partner \in OtherPartners /\ m.trading # "traders"
<1>2. \A n, P, t, a, f, g : Section(n, P, t, a, f, g).moves = P
  BY DEF Section
<1>3. CASE report = "sales"
  <2>1. Sections(M) = <<SalesLocal(M), SalesExport(M), SalesPM(M), SalesAWS(M), SalesDebit(M)>>
    BY <1>3 DEF Sections
  <2>2. /\ \A m \in SalesLocal(M).moves : m.partner \notin OtherPartners /\ m.taxed
        /\ \A m \in SalesExport(M).moves : m.partner \notin OtherPartners /\ ~m.taxed
        /\ \A m \in SalesPM(M).moves : m.partner \in OtherPartners /\ ~m.taxed /\ ~m.credit
        /\ \A m \in SalesAWS(M).moves : m.partner \in OtherPartners /\ m.taxed
        /\ \A m \in SalesDebit(M).moves : m.partner \in OtherPartners /\ ~m.taxed /\ m.credit
    BY <1>2 DEF SalesLocal, SalesExport, SalesPM, SalesAWS, SalesDebit, OtherPartners
  <2>3. QED BY <2>1, <2>2
<1>4. CASE report = "aws"
  <2>1. Sections(M) = <<AwsPEI(M), AwsPKS(M)>>
    BY <1>4 DEF Sections
  <2>2. /\ \A m \in AwsPEI(M).moves : m.country = "SG"
        /\ \A m \in AwsPKS(M).moves : m.country # "SG"
    BY <1>2 DEF AwsPEI, AwsPKS
  <2>3. QED BY <2>1, <2>2
<1>5. CASE report = "purchase"
  <2>1. Sections(M) = <<PurchaseLocal(M), PurchaseImport(M), PurchasePM(M), PurchaseAWS(M),
                        TaxableExpenses(M), Freighters(M)>>
    BY <1>5 DEF Sections
  <2>2. /\ \A m \in PurchaseLocal(M).moves : Trader(m) /\ m.taxed
        /\ \A m \in PurchaseImport(M).moves : Trader(m) /\ ~m.taxed
        /\ \A m \in PurchasePM(M).moves : m.partner = "usd" /\ m.partner \in OtherPartners /\ ~m.taxed
        /\ \A m \in PurchaseAWS(M).moves : m.partner = "sg" /\ m.partner \in OtherPartners /\ m.taxed
        /\ \A m \in TaxableExpenses(M).moves : m.trading = "non_traders" /\ ~m.taxed
        /\ \A m \in Freighters(M).moves : m.trading = "transport" /\ ~m.taxed
    BY <1>2 DEF PurchaseLocal, PurchaseImport, PurchasePM, PurchaseAWS, TaxableExpenses,
                Freighters, OtherPartners
  <2>3. \A m : Trader(m) => m.partner \notin OtherPartners /\ m.trading = "traders"
    BY DEF Trader
  <2>4. QED BY <1>5, <2>1, <2>2, <2>3
<1>6. QED BY <1>3, <1>4, <1>5 DEF Reports

Columned == Names \cup {"all"}

\* A sum of columns is an amount, and only the column "all" is one.
LEMMA AllFacts ==
  ASSUME NEW c \in [Columned -> Amount], NEW S \in SUBSET Names, IsFiniteSet(S)
  PROVE  All(c, S) \in [Columned -> Amount] /\ \A s \in Names : All(c, S)[s] = c[s]
<1> DEFINE u == [s \in S |-> c[s].untaxed]
           t == [s \in S |-> c[s].tax]
           x == MapThenSumSet(LAMBDA s : c[s].untaxed, S)
           y == MapThenSumSet(LAMBDA s : c[s].tax, S)
<1>1. x = Columns!SetFold(c, 0, S)
  BY DEF MapThenSumSet, MapThenFoldSet, Columns!SetFold, Columns!MapThenFoldSet, AddColumn
<1>2. y = TaxColumns!SetFold(c, 0, S)
  BY DEF MapThenSumSet, MapThenFoldSet, TaxColumns!SetFold, TaxColumns!MapThenFoldSet, AddTaxColumn
<1>3. \A s \in S : c[s].untaxed \in Int /\ c[s].tax \in Int
  BY DEF Amount, Columned
<1>4. Columns!Adds(u, c, S)
  BY <1>3 DEF Columns!Adds, AddColumn
<1>5. TaxColumns!Adds(t, c, S)
  BY <1>3 DEF TaxColumns!Adds, AddTaxColumn
<1>6. All(c, S) = [c EXCEPT !["all"] = [untaxed |-> x, tax |-> y]]
  BY DEF All
<1> HIDE DEF u, t, x, y
<1>7. x \in Int
  BY <1>1, <1>4, FiniteIsFinite, Columns!SumTakes
<1>8. y \in Int
  BY <1>2, <1>5, FiniteIsFinite, TaxColumns!SumTakes
<1>9. "all" \notin Names
  BY DEF Names
<1>10. QED BY <1>6, <1>7, <1>8, <1>9 DEF Columned, Amount

LEMMA SummedAreFinite ==
  /\ IsFiniteSet({"local", "export", "pm", "aws"}) /\ IsFiniteSet({"local", "export", "aws"})
  /\ IsFiniteSet({"pei", "pks"})
<1>1. IsFiniteSet({"local", "export"})
  <2>1. IsFiniteSet({"local"}) /\ {"local", "export"} = {"local"} \cup {"export"}
    BY FS_Singleton
  <2>2. QED BY <2>1, FS_AddElement
<1>2. IsFiniteSet({"local", "export", "aws"})
  BY <1>1, FS_AddElement, {"local", "export", "aws"} = {"local", "export"} \cup {"aws"}
<1>3. IsFiniteSet({"local", "export", "pm", "aws"})
  BY <1>2, FS_AddElement, {"local", "export", "pm", "aws"} = {"local", "export", "aws"} \cup {"pm"}
<1>4. IsFiniteSet({"pei", "pks"})
  <2>1. IsFiniteSet({"pei"}) /\ {"pei", "pks"} = {"pei"} \cup {"pks"}
    BY FS_Singleton
  <2>2. QED BY <2>1, FS_AddElement
<1>5. QED BY <1>2, <1>3, <1>4

MonthColumns(M, p) ==
  CASE report = "sales" -> SalesMonth(M)
    [] report = "aws" -> AwsMonth(M, p)
    [] report = "purchase" -> PurchaseMonth(M)

\* The moves of a part.
LEMMA PartFacts ==
  ASSUME NEW s
  PROVE  /\ \A M : Part(s, M) \subseteq M
         /\ \A M, N : Part(s, M \cup N) = Part(s, M) \cup Part(s, N)
         /\ Part(s, {}) = {}
BY DEF Part

LEMMA PartAmounts ==
  ASSUME NEW M \in SUBSET Moves, IsFiniteSet(M)
  PROVE  /\ Amounts({}) = Zero /\ Amounts(M) \in Amount
         /\ \A N \in SUBSET M : Amounts(N) \in Amount
         /\ \A s : Amounts(Part(s, M)) \in Amount
<1>1. \A N \in SUBSET M : IsFiniteSet(N) /\ N \in SUBSET Moves /\ N \cap {} = {}
  BY FS_Subset
<1>2. {} \in SUBSET M /\ M \in SUBSET M
  OBVIOUS
<1>3. \A N \in SUBSET M : Amounts(N) \in Amount /\ Amounts({}) = Zero
  BY <1>1, <1>2, AmountsFacts
<1>4. QED BY <1>2, <1>3, PartFacts

\* A month has, in the summary, the amounts of the parts of its moves.
LEMMA ColumnsFacts ==
  ASSUME report \in Reports, NEW M \in SUBSET Moves, IsFiniteSet(M),
         NEW p, \A x \in p : x \in Int, report = "aws" /\ AwsPKS(M).moves # {} => p # {}
  PROVE  /\ MonthColumns(M, p) \in [Columned -> Amount]
         /\ \A s \in Summed : MonthColumns(M, p)[s] = Amounts(Part(s, M))
<1>0. Zero \in Amount /\ NoColumns = [s \in Columned |-> Zero]
  BY DEF Zero, Amount, NoColumns, Columned
<1>1. \A n, P, t, a, f, g : Section(n, P, t, a, f, g).moves = P
  BY DEF Section
<1>2. \A s : Amounts(Part(s, M)) \in Amount
  BY PartAmounts
<1>3. Amounts({}) = Zero
  BY PartAmounts
<1>4. Summed \subseteq Names /\ Names \subseteq Columned
  BY DEF Summed, Names, Columned
<1>5. CASE report = "sales"
  <2>1. /\ SalesLocal(M).moves = Part("local", M) /\ SalesExport(M).moves = Part("export", M)
        /\ USD(M) = Part("pm", M) /\ SalesAWS(M).moves = Part("aws", M)
        /\ Part("pei", M) = {} /\ Part("expenses", M) = {}
    BY <1>1, <1>5 DEF SalesLocal, SalesExport, SalesAWS, USD, Part, Counted
  <2> DEFINE c == [NoColumns EXCEPT
            !["local"] = Amounts(Part("local", M)), !["export"] = Amounts(Part("export", M)),
            !["pm"] = Amounts(Part("pm", M)), !["aws"] = Amounts(Part("aws", M))]
  <2>2. c \in [Columned -> Amount]
    BY <1>0, <1>2
  <2>3. MonthColumns(M, p) = All(c, {"local", "export", "pm", "aws"})
    BY <1>5, <2>1 DEF MonthColumns, SalesMonth
  <2>4. \A s \in Summed : c[s] = Amounts(Part(s, M))
    BY <1>0, <1>3, <2>1 DEF Summed, Columned, Names
  <2> HIDE DEF c
  <2>5. {"local", "export", "pm", "aws"} \in SUBSET Names
    BY DEF Names
  <2>6. All(c, {"local", "export", "pm", "aws"}) \in [Columned -> Amount]
        /\ \A s \in Names : All(c, {"local", "export", "pm", "aws"})[s] = c[s]
    BY <2>2, <2>5, AllFacts, SummedAreFinite
  <2>7. QED BY <1>4, <2>3, <2>4, <2>6
<1>6. CASE report = "purchase"
  <2>1. /\ PurchaseLocal(M).moves = Part("local", M)
        /\ PurchaseImport(M).moves = Part("export", M)
        /\ USD(M) = Part("pm", M) /\ PurchaseAWS(M).moves = Part("aws", M)
        /\ TaxableExpenses(M).moves = Part("expenses", M) /\ Part("pei", M) = {}
    BY <1>1, <1>6 DEF PurchaseLocal, PurchaseImport, PurchaseAWS, TaxableExpenses, USD, Part,
                      Counted
  <2> DEFINE c == [NoColumns EXCEPT
            !["local"] = Amounts(Part("local", M)), !["export"] = Amounts(Part("export", M)),
            !["pm"] = Amounts(Part("pm", M)), !["aws"] = Amounts(Part("aws", M)),
            !["expenses"] = Amounts(Part("expenses", M))]
  <2>2. c \in [Columned -> Amount]
    BY <1>0, <1>2
  <2>3. MonthColumns(M, p) = All(c, {"local", "export", "aws"})
    BY <1>6, <2>1 DEF MonthColumns, PurchaseMonth
  <2>4. \A s \in Summed : c[s] = Amounts(Part(s, M))
    BY <1>0, <1>3, <2>1 DEF Summed, Columned, Names
  <2> HIDE DEF c
  <2>5. {"local", "export", "aws"} \in SUBSET Names
    BY DEF Names
  <2>6. All(c, {"local", "export", "aws"}) \in [Columned -> Amount]
        /\ \A s \in Names : All(c, {"local", "export", "aws"})[s] = c[s]
    BY <2>2, <2>5, AllFacts, SummedAreFinite
  <2>7. QED BY <1>4, <2>3, <2>4, <2>6
<1>7. CASE report = "aws"
  <2>1. /\ AwsPEI(M).moves = Part("pei", M)
        /\ \A s \in Summed : s # "pei" => Part(s, M) = {}
    BY <1>1, <1>7 DEF AwsPEI, Part, Counted
  <2> DEFINE pks == IF AwsPKS(M).moves = {} THEN Zero
                    ELSE [untaxed |-> CHOOSE x \in p : TRUE, tax |-> 0]
             c == [NoColumns EXCEPT !["pei"] = Amounts(Part("pei", M)), !["pks"] = pks]
  <2>2. pks \in Amount
    BY <1>0, <1>7 DEF Amount
  <2>3. MonthColumns(M, p) = All([NoColumns EXCEPT !["pei"] = Amounts(AwsPEI(M).moves),
                                                    !["pks"] = pks], {"pei", "pks"})
    BY <1>7 DEF MonthColumns, AwsMonth
  <2> HIDE DEF pks
  <2>4. c \in [Columned -> Amount]
    BY <1>0, <1>2, <2>2
  <2>5. \A s \in Summed : c[s] = Amounts(Part(s, M))
    BY <1>0, <1>3, <2>1 DEF Summed, Columned, Names
  <2>6. MonthColumns(M, p) = All(c, {"pei", "pks"})
    BY <2>1, <2>3
  <2> HIDE DEF c
  <2>7. {"pei", "pks"} \in SUBSET Names
    BY DEF Names
  <2>8. All(c, {"pei", "pks"}) \in [Columned -> Amount]
        /\ \A s \in Names : All(c, {"pei", "pks"})[s] = c[s]
    BY <2>4, <2>7, AllFacts, SummedAreFinite
  <2>9. QED BY <1>4, <2>5, <2>6, <2>8
<1>8. QED BY <1>5, <1>6, <1>7 DEF Reports

-----------------------------------------------------------------------------
(* The invariant                                                           *)

ReportTypes ==
  /\ report \in Reports /\ found \in SUBSET Moves /\ IsFiniteSet(found)
  /\ range \in (1..12) \X (1..12)
  /\ status \in {"asked", "refused", "failed", "listing", "summary", "done"}
  /\ next \in 1..13 /\ line \in Nat
  /\ total \in [Names -> Amount] /\ sum \in [Columned -> Amount]
  /\ \A x \in amountPEI : x \in Int

\* What is written next goes below all rows.
RowsAbove(sh, l) == \A r \in DOMAIN sh : r \in Nat /\ r < l
SheetRows == DOMAIN sheet \subseteq Nat /\ (status # "done" => RowsAbove(sheet, line))

\* The sections before the next one have their totals.
Written(secs, n, tot) ==
  /\ \A i \in 1..Len(secs) : i < n => tot[secs[i].name] = Amounts(secs[i].moves)
  /\ \A s \in Names : (\A i \in 1..Len(secs) : s = secs[i].name => i >= n) => tot[s] = Zero
WhileListing ==
  status \in {"asked", "listing"} =>
    /\ sum = NoColumns /\ next \in 1..Len(Listed) + 1
    /\ Written(Listed, next, total)
    /\ status = "asked" => next = 1
    /\ status = "listing" => range[1] <= range[2]

\* The summary adds up the months before the next one.
SumsAre(n) == \A s \in Summed : sum[s] = Amounts(Part(s, Found(range[1], n - 1)))
TotalsAre == \A s \in Compared : total[s] = Amounts(Part(s, Found(range[1], range[2])))
InSummary ==
  status \in {"summary", "done"} =>
    /\ range[1] <= next /\ next <= range[2] + 1 /\ (status = "done" => next = range[2] + 1)
    /\ SumsAre(next) /\ TotalsAre

SheetInv == ReportTypes /\ SheetRows /\ WhileListing /\ InSummary

LEMMA FoundFacts ==
  ASSUME ReportTypes, NEW a \in Int, NEW b \in Int
  PROVE  Found(a, b) \in SUBSET Moves /\ IsFiniteSet(Found(a, b))
<1>1. Found(a, b) \subseteq found
  BY DEF Found
<1>2. QED BY <1>1, FS_Subset DEF ReportTypes

LEMMA SheetStart == ReportInit => SheetInv
<1> SUFFICES ASSUME ReportInit PROVE SheetInv
  OBVIOUS
<1>1. Zero \in Amount
  BY DEF Zero, Amount
<1>2. ReportTypes
  BY <1>1, MonthlyReportsAssumption
     DEF ReportInit, ReportTypes, Reports, NoColumns, Columned, Unassigned
<1>3. SheetRows
  BY DEF ReportInit, SheetRows, RowsAbove
<1>4. Len(Listed) \in 1..6 /\ SectionsAre(Found(range[1], range[2]), Listed)
  BY <1>2, SectionsFacts DEF Listed, ReportTypes
<1>5. WhileListing
  <2>1. Written(Listed, next, total)
    <3>1. next = 1 /\ total = [s \in Names |-> Zero]
      BY DEF ReportInit
    <3>2. QED BY <1>4, <3>1 DEF Written
  <2>2. QED BY <1>4, <2>1 DEF ReportInit, WhileListing
<1>6. InSummary
  BY DEF ReportInit, InSummary
<1>7. QED BY <1>2, <1>3, <1>5, <1>6 DEF SheetInv

\* What the sheet is made from stays.
AskedFor == <<report, found, company, range>>

LEMMA AmountsStay ==
  ASSUME UNCHANGED AskedFor
  PROVE  /\ Listed' = Listed /\ Compared' = Compared
         /\ \A a, b : Found(a, b)' = Found(a, b)
         /\ \A s, M : Part(s, M)' = Part(s, M)
         /\ \A M : Amounts(M)' = Amounts(M)
<1>1. report' = report /\ found' = found /\ company' = company /\ range' = range
  BY DEF AskedFor
<1>2. OtherPartners' = OtherPartners
  BY <1>1 DEF OtherPartners
<1>3. \A a, b : Found(a, b)' = Found(a, b)
  BY <1>1 DEF Found, InRange
<1>4. \A m : Trader(m)' <=> Trader(m)
  BY <1>2 DEF Trader
<1>5. Compared' = Compared
  BY <1>1 DEF Compared
<1>6. \A s, M : Part(s, M)' = Part(s, M)
  <2>1. \A s, m : Counted(s, m)' <=> Counted(s, m)
    BY <1>1, <1>2, <1>4 DEF Counted
  <2>2. QED BY <2>1 DEF Part
<1>7. \A M : Amounts(M)' = Amounts(M)
  <2>1. (\A M : Amounts(M) = [untaxed |-> Untaxeds!SetFold(report, 0, M),
                              tax |-> Taxes!SetFold(report, 0, M)])'
    BY AmountsAreFolds, PTL
  <2>2. QED BY <1>1, <2>1, AmountsAreFolds
<1>8. \A M : Sections(M)' = Sections(M)
  <2> SUFFICES ASSUME NEW M PROVE Sections(M)' = Sections(M)
    OBVIOUS
  <2>1. /\ SalesLocal(M)' = SalesLocal(M) /\ SalesExport(M)' = SalesExport(M)
    BY <1>2 DEF SalesLocal, SalesExport, Section
  <2>2. /\ SalesPM(M)' = SalesPM(M) /\ SalesAWS(M)' = SalesAWS(M)
    BY <1>1 DEF SalesPM, SalesAWS, Section
  <2>3. SalesDebit(M)' = SalesDebit(M)
    BY <1>1, <1>2 DEF SalesDebit, Section
  <2>4. AwsPEI(M)' = AwsPEI(M) /\ AwsPKS(M)' = AwsPKS(M)
    BY DEF AwsPEI, AwsPKS, Section
  <2>5. PurchaseLocal(M)' = PurchaseLocal(M) /\ PurchaseImport(M)' = PurchaseImport(M)
    BY <1>4 DEF PurchaseLocal, PurchaseImport, Section
  <2>6. PurchasePM(M)' = PurchasePM(M) /\ PurchaseAWS(M)' = PurchaseAWS(M)
    BY <1>1 DEF PurchasePM, PurchaseAWS, Section
  <2>7. TaxableExpenses(M)' = TaxableExpenses(M) /\ Freighters(M)' = Freighters(M)
    BY DEF TaxableExpenses, Freighters, Section
  <2>8. QED BY <1>1, <2>1, <2>2, <2>3, <2>4, <2>5, <2>6, <2>7 DEF Sections
<1>9. Listed' = Listed
  BY <1>1, <1>3, <1>8 DEF Listed
<1>10. QED BY <1>3, <1>5, <1>6, <1>7, <1>9

LEMMA OverFacts ==
  ASSUME NEW f, NEW g
  PROVE  /\ DOMAIN Over(f, g) = DOMAIN f \cup DOMAIN g
         /\ \A r \in DOMAIN g : r \notin DOMAIN f => Over(f, g)[r] = g[r]
BY DEF Over

\* Rows below all others keep those, and leave room below.
RowsAdded(sh, l, new) ==
  /\ \A r \in DOMAIN sh : r \in DOMAIN new /\ new[r] = sh[r]
  /\ \A r \in DOMAIN new : r \in DOMAIN sh \/ (r \in Nat /\ r >= l)

LEMMA AddRows ==
  ASSUME NEW sh, NEW l \in Nat, NEW new, NEW f, RowsAdded(sh, l, new), RowsAbove(sh, l),
         \A r \in DOMAIN f : r \in Nat /\ r >= l /\ r \notin DOMAIN sh
  PROVE  RowsAdded(sh, l, Over(f, new))
<1>1. /\ DOMAIN Over(f, new) = DOMAIN f \cup DOMAIN new
      /\ \A r \in DOMAIN new : r \notin DOMAIN f => Over(f, new)[r] = new[r]
  BY OverFacts
<1>2. /\ \A r \in DOMAIN sh : r \in DOMAIN new /\ new[r] = sh[r]
      /\ \A r \in DOMAIN new : r \in DOMAIN sh \/ (r \in Nat /\ r >= l)
  BY DEF RowsAdded
<1> DEFINE all == Over(f, new)
<1>3. \A r \in DOMAIN sh : r \in DOMAIN all /\ all[r] = sh[r]
  BY <1>1, <1>2
<1>4. \A r \in DOMAIN all : r \in DOMAIN sh \/ (r \in Nat /\ r >= l)
  BY <1>1, <1>2
<1>5. QED BY <1>3, <1>4 DEF RowsAdded

\* A table all, of the row k and those of new.
RowPut(sh, l, new, k, all) == RowsAdded(sh, l, all) /\ DOMAIN all = DOMAIN new \cup {k}

LEMMA AddRow ==
  ASSUME NEW sh, NEW l \in Nat, NEW new, NEW x, NEW k \in Nat, k >= l, RowsAdded(sh, l, new),
         RowsAbove(sh, l)
  PROVE  RowPut(sh, l, new, k, Over(RowAt(k, x), new))
<1>1. DOMAIN RowAt(k, x) = {k}
  BY DEF RowAt
<1>2. k \notin DOMAIN sh
  BY DEF RowsAbove
<1>3. \A r \in DOMAIN RowAt(k, x) : r \in Nat /\ r >= l /\ r \notin DOMAIN sh
  BY <1>1, <1>2
<1>4. RowsAdded(sh, l, Over(RowAt(k, x), new))
  BY <1>3, AddRows
<1>5. DOMAIN Over(RowAt(k, x), new) = DOMAIN RowAt(k, x) \cup DOMAIN new
  BY OverFacts
<1>6. DOMAIN Over(RowAt(k, x), new) = DOMAIN new \cup {k}
  BY <1>1, <1>5
<1>7. QED BY <1>4, <1>6 DEF RowPut

\* A section is written below the rows there are, and the next one below it.
LEMMA SectionRows ==
  ASSUME ReportTypes, SheetRows, WriteSection,
         Listed[next] \in SectionType(Found(range[1], range[2]))
  PROVE  /\ RowsAdded(sheet, line, sheet') /\ line' \in Nat /\ RowsAbove(sheet', line')
<1> DEFINE s == Listed[next]
           n == Cardinality(s.moves)
           first == line + s.title + 1
           row == IF n = 0 THEN line ELSE first + n
           shown == Over([r \in first .. (row - 1) |-> <<s.name, r - first>>], sheet)
           titled == IF s.title = NoTitle THEN shown
                     ELSE Over(RowAt(line + s.title, <<s.name, "title">>), shown)
           all == Over(RowAt(row + s.totalAt, <<s.name, "total">>), titled)
<1>1. /\ s.title \in {-1, 0, 1} /\ s.totalAt \in {0, 1} /\ s.after \in 1..4 /\ s.gap \in {0, 2}
      /\ s.totalAt < s.after /\ s.moves \subseteq Found(range[1], range[2])
  BY DEF SectionType, NoTitle
<1>2. n \in Nat
  <2>1. range[1] \in Int /\ range[2] \in Int
    BY DEF ReportTypes
  <2>2. QED BY <1>1, <2>1, FoundFacts, FS_Subset, FS_CardinalityType
<1>3. line \in Nat /\ RowsAbove(sheet, line)
  BY DEF ReportTypes, SheetRows, WriteSection
<1>4. /\ sheet' = (IF n = 0 THEN sheet ELSE all)
      /\ line' = row + (IF n = 0 THEN 0 ELSE s.after) + s.gap
  BY DEF WriteSection
<1>5. RowsAdded(sheet, line, sheet)
  BY DEF RowsAdded
<1> HIDE DEF s, n
<1>6. CASE n = 0
  <2>1. sheet' = sheet /\ line' \in Nat /\ line' >= line
    BY <1>1, <1>3, <1>4, <1>6
  <2>2. QED BY <1>3, <1>5, <2>1 DEF RowsAbove
<1>7. CASE n # 0
  <2>1. /\ first \in Nat /\ first >= line /\ row \in Nat /\ row = first + n /\ row > line
        /\ row >= first /\ row + s.totalAt \in Nat /\ line + s.title + 1 = first
    BY <1>1, <1>2, <1>3, <1>7
  <2>2. sheet' = all /\ line' = row + s.after + s.gap /\ line' \in Nat
    BY <1>1, <1>4, <1>7, <2>1
  <2> HIDE DEF first, row
  <2>3. RowsAdded(sheet, line, shown) /\ DOMAIN shown = first..(row - 1) \cup DOMAIN sheet
    <3> DEFINE f == [r \in first .. (row - 1) |-> <<s.name, r - first>>]
    <3>1. DOMAIN f = first..(row - 1)
      OBVIOUS
    <3>2. \A r \in DOMAIN f : r \in Nat /\ r >= line /\ r \notin DOMAIN sheet
      BY <1>3, <2>1, <3>1 DEF RowsAbove
    <3> HIDE DEF f
    <3>3. RowsAdded(sheet, line, Over(f, sheet)) /\ DOMAIN Over(f, sheet) = DOMAIN f \cup DOMAIN sheet
      <4>1. RowsAdded(sheet, line, Over(f, sheet))
        BY ONLY <1>3, <1>5, <3>2, AddRows
      <4>2. QED BY <4>1, OverFacts
    <3>4. QED BY <3>1, <3>3 DEF f
  <2> HIDE DEF shown
  <2>4. RowsAdded(sheet, line, titled)
        /\ \A r \in DOMAIN titled : r \in DOMAIN shown \/ r < row
    <3>1. CASE s.title = NoTitle
      BY <2>3, <3>1
    <3>2. CASE s.title # NoTitle
      <4>1. line + s.title \in Nat /\ line + s.title >= line /\ line + s.title < row
        BY <1>1, <1>2, <1>3, <1>7, <2>1, <3>2 DEF NoTitle
      <4> DEFINE k == line + s.title
                 x == <<s.name, "title">>
      <4>2. titled = Over(RowAt(k, x), shown)
        BY <3>2 DEF titled
      <4>3. k \in Nat /\ k >= line /\ k < row
        BY <4>1
      <4> HIDE DEF k, x
      <4>4. RowsAdded(sheet, line, Over(RowAt(k, x), shown))
            /\ DOMAIN Over(RowAt(k, x), shown) = DOMAIN shown \cup {k}
        <5>1. RowsAdded(sheet, line, shown) /\ k \in Nat /\ k >= line
          BY <2>3, <4>3
        <5>2. RowPut(sheet, line, shown, k, Over(RowAt(k, x), shown))
          BY ONLY <1>3, <5>1, AddRow
        <5>3. QED BY ONLY <5>2 DEF RowPut
      <4>5. QED BY <4>2, <4>3, <4>4
    <3>3. QED BY <3>1, <3>2
  <2> HIDE DEF titled
  <2>5. RowsAdded(sheet, line, all) /\ DOMAIN all = DOMAIN titled \cup {row + s.totalAt}
    <3>1. row + s.totalAt \in Nat /\ row + s.totalAt >= line
      BY <1>1, <1>3, <2>1
    <3> DEFINE k == row + s.totalAt
               x == <<s.name, "total">>
    <3>2. all = Over(RowAt(k, x), titled) /\ k \in Nat /\ k >= line
      BY <3>1
    <3> HIDE DEF k, x, all
    <3>3. RowsAdded(sheet, line, Over(RowAt(k, x), titled))
          /\ DOMAIN Over(RowAt(k, x), titled) = DOMAIN titled \cup {k}
      <4>1. RowPut(sheet, line, titled, k, Over(RowAt(k, x), titled))
        BY <1>3, <2>4, <3>2, AddRow
      <4>2. QED BY ONLY <4>1 DEF RowPut
    <3>4. QED BY <3>2, <3>3 DEF k
  <2> HIDE DEF all
  <2>6. \A r \in DOMAIN all : r \in Nat
    BY <1>3, <2>5 DEF RowsAdded, RowsAbove
  <2>7. line' > row + s.totalAt /\ line' > row /\ line' > line
    BY <1>1, <1>3, <2>1, <2>2
  <2>8. \A r \in DOMAIN all : r < line'
    <3> TAKE r \in DOMAIN all
    <3>1. CASE r = row + s.totalAt
      BY <2>7, <3>1
    <3>2. CASE r \in DOMAIN shown
      BY <1>3, <2>1, <2>2, <2>3, <2>7, <3>2 DEF RowsAbove
    <3>3. CASE r < row
      BY <2>1, <2>2, <2>6, <2>7, <3>3
    <3>4. QED BY <2>4, <2>5, <3>1, <3>2, <3>3
  <2>9. QED BY <2>2, <2>5, <2>6, <2>8 DEF RowsAbove
<1>8. QED BY <1>6, <1>7

LEMMA WriteSectionStep ==
  ASSUME SheetInv, WriteSection
  PROVE  SheetInv' /\ RowsAdded(sheet, line, sheet')
<1>1. ReportTypes /\ SheetRows /\ WhileListing
  BY DEF SheetInv
<1>2. status = "listing" /\ next <= Len(Listed) /\ UNCHANGED AskedFor /\ status' = status
      /\ sum' = sum /\ amountPEI' = amountPEI /\ next' = next + 1
      /\ total' = [total EXCEPT ![Listed[next].name] = Amounts(Listed[next].moves)]
  BY DEF WriteSection, AskedFor
<1>3. range[1] \in Int /\ range[2] \in Int /\ report \in Reports
  BY <1>1 DEF ReportTypes
<1> DEFINE M == Found(range[1], range[2])
<1>4. Len(Listed) \in 1..6 /\ SectionsAre(M, Listed)
  BY <1>3, SectionsFacts DEF Listed
<1>5. M \in SUBSET Moves /\ IsFiniteSet(M)
  BY <1>1, <1>3, FoundFacts
<1>6. next \in 1..Len(Listed) /\ Written(Listed, next, total) /\ sum = NoColumns
      /\ range[1] <= range[2]
  BY <1>1, <1>2, <1>4 DEF WhileListing
<1>7. \A i \in 1..Len(Listed) : Listed[i] \in SectionType(M)
  BY <1>4 DEF SectionsAre
<1>8. \A i \in 1..Len(Listed) : Listed[i].name \in Names /\ Listed[i].moves \in SUBSET M
  BY <1>7 DEF SectionType
<1>9. \A i \in 1..Len(Listed) : Amounts(Listed[i].moves) \in Amount
  BY <1>5, <1>8, PartAmounts
<1>10. RowsAdded(sheet, line, sheet') /\ line' \in Nat /\ RowsAbove(sheet', line')
  BY <1>1, <1>6, <1>7, SectionRows
<1> HIDE DEF M
<1>11. total' \in [Names -> Amount]
  BY <1>1, <1>2, <1>6, <1>8, <1>9 DEF ReportTypes
<1>12. ReportTypes'
  BY <1>1, <1>2, <1>4, <1>6, <1>10, <1>11 DEF ReportTypes, AskedFor
<1>13. SheetRows'
  BY <1>10 DEF SheetRows, RowsAbove
<1>14. Written(Listed, next + 1, total')
  <2>1. \A i, j \in 1..Len(Listed) : Listed[i].name = Listed[j].name => i = j
    BY <1>4 DEF SectionsAre
  <2>2. total \in [Names -> Amount]
    BY <1>1 DEF ReportTypes
  <2>3. \A i \in 1..Len(Listed) : i < next + 1 => total'[Listed[i].name] = Amounts(Listed[i].moves)
    BY <1>2, <1>4, <1>6, <1>8, <2>1, <2>2 DEF Written
  <2>4. ASSUME NEW s \in Names, \A i \in 1..Len(Listed) : s = Listed[i].name => i >= next + 1
        PROVE  total'[s] = Zero
    <3>1. s # Listed[next].name
      BY <1>4, <1>6, <2>4
    <3>2. \A i \in 1..Len(Listed) : s = Listed[i].name => i >= next
      BY <1>4, <1>6, <2>4
    <3>3. total'[s] = total[s]
      BY <1>2, <2>2, <3>1
    <3>4. QED BY <1>6, <3>2, <3>3 DEF Written
  <2>5. QED BY <2>3, <2>4 DEF Written
<1>15. WhileListing'
  <2>1. Listed' = Listed /\ \A S : Amounts(S)' = Amounts(S)
    BY <1>2, AmountsStay
  <2>2. Written(Listed, next, total)'
    BY <1>2, <1>14, <2>1 DEF Written
  <2>3. QED BY <1>2, <1>4, <1>6, <2>1, <2>2 DEF WhileListing, AskedFor
<1>16. InSummary'
  BY <1>2 DEF InSummary
<1>17. QED BY <1>10, <1>12, <1>13, <1>15, <1>16 DEF SheetInv

LEMMA CheckStep ==
  ASSUME SheetInv, CheckMonths
  PROVE  SheetInv' /\ RowsAdded(sheet, line, sheet')
<1>1. ReportTypes /\ SheetRows /\ WhileListing
  BY DEF SheetInv
<1>2. /\ status = "asked" /\ status' \in {"refused", "failed", "listing"}
      /\ status' = "listing" => ~(range[2] < range[1])
      /\ UNCHANGED <<AskedFor, next, line, sheet, total, sum, amountPEI>>
  BY DEF CheckMonths, AskedFor
<1>3. ReportTypes'
  BY <1>1, <1>2 DEF ReportTypes, AskedFor
<1>4. SheetRows'
  BY <1>1, <1>2 DEF SheetRows, RowsAbove
<1>5. WhileListing'
  <2>1. UNCHANGED AskedFor
    BY <1>2
  <2>2. Listed' = Listed /\ \A S : Amounts(S)' = Amounts(S)
    BY <2>1, AmountsStay
  <2>3. Written(Listed, next, total)' <=> Written(Listed, next, total)
    BY <1>2, <2>2 DEF Written
  <2>4. range[1] \in Int /\ range[2] \in Int /\ range' = range
    BY <1>1, <1>2 DEF ReportTypes, AskedFor
  <2>5. QED BY <1>1, <1>2, <2>2, <2>3, <2>4 DEF WhileListing
<1>6. InSummary'
  BY <1>2 DEF InSummary
<1>7. RowsAdded(sheet, line, sheet')
  BY <1>2 DEF RowsAdded
<1>8. QED BY <1>3, <1>4, <1>5, <1>6, <1>7 DEF SheetInv

LEMMA WriteHeadsStep ==
  ASSUME SheetInv, WriteHeads
  PROVE  SheetInv' /\ RowsAdded(sheet, line, sheet')
<1>1. ReportTypes /\ SheetRows /\ WhileListing
  BY DEF SheetInv
<1>2. /\ status = "listing" /\ next > Len(Listed) /\ status' = "summary"
      /\ line' = line + 2 /\ next' = range[1] /\ UNCHANGED <<AskedFor, total, sum, amountPEI>>
  BY DEF WriteHeads, AskedFor
<1>3. range[1] \in 1..12 /\ range[2] \in 1..12 /\ report \in Reports /\ line \in Nat
  BY <1>1 DEF ReportTypes
<1> DEFINE M == Found(range[1], range[2])
<1>4. Len(Listed) \in 1..6 /\ SectionsAre(M, Listed)
  BY <1>3, SectionsFacts DEF Listed
<1>5. M \in SUBSET Moves /\ IsFiniteSet(M)
  BY <1>1, <1>3, FoundFacts
<1>6. Amounts({}) = Zero
  BY <1>5, PartAmounts
<1>7. /\ next = Len(Listed) + 1 /\ Written(Listed, next, total) /\ sum = NoColumns
      /\ range[1] <= range[2]
  BY <1>1, <1>2, <1>4 DEF WhileListing
<1>8. RowsAdded(sheet, line, sheet') /\ RowsAbove(sheet', line')
  <2> DEFINE x == <<"summary", "title">>
             y == <<"summary", "heads">>
             one == Over(RowAt(line + 1, y), sheet)
  <2>1. sheet' = Over(RowAt(line, x), one)
    BY DEF WriteHeads
  <2>2. RowsAbove(sheet, line) /\ RowsAdded(sheet, line, sheet)
    BY <1>1, <1>2 DEF SheetRows, RowsAdded
  <2>3. line + 1 \in Nat /\ line + 1 >= line /\ line >= line
    BY <1>3
  <2> HIDE DEF x, y
  <2>4. RowsAdded(sheet, line, one) /\ DOMAIN one = DOMAIN sheet \cup {line + 1}
    <3> DEFINE k == line + 1
    <3>1. k \in Nat /\ k >= line
      BY <2>3
    <3> HIDE DEF k
    <3>2. RowsAdded(sheet, line, Over(RowAt(k, y), sheet))
          /\ DOMAIN Over(RowAt(k, y), sheet) = DOMAIN sheet \cup {k}
      <4>1. RowPut(sheet, line, sheet, k, Over(RowAt(k, y), sheet))
        BY ONLY <1>3, <2>2, <3>1, AddRow
      <4>2. QED BY ONLY <4>1 DEF RowPut
    <3>3. QED BY <3>2 DEF k
  <2> HIDE DEF one
  <2>5. RowsAdded(sheet, line, Over(RowAt(line, x), one))
        /\ DOMAIN Over(RowAt(line, x), one) = DOMAIN one \cup {line}
    <3>1. RowPut(sheet, line, one, line, Over(RowAt(line, x), one))
      BY ONLY <1>3, <2>2, <2>3, <2>4, AddRow
    <3>2. QED BY ONLY <3>1 DEF RowPut
  <2>6. QED BY <1>2, <1>3, <2>1, <2>2, <2>4, <2>5 DEF RowsAbove
<1>9. ReportTypes'
  BY <1>1, <1>2, <1>3 DEF ReportTypes, AskedFor
<1>10. SheetRows'
  BY <1>8 DEF SheetRows, RowsAbove
<1>11. WhileListing'
  BY <1>2 DEF WhileListing
<1>12. SumsAre(range[1])
  <2>1. Found(range[1], range[1] - 1) = {}
    <3>1. \A m \in found : m.month \in Int
      BY <1>1, MonthlyReportsAssumption DEF ReportTypes
    <3>2. QED BY <1>3, <3>1 DEF Found, InRange
  <2>2. \A s \in Summed : sum[s] = Zero
    BY <1>7 DEF NoColumns, Summed, Names
  <2>3. QED BY <1>6, <2>1, <2>2, PartFacts DEF SumsAre
<1>13. TotalsAre
  <2> SUFFICES ASSUME NEW s \in Compared PROVE total[s] = Amounts(Part(s, M))
    BY DEF TotalsAre
  <2>1. s \in Names
    BY DEF Compared, Names
  <2> HIDE DEF M
  <2>2. CASE \E i \in 1..Len(Listed) : Listed[i].name = s
    <3>1. PICK i \in 1..Len(Listed) : Listed[i].name = s
      BY <2>2
    <3>2. i < next
      BY <1>4, <1>7
    <3>3. total[s] = Amounts(Listed[i].moves)
      BY <1>7, <3>1, <3>2 DEF Written
    <3>4. Listed[i].moves = Part(s, M)
      BY <1>4, <3>1 DEF SectionsAre
    <3>5. QED BY <3>3, <3>4
  <2>3. CASE \A i \in 1..Len(Listed) : Listed[i].name # s
    <3>1. total[s] = Zero
      BY <1>7, <2>1, <2>3 DEF Written
    <3>2. Part(s, M) = {}
      BY <1>4, <2>3 DEF SectionsAre
    <3>3. QED BY <1>6, <3>1, <3>2
  <2>4. QED BY <2>2, <2>3
<1>14. InSummary'
  <2>1. UNCHANGED AskedFor
    BY <1>2
  <2>2. /\ \A s, a, b : Amounts(Part(s, Found(a, b)))' = Amounts(Part(s, Found(a, b)))
        /\ Compared' = Compared /\ range' = range
    <3>1. /\ Compared' = Compared /\ range' = range
          /\ \A a, b : Found(a, b)' = Found(a, b)
          /\ \A s, S : Part(s, S)' = Part(s, S)
          /\ \A S : Amounts(S)' = Amounts(S)
      BY <2>1, AmountsStay DEF AskedFor
    <3>2. QED BY <3>1
  <2>3. TotalsAre'
    BY <1>2, <1>13, <2>2 DEF TotalsAre
  <2>4. SumsAre(next)'
    BY <1>2, <1>12, <2>2 DEF SumsAre
  <2>5. QED BY <1>2, <1>3, <1>7, <2>2, <2>3, <2>4 DEF InSummary
<1>15. QED BY <1>8, <1>9, <1>10, <1>11, <1>14 DEF SheetInv

LEMMA SumsStay ==
  ASSUME UNCHANGED AskedFor
  PROVE  /\ \A s, a, b : Amounts(Part(s, Found(a, b)))' = Amounts(Part(s, Found(a, b)))
         /\ Compared' = Compared /\ range' = range
<1>1. /\ Compared' = Compared /\ range' = range
      /\ \A a, b : Found(a, b)' = Found(a, b)
      /\ \A s, S : Part(s, S)' = Part(s, S)
      /\ \A S : Amounts(S)' = Amounts(S)
  BY AmountsStay DEF AskedFor
<1>2. QED BY <1>1

LEMMA MonthFailsStep ==
  ASSUME SheetInv, MonthFails
  PROVE  SheetInv' /\ RowsAdded(sheet, line, sheet')
<1>1. ReportTypes /\ SheetRows
  BY DEF SheetInv
<1>2. /\ status = "summary" /\ status' = "failed"
      /\ UNCHANGED <<AskedFor, next, line, sheet, total, sum, amountPEI>>
  BY DEF MonthFails, AskedFor
<1>3. ReportTypes'
  BY <1>1, <1>2 DEF ReportTypes, AskedFor
<1>4. SheetRows' /\ RowsAdded(sheet, line, sheet')
  BY <1>1, <1>2 DEF SheetRows, RowsAbove, RowsAdded
<1>5. WhileListing' /\ InSummary'
  BY <1>2 DEF InSummary, WhileListing
<1>6. QED BY <1>3, <1>4, <1>5 DEF SheetInv

\* The months before the next one, and that one, are counted once each.
LEMMA FoundMonth ==
  ASSUME ReportTypes, next \in Int, range[1] <= next
  PROVE  /\ Found(range[1], next - 1) \cup Found(next, next) = Found(range[1], next)
         /\ Found(range[1], next - 1) \cap Found(next, next) = {}
<1>1. range[1] \in Int /\ \A m \in found : m.month \in Int
  BY MonthlyReportsAssumption DEF ReportTypes
<1>2. \A m \in found : /\ InRange(m, range[1], next)
                           <=> InRange(m, range[1], next - 1) \/ InRange(m, next, next)
                       /\ ~(InRange(m, range[1], next - 1) /\ InRange(m, next, next))
  BY <1>1 DEF InRange
<1>3. QED BY <1>2 DEF Found

LEMMA WriteMonthStep ==
  ASSUME SheetInv, WriteMonth
  PROVE  SheetInv' /\ RowsAdded(sheet, line, sheet')
<1> DEFINE M == Found(next, next)
           pei == IF report = "aws" /\ AwsPEI(M).moves # {}
                  THEN {Amounts(AwsPEI(M).moves).untaxed} ELSE amountPEI
           columns == MonthColumns(M, pei)
<1>1. ReportTypes /\ SheetRows /\ InSummary
  BY DEF SheetInv
<1>2. /\ status = "summary" /\ status' = status /\ next <= range[2] /\ ~Unbound
      /\ sheet' = Over(RowAt(line, <<"month", next>>), sheet)
      /\ amountPEI' = pei /\ line' = line + 1 /\ next' = next + 1
      /\ UNCHANGED <<AskedFor, total>>
  BY DEF WriteMonth, AskedFor
<1>3. sum' = [s \in DOMAIN sum |-> Plus(sum[s], columns[s])]
  BY DEF WriteMonth, MonthColumns
<1>4. /\ range[1] \in 1..12 /\ range[2] \in 1..12 /\ report \in Reports /\ line \in Nat
      /\ next \in 1..13 /\ sum \in [Columned -> Amount]
  BY <1>1 DEF ReportTypes
<1>5. range[1] <= next /\ SumsAre(next) /\ TotalsAre
  BY <1>1, <1>2 DEF InSummary
<1>6. M \in SUBSET Moves /\ IsFiniteSet(M)
  BY <1>1, <1>4, FoundFacts
<1>7. (\A x \in pei : x \in Int) /\ (report = "aws" /\ AwsPKS(M).moves # {} => pei # {})
  <2>1. AwsPEI(M).moves \subseteq M
    BY DEF AwsPEI, Section
  <2>2. Amounts(AwsPEI(M).moves) \in Amount
    BY <1>6, <2>1, PartAmounts
  <2>3. \A x \in amountPEI : x \in Int
    BY <1>1 DEF ReportTypes
  <2>4. report = "aws" /\ AwsPKS(M).moves # {} /\ AwsPEI(M).moves = {} => amountPEI # {}
    BY <1>2 DEF Unbound, Unassigned
  <2> HIDE DEF M
  <2>5. QED BY <2>2, <2>3, <2>4 DEF Amount
<1> HIDE DEF M, pei
<1>8. columns \in [Columned -> Amount] /\ \A s \in Summed : columns[s] = Amounts(Part(s, M))
  BY <1>4, <1>6, <1>7, ColumnsFacts
<1> HIDE DEF columns
<1>9. sum' \in [Columned -> Amount]
  BY <1>3, <1>4, <1>8 DEF Plus, Amount
<1>10. RowsAdded(sheet, line, sheet') /\ RowsAbove(sheet', line')
  <2> DEFINE x == <<"month", next>>
  <2>1. RowsAbove(sheet, line) /\ RowsAdded(sheet, line, sheet)
    BY <1>1, <1>2 DEF SheetRows, RowsAdded
  <2>2. sheet' = Over(RowAt(line, x), sheet) /\ line >= line
    BY <1>2, <1>4
  <2> HIDE DEF x
  <2>3. RowsAdded(sheet, line, Over(RowAt(line, x), sheet))
        /\ DOMAIN Over(RowAt(line, x), sheet) = DOMAIN sheet \cup {line}
    <3>1. RowPut(sheet, line, sheet, line, Over(RowAt(line, x), sheet))
      BY ONLY <1>4, <2>1, <2>2, AddRow
    <3>2. QED BY ONLY <3>1 DEF RowPut
  <2>4. RowsAdded(sheet, line, sheet') /\ DOMAIN sheet' = DOMAIN sheet \cup {line}
    BY <2>2, <2>3
  <2>5. line' = line + 1 /\ line < line'
    BY <1>2, <1>4
  <2>6. ASSUME NEW r \in DOMAIN sheet' PROVE r \in Nat /\ r < line'
    BY ONLY <1>4, <2>1, <2>4, <2>5, <2>6 DEF RowsAbove
  <2>7. QED BY <2>4, <2>6 DEF RowsAbove
<1>11. ReportTypes'
  BY <1>1, <1>2, <1>4, <1>7, <1>9 DEF ReportTypes, AskedFor
<1>12. SheetRows'
  BY <1>10 DEF SheetRows, RowsAbove
<1>13. WhileListing'
  BY <1>2 DEF WhileListing
<1>14. ASSUME NEW s \in Summed
       PROVE  sum'[s] = Amounts(Part(s, Found(range[1], next)))
  <2> DEFINE N == Found(range[1], next - 1)
  <2>1. N \cup M = Found(range[1], next) /\ N \cap M = {}
    BY <1>1, <1>4, <1>5, FoundMonth DEF M
  <2>2. N \in SUBSET Moves /\ IsFiniteSet(N)
    BY <1>1, <1>4, FoundFacts
  <2> DEFINE A == Part(s, N)
             B == Part(s, M)
  <2> HIDE DEF N
  <2>3. A \subseteq N /\ B \subseteq M /\ Part(s, N \cup M) = A \cup B
    <3>1. /\ \A S : Part(s, S) \subseteq S
          /\ \A S, T : Part(s, S \cup T) = Part(s, S) \cup Part(s, T)
      BY PartFacts
    <3>2. QED BY <3>1
  <2>4. A \in SUBSET Moves /\ B \in SUBSET Moves /\ IsFiniteSet(A) /\ IsFiniteSet(B)
        /\ A \cap B = {}
    BY <1>6, <2>1, <2>2, <2>3, FS_Subset
  <2>5. sum[s] = Amounts(A) /\ columns[s] = Amounts(B)
    BY <1>5, <1>8 DEF SumsAre, N
  <2>6. s \in DOMAIN sum
    BY <1>4 DEF Columned, Summed, Names
  <2> HIDE DEF N, A, B
  <2>7. Amounts(A \cup B) = Plus(Amounts(A), Amounts(B))
    BY <2>4, AmountsFacts
  <2>8. QED BY <1>3, <2>1, <2>3, <2>5, <2>6, <2>7
<1>15. InSummary'
  <2>1. /\ \A s, a, b : Amounts(Part(s, Found(a, b)))' = Amounts(Part(s, Found(a, b)))
        /\ Compared' = Compared /\ range' = range
    BY <1>2, SumsStay
  <2>2. TotalsAre'
    BY <1>2, <1>5, <2>1 DEF TotalsAre
  <2>3. next' - 1 = next
    BY <1>2, <1>4
  <2>4. SumsAre(next)'
    BY <1>14, <2>1, <2>3 DEF SumsAre
  <2>5. QED BY <1>2, <1>4, <1>5, <2>1, <2>2, <2>4 DEF InSummary
<1>16. QED BY <1>10, <1>11, <1>12, <1>13, <1>15 DEF SheetInv

LEMMA WriteTotalStep ==
  ASSUME SheetInv, WriteTotal
  PROVE  SheetInv' /\ RowsAdded(sheet, line, sheet')
<1>1. ReportTypes /\ SheetRows /\ InSummary
  BY DEF SheetInv
<1>2. /\ status = "summary" /\ status' = "done" /\ next > range[2]
      /\ sheet' = Over(RowAt(line, <<"summary", "total">>), sheet)
      /\ UNCHANGED <<AskedFor, next, line, total, sum, amountPEI>>
  BY DEF WriteTotal, AskedFor
<1>3. /\ range[1] \in 1..12 /\ range[2] \in 1..12 /\ line \in Nat /\ next \in 1..13
  BY <1>1 DEF ReportTypes
<1>4. RowsAdded(sheet, line, sheet') /\ DOMAIN sheet' \subseteq Nat
  <2> DEFINE x == <<"summary", "total">>
  <2>1. RowsAbove(sheet, line) /\ RowsAdded(sheet, line, sheet)
    BY <1>1, <1>2 DEF SheetRows, RowsAdded
  <2>2. sheet' = Over(RowAt(line, x), sheet) /\ line >= line
    BY <1>2, <1>3
  <2> HIDE DEF x
  <2>3. RowsAdded(sheet, line, Over(RowAt(line, x), sheet))
        /\ DOMAIN Over(RowAt(line, x), sheet) = DOMAIN sheet \cup {line}
    <3>1. RowPut(sheet, line, sheet, line, Over(RowAt(line, x), sheet))
      BY ONLY <1>3, <2>1, <2>2, AddRow
    <3>2. QED BY ONLY <3>1 DEF RowPut
  <2>4. QED BY <1>3, <2>1, <2>2, <2>3 DEF RowsAbove
<1>5. ReportTypes'
  BY <1>1, <1>2 DEF ReportTypes, AskedFor
<1>6. SheetRows'
  BY <1>2, <1>4 DEF SheetRows
<1>7. WhileListing'
  BY <1>2 DEF WhileListing
<1>8. InSummary'
  <2>1. /\ \A s, a, b : Amounts(Part(s, Found(a, b)))' = Amounts(Part(s, Found(a, b)))
        /\ Compared' = Compared /\ range' = range
    BY <1>2, SumsStay
  <2>2. range[1] <= next /\ next <= range[2] + 1 /\ SumsAre(next) /\ TotalsAre
    BY <1>1, <1>2 DEF InSummary
  <2>3. TotalsAre' /\ SumsAre(next)'
    BY <1>2, <2>1, <2>2 DEF TotalsAre, SumsAre
  <2>4. QED BY <1>2, <1>3, <2>1, <2>2, <2>3 DEF InSummary
<1>9. QED BY <1>4, <1>5, <1>6, <1>7, <1>8 DEF SheetInv

LEMMA SheetStep ==
  SheetInv /\ [ReportNext]_reportVars =>
    SheetInv' /\ \A r \in DOMAIN sheet : sheet'[r] = sheet[r]
<1> SUFFICES ASSUME SheetInv, [ReportNext]_reportVars
             PROVE  SheetInv' /\ \A r \in DOMAIN sheet : sheet'[r] = sheet[r]
  OBVIOUS
<1>1. RowsAdded(sheet, line, sheet') => \A r \in DOMAIN sheet : sheet'[r] = sheet[r]
  BY DEF RowsAdded
<1>2. CASE ReportNext
  BY <1>1, <1>2, CheckStep, WriteSectionStep, WriteHeadsStep, MonthFailsStep, WriteMonthStep,
     WriteTotalStep DEF ReportNext
<1>3. CASE UNCHANGED reportVars
  <2>1. UNCHANGED <<AskedFor, next, line, sheet, total, sum, amountPEI, status>>
    BY <1>3 DEF reportVars, AskedFor
  <2>2. /\ \A s, a, b : Amounts(Part(s, Found(a, b)))' = Amounts(Part(s, Found(a, b)))
        /\ Compared' = Compared /\ range' = range
    BY <2>1, SumsStay
  <2>3. Listed' = Listed /\ \A S : Amounts(S)' = Amounts(S)
    BY <2>1, AmountsStay
  <2>4. ReportTypes' <=> ReportTypes
    BY <2>1 DEF ReportTypes, AskedFor
  <2>5. SheetRows' <=> SheetRows
    BY <2>1 DEF SheetRows, RowsAbove
  <2>6. WhileListing' <=> WhileListing
    <3>1. Written(Listed, next, total)' <=> Written(Listed, next, total)
      BY <2>1, <2>3 DEF Written
    <3>2. QED BY <2>1, <2>2, <2>3, <3>1 DEF WhileListing
  <2>7. InSummary' <=> InSummary
    <3>1. (TotalsAre' <=> TotalsAre) /\ (SumsAre(next)' <=> SumsAre(next))
      BY <2>1, <2>2 DEF TotalsAre, SumsAre
    <3>2. QED BY <2>1, <2>2, <3>1 DEF InSummary
  <2>8. QED BY <2>1, <2>4, <2>5, <2>6, <2>7 DEF SheetInv
<1>4. QED BY <1>2, <1>3

LEMMA SheetAgrees == SheetInv => SummaryAgrees
<1> SUFFICES ASSUME SheetInv, status = "done" PROVE SummaryAgrees
  BY DEF SummaryAgrees
<1>1. ReportTypes /\ InSummary
  BY DEF SheetInv
<1>2. range[1] \in 1..12 /\ range[2] \in 1..12 /\ report \in Reports
  BY <1>1 DEF ReportTypes
<1>3. next - 1 = range[2] /\ SumsAre(next) /\ TotalsAre
  BY <1>1, <1>2 DEF InSummary
<1>4. \A s \in Compared : s \in Summed
  BY DEF Compared, Summed
<1>5. \A s \in Compared : sum[s] = total[s]
  BY <1>3, <1>4 DEF SumsAre, TotalsAre
<1>6. Len(Listed) \in 1..6 /\ DOMAIN Listed = 1..Len(Listed)
  <2>1. Len(Listed) \in 1..6
    BY <1>2, SectionsFacts DEF Listed
  <2>2. DOMAIN Listed = 1..Len(Listed)
    <3> DEFINE M == Found(range[1], range[2])
    <3>1. \/ Listed = <<SalesLocal(M), SalesExport(M), SalesPM(M), SalesAWS(M), SalesDebit(M)>>
          \/ Listed = <<AwsPEI(M), AwsPKS(M)>>
          \/ Listed = <<PurchaseLocal(M), PurchaseImport(M), PurchasePM(M), PurchaseAWS(M),
                        TaxableExpenses(M), Freighters(M)>>
      BY <1>2 DEF Listed, Sections, Reports
    <3> HIDE DEF M
    <3>2. QED BY <3>1
  <2>3. QED BY <2>1, <2>2
<1>7. \A i, j \in DOMAIN Listed : \A m \in Listed[i].moves :
           /\ i # j /\ m \in Listed[j].moves
           => report = "purchase" /\ m.partner \in OtherPartners /\ m.trading # "traders"
  BY <1>2, <1>6, SectionsAreApart DEF Listed
<1>8. QED BY <1>5, <1>7 DEF SummaryAgrees, Compared

\* The variables of the monthly reports stay typed.
THEOREM ReportsAreTyped == ReportSpec => []ReportTypeOK
<1>1. SheetInv => ReportTypeOK
  BY DEF SheetInv, ReportTypes, SheetRows, ReportTypeOK, Amount, Columned
<1>2. QED BY <1>1, SheetStart, SheetStep, PTL DEF ReportSpec

\* No row is written twice, and the summary of a written report agrees with its sections.
THEOREM SheetIsRightHolds == ReportSpec => SheetIsRight
<1>1. SheetInv /\ [ReportNext]_reportVars
        => SheetInv' /\ [\A r \in DOMAIN sheet : sheet'[r] = sheet[r]]_reportVars
  BY SheetStep
<1>2. (SheetInv => SummaryAgrees)'
  BY SheetAgrees, PTL
<1>3. SheetInv' => [SummaryAgrees']_reportVars
  BY <1>2
<1>4. QED BY <1>1, <1>3, SheetStart, PTL DEF ReportSpec, SheetIsRight, NoRowRewritten
=============================================================================
