---------------------------- MODULE AuditRules ----------------------------
(* How the two audit modules hook into the methods of one audited model.    *)
(* auditlog wraps the methods its rule flags when the rule is subscribed    *)
(* and takes the outermost wrapper off when it is unsubscribed; smile_audit *)
(* wraps them once and looks its rules up at each call.  Classes belong to  *)
(* a worker process, rules to the database: a rolled back transaction       *)
(* leaves the wrappers it made, and the other workers reload their classes  *)
(* only when they are told to.                                              *)
EXTENDS Naturals, Sequences, FiniteSets, SequencesExt

CONSTANTS
    Workers,         \* server processes
    FlagSets,        \* the sets of methods a rule may flag
    MaxChain,        \* bound on the wrappers of a method
    MaxRollbacks     \* how many requests fail after they changed classes

VARIABLES
    rule,            \* the auditlog rule on the model: state and flags
    smile,           \* the smile_audit rule: "never" there, "on" or "off"
    chain,           \* chain[w][m]: the wrappers of method m, outermost first
    ruled,           \* ruled[w]: methods m whose class has auditlog_ruled_m
    stale,           \* workers that reload before their next request
    rollbacks

auditVars == <<rule, smile, chain, ruled, stale, rollbacks>>

-----------------------------------------------------------------------------
Methods == <<"create", "read", "write", "unlink">>
Method == Range(Methods)
SmileMethod == Method \ {"read"}
Wrapper == {"audit", "smile"}

NoRule == [state |-> "none", flags |-> {}]
Bare == [m \in Method |-> <<>>]

ASSUME AuditRulesAssumption ==
    /\ FlagSets \subseteq SUBSET Method
    /\ MaxRollbacks \in Nat /\ MaxChain \in Nat

Times(x, s) == Cardinality({i \in DOMAIN s : s[i] = x})

AuditTypeOK ==
    /\ rule \in [state: {"none", "draft", "subscribed"}, flags: FlagSets \cup {{}}]
    /\ smile \in {"never", "on", "off"}
    /\ \A w \in Workers : \A m \in Method : chain[w][m] \in BoundedSeq(Wrapper, MaxChain + 1)
    /\ ruled \in [Workers -> SUBSET Method]
    /\ stale \subseteq Workers
    /\ rollbacks \in 0..MaxRollbacks

AuditInit ==
    /\ rule = NoRule /\ smile = "never"
    /\ chain = [w \in Workers |-> Bare]
    /\ ruled = [w \in Workers |-> {}]
    /\ stale = {} /\ rollbacks = 0

-----------------------------------------------------------------------------
(* auditlog *)

Flagged(r) == IF r.state = "subscribed" THEN r.flags ELSE {}

\* Mutant of Unpatched: the attribute of the class is not looked at.
Unpatched_Again(r, w) == Flagged(r)

\* The methods a worker still has to wrap for the rule r.
Unpatched(r, w) == Flagged(r) \ ruled[w]

PatchMethods(r, w) ==
    /\ chain' = [chain EXCEPT ![w] = [m \in Method |->
           IF m \in Unpatched(r, w) THEN <<"audit">> \o @[m] ELSE @[m]]]
    /\ ruled' = [ruled EXCEPT ![w] = @ \cup Unpatched(r, w)]

\* Mutant of UpdateRegistry: only this worker is told.
UpdateRegistry_Here(w) == stale' = stale \cup {w}

\* registry_invalidated: the other workers reload.
UpdateRegistry(w) == stale' = stale \cup (Workers \ {w})

\* A write stores the rule and wraps what is missing here, and tells the
\* others only if something was.
WriteRule(r, w) ==
    /\ rule' = r
    /\ PatchMethods(r, w)
    /\ IF Unpatched(r, w) # {} THEN UpdateRegistry(w) ELSE UNCHANGED stale

\* Methods whose outermost wrapper is taken off: those flagged now, not those
\* flagged when the rule was subscribed.
Wrapped(w) == {m \in rule.flags : chain[w][m] # <<>>}

\* The wrapper on top is another module's and the class has no attribute to
\* delete: the request fails at the first such method, with the wrappers of
\* that one and of the methods before it gone.
Broken(w) == Wrapped(w) \ ruled[w]

Place(m) == CHOOSE i \in DOMAIN Methods : Methods[i] = m

Reverted(w) ==
    {m \in Wrapped(w) : \A b \in Broken(w) : Place(m) <= Place(b)}

RevertMethods(w) ==
    /\ chain' = [chain EXCEPT ![w] = [m \in Method |->
           IF m \in Reverted(w) THEN Tail(@[m]) ELSE @[m]]]
    /\ ruled' = [ruled EXCEPT ![w] = @ \ Reverted(w)]

\* Unsubscribing writes the state too, which wraps nothing in a draft.
LeaveRule(r, w) ==
    /\ RevertMethods(w)
    /\ IF Broken(w) # {} THEN UNCHANGED <<rule, stale>>
       ELSE /\ rule' = r
            /\ IF Wrapped(w) # {} THEN UpdateRegistry(w) ELSE UNCHANGED stale

\* The form allows to change the flags of a draft only.
CreateRule(w, F) ==
    rule = NoRule /\ WriteRule([state |-> "draft", flags |-> F], w)
EditRule(w, F) ==
    rule.state = "draft" /\ F # rule.flags /\ WriteRule([rule EXCEPT !.flags = F], w)
Rename(w) == rule.state = "subscribed" /\ WriteRule(rule, w)
Subscribe(w) ==
    rule.state = "draft" /\ WriteRule([rule EXCEPT !.state = "subscribed"], w)
Unsubscribe(w) ==
    rule.state = "subscribed" /\ LeaveRule([rule EXCEPT !.state = "draft"], w)
UnlinkRule(w) == rule.state # "none" /\ LeaveRule(NoRule, w)

-----------------------------------------------------------------------------
(* smile_audit *)

\* Methods without a wrapper of smile_audit anywhere in their chain.
ToWrap(w) == {m \in SmileMethod : "smile" \notin Range(chain[w][m])}

\* The hook of a rule that is created, or written while active.  It clears
\* the caches and signals that, which does not make other workers reload.
\* Each time auditlog takes its wrapper off, it wraps again, up to MaxChain.
SmileOn(w) ==
    /\ \A m \in Method : Len(chain[w][m]) < MaxChain
    /\ smile' = "on"
    /\ chain' = [chain EXCEPT ![w] = [m \in Method |->
           IF m \in ToWrap(w) THEN <<"smile">> \o @[m] ELSE @[m]]]
    /\ UNCHANGED <<rule, ruled, stale>>

\* A rule that is archived or deleted wraps nothing and unwraps nothing.
SmileOff(w) ==
    /\ smile = "on" /\ smile' = "off"
    /\ UNCHANGED <<rule, chain, ruled, stale>>

-----------------------------------------------------------------------------
(* Workers *)

\* A worker builds its classes anew; the hooks of the two modules run in the
\* order in which the modules were loaded.
Reload(w) ==
    LET a(m) == IF m \in Flagged(rule) THEN <<"audit">> ELSE <<>>
        s(m) == IF smile = "on" /\ m \in SmileMethod THEN <<"smile">> ELSE <<>>
    IN
    /\ w \in stale /\ stale' = stale \ {w}
    /\ chain' = [chain EXCEPT ![w] = [m \in Method |-> s(m) \o a(m)]]
    /\ ruled' = [ruled EXCEPT ![w] = Flagged(rule)]
    /\ UNCHANGED <<rule, smile, rollbacks>>

AuditRequest(w) ==
    \/ \E F \in FlagSets : CreateRule(w, F) \/ EditRule(w, F)
    \/ Rename(w) \/ Subscribe(w) \/ Unsubscribe(w) \/ UnlinkRule(w)

\* A worker looks at the signals before each request.
Request(w) ==
    /\ w \notin stale
    /\ \/ AuditRequest(w) /\ UNCHANGED smile
       \/ SmileOn(w) \/ SmileOff(w)
    /\ UNCHANGED rollbacks

\* The transaction fails after all: nothing is stored and nobody is told.
RolledBack(w) ==
    /\ w \notin stale
    /\ rollbacks < MaxRollbacks /\ rollbacks' = rollbacks + 1
    /\ \/ rule.state = "draft" /\ PatchMethods([rule EXCEPT !.state = "subscribed"], w)
       \/ rule.state = "subscribed" /\ RevertMethods(w)
    /\ UNCHANGED <<rule, smile, stale>>

AuditNext == \E w \in Workers : Reload(w) \/ Request(w) \/ RolledBack(w)

AuditSpec == AuditInit /\ [][AuditNext]_auditVars

-----------------------------------------------------------------------------
(* Properties *)

\* A worker that has nothing to reload logs exactly the operations the rule
\* asks for, each once: after any sequence of subscribing, editing and
\* deleting on any workers (_patch_methods, _revert_methods).  smile_audit on
\* the same model and rolled back requests can break it.
LoggedWhenSubscribed ==
    smile = "never" /\ rollbacks = 0 =>
        \A w \in Workers \ stale : \A m \in Method :
            Times("audit", chain[w][m]) = IF m \in Flagged(rule) THEN 1 ELSE 0

\* Even after rolled back requests no method is wrapped twice by auditlog, and
\* the attributes tell what is wrapped, so that no delattr fails.
AttributesAgree ==
    smile = "never" =>
        \A w \in Workers : \A m \in Method :
            Times("audit", chain[w][m]) = IF m \in ruled[w] THEN 1 ELSE 0

\* A method is never wrapped twice by smile_audit, whatever auditlog puts on
\* top or takes off, else each operation would be logged twice.
SmileOnce ==
    \A w \in Workers : \A m \in Method : Times("smile", chain[w][m]) <= 1

\* An operation is logged once by each module that was asked to, on every
\* worker, whatever the two modules wrap and unwrap around each other.
LoggedOnce == LoggedWhenSubscribed /\ AttributesAgree /\ SmileOnce
=============================================================================
