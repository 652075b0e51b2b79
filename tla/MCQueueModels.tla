--------------------------- MODULE MCQueueModels ---------------------------
(* Queues of concurrent transactions: the rows of jobs, what is stored of  *)
(* one, the functions, the configuration of channels, identity keys, and    *)
(* the queue of mails.  They share no state here: one moves, the others     *)
(* stay as they began.                                                      *)
EXTENDS JobTransactions, JobStorage, JobFunctions, ChannelConfig, JobIdentity, MailQueue,
        TLC

CONSTANTS j1, j2, j3, t1, t2
VARIABLE focus

vars == <<focus, jobTxVars, storageVars, fnVars, configVars, identityVars,
          mailVars>>

\* j3 depends on both others.
MCParents == j1 :> {} @@ j2 :> {} @@ j3 :> {j1, j2}
MCPatterns == {<<>>, 1 :> 10 @@ 2 :> 20}

E(n, k, i) == [name |-> n, capacity |-> k, items |-> i]

\* Children before parents, a channel twice below itself, no capacity, the
\* root, a capacity that is no number.
MCEntries == {
    E(<<"a">>, "1", <<<<"sequential", "bare">>>>),
    E(<<"root", "a">>, "2", <<<<"throttle", "bare">>>>),
    E(<<"a", "b">>, "absent", <<>>),
    E(<<"root">>, "2", <<<<"sequential", "false">>>>),
    E(<<"b">>, "x", <<>>)}
MCJobNames == {<<"a", "b">>, <<"a", "b", "a">>, <<"a", "b", "b">>, <<"b">>,
               <<"a", "a">>, <<"root">>, <<"b", "a">>, <<"a", "a", "b">>}

\* Of the caller, with and without the key of the patch, and of a manager.
MCContexts == {
    "auto_delay" :> "1" @@ "lang" :> "en", "auto_delay" :> "1", "lang" :> "fr",
    "auto_delay" :> "1" @@ "queue_job__no_delay" :> "1"}

\* One job, two of which one has no key, a chain of two keys.
V(k, p) == [key |-> k, parents |-> p]
MCDelayed == {<<V("k", {})>>, <<V("k", {}), V("", {1})>>, <<V("k", {}), V("l", {1})>>}

Init ==
    /\ focus \in {"transactions", "storage", "functions", "config", "identity", "mails"}
    /\ JobTxInit /\ StorageInit /\ FnInit /\ ConfigInit /\ IdentityInit /\ MailInit
    /\ focus # "storage" => autoKey = ""
    /\ focus # "functions" => name = "root.a"
    /\ focus # "config" => config = <<>>

Next ==
    \/ /\ focus = "transactions" /\ JobTxNext
       /\ UNCHANGED <<focus, storageVars, fnVars, configVars,
                      identityVars, mailVars>>
    \/ /\ focus = "storage" /\ StorageNext
       /\ UNCHANGED <<focus, jobTxVars, fnVars, configVars,
                      identityVars, mailVars>>
    \/ /\ focus = "functions" /\ FnNext
       /\ UNCHANGED <<focus, jobTxVars, storageVars, configVars,
                      identityVars, mailVars>>
    \/ /\ focus = "config" /\ ConfigNext
       /\ UNCHANGED <<focus, jobTxVars, storageVars, fnVars,
                      identityVars, mailVars>>
    \/ /\ focus = "identity" /\ IdentityNext
       /\ UNCHANGED <<focus, jobTxVars, storageVars, fnVars,
                      configVars, mailVars>>
    \/ /\ focus = "mails" /\ MailNext
       /\ UNCHANGED <<focus, jobTxVars, storageVars, fnVars,
                      configVars, identityVars>>

Spec == Init /\ [][Next]_vars

\* Only one of the parts moves: the transactions and the processes are the
\* same two values.
Symmetry == {p @@ q : p \in Permutations({j1, j2}), q \in Permutations({t1, t2})}

TypeOK == /\ JobTxTypeOK /\ StorageTypeOK /\ FnTypeOK /\ ConfigTypeOK
          /\ IdentityTypeOK /\ MailTypeOK
=============================================================================
