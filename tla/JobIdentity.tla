---------------------------- MODULE JobIdentity ----------------------------
(* queue_job/delay.py, DelayableGraph.delay: jobs with an identity key are   *)
(* not stored while a job with the same key waits. Requests look for such a  *)
(* job in their own snapshot and store theirs later, without a lock.         *)
EXTENDS Naturals, Sequences

CONSTANTS
    NoKey,        \* of a job that was given none
    Delayed,      \* graphs: sequences of [key, parents (positions)]
    Requests,     \* transactions that may be open at once
    MaxStored     \* bound: stored jobs

ASSUME IdentityAssumption ==
    /\ \A g \in Delayed : g \in Seq([key : STRING, parents : SUBSET Nat])
    /\ MaxStored \in Nat

VARIABLES
    queue,        \* the committed rows, in the order of their commits
    open          \* the open requests: what they saw first and what they stored

identityVars == <<queue, open>>

WaitStates == {"pending", "enqueued"}
\* A row is over when it is done, cancelled or failed.
RowStates == WaitStates \cup {"wait_dependencies", "started", "over"}

\* unbroken: the row waits since it was stored; seen: how many rows its request
\* could see; alone: it is no part of a graph.
IdentityRows == [key : STRING, state : RowStates, unbroken : BOOLEAN, seen : Nat, alone : BOOLEAN]

Closed == [active |-> FALSE, snapshot |-> <<>>, stored |-> <<>>]

IdentityTypeOK ==
    /\ queue \in Seq(IdentityRows)
    /\ \A t \in Requests : /\ open[t].active \in BOOLEAN
                           /\ open[t].snapshot \in Seq(IdentityRows)
                           /\ open[t].stored \in Seq(IdentityRows)

IdentityInit == queue = <<>> /\ open = [t \in Requests |-> Closed]

\* Only pending jobs are looked for.
SameIdentityKey_Pending(t, key) ==
    \E r \in {open[t].snapshot[i] : i \in DOMAIN open[t].snapshot}
             \cup {open[t].stored[i] : i \in DOMAIN open[t].stored} :
        r.key = key /\ r.state = "pending"

\* job_record_with_same_identity_key: in the snapshot and in what the request
\* stored itself.
SameIdentityKey(t, key) ==
    \E r \in {open[t].snapshot[i] : i \in DOMAIN open[t].snapshot}
             \cup {open[t].stored[i] : i \in DOMAIN open[t].stored} :
        r.key = key /\ r.state \in WaitStates

\* All jobs with a key exist, and there is one: nothing is stored, not even the
\* jobs without a key.
AllExist(t, g) ==
    LET keyed == {v \in DOMAIN g : g[v].key # NoKey}
    IN  keyed # {} /\ \A v \in keyed : SameIdentityKey(t, g[v].key)

Stores(t, g) ==
    [v \in DOMAIN g |->
        [key |-> g[v].key, unbroken |-> g[v].parents = {},
         state |-> IF g[v].parents = {} THEN "pending" ELSE "wait_dependencies",
         seen |-> Len(open[t].snapshot), alone |-> Len(g) = 1]]

BeginRequest(t) ==
    /\ ~open[t].active
    /\ open' = [open EXCEPT ![t] = [active |-> TRUE, snapshot |-> queue, stored |-> <<>>]]
    /\ UNCHANGED queue

DelayGraphOf(t, g) ==
    /\ open[t].active /\ ~AllExist(t, g)
    /\ Len(queue) + Len(open[t].stored) + Len(g) <= MaxStored
    /\ open' = [open EXCEPT ![t].stored = @ \o Stores(t, g)]
    /\ UNCHANGED queue

Commit(t) ==
    /\ open[t].active
    /\ Len(queue) + Len(open[t].stored) <= MaxStored
    /\ queue' = queue \o open[t].stored
    /\ open' = [open EXCEPT ![t] = Closed]

Rollback(t) == open[t].active /\ open' = [open EXCEPT ![t] = Closed] /\ UNCHANGED queue

\* What the runner, workers and users do to a row.
Follows == [wait_dependencies |-> {"pending"},
            pending  |-> {"enqueued", "over"},
            enqueued |-> {"started", "pending", "over"},
            started  |-> {"over", "pending"},
            over     |-> {"pending"}]

Moves(i) ==
    /\ \E s \in Follows[queue[i].state] :
           queue' = [queue EXCEPT ![i].state = s, ![i].unbroken = @ /\ s \in WaitStates]
    /\ UNCHANGED open

IdentityNext ==
    \/ \E t \in Requests :
           \/ BeginRequest(t) \/ Commit(t) \/ Rollback(t)
           \/ \E g \in Delayed : DelayGraphOf(t, g)
    \/ \E i \in DOMAIN queue : Moves(i)

IdentitySpec == IdentityInit /\ [][IdentityNext]_identityVars

-----------------------------------------------------------------------------
\* "multiple job with the same key will not be added [...] if the existing job
\* with the same key is not yet started or executed" (job.py:206-210), as far
\* as the code goes: of two jobs with a key that wait, one came with a graph,
\* or was out of the waiting states meanwhile, or their requests overlapped.
TwiceOnlyByRace ==
    \A i, j \in DOMAIN queue :
        /\ i < j /\ queue[i].key = queue[j].key /\ queue[i].key # NoKey
        /\ queue[i].unbroken /\ queue[j].alone
        => i > queue[j].seen
=============================================================================
