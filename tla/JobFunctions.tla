---------------------------- MODULE JobFunctions ----------------------------
(* The configuration of a job function: its channel and retry pattern, the  *)
(* cache each server process keeps of it (job_config), and the jobs that    *)
(* are delayed and postponed with what the cache says.  Requests of         *)
(* different processes overlap; each reads the database as it was when the  *)
(* request began.                                                           *)
EXTENDS Naturals, FiniteSets

CONSTANTS
    Processes,       \* server processes, one request at a time each
    Names,           \* complete names of channels, "root" among them
    Patterns,        \* retry patterns: functions of the number of tries
    RetryInterval,   \* RETRY_INTERVAL
    MaxRetries,      \* a job's max_retries
    MaxWrites        \* bound: how many changes are asked for

VARIABLES
    fn,              \* the committed queue.job.function, or NoFunction
    name,            \* complete_name of the channel a function may have
    cache,           \* cache[p]: what job_config answers in p, or Empty
    request,         \* request[p]: the request p is serving, or NoRequest
    signal,          \* processes told to clear their caches
    committed,       \* processes that have committed and not signalled yet
    job,             \* the job delayed last
    writes, renamed

fnVars == <<fn, name, cache, request, signal, committed, job, writes, renamed>>

-----------------------------------------------------------------------------
NoFunction == [channel |-> "none", pattern |-> <<>>]
DefaultConfig == [channel |-> "root", pattern |-> <<>>]
Empty == [channel |-> "empty", pattern |-> <<>>]
NoRequest == [on |-> FALSE]
NoJob == [channel |-> "none"]

ASSUME JobFunctionsAssumption ==
    /\ "root" \in Names
    /\ \A r \in Patterns : DOMAIN r \subseteq Nat
    /\ MaxWrites \in Nat /\ MaxRetries \in Nat

Function == [channel: Names, pattern: Patterns] \cup {NoFunction}
Config == (Function \ {NoFunction}) \cup {DefaultConfig}

FnInit ==
    /\ fn = NoFunction /\ name \in Names \ {"root"}
    /\ cache = [p \in Processes |-> Empty]
    /\ request = [p \in Processes |-> NoRequest]
    /\ signal = {} /\ committed = {}
    /\ job = NoJob /\ writes = 0 /\ renamed = FALSE

-----------------------------------------------------------------------------
(* Requests and registries *)

\* check_signaling: the cache is cleared before the request, if another
\* process has said so.
Begin(p) ==
    /\ ~request[p].on /\ p \notin committed
    /\ cache' = IF p \in signal THEN [cache EXCEPT ![p] = Empty] ELSE cache
    /\ signal' = signal \ {p}
    /\ request' = [request EXCEPT ![p] =
           [on |-> TRUE, fn |-> fn, name |-> name, base |-> fn, wrote |-> FALSE,
            stale |-> FALSE, job |-> NoJob]]
    /\ UNCHANGED <<fn, name, committed, job, writes, renamed>>

\* The others that are open have an older row.
OtherRequests(p, r) ==
    [q \in Processes |->
        IF q = p THEN NoRequest
        ELSE IF request[q].on /\ (r.fn # r.base \/ r.name # name)
             THEN [request[q] EXCEPT !.stale = TRUE] ELSE request[q]]

Changed(p) == request[p].fn # request[p].base \/ request[p].name # name

CommitRequest(p) ==
    LET r == request[p] IN
    /\ r.on /\ ~(r.stale /\ Changed(p))
    /\ fn' = IF r.fn # r.base THEN r.fn ELSE fn
    /\ name' = IF Changed(p) THEN r.name ELSE name
    /\ request' = OtherRequests(p, r)
    /\ committed' = IF r.wrote THEN committed \cup {p} ELSE committed
    /\ job' = IF r.job # NoJob THEN r.job ELSE job
    /\ UNCHANGED <<cache, signal, writes, renamed>>

\* signal_changes, after the commit.
Signal(p) ==
    /\ p \in committed /\ committed' = committed \ {p}
    /\ signal' = signal \cup (Processes \ {p})
    /\ UNCHANGED <<fn, name, cache, request, job, writes, renamed>>

\* reset_changes; serialization failures end here as well.
Abort(p) ==
    /\ request[p].on
    /\ request' = [request EXCEPT ![p] = NoRequest]
    /\ cache' = IF request[p].wrote THEN [cache EXCEPT ![p] = Empty] ELSE cache
    /\ UNCHANGED <<fn, name, signal, committed, job, writes, renamed>>

-----------------------------------------------------------------------------
(* queue.job.function *)

\* Mutant of Changing: the caches are not cleared.
Changing_NoClear(p, f) ==
    /\ request[p].on /\ writes < MaxWrites
    /\ writes' = writes + 1
    /\ request' = [request EXCEPT ![p].fn = f]
    /\ UNCHANGED <<fn, name, cache, signal, committed, job, renamed>>

Changing(p, f) ==
    /\ request[p].on /\ writes < MaxWrites
    /\ writes' = writes + 1
    /\ request' = [request EXCEPT ![p].fn = f, ![p].wrote = TRUE]
    /\ cache' = [cache EXCEPT ![p] = Empty]
    /\ UNCHANGED <<fn, name, signal, committed, job, renamed>>

\* A function names its channel through a stored related field.
CreateFunction(p, r) ==
    request[p].fn = NoFunction /\ Changing(p, [channel |-> request[p].name, pattern |-> r])

\* Tries and seconds must be numbers.  A pair of seconds is no number, so the
\* patterns of the help text that have one are refused: Patterns has none.
WriteFunction(p, r) ==
    /\ request[p].fn \notin {NoFunction, [request[p].fn EXCEPT !.pattern = r]}
    /\ Changing(p, [request[p].fn EXCEPT !.pattern = r])

UnlinkFunction(p) == request[p].fn # NoFunction /\ Changing(p, NoFunction)

\* The channel is renamed: the related field is recomputed, no cache cleared.
\* The root cannot be.
RenameChannel(p, n) ==
    /\ request[p].on /\ writes < MaxWrites
    /\ n \notin {"root", request[p].name}
    /\ writes' = writes + 1
    /\ request' = [request EXCEPT ![p].name = n,
           ![p].fn = IF @ = NoFunction THEN @ ELSE [@ EXCEPT !.channel = n]]
    /\ renamed' = TRUE
    /\ UNCHANGED <<fn, name, cache, signal, committed, job>>

\* ormcache: the answer is computed in the request's transaction and kept.
ConfigOf(f) == IF f = NoFunction THEN DefaultConfig ELSE f
JobConfig(p) == IF cache[p] = Empty THEN ConfigOf(request[p].fn) ELSE cache[p]
Cached(p) == cache' = [cache EXCEPT ![p] = JobConfig(p)]

-----------------------------------------------------------------------------
(* Jobs *)

\* A patched method stores a job instead of running, in the channel asked
\* for or in that of its function.
Delay(p, channel) ==
    /\ request[p].on
    /\ Cached(p)
    /\ request' = [request EXCEPT ![p].job =
           [channel |-> IF channel = "none" THEN JobConfig(p).channel ELSE channel,
            retry |-> 0, wait |-> 0]]
    /\ UNCHANGED <<fn, name, signal, committed, job, writes, renamed>>

\* The entry of the highest number of tries that is reached.
RetrySeconds(r, retry) ==
    LET reached == {n \in DOMAIN r : n <= retry} IN
    IF reached = {} THEN RetryInterval
    ELSE r[CHOOSE n \in reached : \A k \in reached : k <= n]

\* The process that performs the job looks its function up again.
Postpone(p) ==
    /\ request[p].on /\ job # NoJob /\ job.retry + 1 < MaxRetries
    /\ Cached(p)
    /\ job' = [job EXCEPT !.retry = @ + 1,
           !.wait = RetrySeconds(JobConfig(p).pattern, job.retry + 1)]
    /\ UNCHANGED <<fn, name, request, signal, committed, writes, renamed>>

FnNext ==
    \E p \in Processes :
        \/ Begin(p) \/ CommitRequest(p) \/ Signal(p) \/ Abort(p)
        \/ /\ request[p].on
           /\ \/ \E r \in Patterns : CreateFunction(p, r) \/ WriteFunction(p, r)
              \/ UnlinkFunction(p)
              \/ \E n \in Names : RenameChannel(p, n)
              \/ \E n \in {"none", "root"} : Delay(p, n)
              \/ Postpone(p)

FnSpec == FnInit /\ [][FnNext]_fnVars

-----------------------------------------------------------------------------
(* Properties *)

FnTypeOK ==
    /\ fn \in Function /\ name \in Names
    /\ \A p \in Processes :
        /\ cache[p] \in Config \cup {Empty}
        /\ request[p].on => request[p].fn \in Function /\ request[p].name \in Names
    /\ signal \subseteq Processes /\ committed \subseteq Processes
    /\ job # NoJob =>
        /\ job.channel \in Names
        /\ job.wait \in {0, RetryInterval} \cup UNION {{r[n] : n \in DOMAIN r} : r \in Patterns}

\* A process that is between two requests, and that no other one has still to
\* tell, knows the function as it is: requests that overlap, fail, change it
\* and read it in the transaction of the change leave no old configuration
\* behind (clear_caches in create, write and unlink).  A renamed channel is
\* left out: its functions' caches keep the old name.
FreshConfig ==
    ~renamed =>
        \A p \in Processes :
            ~request[p].on /\ p \notin signal /\ committed \subseteq {p}
                => cache[p] \in {Empty, ConfigOf(fn)}
=============================================================================
