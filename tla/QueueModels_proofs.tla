------------------------ MODULE QueueModels_proofs ------------------------
(* Proofs about the models of concurrent transactions on one queue each:   *)
(* the configuration a job is enqueued with, identity keys, the row of a    *)
(* job, the queue of mails, and the table of jobs and those they wait for;  *)
(* and about the tree of channels.                                          *)
EXTENDS Integers, MCQueueModels, FiniteSetTheorems, WellFoundedInduction, TLAPS

-----------------------------------------------------------------------------
(* Functions of jobs and the caches of their configuration                 *)

\* A job a request has delayed and not committed.
DelayedJob == [channel: Names, retry: {0}, wait: {0}] \cup {NoJob}
OpenRequest == [on: {TRUE}, fn: Function, name: Names, base: Function,
                wrote: BOOLEAN, stale: BOOLEAN, job: DelayedJob]

FnTypes ==
  /\ fn \in Function /\ name \in Names
  /\ cache \in [Processes -> Config \cup {Empty}]
  /\ request \in [Processes -> OpenRequest \cup {NoRequest}]
  /\ signal \subseteq Processes /\ committed \subseteq Processes

\* p has been told to clear its cache, or will be.
Told(p) == p \in signal \/ \E q \in committed : q # p

RightFor(p, f) == cache[p] \in {Empty, ConfigOf(f)}

\* Between two requests the cache is right for the function, in a request for
\* what the request reads, which is the function as it was when it began.
CachesHold ==
  \A p \in Processes :
    /\ ~request[p].on /\ ~Told(p) => RightFor(p, fn)
    /\ request[p].on =>
         /\ request[p].name = name
         /\ ~request[p].wrote => request[p].fn = request[p].base
         /\ ~Told(p) => request[p].base = fn
         /\ request[p].wrote \/ ~Told(p) => RightFor(p, request[p].fn)

FnInv == FnTypes /\ (~renamed => CachesHold)

LEMMA FnInvImplies == FnInv => FreshConfig
  BY DEF FnInv, CachesHold, FreshConfig, RightFor, Told

LEMMA FnInvInit == FnInit => FnInv
  BY DEF FnInit, FnInv, FnTypes, CachesHold, RightFor, NoRequest, NoFunction, Function, Told

LEMMA ConfigType ==
  ASSUME NEW f \in Function PROVE ConfigOf(f) \in Config
  BY DEF ConfigOf, Config, DefaultConfig

LEMMA OpenRequests ==
  ASSUME FnTypes, NEW p \in Processes
  PROVE  /\ request[p].on => request[p] \in OpenRequest
         /\ ~request[p].on => request[p] = NoRequest
<1>1. request[p] \in OpenRequest \/ request[p] = NoRequest
  BY DEF FnTypes
<1>2. ~NoRequest.on
  BY DEF NoRequest
<1>3. \A r \in OpenRequest : r.on
  BY DEF OpenRequest
<1>4. QED BY <1>1, <1>2, <1>3

LEMMA BeginInv ==
  ASSUME FnInv, NEW p \in Processes, Begin(p)
  PROVE  FnInv'
<1> DEFINE rec == [on |-> TRUE, fn |-> fn, name |-> name, base |-> fn, wrote |-> FALSE,
                   stale |-> FALSE, job |-> NoJob]
<1>1. FnTypes /\ rec \in OpenRequest
  BY DEF FnInv, FnTypes, OpenRequest, DelayedJob
<1>2. FnTypes'
  BY <1>1 DEF Begin, FnTypes
<1>3. ASSUME ~renamed' PROVE CachesHold'
  <2>1. ~renamed /\ CachesHold
    BY <1>3 DEF Begin, FnInv
  <2>2. \A q \in Processes \ {p} :
          /\ request'[q] = request[q] /\ cache'[q] = cache[q] /\ Told(q)' = Told(q)
    BY <1>1 DEF Begin, Told, FnTypes
  <2>3. request'[p] = rec /\ UNCHANGED <<fn, name>>
    BY <1>1 DEF Begin, FnTypes
  <2>4. ~Told(p)' => cache'[p] \in {Empty, ConfigOf(fn)}
    BY <1>1, <2>1 DEF Begin, CachesHold, Told, RightFor, FnTypes
  <2>5. QED BY <2>1, <2>2, <2>3, <2>4 DEF CachesHold, RightFor
<1>4. QED BY <1>2, <1>3 DEF FnInv
\* What a commit makes of the other requests.
LEMMA OthersKept ==
  ASSUME FnTypes, NEW p \in Processes, CommitRequest(p)
  PROVE  /\ request' \in [Processes -> OpenRequest \cup {NoRequest}]
         /\ request'[p] = NoRequest
         /\ \A q \in Processes \ {p} :
              /\ request'[q].on = request[q].on
              /\ request[q].on => /\ request'[q].fn = request[q].fn
                                  /\ request'[q].name = request[q].name
                                  /\ request'[q].base = request[q].base
                                  /\ request'[q].wrote = request[q].wrote
<1>1. \A q \in Processes :
        request'[q] = IF q = p THEN NoRequest
                      ELSE IF request[q].on /\ (request[p].fn # request[p].base \/ request[p].name # name)
                           THEN [request[q] EXCEPT !.stale = TRUE] ELSE request[q]
  BY DEF CommitRequest, OtherRequests
<1>2. \A r \in OpenRequest :
        /\ [r EXCEPT !.stale = TRUE] \in OpenRequest
        /\ [r EXCEPT !.stale = TRUE].on = r.on
        /\ [r EXCEPT !.stale = TRUE].fn = r.fn
        /\ [r EXCEPT !.stale = TRUE].name = r.name
        /\ [r EXCEPT !.stale = TRUE].base = r.base
        /\ [r EXCEPT !.stale = TRUE].wrote = r.wrote
  BY DEF OpenRequest
<1>3. \A q \in Processes : request[q].on => request[q] \in OpenRequest
  BY OpenRequests
<1>4. \A q \in Processes : request'[q] \in OpenRequest \cup {NoRequest}
  BY <1>1, <1>2, <1>3 DEF FnTypes
<1>5. DOMAIN request' = Processes
  BY DEF CommitRequest, OtherRequests
<1>6. request' = [q \in Processes |-> request'[q]]
  BY DEF CommitRequest, OtherRequests
<1>7. QED BY <1>1, <1>2, <1>3, <1>4, <1>6

LEMMA CommitInv ==
  ASSUME FnInv, NEW p \in Processes, CommitRequest(p)
  PROVE  FnInv'
<1>1. /\ FnTypes /\ request[p].on /\ request[p] \in OpenRequest
      /\ UNCHANGED <<cache, signal, writes, renamed>>
  BY OpenRequests DEF FnInv, CommitRequest
<1>2. /\ request[p].fn \in Function /\ request[p].name \in Names
      /\ request[p].base \in Function /\ request[p].wrote \in BOOLEAN
  BY <1>1 DEF OpenRequest
<1>3. /\ fn' = IF request[p].fn # request[p].base THEN request[p].fn ELSE fn
      /\ name' = IF Changed(p) THEN request[p].name ELSE name
      /\ committed' = IF request[p].wrote THEN committed \cup {p} ELSE committed
  BY DEF CommitRequest
<1>4. FnTypes'
  BY <1>1, <1>2, <1>3, OthersKept DEF FnTypes
<1>5. ASSUME ~renamed' PROVE CachesHold'
  <2>1. CachesHold
    BY <1>1, <1>5 DEF FnInv
  <2>2. /\ request[p].name = name
        /\ ~request[p].wrote => request[p].fn = request[p].base
        /\ ~Told(p) => request[p].base = fn
        /\ request[p].wrote \/ ~Told(p) => RightFor(p, request[p].fn)
    BY <1>1, <2>1 DEF CachesHold
  <2>3. name' = name /\ \A q \in Processes : cache'[q] = cache[q]
    BY <1>1, <1>3, <2>2
  <2>4. Told(p)' = Told(p)
    BY <1>1, <1>3 DEF Told
  <2>5. ~Told(p)' => cache'[p] \in {Empty, ConfigOf(fn')}
    BY <1>3, <2>2, <2>3, <2>4 DEF RightFor
  <2>6. ASSUME NEW q \in Processes \ {p}
        PROVE  ~Told(q)' => ~Told(q) /\ fn' = fn
    BY <1>1, <1>3, <2>2 DEF Told
  <2>7. ~request'[p].on
    BY <1>1, OthersKept DEF NoRequest
  <2>8. ASSUME NEW q \in Processes \ {p}
        PROVE  /\ ~request'[q].on /\ ~Told(q)' => RightFor(q, fn)'
               /\ request'[q].on =>
                    /\ request'[q].name = name'
                    /\ ~request'[q].wrote => request'[q].fn = request'[q].base
                    /\ ~Told(q)' => request'[q].base = fn'
                    /\ request'[q].wrote \/ ~Told(q)' => cache'[q] \in {Empty, ConfigOf(request'[q].fn)}
    <3>1. /\ request'[q].on = request[q].on
          /\ request[q].on => /\ request'[q].fn = request[q].fn
                              /\ request'[q].name = request[q].name
                              /\ request'[q].base = request[q].base
                              /\ request'[q].wrote = request[q].wrote
      BY <1>1, OthersKept
    <3>2. CASE ~request[q].on
      BY <2>1, <2>3, <2>6, <3>1, <3>2 DEF CachesHold, RightFor
    <3>3. CASE request[q].on
      BY <2>1, <2>3, <2>6, <3>1, <3>3 DEF CachesHold, RightFor
    <3>4. QED BY <3>2, <3>3
  <2>9. QED BY <2>5, <2>7, <2>8 DEF CachesHold, RightFor
<1>6. QED BY <1>4, <1>5 DEF FnInv

LEMMA SignalInv ==
  ASSUME FnInv, NEW p \in Processes, Signal(p)
  PROVE  FnInv'
<1>1. FnTypes /\ UNCHANGED <<fn, name, cache, request, renamed>>
  BY DEF FnInv, Signal
<1>2. FnTypes'
  BY <1>1 DEF Signal, FnTypes
<1>3. \A q \in Processes : Told(q) => Told(q)'
  BY DEF Signal, Told
<1>4. ASSUME ~renamed' PROVE CachesHold'
  BY <1>1, <1>3, <1>4 DEF FnInv, CachesHold, RightFor
<1>5. QED BY <1>2, <1>4 DEF FnInv

LEMMA AbortInv ==
  ASSUME FnInv, NEW p \in Processes, Abort(p)
  PROVE  FnInv'
<1>1. FnTypes /\ request[p].on /\ UNCHANGED <<fn, name, signal, committed, renamed>>
  BY DEF FnInv, Abort
<1>2. /\ request' = [request EXCEPT ![p] = NoRequest]
      /\ cache' = IF request[p].wrote THEN [cache EXCEPT ![p] = Empty] ELSE cache
  BY DEF Abort
<1>3. FnTypes'
  BY <1>1, <1>2 DEF FnTypes
<1>4. ASSUME ~renamed' PROVE CachesHold'
  <2>1. CachesHold
    BY <1>1, <1>4 DEF FnInv
  <2>2. \A q \in Processes \ {p} : request'[q] = request[q] /\ cache'[q] = cache[q]
    BY <1>1, <1>2 DEF FnTypes
  <2>3. \A q \in Processes : Told(q)' = Told(q)
    BY <1>1 DEF Told
  <2>4. request'[p] = NoRequest /\ ~NoRequest.on
    BY <1>1, <1>2 DEF FnTypes, NoRequest
  <2>5. ~Told(p) => cache'[p] \in {Empty, ConfigOf(fn)}
    BY <1>1, <1>2, <2>1 DEF CachesHold, RightFor, FnTypes
  <2>6. QED BY <1>1, <2>1, <2>2, <2>3, <2>4, <2>5 DEF CachesHold, RightFor
<1>5. QED BY <1>3, <1>4 DEF FnInv

\* A step of the request in p, which stays open: it changes the function in
\* its transaction and empties the cache, or reads the cache.
LEMMA RequestStep ==
  ASSUME FnInv, NEW p \in Processes, NEW rec \in OpenRequest, NEW c \in Config \cup {Empty},
         request[p].on, request' = [request EXCEPT ![p] = rec], cache' = [cache EXCEPT ![p] = c],
         UNCHANGED <<fn, name, signal, committed>>, ~renamed' => ~renamed,
         rec.base = request[p].base,
         \/ renamed'
         \/ rec.name = request[p].name /\ rec.wrote /\ c = Empty
         \/ /\ rec.name = request[p].name /\ rec.wrote = request[p].wrote
            /\ rec.fn = request[p].fn
            /\ c = JobConfig(p)
  PROVE  FnInv'
<1>1. FnTypes
  BY DEF FnInv
<1>2. FnTypes'
  BY <1>1 DEF FnTypes
<1>3. ASSUME ~renamed' PROVE CachesHold'
  <2>1. ~renamed /\ CachesHold
    BY <1>3 DEF FnInv
  <2>2. \A q \in Processes \ {p} : request'[q] = request[q] /\ cache'[q] = cache[q]
    BY <1>1 DEF FnTypes
  <2>3. \A q \in Processes : Told(q)' = Told(q)
    BY <1>1 DEF Told
  <2>4. request'[p] = rec /\ cache'[p] = c
    BY <1>1 DEF FnTypes
  <2>5. rec.name = name /\ (~rec.wrote => rec.fn = rec.base) /\ (~Told(p) => rec.base = fn)
    BY <1>3, <2>1 DEF CachesHold
  <2>6. rec.wrote \/ ~Told(p) => c \in {Empty, ConfigOf(rec.fn)}
    BY <1>3, <2>1 DEF CachesHold, RightFor, JobConfig
  <2>7. rec.on
    BY DEF OpenRequest
  <2>8. \A q \in Processes \ {p} :
          /\ ~request'[q].on /\ ~Told(q)' => RightFor(q, fn)'
          /\ request'[q].on =>
               /\ request'[q].name = name'
               /\ ~request'[q].wrote => request'[q].fn = request'[q].base
               /\ ~Told(q)' => request'[q].base = fn'
               /\ request'[q].wrote \/ ~Told(q)' => cache'[q] \in {Empty, ConfigOf(request'[q].fn)}
    BY <2>1, <2>2, <2>3 DEF CachesHold, RightFor
  <2>9. QED BY <2>3, <2>4, <2>5, <2>6, <2>7, <2>8 DEF CachesHold, RightFor
<1>4. QED BY <1>2, <1>3 DEF FnInv
LEMMA ChangingInv ==
  ASSUME FnInv, NEW p \in Processes, NEW f \in Function, Changing(p, f)
  PROVE  FnInv'
<1> DEFINE rec == [request[p] EXCEPT !.fn = f, !.wrote = TRUE]
<1>1. FnTypes /\ request[p].on /\ request[p] \in OpenRequest
  BY OpenRequests DEF FnInv, Changing
<1>2. /\ rec \in OpenRequest /\ rec.base = request[p].base /\ rec.name = request[p].name
      /\ rec.wrote
  BY <1>1 DEF OpenRequest
<1>3. /\ request' = [request EXCEPT ![p] = rec] /\ cache' = [cache EXCEPT ![p] = Empty]
      /\ UNCHANGED <<fn, name, signal, committed, renamed>>
  BY <1>1 DEF Changing, FnTypes
<1> HIDE DEF rec
<1>4. QED BY <1>1, <1>2, <1>3, RequestStep

LEMMA FunctionInv ==
  ASSUME FnInv, NEW p \in Processes, request[p].on, NEW r \in Patterns,
         CreateFunction(p, r) \/ WriteFunction(p, r) \/ UnlinkFunction(p)
  PROVE  FnInv'
<1>1. request[p] \in OpenRequest
  BY OpenRequests DEF FnInv
<1>2. request[p].fn \in Function /\ request[p].name \in Names
  BY <1>1 DEF OpenRequest
<1>3. /\ NoFunction \in Function
      /\ [channel |-> request[p].name, pattern |-> r] \in Function
      /\ request[p].fn # NoFunction => [request[p].fn EXCEPT !.pattern = r] \in Function
  BY <1>2 DEF Function
<1>4. QED BY <1>3, ChangingInv DEF CreateFunction, WriteFunction, UnlinkFunction

LEMMA RenameInv ==
  ASSUME FnInv, NEW p \in Processes, NEW n \in Names, RenameChannel(p, n)
  PROVE  FnInv'
<1> DEFINE f == IF request[p].fn = NoFunction THEN request[p].fn
                ELSE [request[p].fn EXCEPT !.channel = n]
           rec == [request[p] EXCEPT !.name = n, !.fn = f]
<1>1. FnTypes /\ request[p].on /\ request[p] \in OpenRequest
  BY OpenRequests DEF FnInv, RenameChannel
<1>2. f \in Function
  BY <1>1 DEF OpenRequest, Function
<1>3. rec \in OpenRequest /\ rec.base = request[p].base
  <2> HIDE DEF f
  <2>1. QED BY <1>1, <1>2 DEF OpenRequest
<1>4. /\ request' = [request EXCEPT ![p] = rec]
      /\ UNCHANGED <<fn, name, signal, committed, cache>> /\ renamed'
  BY <1>1 DEF RenameChannel, FnTypes
<1>5. cache[p] \in Config \cup {Empty} /\ cache' = [cache EXCEPT ![p] = cache[p]]
  BY <1>1, <1>4 DEF FnTypes
<1> HIDE DEF rec
<1>6. QED BY <1>1, <1>3, <1>4, <1>5, RequestStep

LEMMA JobConfigType ==
  ASSUME FnTypes, NEW p \in Processes, request[p].on
  PROVE  JobConfig(p) \in Config /\ JobConfig(p).channel \in Names
<1>1. request[p] \in OpenRequest
  BY OpenRequests
<1>2. request[p].fn \in Function
  BY <1>1 DEF OpenRequest
<1>3. JobConfig(p) \in Config
  BY <1>2, ConfigType DEF JobConfig, FnTypes
<1>4. \A c \in Config : c.channel \in Names
  BY JobFunctionsAssumption DEF Config, Function, DefaultConfig, NoFunction
<1>5. QED BY <1>3, <1>4

LEMMA DelayInv ==
  ASSUME FnInv, NEW p \in Processes, NEW channel \in {"none", "root"},
         Delay(p, channel) \/ Postpone(p)
  PROVE  FnInv'
<1>1. FnTypes /\ request[p].on /\ request[p] \in OpenRequest
  BY OpenRequests DEF FnInv, Delay, Postpone
<1>2. JobConfig(p) \in Config \cup {Empty} /\ JobConfig(p).channel \in Names
  BY <1>1, JobConfigType
<1>3. cache' = [cache EXCEPT ![p] = JobConfig(p)]
      /\ UNCHANGED <<fn, name, signal, committed, renamed>>
  BY DEF Delay, Postpone, Cached
<1>4. CASE Delay(p, channel)
  <2> DEFINE d == [channel |-> IF channel = "none" THEN JobConfig(p).channel ELSE channel,
                   retry |-> 0, wait |-> 0]
             rec == [request[p] EXCEPT !.job = d]
  <2>1. d \in DelayedJob
    BY <1>2, JobFunctionsAssumption DEF DelayedJob
  <2> HIDE DEF d
  <2>2. /\ rec \in OpenRequest /\ rec.base = request[p].base /\ rec.name = request[p].name
        /\ rec.wrote = request[p].wrote /\ rec.fn = request[p].fn
    BY <1>1, <2>1 DEF OpenRequest
  <2>3. request' = [request EXCEPT ![p] = rec]
    BY <1>1, <1>4 DEF Delay, FnTypes, d
  <2> HIDE DEF rec
  <2>4. QED BY <1>1, <1>2, <1>3, <2>2, <2>3, RequestStep
<1>5. CASE Postpone(p)
  <2>1. request' = [request EXCEPT ![p] = request[p]]
    BY <1>1, <1>5 DEF Postpone, FnTypes
  <2>2. QED BY <1>1, <1>2, <1>3, <2>1, RequestStep
<1>6. QED BY <1>4, <1>5

LEMMA FnInvNext ==
  ASSUME FnInv, [FnNext]_fnVars
  PROVE  FnInv'
<1>1. ASSUME NEW p \in Processes,
             \/ Begin(p) \/ CommitRequest(p) \/ Signal(p) \/ Abort(p)
             \/ /\ request[p].on
                /\ \/ \E r \in Patterns : CreateFunction(p, r) \/ WriteFunction(p, r)
                   \/ UnlinkFunction(p)
                   \/ \E n \in Names : RenameChannel(p, n)
                   \/ \E n \in {"none", "root"} : Delay(p, n)
                   \/ Postpone(p)
      PROVE  FnInv'
  <2>1. CASE Begin(p) \/ CommitRequest(p) \/ Signal(p) \/ Abort(p)
    BY <2>1, BeginInv, CommitInv, SignalInv, AbortInv
  <2>2. CASE request[p].on /\ \E r \in Patterns : CreateFunction(p, r) \/ WriteFunction(p, r)
    BY <2>2, FunctionInv
  <2>3. CASE UnlinkFunction(p)
    <3>1. NoFunction \in Function
      BY DEF Function
    <3>2. QED BY <2>3, <3>1, ChangingInv DEF UnlinkFunction
  <2>4. CASE \E n \in Names : RenameChannel(p, n)
    BY <2>4, RenameInv
  <2>5. CASE Postpone(p) \/ \E n \in {"none", "root"} : Delay(p, n)
    BY <2>5, DelayInv
  <2>6. QED BY <1>1, <2>1, <2>2, <2>3, <2>4, <2>5
<1>2. CASE UNCHANGED fnVars
  BY <1>2 DEF fnVars, FnInv, FnTypes, CachesHold, RightFor, Told
<1>3. QED BY <1>1, <1>2 DEF FnNext

\* A server process that nobody has still to tell knows the function as it is.
THEOREM ConfigIsFresh == FnSpec => []FreshConfig
<1>1. FnInv /\ [FnNext]_fnVars => FnInv'
  BY FnInvNext
<1>2. QED BY <1>1, FnInvInit, FnInvImplies, PTL DEF FnSpec

\* The seconds of a retry are some that its pattern has, or the interval.
LEMMA LargestReached ==
  ASSUME NEW S \in SUBSET Nat, S # {}, NEW top \in Nat, \A k \in S : k <= top
  PROVE  \E n \in S : \A k \in S : k <= n
<1> DEFINE less == OpToRel(<, Nat)
           U == {top - k : k \in S}
<1>1. U \subseteq Nat /\ U # {}
  <2>1. \A k \in S : top - k \in Nat
    OBVIOUS
  <2>2. QED BY <2>1
<1>2. PICK m \in U : \A u \in U : ~(<<u, m>> \in less)
  <2>1. IsWellFoundedOn(less, Nat)
    BY NatLessThanWellFounded
  <2> HIDE DEF less, U
  <2>2. QED BY <1>1, <2>1, WFMin
<1>3. PICK n \in S : m = top - n
  OBVIOUS
<1>4. \A k \in S : ~(top - k < m)
  BY <1>1, <1>2 DEF OpToRel
<1>5. QED BY <1>3, <1>4

Intervals == {0, RetryInterval} \cup UNION {{r[n] : n \in DOMAIN r} : r \in Patterns}

LEMMA SecondsOfPattern ==
  ASSUME NEW c \in Config, NEW retry \in Nat
  PROVE  RetrySeconds(c.pattern, retry) \in Intervals
<1> DEFINE r == c.pattern
           reached == {n \in DOMAIN r : n <= retry}
<1>1. r \in Patterns \/ DOMAIN r = {}
  BY DEF Config, Function, DefaultConfig, NoFunction
<1>2. CASE reached = {}
  BY <1>2 DEF RetrySeconds, Intervals
<1>3. CASE reached # {}
  <2>1. r \in Patterns /\ reached \subseteq Nat
    BY <1>1, <1>3, JobFunctionsAssumption
  <2> DEFINE last == CHOOSE n \in reached : \A k \in reached : k <= n
  <2>2. \E n \in reached : \A k \in reached : k <= n
    <3>1. \A k \in reached : k <= retry
      OBVIOUS
    <3> HIDE DEF reached
    <3>2. QED BY <1>3, <2>1, <3>1, LargestReached
  <2>3. last \in reached
    BY <2>2
  <2>4. RetrySeconds(r, retry) = r[last] /\ last \in DOMAIN r
    BY <1>3, <2>3 DEF RetrySeconds
  <2> HIDE DEF r, last
  <2>5. QED BY <2>1, <2>4 DEF Intervals, r
<1>4. QED BY <1>2, <1>3

\* The job that is stored has a channel that there is, and waits as its
\* function has it.
JobTyped == job = NoJob \/ job \in [channel: Names, retry: Nat, wait: Intervals]

LEMMA JobTypedNext ==
  ASSUME FnInv, JobTyped, [FnNext]_fnVars
  PROVE  JobTyped'
<1>1. ASSUME NEW p \in Processes, CommitRequest(p) PROVE JobTyped'
  <2>1. request[p] \in OpenRequest
    BY <1>1, OpenRequests DEF FnInv, CommitRequest
  <2>2. request[p].job \in DelayedJob
    BY <2>1 DEF OpenRequest
  <2>3. request[p].job # NoJob => request[p].job \in [channel: Names, retry: Nat, wait: Intervals]
    BY <2>2 DEF DelayedJob, Intervals
  <2>4. job' = IF request[p].job # NoJob THEN request[p].job ELSE job
    BY <1>1 DEF CommitRequest
  <2>5. QED BY <2>3, <2>4 DEF JobTyped
<1>2. ASSUME NEW p \in Processes, Postpone(p) PROVE JobTyped'
  <2> DEFINE seconds == RetrySeconds(JobConfig(p).pattern, job.retry + 1)
  <2>1. job # NoJob /\ request[p].on /\ job' = [job EXCEPT !.retry = @ + 1, !.wait = seconds]
    BY <1>2 DEF Postpone
  <2>2. job \in [channel: Names, retry: Nat, wait: Intervals]
    BY <2>1 DEF JobTyped
  <2>3. seconds \in Intervals
    <3>1. JobConfig(p) \in Config
      BY <2>1, JobConfigType DEF FnInv
    <3>2. job.retry + 1 \in Nat
      BY <2>2
    <3>3. QED BY <3>1, <3>2, SecondsOfPattern
  <2> HIDE DEF seconds
  <2>4. job' = [channel |-> job.channel, retry |-> job.retry + 1, wait |-> seconds]
    BY <2>1, <2>2
  <2>5. job.channel \in Names /\ job.retry + 1 \in Nat
    BY <2>2
  <2>6. QED BY <2>3, <2>4, <2>5 DEF JobTyped
<1>3. CASE job' = job
  BY <1>3 DEF JobTyped
<1>4. QED BY <1>1, <1>2, <1>3
          DEF FnNext, fnVars, Begin, Signal, Abort, CreateFunction, WriteFunction, UnlinkFunction,
              Changing, RenameChannel, Delay

\* Type correctness of functions, caches and requests; a job that is postponed
\* waits for seconds its pattern has, or for the interval (job_config,
\* _get_retry_seconds).
THEOREM FunctionsAreTyped == FnSpec => []FnTypeOK
<1>1. FnInv /\ JobTyped /\ [FnNext]_fnVars => FnInv' /\ JobTyped'
  BY FnInvNext, JobTypedNext
<1>2. FnInit => JobTyped
  BY DEF FnInit, JobTyped
<1>3. FnInv /\ JobTyped => FnTypeOK
  <2> SUFFICES ASSUME FnInv, JobTyped PROVE FnTypeOK
    OBVIOUS
  <2>1. FnTypes /\ \A p \in Processes : request[p].on =>
          request[p].fn \in Function /\ request[p].name \in Names
    BY OpenRequests DEF FnInv, OpenRequest
  <2>2. job # NoJob => job.channel \in Names /\ job.wait \in Intervals
    BY DEF JobTyped
  <2>3. QED BY <2>1, <2>2 DEF FnTypes, FnTypeOK, Intervals
<1>4. QED BY <1>1, <1>2, <1>3, FnInvInit, PTL DEF FnSpec

-----------------------------------------------------------------------------
(* Identity keys                                                           *)

OpenRow == [active: BOOLEAN, snapshot: Seq(IdentityRows), stored: Seq(IdentityRows)]

IdentityTypes == queue \in Seq(IdentityRows) /\ open \in [Requests -> OpenRow]

\* A row that has waited since it was stored waits.
Waits(rows) == \A i \in 1..Len(rows) : rows[i].unbroken => rows[i].state \in WaitStates

\* What a request sees are rows of the queue, as they were.
SeesQueue(rows, q) ==
  /\ Len(rows) <= Len(q)
  /\ \A i \in 1..Len(rows) : /\ rows[i].key = q[i].key
                             /\ q[i].unbroken => rows[i].unbroken

\* A job alone was stored after a look at the rows seen: none of its key waited.
Looked(rows, seen) ==
  \A k \in 1..Len(rows) :
    /\ rows[k].seen = Len(seen)
    /\ rows[k].alone /\ rows[k].key # NoKey =>
         \A i \in 1..Len(seen) : ~(seen[i].key = rows[k].key /\ seen[i].unbroken)

RowsSeen(x) == SeesQueue(x.snapshot, queue) /\ Waits(x.snapshot) /\ Waits(x.stored)
           /\ Looked(x.stored, x.snapshot)

IdentityInv ==
  /\ IdentityTypes
  /\ Waits(queue)
  /\ \A t \in Requests : RowsSeen(open[t])
  /\ TwiceOnlyByRace

LEMMA IdentityInitInv == IdentityInit => IdentityInv
<1> SUFFICES ASSUME IdentityInit PROVE IdentityInv
  OBVIOUS
<1>1. queue = <<>> /\ \A t \in Requests : open[t] = Closed
  BY DEF IdentityInit
<1>2. IdentityTypes
  BY DEF IdentityInit, IdentityTypes, Closed, OpenRow
<1>3. Closed.snapshot = <<>> /\ Closed.stored = <<>>
  BY DEF Closed
<1>4. Waits(<<>>) /\ SeesQueue(<<>>, queue) /\ Looked(<<>>, <<>>)
  BY <1>1 DEF Waits, SeesQueue, Looked
<1>5. TwiceOnlyByRace
  BY <1>1 DEF TwiceOnlyByRace
<1>6. QED BY <1>1, <1>2, <1>3, <1>4, <1>5 DEF IdentityInv, RowsSeen

LEMMA OpenTypes ==
  ASSUME IdentityTypes, NEW t \in Requests
  PROVE  /\ open[t].snapshot \in Seq(IdentityRows) /\ open[t].stored \in Seq(IdentityRows)
         /\ Len(open[t].snapshot) \in Nat /\ Len(open[t].stored) \in Nat
  BY DEF IdentityTypes, OpenRow

\* A request changes, the queue does not.
LEMMA RequestInv ==
  ASSUME IdentityInv, NEW t \in Requests, NEW x \in OpenRow, RowsSeen(x),
         open' = [open EXCEPT ![t] = x], queue' = queue
  PROVE  IdentityInv'
<1>1. IdentityTypes /\ IdentityTypes'
  BY DEF IdentityInv, IdentityTypes
<1>2. \A u \in Requests : open'[u] = IF u = t THEN x ELSE open[u]
  BY <1>1 DEF IdentityTypes
<1>3. \A u \in Requests : RowsSeen(open'[u])
  BY <1>2 DEF IdentityInv
<1>4. \A y : RowsSeen(y)' <=> RowsSeen(y)
  BY DEF RowsSeen, SeesQueue, Waits, Looked
<1>5. Waits(queue') /\ TwiceOnlyByRace'
  BY DEF IdentityInv, TwiceOnlyByRace
<1>6. QED BY <1>1, <1>3, <1>5 DEF IdentityInv, RowsSeen, SeesQueue

LEMMA ClosedRowsSeen ==
  ASSUME queue \in Seq(IdentityRows)
  PROVE  Closed \in OpenRow /\ RowsSeen(Closed)
<1>1. Closed.snapshot = <<>> /\ Closed.stored = <<>> /\ Closed \in OpenRow
  BY DEF Closed, OpenRow
<1>2. Waits(<<>>) /\ SeesQueue(<<>>, queue) /\ Looked(<<>>, <<>>)
  BY DEF Waits, SeesQueue, Looked
<1>3. QED BY <1>1, <1>2 DEF RowsSeen

LEMMA BeginRequestInv ==
  ASSUME IdentityInv, NEW t \in Requests, BeginRequest(t)
  PROVE  IdentityInv'
<1> DEFINE x == [active |-> TRUE, snapshot |-> queue, stored |-> <<>>]
<1>1. queue \in Seq(IdentityRows) /\ Waits(queue)
  BY DEF IdentityInv, IdentityTypes
<1>2. x \in OpenRow /\ x.snapshot = queue /\ x.stored = <<>>
  BY <1>1 DEF OpenRow
<1>3. Waits(<<>>) /\ SeesQueue(queue, queue) /\ Looked(<<>>, queue)
  BY <1>1 DEF Waits, SeesQueue, Looked
<1>4. RowsSeen(x)
  BY <1>1, <1>2, <1>3 DEF RowsSeen
<1>5. open' = [open EXCEPT ![t] = x] /\ queue' = queue
  BY DEF BeginRequest
<1> HIDE DEF x
<1>6. QED BY <1>2, <1>4, <1>5, RequestInv

LEMMA SeqElement ==
  ASSUME NEW S, NEW s \in Seq(S), NEW i \in 1..Len(s)
  PROVE  s[i] \in S
  OBVIOUS

LEMMA ConcatRows ==
  ASSUME NEW a \in Seq(IdentityRows), NEW b \in Seq(IdentityRows)
  PROVE  /\ a \o b \in Seq(IdentityRows) /\ Len(a \o b) = Len(a) + Len(b)
         /\ \A k \in 1..Len(a \o b) :
              (a \o b)[k] = IF k <= Len(a) THEN a[k] ELSE b[k - Len(a)]
<1>1. a \o b \in Seq(IdentityRows) /\ Len(a \o b) = Len(a) + Len(b)
  OBVIOUS
<1>2. ASSUME NEW k \in 1..Len(a \o b)
      PROVE  (a \o b)[k] = IF k <= Len(a) THEN a[k] ELSE b[k - Len(a)]
  BY <1>1
<1>3. QED BY <1>1, <1>2

LEMMA DelayGraphInv ==
  ASSUME IdentityInv, NEW t \in Requests, NEW g \in Delayed, DelayGraphOf(t, g)
  PROVE  IdentityInv'
<1> DEFINE seen == open[t].snapshot
           old == open[t].stored
           new == Stores(t, g)
           x == [open[t] EXCEPT !.stored = old \o new]
<1>1. /\ IdentityTypes /\ open[t] \in OpenRow /\ seen \in Seq(IdentityRows)
      /\ old \in Seq(IdentityRows) /\ Len(seen) \in Nat
      /\ SeesQueue(seen, queue) /\ Waits(seen) /\ Waits(old) /\ Looked(old, seen)
  BY OpenTypes DEF IdentityInv, IdentityTypes, RowsSeen
<1>2. g \in Seq([key : STRING, parents : SUBSET Nat])
  BY IdentityAssumption
<1>3. new \in Seq(IdentityRows) /\ Len(new) = Len(g)
      /\ \A v \in 1..Len(g) : /\ new[v].key = g[v].key /\ new[v].seen = Len(seen)
                              /\ new[v].unbroken => new[v].state = "pending"
                              /\ new[v].alone = (Len(g) = 1)
  <2>1. \A v \in 1..Len(g) :
          [key |-> g[v].key, unbroken |-> g[v].parents = {},
           state |-> IF g[v].parents = {} THEN "pending" ELSE "wait_dependencies",
           seen |-> Len(open[t].snapshot), alone |-> Len(g) = 1] \in IdentityRows
    <3> SUFFICES ASSUME NEW v \in 1..Len(g)
                 PROVE  [key |-> g[v].key, unbroken |-> g[v].parents = {},
                         state |-> IF g[v].parents = {} THEN "pending" ELSE "wait_dependencies",
                         seen |-> Len(open[t].snapshot), alone |-> Len(g) = 1] \in IdentityRows
      OBVIOUS
    <3>0. g[v] \in [key : STRING, parents : SUBSET Nat]
      BY <1>2, SeqElement
    <3>1. g[v].key \in STRING /\ Len(open[t].snapshot) \in Nat
      BY <1>1, <3>0
    <3>2. (IF g[v].parents = {} THEN "pending" ELSE "wait_dependencies") \in RowStates
      BY DEF RowStates, WaitStates
    <3>3. (g[v].parents = {}) \in BOOLEAN /\ (Len(g) = 1) \in BOOLEAN
      OBVIOUS
    <3>4. QED BY <3>1, <3>2, <3>3, Zenon DEF IdentityRows
  <2>2. DOMAIN g = 1..Len(g) /\ Len(g) \in Nat
    BY <1>2
  <2>3. new = [v \in 1..Len(g) |->
          [key |-> g[v].key, unbroken |-> g[v].parents = {},
           state |-> IF g[v].parents = {} THEN "pending" ELSE "wait_dependencies",
           seen |-> Len(open[t].snapshot), alone |-> Len(g) = 1]]
    BY <2>2 DEF Stores
  <2> HIDE DEF new
  <2>4. new \in [1..Len(g) -> IdentityRows]
    BY <2>1, <2>3
  <2>5. new \in Seq(IdentityRows) /\ Len(new) = Len(g)
    BY <2>2, <2>4
  <2>6. \A v \in 1..Len(g) : /\ new[v].key = g[v].key /\ new[v].seen = Len(seen)
                             /\ new[v].unbroken => new[v].state = "pending"
                             /\ new[v].alone = (Len(g) = 1)
    BY <2>3
  <2>7. QED BY <2>5, <2>6
<1>4. Waits(new)
  BY <1>3 DEF Waits, WaitStates
<1>5. Looked(new, seen)
  <2> SUFFICES ASSUME NEW k \in 1..Len(g), new[k].alone, new[k].key # NoKey,
                      NEW i \in 1..Len(seen), seen[i].key = new[k].key, seen[i].unbroken
               PROVE  FALSE
    BY <1>3 DEF Looked
  <2>1. Len(g) = 1 /\ k = 1 /\ g[1].key # NoKey /\ seen[i].key = g[1].key
    <3> HIDE DEF new, seen
    <3>1. Len(g) = 1 /\ new[k].key = g[k].key
      BY <1>3
    <3>2. k = 1
      BY <3>1
    <3>3. QED BY <3>1, <3>2
  <2>2. DOMAIN g = {1}
    BY <1>2, <2>1
  <2>3. ~SameIdentityKey(t, g[1].key)
    BY <2>1, <2>2 DEF DelayGraphOf, AllExist
  <2>4. seen[i].state \in WaitStates /\ i \in DOMAIN seen
    BY <1>1 DEF Waits
  <2>5. QED BY <2>1, <2>3, <2>4 DEF SameIdentityKey
<1> DEFINE both == old \o new
<1>6. /\ both \in Seq(IdentityRows) /\ Len(both) = Len(old) + Len(new)
      /\ \A k \in 1..Len(both) :
           both[k] = IF k <= Len(old) THEN old[k] ELSE new[k - Len(old)]
  <2> HIDE DEF old, new
  <2>1. QED BY <1>1, <1>3, ConcatRows
<1>7. Waits(both) /\ Looked(both, seen)
  <2> HIDE DEF old, new, both, seen
  <2>1. ASSUME NEW k \in 1..Len(both)
        PROVE  \/ k \in 1..Len(old) /\ both[k] = old[k]
               \/ k - Len(old) \in 1..Len(new) /\ both[k] = new[k - Len(old)]
    BY <1>1, <1>3, <1>6
  <2>2. Waits(both)
    BY <1>1, <1>4, <2>1 DEF Waits
  <2>3. Looked(both, seen)
    <3> SUFFICES ASSUME NEW k \in 1..Len(both)
                 PROVE  /\ both[k].seen = Len(seen)
                        /\ both[k].alone /\ both[k].key # NoKey =>
                             \A i \in 1..Len(seen) : ~(seen[i].key = both[k].key /\ seen[i].unbroken)
      BY DEF Looked
    <3>1. CASE k \in 1..Len(old) /\ both[k] = old[k]
      BY <1>1, <3>1 DEF Looked
    <3>2. CASE k - Len(old) \in 1..Len(new) /\ both[k] = new[k - Len(old)]
      BY <1>5, <3>2 DEF Looked
    <3>3. QED BY <2>1, <3>1, <3>2
  <2>4. QED BY <2>2, <2>3
<1> HIDE DEF both
<1>8. x \in OpenRow /\ x.snapshot = seen /\ x.stored = both
  BY <1>1, <1>6 DEF OpenRow, both
<1>9. RowsSeen(x)
  BY <1>1, <1>7, <1>8 DEF RowsSeen
<1>10. open' = [open EXCEPT ![t] = x] /\ queue' = queue
  BY <1>1 DEF DelayGraphOf, IdentityTypes
<1> HIDE DEF x
<1>11. QED BY <1>8, <1>9, <1>10, RequestInv
\* What a request that goes on has seen are rows of the longer queue as well.
LEMMA LongerQueue ==
  ASSUME NEW rows, Len(rows) \in Nat, SeesQueue(rows, queue), Len(queue) \in Nat, Len(queue') \in Nat,
         Len(queue) <= Len(queue'),
         \A i \in 1..Len(queue) : /\ queue'[i].key = queue[i].key
                                  /\ queue'[i].unbroken => queue[i].unbroken
  PROVE  SeesQueue(rows, queue')
<1>1. Len(rows) <= Len(queue')
  BY DEF SeesQueue
<1>2. ASSUME NEW i \in 1..Len(rows)
      PROVE  rows[i].key = queue'[i].key /\ (queue'[i].unbroken => rows[i].unbroken)
  <2>1. i \in 1..Len(queue)
    BY DEF SeesQueue
  <2>2. rows[i].key = queue[i].key /\ (queue[i].unbroken => rows[i].unbroken)
    BY DEF SeesQueue
  <2>3. QED BY <2>1, <2>2
<1>3. QED BY <1>1, <1>2 DEF SeesQueue

LEMMA CommitRequestInv ==
  ASSUME IdentityInv, NEW t \in Requests, Commit(t)
  PROVE  IdentityInv'
<1> DEFINE seen == open[t].snapshot
           new == open[t].stored
<1>1. /\ IdentityTypes /\ queue \in Seq(IdentityRows) /\ seen \in Seq(IdentityRows)
      /\ new \in Seq(IdentityRows) /\ Len(seen) \in Nat /\ Len(new) \in Nat /\ Len(queue) \in Nat
      /\ Waits(queue) /\ TwiceOnlyByRace
      /\ SeesQueue(seen, queue) /\ Waits(seen) /\ Waits(new) /\ Looked(new, seen)
  BY OpenTypes DEF IdentityInv, IdentityTypes, RowsSeen
<1>2. queue' = queue \o new /\ open' = [open EXCEPT ![t] = Closed]
  BY DEF Commit
<1> HIDE DEF seen, new
<1>3. /\ queue' \in Seq(IdentityRows) /\ Len(queue') = Len(queue) + Len(new)
      /\ \A k \in 1..Len(queue') :
           queue'[k] = IF k <= Len(queue) THEN queue[k] ELSE new[k - Len(queue)]
  BY <1>1, <1>2, ConcatRows
<1>4. ASSUME NEW k \in 1..Len(queue')
      PROVE  \/ k \in 1..Len(queue) /\ queue'[k] = queue[k]
             \/ k - Len(queue) \in 1..Len(new) /\ queue'[k] = new[k - Len(queue)]
  BY <1>1, <1>3
<1>5. Waits(queue')
  BY <1>1, <1>4 DEF Waits
<1>6. IdentityTypes'
  <2>1. Closed \in OpenRow
    BY <1>1, ClosedRowsSeen
  <2>2. QED BY <1>1, <1>2, <1>3, <2>1 DEF IdentityTypes
<1>7. ASSUME NEW u \in Requests PROVE RowsSeen(open[u])'
  <2>1. CASE u = t
    <3>1. open'[u] = Closed
      BY <1>1, <1>2, <2>1 DEF IdentityTypes
    <3>2. Closed.snapshot = <<>> /\ Closed.stored = <<>>
      BY DEF Closed
    <3>3. Waits(<<>>) /\ Looked(<<>>, <<>>)
      BY DEF Waits, Looked
    <3>4. SeesQueue(<<>>, queue')
      BY <1>3 DEF SeesQueue
    <3>5. QED BY <3>1, <3>2, <3>3, <3>4 DEF RowsSeen
  <2>2. CASE u # t
    <3>1. open'[u] = open[u]
      BY <1>1, <1>2, <2>2 DEF IdentityTypes
    <3>2. RowsSeen(open[u]) /\ Len(open[u].snapshot) \in Nat
      BY <1>1, OpenTypes DEF IdentityInv
    <3> DEFINE rows == open[u].snapshot
    <3>3. SeesQueue(rows, queue) /\ Len(rows) \in Nat
      BY <3>2 DEF RowsSeen
    <3>4. \A i \in 1..Len(queue) : /\ queue'[i].key = queue[i].key
                                   /\ queue'[i].unbroken => queue[i].unbroken
      BY <1>1, <1>3
    <3>5. Len(queue) <= Len(queue') /\ Len(queue') \in Nat
      BY <1>1, <1>3
    <3> HIDE DEF rows
    <3>6. SeesQueue(rows, queue')
      BY <1>1, <3>3, <3>4, <3>5, LongerQueue
    <3>7. QED BY <3>1, <3>2, <3>6 DEF RowsSeen, rows
  <2>3. QED BY <2>1, <2>2
<1>8. TwiceOnlyByRace'
  <2> SUFFICES ASSUME NEW i \in 1..Len(queue'), NEW j \in 1..Len(queue'),
                      i < j, queue'[i].key = queue'[j].key, queue'[i].key # NoKey,
                      queue'[i].unbroken, queue'[j].alone, i <= queue'[j].seen
               PROVE  FALSE
    <3>1. DOMAIN queue' = 1..Len(queue')
      BY <1>3
    <3>2. \A m \in 1..Len(queue') : queue'[m].seen \in Nat
      <4>1. \A m \in 1..Len(queue') : queue'[m] \in IdentityRows
        BY <1>3, SeqElement
      <4>2. QED BY <4>1 DEF IdentityRows
    <3>3. QED BY <3>1, <3>2 DEF TwiceOnlyByRace
  <2>1. CASE j \in 1..Len(queue) /\ queue'[j] = queue[j]
    <3>1. i \in 1..Len(queue) /\ queue'[i] = queue[i]
      BY <1>1, <1>3, <2>1
    <3>2. DOMAIN queue = 1..Len(queue) /\ queue[j].seen \in Nat
      <4>1. queue[j] \in IdentityRows
        BY <1>1, <2>1, SeqElement
      <4>2. QED BY <1>1, <4>1 DEF IdentityRows
    <3>3. /\ queue[i].key = queue[j].key /\ queue[i].key # NoKey
          /\ queue[i].unbroken /\ queue[j].alone /\ i <= queue[j].seen
      BY <2>1, <3>1
    <3>4. i \in DOMAIN queue /\ j \in DOMAIN queue
      BY <2>1, <3>1, <3>2
    <3>5. i > queue[j].seen
      BY <1>1, <3>3, <3>4 DEF TwiceOnlyByRace
    <3>6. QED BY <3>2, <3>3, <3>5
  <2>2. CASE j - Len(queue) \in 1..Len(new) /\ queue'[j] = new[j - Len(queue)]
    <3> DEFINE k == j - Len(queue)
    <3>1. new[k].seen = Len(seen) /\ ~(seen[i].key = new[k].key /\ seen[i].unbroken)
      <4>1. new[k].seen = Len(seen)
        BY <1>1, <2>2 DEF Looked
      <4>2. i \in 1..Len(seen)
        BY <1>1, <2>2, <4>1
      <4>3. QED BY <1>1, <2>2, <4>1, <4>2 DEF Looked
    <3>2. i \in 1..Len(seen)
      BY <1>1, <2>2, <3>1
    <3>3. i \in 1..Len(queue) /\ queue'[i] = queue[i]
      BY <1>1, <1>3, <3>2 DEF SeesQueue
    <3>4. seen[i].key = queue[i].key /\ seen[i].unbroken
      BY <1>1, <3>2, <3>3 DEF SeesQueue
    <3>5. QED BY <2>2, <3>1, <3>3, <3>4
  <2>3. QED BY <1>4, <2>1, <2>2
<1>9. QED BY <1>5, <1>6, <1>7, <1>8 DEF IdentityInv, Waits

\* The runner, a worker or a user moves a row on.
LEMMA MovesInv ==
  ASSUME IdentityInv, NEW n \in DOMAIN queue, Moves(n)
  PROVE  IdentityInv'
<1>1. /\ IdentityTypes /\ queue \in Seq(IdentityRows) /\ Len(queue) \in Nat
      /\ Waits(queue) /\ TwiceOnlyByRace /\ n \in 1..Len(queue) /\ open' = open
  BY DEF IdentityInv, IdentityTypes, Moves
<1>2. PICK s \in Follows[queue[n].state] :
        queue' = [queue EXCEPT ![n].state = s, ![n].unbroken = @ /\ s \in WaitStates]
  BY DEF Moves
<1> DEFINE r == [queue[n] EXCEPT !.state = s, !.unbroken = @ /\ s \in WaitStates]
<1>3. queue[n] \in IdentityRows
  BY <1>1, SeqElement
<1>4. s \in RowStates
  BY <1>2, <1>3 DEF IdentityRows, Follows, RowStates, WaitStates
<1>5. /\ r \in IdentityRows /\ r.key = queue[n].key /\ r.seen = queue[n].seen
      /\ r.alone = queue[n].alone
      /\ r.unbroken => queue[n].unbroken /\ r.state \in WaitStates
  BY <1>3, <1>4 DEF IdentityRows
<1>6. queue' = [queue EXCEPT ![n] = r]
  BY <1>1, <1>2
<1> HIDE DEF r
<1>7. /\ queue' \in Seq(IdentityRows) /\ Len(queue') = Len(queue)
      /\ \A i \in 1..Len(queue) : queue'[i] = IF i = n THEN r ELSE queue[i]
  BY <1>1, <1>5, <1>6
<1>8. \A i \in 1..Len(queue) : /\ queue'[i].key = queue[i].key
                               /\ queue'[i].seen = queue[i].seen
                               /\ queue'[i].alone = queue[i].alone
                               /\ queue'[i].unbroken => queue[i].unbroken
  BY <1>5, <1>7
<1>9. Waits(queue')
  BY <1>1, <1>5, <1>7 DEF Waits
<1>10. IdentityTypes'
  BY <1>1, <1>7 DEF IdentityTypes
<1>11. ASSUME NEW u \in Requests PROVE RowsSeen(open[u])'
  <2>1. RowsSeen(open[u]) /\ Len(open[u].snapshot) \in Nat
    BY <1>1, OpenTypes DEF IdentityInv
  <2> DEFINE rows == open[u].snapshot
  <2>2. SeesQueue(rows, queue)
    BY <2>1 DEF RowsSeen
  <2> HIDE DEF rows
  <2>3. SeesQueue(rows, queue')
    BY <1>1, <1>7, <1>8, <2>1, <2>2, LongerQueue DEF rows
  <2>4. QED BY <1>1, <2>1, <2>3 DEF RowsSeen, rows
<1>12. TwiceOnlyByRace'
  <2>1. DOMAIN queue = 1..Len(queue) /\ DOMAIN queue' = 1..Len(queue)
    BY <1>1, <1>7
  <2>2. QED BY <1>1, <1>8, <2>1 DEF TwiceOnlyByRace
<1>13. QED BY <1>9, <1>10, <1>11, <1>12 DEF IdentityInv, Waits

LEMMA IdentityInvNext ==
  ASSUME IdentityInv, [IdentityNext]_identityVars
  PROVE  IdentityInv'
<1>1. ASSUME NEW t \in Requests,
             BeginRequest(t) \/ Commit(t) \/ Rollback(t) \/ \E g \in Delayed : DelayGraphOf(t, g)
      PROVE  IdentityInv'
  <2>1. CASE Rollback(t)
    <3>1. Closed \in OpenRow /\ RowsSeen(Closed)
      BY ClosedRowsSeen DEF IdentityInv, IdentityTypes
    <3>2. open' = [open EXCEPT ![t] = Closed] /\ queue' = queue
      BY <2>1 DEF Rollback
    <3>3. QED BY <3>1, <3>2, RequestInv
  <2>2. QED BY <1>1, <2>1, BeginRequestInv, CommitRequestInv, DelayGraphInv
<1>2. CASE \E i \in DOMAIN queue : Moves(i)
  BY <1>2, MovesInv
<1>3. CASE UNCHANGED identityVars
  BY <1>3 DEF identityVars, IdentityInv, IdentityTypes, Waits, RowsSeen, SeesQueue, TwiceOnlyByRace
<1>4. QED BY <1>1, <1>2, <1>3 DEF IdentityNext

\* Two jobs with a key wait only by a race of their requests, a graph, or
\* after a job that was out of the waiting states meanwhile.
THEOREM TwiceByRace == IdentitySpec => []TwiceOnlyByRace
<1>1. IdentityInv /\ [IdentityNext]_identityVars => IdentityInv'
  BY IdentityInvNext
<1>2. IdentityInv => TwiceOnlyByRace
  BY DEF IdentityInv
<1>3. QED BY <1>1, <1>2, IdentityInitInv, PTL DEF IdentitySpec

\* Type correctness of the queue and of what the requests have seen of it.
THEOREM IdentityIsTyped == IdentitySpec => []IdentityTypeOK
<1>1. IdentityInv /\ [IdentityNext]_identityVars => IdentityInv'
  BY IdentityInvNext
<1>2. IdentityInv => IdentityTypeOK
  BY DEF IdentityInv, IdentityTypes, IdentityTypeOK, OpenRow
<1>3. QED BY <1>1, <1>2, IdentityInitInv, PTL DEF IdentitySpec

-----------------------------------------------------------------------------
(* The row of a job                                                        *)

KeysOfContexts == KeptKeys \cup UNION {DOMAIN c : c \in Contexts}
Values == UNION {{c[k] : k \in DOMAIN c} : c \in Contexts}
SomeContexts == UNION {[D -> Values] : D \in SUBSET KeysOfContexts}
Envs == [uid: Users, su: BOOLEAN, context: SomeContexts]
StoredStates == {"pending", "enqueued", "started", "done", "failed", "cancelled"}
StoredDates == {"enqueued", "started", "done", "cancelled"}

StoredRows ==
  [state: StoredStates, retry: Int, max_retries: Nat, exc_name: BOOLEAN, exc_message: BOOLEAN,
   exc_info: BOOLEAN, dates: SUBSET StoredDates, eta: BOOLEAN, channel: JobChannels,
   user_id: Users, records: Envs]

LoadedJobs ==
  [state: StoredStates, retry: Int, max_retries: Nat, exc_name: BOOLEAN, exc_message: BOOLEAN,
   exc_info: BOOLEAN, dates: SUBSET StoredDates, eta: BOOLEAN, channel: JobChannels, env: Envs]

\* RowTellsOutcome of a row.
Tells(r) ==
  /\ r.state \in {"pending", "enqueued", "started", "done"} => ~r.exc_name /\ ~r.exc_message
  /\ r.state = "done" => ~r.exc_info /\ "done" \in r.dates
  /\ r.state = "failed" => r.exc_name /\ r.exc_message /\ r.exc_info
  /\ r.state = "pending" => r.dates = {}
  /\ r.state \in {"pending", "enqueued", "started"} => r.dates \cap {"done", "cancelled"} = {}

\* The recordset has the context it was delayed with, and only safe keys.
HasContext(records, context) ==
  /\ DOMAIN records.context \subseteq KeptKeys
  /\ DOMAIN context \subseteq DOMAIN records.context
  /\ \A k \in DOMAIN context : records.context[k] = context[k]

Asked(r, w) ==
  /\ DOMAIN w = {"channel", "user_id", "context"}
  /\ w = [channel |-> w.channel, user_id |-> w.user_id, context |-> w.context]
  /\ r.channel = w.channel /\ r.user_id = w.user_id
  /\ HasContext(r.records, w.context)

\* A worker's job knows of no exception, whatever its row has.
Clean(j) ==
  /\ j \in LoadedJobs /\ ~j.exc_name /\ ~j.exc_message

Performed(j) == Clean(j) /\ j.state = "started" /\ j.dates \cap {"done", "cancelled"} = {}

StorageInv ==
  /\ jobRow # NoRow => jobRow \in StoredRows /\ Tells(jobRow) /\ Asked(jobRow, wanted)
  /\ jobObject # NoRow => jobRow # NoRow /\ Performed(jobObject)
  /\ ~again

LEMMA StorageInvImplies == StorageInv => RowIsTrue
  BY DEF StorageInv, RowIsTrue, RowTellsOutcome, Tells, EditsAreKept, Asked, HasContext, DelaysOnce

LEMMA StorageInvInit == StorageInit => StorageInv
  BY DEF StorageInit, StorageInv

LEMMA RowExists ==
  ASSUME NEW r \in StoredRows PROVE r # NoRow
<1>1. "retry" \in DOMAIN r /\ "retry" \notin DOMAIN NoRow
  BY DEF StoredRows, NoRow
<1>2. QED BY <1>1

\* A store keeps what is not of the job.
LEMMA StoredRow ==
  ASSUME NEW r \in StoredRows, NEW j \in LoadedJobs
  PROVE  LET q == Stored(r, j) IN
         /\ q \in StoredRows
         /\ q.channel = r.channel /\ q.user_id = r.user_id /\ q.records = r.records
         /\ q.state = j.state /\ q.dates = j.dates /\ q.exc_name = j.exc_name
         /\ q.exc_message = j.exc_message /\ q.exc_info = j.exc_info
<1>1. Stored(r, j) \in StoredRows
  BY DEF Stored, StoredRows, LoadedJobs
<1>2. LET q == Stored(r, j)
      IN  q.channel = r.channel /\ q.user_id = r.user_id /\ q.records = r.records
  BY DEF Stored, StoredRows
<1>3. LET q == Stored(r, j)
      IN  /\ q.state = j.state /\ q.dates = j.dates /\ q.exc_name = j.exc_name
          /\ q.exc_message = j.exc_message /\ q.exc_info = j.exc_info
  BY DEF Stored, StoredRows, LoadedJobs
<1>4. QED BY <1>1, <1>2, <1>3

\* A reader's context adds to that of the recordset.
LEMMA WithType ==
  ASSUME NEW c \in SomeContexts, NEW d \in Contexts \cup {<<>>}
  PROVE  /\ With(c, d) \in SomeContexts
         /\ DOMAIN c \subseteq DOMAIN With(c, d)
         /\ \A k \in DOMAIN c : With(c, d)[k] = c[k]
<1>1. PICK D \in SUBSET KeysOfContexts : c \in [D -> Values]
  BY DEF SomeContexts
<1>2. DOMAIN d \subseteq KeysOfContexts /\ \A k \in DOMAIN d : d[k] \in Values
  <2>1. CASE d = <<>>
    <3>1. DOMAIN d = {}
      BY <2>1
    <3>2. QED BY <3>1
  <2>2. CASE d \in Contexts
    BY <2>2 DEF KeysOfContexts, Values
  <2>3. QED BY <2>1, <2>2
<1> DEFINE Ks == D \cup DOMAIN d
<1>3. Ks \in SUBSET KeysOfContexts /\ DOMAIN c = D
  BY <1>1, <1>2
<1>4. With(c, d) = [k \in Ks |-> IF k \in D THEN c[k] ELSE d[k]]
  BY <1>3 DEF With
<1>5. \A k \in Ks : (IF k \in D THEN c[k] ELSE d[k]) \in Values
  BY <1>1, <1>2
<1> HIDE DEF Ks
<1>6. With(c, d) \in [Ks -> Values]
  BY <1>4, <1>5
<1>7. QED BY <1>3, <1>4, <1>6 DEF SomeContexts, Ks

LEMMA KeptType ==
  ASSUME NEW c \in SomeContexts
  PROVE  [k \in DOMAIN c \cap KeptKeys |-> c[k]] \in SomeContexts
<1>1. PICK D \in SUBSET KeysOfContexts : c \in [D -> Values]
  BY DEF SomeContexts
<1> DEFINE Ks == DOMAIN c \cap KeptKeys
<1>2. Ks \in SUBSET KeysOfContexts /\ \A k \in Ks : c[k] \in Values
  BY <1>1
<1> HIDE DEF Ks
<1>3. [k \in Ks |-> c[k]] \in [Ks -> Values]
  BY <1>2
<1>4. [k \in Ks |-> c[k]] \in SomeContexts
  BY <1>2, <1>3 DEF SomeContexts
<1>5. QED BY <1>4 DEF Ks

LEMMA DecodedType ==
  ASSUME NEW e \in Envs, NEW d \in Contexts \cup {<<>>}
  PROVE  /\ Decode(e, d) \in Envs
         /\ DOMAIN e.context \subseteq DOMAIN Decode(e, d).context
         /\ \A k \in DOMAIN e.context : Decode(e, d).context[k] = e.context[k]
<1>1. e.context \in SomeContexts
  BY DEF Envs
<1>2. With(e.context, d) \in SomeContexts
  BY <1>1, WithType
<1>3. Decode(e, d) \in Envs /\ Decode(e, d).context = With(e.context, d)
  BY <1>2 DEF Decode, Envs
<1>4. QED BY <1>1, <1>3, WithType

\* A load forgets the name and the message of an exception.
LEMMA LoadedJob ==
  ASSUME NEW r \in StoredRows
  PROVE  LET j == Load(r, <<>>) IN
         Clean(j) /\ j.state = r.state /\ j.dates = r.dates
<1>1. Decode(r.records, <<>>) \in Envs
  BY DecodedType DEF StoredRows
<1>2. QED BY <1>1 DEF Load, NewJob, StoredRows, LoadedJobs, Clean
\* What the methods of Job make of a job.
LEMMA PendingJob ==
  ASSUME NEW j \in LoadedJobs, ~j.exc_message
  PROVE  LET q == SetStatePending(PostponeEta(j), FALSE) IN q \in LoadedJobs /\ Tells(q)
  BY DEF SetStatePending, PostponeEta, LoadedJobs, StoredStates, StoredDates, Tells

LEMMA FailedJob ==
  ASSUME NEW j \in LoadedJobs
  PROVE  LET q == SetStateFailed(j) IN q \in LoadedJobs /\ Tells(q)
  BY DEF SetStateFailed, LoadedJobs, StoredStates, StoredDates, Tells

LEMMA DoneJob ==
  ASSUME NEW j, Clean(j)
  PROVE  LET q == SetStateDone(j) IN q \in LoadedJobs /\ Tells(q) /\ ~q.exc_message
  BY DEF SetStateDone, Clean, LoadedJobs, StoredStates, StoredDates, Tells

LEMMA OtherJobs ==
  ASSUME NEW j, Clean(j)
  PROVE  /\ SetStateCancelled(j) \in LoadedJobs /\ Tells(SetStateCancelled(j))
         /\ SetStatePending(j, TRUE) \in LoadedJobs /\ Tells(SetStatePending(j, TRUE))
<1>1. SetStateCancelled(j) \in LoadedJobs /\ Tells(SetStateCancelled(j))
  BY DEF SetStateCancelled, Clean, LoadedJobs, StoredStates, StoredDates, Tells
<1> DEFINE p == [j EXCEPT !.state = "pending", !.dates = {}, !.retry = 0]
<1>2. SetStatePending(j, TRUE) = p
  BY DEF SetStatePending

<1>3. p \in LoadedJobs
  <2>1. "pending" \in StoredStates /\ {} \in SUBSET StoredDates /\ 0 \in Int
    BY DEF StoredStates
  <2>2. j \in LoadedJobs
    BY DEF Clean
  <2>3. QED BY <2>1, <2>2 DEF LoadedJobs
<1>4. Tells(p)
  BY DEF Clean, LoadedJobs, Tells
<1>5. QED BY <1>1, <1>2, <1>3, <1>4

LEMMA StoreKeeps ==
  ASSUME StorageInv, jobRow # NoRow, NEW j \in LoadedJobs, Tells(j)
  PROVE  /\ Stored(jobRow, j) \in StoredRows /\ Tells(Stored(jobRow, j))
         /\ Asked(Stored(jobRow, j), wanted)
<1>1. jobRow \in StoredRows /\ Asked(jobRow, wanted)
  BY DEF StorageInv
<1> DEFINE q == Stored(jobRow, j)
<1>2. /\ q \in StoredRows
      /\ q.channel = jobRow.channel /\ q.user_id = jobRow.user_id /\ q.records = jobRow.records
      /\ q.state = j.state /\ q.dates = j.dates /\ q.exc_name = j.exc_name
      /\ q.exc_message = j.exc_message /\ q.exc_info = j.exc_info
  BY <1>1, StoredRow
<1> HIDE DEF q
<1>3. Tells(q)
  BY <1>2 DEF Tells
<1>4. Asked(q, wanted)
  BY <1>1, <1>2 DEF Asked
<1>5. QED BY <1>2, <1>3, <1>4 DEF q

\* The worker stores its job and leaves it.
LEMMA LeaveInv ==
  ASSUME StorageInv, jobObject # NoRow, NEW j \in LoadedJobs, Tells(j),
         LeaveJob(Stored(jobRow, j)) \/ LeaveJob(jobRow)
  PROVE  StorageInv'
<1>1. jobRow # NoRow /\ jobObject' = NoRow /\ UNCHANGED <<again, wanted>>
  BY DEF StorageInv, LeaveJob
<1>2. jobRow' = Stored(jobRow, j) \/ jobRow' = jobRow
  BY DEF LeaveJob
<1>3. jobRow' \in StoredRows /\ Tells(jobRow') /\ Asked(jobRow', wanted)
  BY <1>1, <1>2, StoreKeeps DEF StorageInv
<1>4. QED BY <1>1, <1>3 DEF StorageInv

LEMMA PerformInv ==
  ASSUME StorageInv,
         \/ PerformEnds \/ PerformNothingToDo \/ WorkerDies
         \/ \E b \in BOOLEAN : PerformAgain(b) \/ PerformRaises(b)
  PROVE  StorageInv'
<1>1. jobObject # NoRow
  BY DEF PerformEnds, PerformNothingToDo, WorkerDies, PerformAgain, PerformRaises
<1>2. Clean(jobObject) /\ jobObject \in LoadedJobs /\ ~jobObject.exc_message
  BY <1>1 DEF StorageInv, Performed, Clean
<1> DEFINE d == SetStateDone(jobObject)
<1>3. d \in LoadedJobs /\ Tells(d) /\ ~d.exc_message
  BY <1>2, DoneJob
<1>4. \A j \in LoadedJobs : ~j.exc_message /\ RetryPostpone(j) => StorageInv'
  <2> SUFFICES ASSUME NEW j \in LoadedJobs, ~j.exc_message, RetryPostpone(j) PROVE StorageInv'
    OBVIOUS
  <2> DEFINE q == SetStatePending(PostponeEta(j), FALSE)
  <2>1. q \in LoadedJobs /\ Tells(q) /\ LeaveJob(Stored(jobRow, q))
    BY PendingJob DEF RetryPostpone
  <2> HIDE DEF q
  <2>2. QED BY <1>1, <2>1, LeaveInv
<1>5. \A j \in LoadedJobs : StoreFailed(j) => StorageInv'
  <2> SUFFICES ASSUME NEW j \in LoadedJobs, StoreFailed(j) PROVE StorageInv'
    OBVIOUS
  <2> DEFINE q == SetStateFailed(j)
  <2>1. q \in LoadedJobs /\ Tells(q) /\ LeaveJob(Stored(jobRow, q))
    BY FailedJob DEF StoreFailed
  <2> HIDE DEF q
  <2>2. QED BY <1>1, <2>1, LeaveInv
<1>6. CASE PerformEnds \/ PerformNothingToDo \/ WorkerDies
  <2>1. RetryPostpone(d) \/ LeaveJob(Stored(jobRow, d)) \/ LeaveJob(jobRow)
    BY <1>6 DEF PerformEnds, PerformNothingToDo, WorkerDies
  <2> HIDE DEF d
  <2>2. QED BY <1>1, <1>3, <1>4, <2>1, LeaveInv
<1>7. ASSUME NEW b \in BOOLEAN, PerformAgain(b) PROVE StorageInv'
  <2> DEFINE j == IF b THEN [jobObject EXCEPT !.retry = @ - 1] ELSE jobObject
  <2>1. j \in LoadedJobs /\ ~j.exc_message
    BY <1>2 DEF LoadedJobs
  <2>2. StoreFailed(j) \/ RetryPostpone(j)
    BY <1>7 DEF PerformAgain
  <2> HIDE DEF j
  <2>3. QED BY <1>4, <1>5, <2>1, <2>2
<1>8. ASSUME NEW b \in BOOLEAN, PerformRaises(b) PROVE StorageInv'
  <2>1. StoreFailed(d) \/ StoreFailed(jobObject)
    BY <1>8 DEF PerformRaises
  <2> HIDE DEF d
  <2>2. QED BY <1>2, <1>3, <1>5, <2>1
<1>9. QED BY <1>6, <1>7, <1>8

LEMMA CallInv ==
  ASSUME StorageInv, NEW u \in Users, NEW su \in BOOLEAN, NEW context \in Contexts,
         NEW c \in JobChannels, NEW n \in {0, DefaultMaxRetries},
         CallPatched([uid |-> u, su |-> su, context |-> context], c, n)
  PROVE  StorageInv'
<1> DEFINE env == [uid |-> u, su |-> su, context |-> context]
           kept == [k \in DOMAIN context \cap KeptKeys |-> context[k]]
           r == [state |-> "pending", retry |-> 0, max_retries |-> n, exc_name |-> FALSE,
                 exc_message |-> FALSE, exc_info |-> FALSE, dates |-> {}, eta |-> FALSE,
                 channel |-> c, user_id |-> u, records |-> [uid |-> u, su |-> su, context |-> kept]]
<1>1. kept \in SomeContexts /\ DOMAIN kept \subseteq KeptKeys
  <2> DEFINE Ks == DOMAIN context \cap KeptKeys
  <2>1. Ks \in SUBSET KeysOfContexts /\ \A k \in Ks : context[k] \in Values
    BY DEF KeysOfContexts, Values
  <2> HIDE DEF Ks
  <2>2. [k \in Ks |-> context[k]] \in [Ks -> Values]
    BY <2>1
  <2>3. [k \in Ks |-> context[k]] \in SomeContexts
    BY <2>1, <2>2 DEF SomeContexts
  <2>4. DOMAIN kept \subseteq KeptKeys
    OBVIOUS
  <2>5. QED BY <2>3, <2>4 DEF Ks
<1>2. Encode(env) = [uid |-> u, su |-> su, context |-> kept]
  BY DEF Encode
<1>3. jobRow' = r /\ jobRow = NoRow
      /\ wanted' = [channel |-> c, user_id |-> u, context |-> kept]
      /\ UNCHANGED <<jobObject, again>>
  <2>1. /\ jobRow' = CreatedRow(NewJob(env, c, n)) /\ jobRow = NoRow
        /\ wanted' = [channel |-> c, user_id |-> env.uid, context |-> Encode(env).context]
        /\ UNCHANGED <<jobObject, again>>
    BY DEF CallPatched
  <2>2. env.uid = u
    OBVIOUS
  <2>3. Encode(env).context = kept
    <3> HIDE DEF kept
    <3>1. QED BY <1>2
  <2>4. CreatedRow(NewJob(env, c, n)) = r
    <3>1. CreatedRow(NewJob(env, c, n)) =
            [state |-> "pending", retry |-> 0, max_retries |-> n, exc_name |-> FALSE,
             exc_message |-> FALSE, exc_info |-> FALSE, dates |-> {}, eta |-> FALSE,
             channel |-> c, user_id |-> env.uid, records |-> Encode(env)]
      <4> HIDE DEF env
      <4>1. QED BY DEF CreatedRow, NewJob
    <3> HIDE DEF kept
    <3>2. QED BY <1>2, <2>2, <3>1
  <2> HIDE DEF kept, env, r
  <2>5. QED BY <2>1, <2>2, <2>3, <2>4
<1> HIDE DEF kept, env
<1>4. r \in StoredRows /\ Tells(r)
  <2>1. [uid |-> u, su |-> su, context |-> kept] \in Envs /\ n \in Nat
    BY <1>1, JobStorageAssumption DEF Envs
  <2>2. QED BY <2>1 DEF StoredRows, StoredStates, StoredDates, Tells
<1>5. Asked(r, wanted')
  BY <1>1, <1>3 DEF Asked, HasContext
<1>6. QED BY <1>3, <1>4, <1>5 DEF StorageInv

LEMMA RunnerInv ==
  ASSUME StorageInv, EnqueueRow \/ StartRow
  PROVE  StorageInv'
<1>1. jobRow # NoRow /\ jobRow \in StoredRows /\ Tells(jobRow) /\ Asked(jobRow, wanted)
  BY DEF EnqueueRow, StartRow, StorageInv
<1>2. CASE EnqueueRow
  <2> DEFINE r == [jobRow EXCEPT !.state = "enqueued", !.dates = @ \cup {"enqueued"}]
  <2>1. jobRow' = r /\ jobRow.state = "pending" /\ UNCHANGED <<jobObject, again, wanted>>
    BY <1>2 DEF EnqueueRow
  <2>2. r \in StoredRows /\ Tells(r)
    BY <1>1, <2>1 DEF StoredRows, StoredStates, StoredDates, Tells
  <2>3. Asked(r, wanted)
    BY <1>1 DEF Asked, StoredRows
  <2> HIDE DEF r
  <2>4. QED BY <1>1, <2>1, <2>2, <2>3, RowExists DEF StorageInv
<1>3. CASE StartRow
  <2> DEFINE l == Load(jobRow, <<>>)
             j == SetStateStarted(l)
             o == [j EXCEPT !.retry = @ + 1]
  <2>1. /\ jobRow.state = "enqueued" /\ jobRow' = Stored(jobRow, j) /\ jobObject' = o
        /\ again' = (again \/ ~RunsNow(With([k \in {"job_uuid"} |-> "1"], j.env.context)))
        /\ UNCHANGED wanted
    BY <1>3 DEF StartRow
  <2>2. Clean(l) /\ l.state = "enqueued" /\ l.dates \cap {"done", "cancelled"} = {}
    BY <1>1, <2>1, LoadedJob DEF Tells
  <2> HIDE DEF l
  <2>3. /\ j \in LoadedJobs /\ Tells(j) /\ Performed(j)
    BY <2>2 DEF SetStateStarted, Clean, Performed, LoadedJobs, StoredStates, StoredDates, Tells
  <2> HIDE DEF j
  <2>4. Performed(o)
    BY <2>3 DEF Performed, Clean, LoadedJobs
  <2>5. ~again'
    BY <2>1 DEF StorageInv, RunsNow, With
  <2>6. QED BY <1>1, <2>1, <2>3, <2>4, <2>5, StoreKeeps, RowExists DEF StorageInv
<1>4. QED BY <1>2, <1>3

\* Managers.
LEMMA EditInv ==
  ASSUME StorageInv, NEW r \in StoredRows, Edit(r), Tells(r), Asked(r, wanted')
  PROVE  StorageInv'
  BY RowExists DEF StorageInv, Edit

LEMMA WriteUserInv ==
  ASSUME StorageInv, NEW m \in Users, NEW u \in Users, NEW context \in Contexts,
         WriteUser(m, context, u)
  PROVE  StorageInv'
<1>1. jobRow # NoRow /\ jobRow \in StoredRows /\ Tells(jobRow) /\ Asked(jobRow, wanted)
  BY DEF WriteUser, Edit, StorageInv
<1> DEFINE e == jobRow.records
           d == Decode(e, context)
           n == IF m = u THEN e ELSE Encode(WithUser(d, u))
           r == [jobRow EXCEPT !.user_id = u, !.records = n]
<1>2. e \in Envs /\ HasContext(e, wanted.context)
  BY <1>1 DEF StoredRows, Asked
<1>3. /\ d \in Envs /\ DOMAIN e.context \subseteq DOMAIN d.context
      /\ \A k \in DOMAIN e.context : d.context[k] = e.context[k]
  BY <1>2, DecodedType
<1>4. n \in Envs /\ HasContext(n, wanted.context)
  <2>1. CASE m = u
    BY <1>2, <2>1
  <2>2. CASE m # u
    <3> DEFINE kept == [k \in DOMAIN d.context \cap KeptKeys |-> d.context[k]]
    <3> HIDE DEF d
    <3>1. n = [uid |-> u, su |-> FALSE, context |-> kept]
      BY <1>3, <2>2 DEF Encode, WithUser, Envs
    <3>2. kept \in SomeContexts
      <4>1. d.context \in SomeContexts
        BY <1>3 DEF Envs
      <4>2. QED BY <4>1, KeptType
    <3>3. HasContext(n, wanted.context)
      BY <1>2, <1>3, <3>1 DEF HasContext
    <3> HIDE DEF kept
    <3>4. [uid |-> u, su |-> FALSE, context |-> kept] \in Envs
      BY <3>2 DEF Envs
    <3>5. QED BY <3>1, <3>3, <3>4
  <2>3. QED BY <2>1, <2>2
<1>5. Edit(r) /\ wanted' = [wanted EXCEPT !.user_id = u]
  BY DEF WriteUser
<1> HIDE DEF n
<1>6. r \in StoredRows /\ r.channel = jobRow.channel /\ r.user_id = u /\ r.records = n
  BY <1>1, <1>4 DEF StoredRows
<1>7. Tells(r)
  BY <1>1 DEF Tells, StoredRows
<1> HIDE DEF r
<1>8. Asked(r, wanted')
  BY <1>1, <1>4, <1>5, <1>6 DEF Asked
<1>9. QED BY <1>5, <1>6, <1>7, <1>8, EditInv

LEMMA ManagerInv ==
  ASSUME StorageInv,
         \/ \E c \in JobChannels : WriteChannel(c)
         \/ \E n \in {0, DefaultMaxRetries} : WriteMaxRetries(n)
         \/ \E s \in {"done", "pending", "cancelled"} : ChangeState(s)
  PROVE  StorageInv'
<1>1. jobRow # NoRow /\ jobRow \in StoredRows /\ Tells(jobRow) /\ Asked(jobRow, wanted)
  BY DEF WriteChannel, WriteMaxRetries, ChangeState, Edit, StorageInv
<1>2. ASSUME NEW c \in JobChannels, WriteChannel(c) PROVE StorageInv'
  <2> DEFINE r == [jobRow EXCEPT !.channel = c]
  <2>1. Edit(r) /\ wanted' = [wanted EXCEPT !.channel = c]
    BY <1>2 DEF WriteChannel
  <2>2. /\ r \in StoredRows /\ r.channel = c /\ r.user_id = jobRow.user_id
        /\ r.records = jobRow.records
    BY <1>1 DEF StoredRows
  <2>3. Tells(r)
    BY <1>1 DEF StoredRows, Tells
  <2> HIDE DEF r
  <2>4. Asked(r, wanted')
    BY <1>1, <2>1, <2>2 DEF Asked
  <2>5. QED BY <2>1, <2>2, <2>3, <2>4, EditInv
<1>3. ASSUME NEW n \in {0, DefaultMaxRetries}, WriteMaxRetries(n) PROVE StorageInv'
  <2> DEFINE r == [jobRow EXCEPT !.max_retries = n]
  <2>1. Edit(r) /\ wanted' = wanted
    BY <1>3 DEF WriteMaxRetries
  <2>2. r \in StoredRows /\ Tells(r) /\ Asked(r, wanted)
    BY <1>1, JobStorageAssumption DEF StoredRows, Tells, Asked
  <2> HIDE DEF r
  <2>3. QED BY <2>1, <2>2, EditInv
<1>4. ASSUME NEW s \in {"done", "pending", "cancelled"}, ChangeState(s) PROVE StorageInv'
  <2> DEFINE l == Load(jobRow, <<>>)
             j == ToState(l, s)
  <2>1. Edit(Stored(jobRow, j)) /\ wanted' = wanted
    BY <1>4 DEF ChangeState
  <2>2. Clean(l)
    BY <1>1, LoadedJob
  <2> HIDE DEF l
  <2>3. j \in LoadedJobs /\ Tells(j)
    BY <2>2, DoneJob, OtherJobs DEF ToState
  <2> HIDE DEF j
  <2>4. QED BY <1>1, <2>1, <2>3, StoreKeeps, EditInv
<1>5. QED BY <1>2, <1>3, <1>4

LEMMA StorageInvNext ==
  ASSUME StorageInv, [StorageNext]_storageVars
  PROVE  StorageInv'
<1>1. CASE UNCHANGED storageVars
  BY <1>1 DEF storageVars, StorageInv
<1>2. CASE StorageNext
  BY <1>2, CallInv, RunnerInv, PerformInv, WriteUserInv, ManagerInv DEF StorageNext
<1>3. QED BY <1>1, <1>2

\* What a row tells is what happened and what was asked.
THEOREM RowsAreTrue == StorageSpec => []RowIsTrue
<1>1. StorageInv /\ [StorageNext]_storageVars => StorageInv'
  BY StorageInvNext
<1>2. QED BY <1>1, StorageInvInit, StorageInvImplies, PTL DEF StorageSpec

\* The tries that a row tells, and those of the job while it is performed.
Tries ==
  /\ jobRow # NoRow => jobRow.retry \in 0..MaxTries
  /\ jobObject # NoRow => jobObject.retry \in 1..MaxTries

LEMMA TriesOf ==
  ASSUME NEW r \in StoredRows, NEW j \in LoadedJobs
  PROVE  /\ Stored(r, j).retry = j.retry
         /\ SetStateDone(j).retry = j.retry /\ SetStateFailed(j).retry = j.retry
         /\ SetStateStarted(j).retry = j.retry /\ SetStateCancelled(j).retry = j.retry
         /\ SetStatePending(PostponeEta(j), FALSE).retry = j.retry
         /\ SetStatePending(j, TRUE).retry = 0
BY DEF Stored, StoredRows, LoadedJobs, SetStateDone, SetStateFailed, SetStateStarted,
       SetStateCancelled, SetStatePending, PostponeEta

LEMMA LoadedTries ==
  ASSUME NEW r \in StoredRows
  PROVE  LET j == Load(r, <<>>) IN j \in LoadedJobs /\ j.retry = r.retry
<1>1. Load(r, <<>>) \in LoadedJobs
  BY LoadedJob DEF Clean
<1>2. Load(r, <<>>).retry = r.retry
  BY DEF Load, NewJob, StoredRows
<1>3. QED BY <1>1, <1>2

LEMMA PerformTries ==
  ASSUME StorageInv, Tries,
         \/ PerformEnds \/ PerformNothingToDo \/ WorkerDies
         \/ \E b \in BOOLEAN : PerformAgain(b) \/ PerformRaises(b)
  PROVE  Tries'
<1>1. jobObject # NoRow
  BY DEF PerformEnds, PerformNothingToDo, WorkerDies, PerformAgain, PerformRaises
<1>2. /\ jobObject \in LoadedJobs /\ Clean(jobObject) /\ jobRow \in StoredRows /\ jobRow # NoRow
      /\ jobObject.retry \in 1..MaxTries /\ jobRow.retry \in 0..MaxTries
  BY <1>1 DEF StorageInv, Performed, Clean, Tries
<1> DEFINE d == SetStateDone(jobObject)
           Sane(j) == j \in LoadedJobs /\ j.retry \in 0..MaxTries
<1>3. Sane(d) /\ Sane(jobObject)
  <2>1. d \in LoadedJobs /\ d.retry = jobObject.retry
    BY <1>2, DoneJob, TriesOf
  <2> HIDE DEF d
  <2>2. QED BY <1>2, <2>1, JobStorageAssumption
<1>4. \A j : Sane(j) /\ LeaveJob(Stored(jobRow, j)) => Tries'
  <2> SUFFICES ASSUME NEW j, Sane(j), LeaveJob(Stored(jobRow, j)) PROVE Tries'
    OBVIOUS
  <2>1. Stored(jobRow, j).retry = j.retry
    BY <1>2, TriesOf
  <2>2. jobRow'.retry = j.retry /\ jobObject' = NoRow
    BY <2>1 DEF LeaveJob
  <2>3. j.retry \in 0..MaxTries
    OBVIOUS
  <2>4. QED BY ONLY <2>2, <2>3 DEF Tries
<1>5. LeaveJob(jobRow) => Tries'
  BY <1>2 DEF LeaveJob, Tries
<1>6. ASSUME NEW j, Sane(j), ~j.exc_message, RetryPostpone(j) PROVE Tries'
  <2> DEFINE q == SetStatePending(PostponeEta(j), FALSE)
  <2>1. Sane(q) /\ LeaveJob(Stored(jobRow, q))
    BY <1>2, <1>6, PendingJob, TriesOf DEF RetryPostpone
  <2> HIDE DEF q, Sane
  <2>2. QED BY <1>4, <2>1
<1>7. ASSUME NEW j, Sane(j), StoreFailed(j) PROVE Tries'
  <2> DEFINE q == SetStateFailed(j)
  <2>1. Sane(q) /\ LeaveJob(Stored(jobRow, q))
    BY <1>2, <1>7, FailedJob, TriesOf DEF StoreFailed
  <2> HIDE DEF q, Sane
  <2>2. QED BY <1>4, <2>1
<1>8. CASE PerformEnds \/ PerformNothingToDo \/ WorkerDies
  <2>1. RetryPostpone(d) \/ LeaveJob(Stored(jobRow, d)) \/ LeaveJob(jobRow)
    BY <1>8 DEF PerformEnds, PerformNothingToDo, WorkerDies
  <2>2. ~d.exc_message
    BY <1>2, DoneJob
  <2> HIDE DEF d, Sane
  <2>3. QED BY <1>3, <1>4, <1>5, <1>6, <2>1, <2>2
<1>9. ASSUME NEW b \in BOOLEAN, PerformAgain(b) PROVE Tries'
  <2> DEFINE j == IF b THEN [jobObject EXCEPT !.retry = @ - 1] ELSE jobObject
  <2>1. Sane(j) /\ ~j.exc_message
    BY <1>2, JobStorageAssumption DEF LoadedJobs, Clean
  <2>2. StoreFailed(j) \/ RetryPostpone(j)
    BY <1>9 DEF PerformAgain
  <2> HIDE DEF j, Sane
  <2>3. QED BY <1>6, <1>7, <2>1, <2>2
<1>10. ASSUME NEW b \in BOOLEAN, PerformRaises(b) PROVE Tries'
  <2>1. StoreFailed(d) \/ StoreFailed(jobObject)
    BY <1>10 DEF PerformRaises
  <2> HIDE DEF d, Sane
  <2>2. QED BY <1>3, <1>7, <2>1
<1>11. QED BY <1>8, <1>9, <1>10

LEMMA RunnerTries == ASSUME StorageInv, Tries, EnqueueRow \/ StartRow PROVE Tries'
<1>1. jobRow # NoRow /\ jobRow \in StoredRows /\ jobRow.retry \in 0..MaxTries
  BY DEF EnqueueRow, StartRow, StorageInv, Tries
<1>2. CASE EnqueueRow
  <2>1. jobRow'.retry = jobRow.retry /\ jobObject' = jobObject
    BY <1>1, <1>2 DEF EnqueueRow, StoredRows
  <2>2. QED BY <1>1, <2>1 DEF Tries
<1>3. CASE StartRow
  <2> DEFINE l == Load(jobRow, <<>>)
             j == SetStateStarted(l)
  <2>1. /\ jobRow.retry < MaxTries /\ jobRow' = Stored(jobRow, j)
        /\ jobObject' = [j EXCEPT !.retry = @ + 1]
    BY <1>3 DEF StartRow
  <2>2. l \in LoadedJobs /\ l.retry = jobRow.retry
    BY <1>1, LoadedTries
  <2> HIDE DEF l
  <2>3. j \in LoadedJobs /\ j.retry = jobRow.retry
    BY <2>2 DEF SetStateStarted, LoadedJobs, StoredStates, StoredDates
  <2> HIDE DEF j
  <2>4. jobRow'.retry = jobRow.retry
    BY <1>1, <2>1, <2>3, TriesOf
  <2>5. jobObject'.retry = jobRow.retry + 1
    BY <2>1, <2>3 DEF LoadedJobs
  <2>6. QED BY <1>1, <2>1, <2>4, <2>5, JobStorageAssumption DEF Tries
<1>4. QED BY <1>2, <1>3

LEMMA ManagerTries ==
  ASSUME StorageInv, Tries,
         \/ \E m, u \in Users, context \in Contexts : WriteUser(m, context, u)
         \/ \E c \in JobChannels : WriteChannel(c)
         \/ \E n \in {0, DefaultMaxRetries} : WriteMaxRetries(n)
         \/ \E s \in {"done", "pending", "cancelled"} : ChangeState(s)
  PROVE  Tries'
<1>1. /\ jobRow # NoRow /\ jobRow \in StoredRows /\ jobRow.retry \in 0..MaxTries
      /\ jobObject' = jobObject
  BY DEF WriteUser, WriteChannel, WriteMaxRetries, ChangeState, Edit, StorageInv, Tries
<1>2. CASE \/ \E m, u \in Users, context \in Contexts : WriteUser(m, context, u)
           \/ \E c \in JobChannels : WriteChannel(c)
           \/ \E n \in {0, DefaultMaxRetries} : WriteMaxRetries(n)
  <2>1. jobRow'.retry = jobRow.retry
    BY <1>1, <1>2 DEF WriteUser, WriteChannel, WriteMaxRetries, Edit, StoredRows
  <2>2. QED BY <1>1, <2>1 DEF Tries
<1>3. ASSUME NEW s \in {"done", "pending", "cancelled"}, ChangeState(s) PROVE Tries'
  <2> DEFINE l == Load(jobRow, <<>>)
             j == ToState(l, s)
  <2>1. l \in LoadedJobs /\ l.retry = jobRow.retry /\ Clean(l)
    BY <1>1, LoadedTries, LoadedJob
  <2>2. jobRow' = Stored(jobRow, j)
    BY <1>3 DEF ChangeState, Edit
  <2> HIDE DEF l
  <2>3. j \in LoadedJobs
    BY <2>1, DoneJob, OtherJobs DEF ToState
  <2>4. j.retry \in {0, l.retry}
    BY <1>1, <2>1, TriesOf DEF ToState
  <2> HIDE DEF j
  <2>5. jobRow'.retry = j.retry
    BY <1>1, <2>2, <2>3, TriesOf
  <2>6. QED BY <1>1, <2>1, <2>4, <2>5, JobStorageAssumption DEF Tries
<1>4. QED BY <1>2, <1>3

LEMMA TriesNext ==
  ASSUME StorageInv, Tries, [StorageNext]_storageVars
  PROVE  Tries'
<1>1. CASE UNCHANGED storageVars
  BY <1>1 DEF storageVars, Tries
<1>2. ASSUME NEW env, NEW c, NEW n, CallPatched(env, c, n) PROVE Tries'
  <2>1. jobRow = NoRow /\ jobRow'.retry = 0 /\ jobObject' = jobObject
    BY <1>2 DEF CallPatched, CreatedRow, NewJob
  <2>2. QED BY <2>1, JobStorageAssumption DEF Tries, StorageInv
<1>3. QED BY <1>1, <1>2, RunnerTries, PerformTries, ManagerTries DEF StorageNext

\* Type correctness of the row of a job: managers and workers leave a channel
\* and a user that there are, keys that are kept, and no more tries than the
\* job has begun.
THEOREM RowsAreTyped == StorageSpec => []StorageTypeOK
<1>1. StorageInv /\ Tries /\ [StorageNext]_storageVars => StorageInv' /\ Tries'
  BY StorageInvNext, TriesNext
<1>2. StorageInit => Tries
  BY DEF StorageInit, Tries
<1>3. StorageInv /\ Tries => StorageTypeOK
  BY DEF StorageInv, Tries, StorageTypeOK, StoredRows, Envs, Asked, HasContext, Performed
<1>4. QED BY <1>1, <1>2, <1>3, StorageInvInit, PTL DEF StorageSpec

-----------------------------------------------------------------------------
(* Mails: who got one got it once, and the notifications tell who did       *)

WrittenRows == [state: {"sent", "exception"}, notif: [Recipients -> {"sent", "exception"}]]

Writes(s, m) == written[s][m] # NotWritten
Sends(s, m) == sending[s] /\ Current(s) = m

MailTypes ==
  /\ mailState \in [Mails -> MailStates] /\ snapshot \in [Senders -> [Mails -> MailStates]]
  /\ notification \in [Mails -> [Recipients -> {"ready", "sent", "exception"}]]
  /\ written \in [Senders -> [Mails -> WrittenRows \cup {NotWritten}]]
  /\ behind \in [Senders -> SUBSET Mails]
  /\ sending \in [Senders -> BOOLEAN]
  /\ left \in [Senders -> SUBSET Recipients] /\ success \in [Senders -> SUBSET Recipients]
  /\ failure \in [Senders -> {"", "mail_email_invalid"}]
  /\ delivered \in [Mails -> [Recipients -> Nat]] /\ undone \in [Mails -> Nat]

TodoTypes == todo \in [Senders -> Seq(Mails)]

\* A mail that somebody has written is locked, and was to be sent before.
RowLocks ==
  \A s \in Senders, m \in Mails :
    Writes(s, m) => /\ mailState[m] = "outgoing" /\ m \notin behind[s]
                    /\ \A t \in Senders : Writes(t, m) => t = s

SnapshotTrue ==
  \A s \in Senders : \A m \in Mails \ behind[s] : snapshot[s][m] = mailState[m]

\* The mail being sent is one its sender has written.
Sendings ==
  \A s \in Senders : sending[s] =>
    /\ todo[s] # <<>> /\ Writes(s, Current(s))
    /\ left[s] \cap success[s] = {}
    /\ failure[s] = "" => left[s] \cup success[s] = Recipients

\* What may have been sent to r: it is done, or done but for the commit, or
\* done as far as r.
Heard(m, r) ==
  \/ mailState[m] # "outgoing"
  \/ \E s \in Senders : Writes(s, m) /\ (Sends(s, m) => r \in success[s])

\* Every delivery but one per undone transaction is accounted for.
Counted ==
  \A m \in Mails, r \in Recipients :
    /\ delivered[m][r] <= 1 + undone[m]
    /\ ~Heard(m, r) => delivered[m][r] <= undone[m]

\* A notification tells of a delivery, and of every delivery that is known.
TellsSent(m, r, notif) == notif[r] = "sent" => delivered[m][r] > 0
TellsAll(m, r, notif) == delivered[m][r] > 0 /\ undone[m] = 0 => notif[r] = "sent"

CommittedTold ==
  \A m \in Mails, r \in Recipients :
    /\ TellsSent(m, r, notification[m])
    /\ mailState[m] # "outgoing" => TellsAll(m, r, notification[m])

WrittenTold ==
  \A s \in Senders, m \in Mails, r \in Recipients :
    Writes(s, m) =>
      /\ TellsSent(m, r, written[s][m].notif)
      /\ IF Sends(s, m) THEN r \in success[s] => delivered[m][r] > 0
                        ELSE TellsAll(m, r, written[s][m].notif)

MailInv ==
  /\ MailTypes /\ TodoTypes /\ RowLocks /\ SnapshotTrue /\ Sendings
  /\ Counted /\ CommittedTold /\ WrittenTold

\* What s leaves to commit: true rows, of the mails it has written.
GoodWrites(s, w) ==
  /\ w \in [Mails -> WrittenRows \cup {NotWritten}]
  /\ \A m \in Mails : w[m] # NotWritten <=> Writes(s, m)
  /\ \A m \in Mails, r \in Recipients : w[m] # NotWritten =>
       TellsSent(m, r, w[m].notif) /\ TellsAll(m, r, w[m].notif)

\* s goes on to another mail, or ends; what others send is as it was.
Turn(s) ==
  /\ TodoTypes' /\ sending' \in [Senders -> BOOLEAN]
  /\ left' \in [Senders -> SUBSET Recipients] /\ success' \in [Senders -> SUBSET Recipients]
  /\ failure' \in [Senders -> {"", "mail_email_invalid"}]
  /\ ~sending'[s]
  /\ \A t \in Senders \ {s} :
       /\ todo'[t] = todo[t] /\ sending'[t] = sending[t]
       /\ left'[t] = left[t] /\ success'[t] = success[t] /\ failure'[t] = failure[t]

LEMMA MailInvImplies == MailInv => MailIsTold
<1> SUFFICES ASSUME MailInv PROVE MailIsTold
  OBVIOUS
<1>1. HeardOnce
  BY DEF MailInv, Counted, HeardOnce
<1>2. NotificationsAreTrue
  BY DEF MailInv, CommittedTold, TellsSent, TellsAll, NotificationsAreTrue
<1>3. QED BY <1>1, <1>2 DEF MailIsTold

LEMMA WrittenRow ==
  ASSUME NEW w \in WrittenRows PROVE w # NotWritten
  BY DEF WrittenRows, NotWritten

LEMMA MailInvInit == MailInit => MailInv
<1> SUFFICES ASSUME MailInit PROVE MailInv
  OBVIOUS
<1>1. MailTypes
  <2>1. /\ mailState \in [Mails -> MailStates] /\ snapshot \in [Senders -> [Mails -> MailStates]]
        /\ notification \in [Mails -> [Recipients -> {"ready", "sent", "exception"}]]
        /\ written \in [Senders -> [Mails -> WrittenRows \cup {NotWritten}]]
    BY DEF MailInit, MailStates, Unsent
  <2>2. /\ behind \in [Senders -> SUBSET Mails]
        /\ sending \in [Senders -> BOOLEAN]
        /\ left \in [Senders -> SUBSET Recipients] /\ success \in [Senders -> SUBSET Recipients]
        /\ failure \in [Senders -> {"", "mail_email_invalid"}]
    BY DEF MailInit
  <2>3. /\ delivered \in [Mails -> [Recipients -> Nat]] /\ undone \in [Mails -> Nat]
    BY DEF MailInit
  <2>4. QED BY <2>1, <2>2, <2>3 DEF MailTypes
<1>2. \A s \in Senders, m \in Mails : ~Writes(s, m) /\ mailState[m] = "outgoing" /\ ~sending[s]
  BY DEF MailInit, Writes
<1>3. RowLocks /\ SnapshotTrue /\ Sendings /\ WrittenTold
  BY <1>2 DEF MailInit, RowLocks, SnapshotTrue, Sendings, WrittenTold
<1>4. Counted /\ CommittedTold
  <2>1. \A m \in Mails, r \in Recipients :
          delivered[m][r] = 0 /\ undone[m] = 0 /\ notification[m][r] = "ready"
    BY DEF MailInit, Unsent
  <2>2. QED BY <1>2, <2>1 DEF Counted, CommittedTold, TellsSent, TellsAll
<1>5. TodoTypes
  <2>1. <<>> \in Seq(Mails)
    OBVIOUS
  <2>2. QED BY <2>1 DEF MailInit, TodoTypes
<1>6. QED BY <1>1, <1>3, <1>4, <1>5 DEF MailInv

LEMMA TypesAt ==
  ASSUME MailInv, NEW m \in Mails
  PROVE  /\ \A s \in Senders : written[s][m] \in WrittenRows \cup {NotWritten}
         /\ undone[m] \in Nat /\ \A r \in Recipients : delivered[m][r] \in Nat
<1>1. /\ written \in [Senders -> [Mails -> WrittenRows \cup {NotWritten}]]
      /\ delivered \in [Mails -> [Recipients -> Nat]] /\ undone \in [Mails -> Nat]
  BY DEF MailInv, MailTypes
<1>2. QED BY <1>1

LEMMA Unheard ==
  ASSUME MailInv, NEW m \in Mails, NEW r \in Recipients, ~Heard(m, r),
         delivered[m][r] > 0
  PROVE  undone[m] # 0
<1>1. delivered[m][r] <= undone[m]
  BY DEF MailInv, Counted
<1>2. QED BY <1>1, TypesAt

LEMMA TodoAt ==
  ASSUME MailInv, NEW s \in Senders, todo[s] # <<>>
  PROVE  Current(s) \in Mails /\ Tail(todo[s]) \in Seq(Mails)
<1>1. todo[s] \in Seq(Mails)
  BY DEF MailInv, TodoTypes
<1>2. QED BY <1>1 DEF Current

LEMMA TodoNext ==
  ASSUME MailInv, NEW s \in Senders, NEW ms \in Seq(Mails), todo' = [todo EXCEPT ![s] = ms]
  PROVE  TodoTypes' /\ \A t \in Senders \ {s} : todo'[t] = todo[t]
  BY DEF MailInv, TodoTypes

LEMMA TurnSends ==
  ASSUME NEW s \in Senders, Turn(s), NEW t \in Senders, NEW m
  PROVE  /\ t # s => (Sends(t, m)' <=> Sends(t, m)) /\ success'[t] = success[t]
         /\ ~Sends(s, m)'
  BY DEF Turn, Sends, Current

LEMMA TurnSendings ==
  ASSUME MailInv, NEW s \in Senders, Turn(s),
         \A t \in Senders \ {s} : written'[t] = written[t]
  PROVE  Sendings'
  BY DEF MailInv, Sendings, Turn, Writes, Current

LEMMA CommitMailInv ==
  ASSUME MailInv, NEW s \in Senders, NEW w, GoodWrites(s, w), CommitMails(w, s),
         Turn(s), UNCHANGED <<delivered, undone>>
  PROVE  MailInv'
<1> DEFINE S == {m \in Mails : w[m] # NotWritten}
<1>1. /\ mailState' = [m \in Mails |-> IF m \in S THEN w[m].state ELSE mailState[m]]
      /\ notification' = [m \in Mails |-> IF m \in S THEN w[m].notif ELSE notification[m]]
      /\ written' = [written EXCEPT ![s] = [m \in Mails |-> NotWritten]]
      /\ snapshot' = [snapshot EXCEPT ![s] = mailState']
      /\ behind' = [t \in Senders |-> IF t = s THEN {} ELSE behind[t] \cup S]
  BY DEF CommitMails
<1>2. /\ S \subseteq Mails /\ \A m \in Mails : m \in S <=> Writes(s, m)
      /\ \A m \in S : w[m] \in WrittenRows
  BY DEF GoodWrites
<1>3. \A m \in S : /\ w[m].state \in {"sent", "exception"}
                   /\ w[m].notif \in [Recipients -> {"sent", "exception"}]
  BY <1>2 DEF WrittenRows
<1>4. \A m \in S, r \in Recipients : TellsSent(m, r, w[m].notif) /\ TellsAll(m, r, w[m].notif)
  BY <1>2 DEF GoodWrites
<1> HIDE DEF S
<1>5. MailTypes'
  <2>1. mailState' \in [Mails -> MailStates]
    BY <1>1, <1>3 DEF MailInv, MailTypes, MailStates
  <2>2. notification' \in [Mails -> [Recipients -> {"ready", "sent", "exception"}]]
    <3>1. \A m \in Mails : (IF m \in S THEN w[m].notif ELSE notification[m])
                          \in [Recipients -> {"ready", "sent", "exception"}]
      <4> SUFFICES ASSUME NEW m \in Mails
                   PROVE  (IF m \in S THEN w[m].notif ELSE notification[m])
                            \in [Recipients -> {"ready", "sent", "exception"}]
        OBVIOUS
      <4>1. CASE m \in S
        <5>1. w[m].notif \in [Recipients -> {"sent", "exception"}]
          BY <1>3, <4>1
        <5>2. QED BY <4>1, <5>1
      <4>2. CASE m \notin S
        BY <4>2 DEF MailInv, MailTypes
      <4>3. QED BY <4>1, <4>2
    <3>2. QED BY <1>1, <3>1
  <2>3. /\ written' \in [Senders -> [Mails -> WrittenRows \cup {NotWritten}]]
        /\ snapshot' \in [Senders -> [Mails -> MailStates]]
        /\ behind' \in [Senders -> SUBSET Mails]
    BY <1>1, <1>2, <2>1 DEF MailInv, MailTypes
  <2>4. QED BY <2>1, <2>2, <2>3 DEF Turn, MailInv, MailTypes
<1>6. \A m \in Mails : ~Writes(s, m)' /\ \A t \in Senders \ {s} : Writes(t, m)' <=> Writes(t, m)
  BY <1>1 DEF MailInv, MailTypes, Writes
<1>7. \A m \in Mails \ S : mailState'[m] = mailState[m] /\ notification'[m] = notification[m]
  BY <1>1
<1>8. \A m \in S : /\ mailState'[m] # "outgoing" /\ notification'[m] = w[m].notif
                   /\ \A t \in Senders : Writes(t, m) => t = s
  BY <1>1, <1>2, <1>3 DEF MailInv, RowLocks
<1>9. RowLocks'
  <2> SUFFICES ASSUME NEW t \in Senders, NEW m \in Mails, Writes(t, m)'
               PROVE  /\ mailState'[m] = "outgoing" /\ m \notin behind'[t]
                      /\ \A u \in Senders : Writes(u, m)' => u = t
    BY DEF RowLocks
  <2>1. t # s /\ Writes(t, m) /\ m \notin S
    BY <1>6, <1>8
  <2>2. QED BY <1>1, <1>6, <1>7, <2>1 DEF MailInv, RowLocks
<1>10. SnapshotTrue'
  <2> SUFFICES ASSUME NEW t \in Senders, NEW m \in Mails \ behind'[t]
               PROVE  snapshot'[t][m] = mailState'[m]
    BY DEF SnapshotTrue
  <2>1. CASE t = s
    BY <1>1, <2>1 DEF MailInv, MailTypes
  <2>2. CASE t # s
    BY <1>1, <1>7, <2>2 DEF MailInv, MailTypes, SnapshotTrue
  <2>3. QED BY <2>1, <2>2
<1>11. Sendings'
  BY <1>1, TurnSendings DEF MailInv, MailTypes
<1>12. Counted'
  <2> SUFFICES ASSUME NEW m \in Mails, NEW r \in Recipients, ~Heard(m, r)'
               PROVE  ~Heard(m, r)
    BY DEF MailInv, Counted
  <2>1. m \notin S /\ mailState[m] = "outgoing"
    BY <1>7, <1>8 DEF Heard
  <2>2. \A t \in Senders : Writes(t, m) => t # s
    BY <1>2, <2>1
  <2>3. QED BY <1>6, <2>1, <2>2, TurnSends DEF Heard
<1>13. CommittedTold'
  <2> SUFFICES ASSUME NEW m \in Mails, NEW r \in Recipients
               PROVE  /\ TellsSent(m, r, notification[m])'
                      /\ mailState'[m] # "outgoing" => TellsAll(m, r, notification[m])'
    BY DEF CommittedTold
  <2>1. CASE m \in S
    BY <1>4, <1>8, <2>1 DEF TellsSent, TellsAll
  <2>2. CASE m \notin S
    BY <1>7, <2>2 DEF MailInv, CommittedTold, TellsSent, TellsAll
  <2>3. QED BY <2>1, <2>2
<1>14. WrittenTold'
  <2> SUFFICES ASSUME NEW t \in Senders, NEW m \in Mails, NEW r \in Recipients, Writes(t, m)'
               PROVE  /\ TellsSent(m, r, written[t][m].notif)'
                      /\ IF Sends(t, m)' THEN r \in success'[t] => delivered'[m][r] > 0
                                         ELSE TellsAll(m, r, written[t][m].notif)'
    BY DEF WrittenTold
  <2>1. t # s /\ Writes(t, m) /\ written'[t][m] = written[t][m]
    BY <1>1, <1>6 DEF MailInv, MailTypes
  <2>2. QED BY <2>1, TurnSends DEF MailInv, WrittenTold, TellsSent, TellsAll
<1>15. QED BY <1>5, <1>9, <1>10, <1>11, <1>12, <1>13, <1>14 DEF MailInv, Turn

\* Done, but not committed.
LEMMA KeepInv ==
  ASSUME MailInv, NEW s \in Senders, NEW w, GoodWrites(s, w),
         written' = [written EXCEPT ![s] = w], Turn(s),
         UNCHANGED <<mailState, notification, snapshot, behind, delivered, undone>>
  PROVE  MailInv'
<1>1. MailTypes'
  BY DEF MailInv, MailTypes, GoodWrites, Turn
<1>2. \A t \in Senders, m \in Mails : Writes(t, m)' <=> Writes(t, m)
  BY DEF MailInv, MailTypes, GoodWrites, Writes
<1>3. RowLocks' /\ SnapshotTrue'
  BY <1>2 DEF MailInv, RowLocks, SnapshotTrue
<1>4. Sendings'
  BY TurnSendings DEF MailInv, MailTypes
<1>5. Counted'
  <2> SUFFICES ASSUME NEW m \in Mails, NEW r \in Recipients, ~Heard(m, r)'
               PROVE  ~Heard(m, r)
    BY DEF MailInv, Counted
  <2>1. QED BY <1>2, TurnSends DEF Heard
<1>6. CommittedTold'
  BY DEF MailInv, CommittedTold, TellsSent, TellsAll
<1>7. WrittenTold'
  <2> SUFFICES ASSUME NEW t \in Senders, NEW m \in Mails, NEW r \in Recipients, Writes(t, m)'
               PROVE  /\ TellsSent(m, r, written[t][m].notif)'
                      /\ IF Sends(t, m)' THEN r \in success'[t] => delivered'[m][r] > 0
                                         ELSE TellsAll(m, r, written[t][m].notif)'
    BY DEF WrittenTold
  <2>1. CASE t = s
    <3>1. written'[t] = w /\ w[m] # NotWritten
      BY <2>1 DEF MailInv, MailTypes, Writes
    <3>2. TellsSent(m, r, w[m].notif) /\ TellsAll(m, r, w[m].notif)
      BY <3>1 DEF GoodWrites
    <3>3. QED BY <2>1, <3>1, <3>2, TurnSends DEF TellsSent, TellsAll
  <2>2. CASE t # s
    <3>1. written'[t][m] = written[t][m] /\ Writes(t, m)
      BY <1>2, <2>2 DEF MailInv, MailTypes
    <3>2. QED BY <2>2, <3>1, TurnSends DEF MailInv, WrittenTold, TellsSent, TellsAll
  <2>3. QED BY <2>1, <2>2
<1>8. QED BY <1>1, <1>3, <1>4, <1>5, <1>6, <1>7 DEF MailInv, Turn

\* What was sent before is undone, and will be sent again.
LEMMA UndoInv ==
  ASSUME MailInv, NEW s \in Senders, NEW redone, Undo(s, redone), Dirty(s) \subseteq redone
  PROVE  MailInv'
<1>1. /\ written' = [written EXCEPT ![s] = [m \in Mails |-> NotWritten]]
      /\ undone' = [m \in Mails |-> undone[m] + IF m \in redone THEN 1 ELSE 0]
      /\ UNCHANGED <<mailState, notification, snapshot, behind, delivered>>
  BY DEF Undo
<1>2. Turn(s)
  <2>1. <<>> \in Seq(Mails)
    OBVIOUS
  <2>2. TodoTypes' /\ \A t \in Senders \ {s} : todo'[t] = todo[t]
    BY <2>1, TodoNext DEF Undo
  <2>3. QED BY <2>2 DEF Undo, Turn, MailInv, MailTypes
<1>3. MailTypes'
  <2>1. undone' \in [Mails -> Nat]
    <3>1. \A m \in Mails : undone[m] + (IF m \in redone THEN 1 ELSE 0) \in Nat
      <4> SUFFICES ASSUME NEW m \in Mails PROVE undone[m] + (IF m \in redone THEN 1 ELSE 0) \in Nat
        OBVIOUS
      <4>1. undone[m] \in Nat
        BY DEF MailInv, MailTypes
      <4>2. QED BY <4>1
    <3>2. QED BY <1>1, <3>1
  <2>2. QED BY <1>1, <1>2, <2>1 DEF MailInv, MailTypes, Turn
<1>4. \A m \in Mails : ~Writes(s, m)' /\ \A t \in Senders \ {s} : Writes(t, m)' <=> Writes(t, m)
  BY <1>1 DEF MailInv, MailTypes, Writes
<1>5. \A m \in Mails : /\ undone'[m] \in Nat /\ undone[m] \in Nat /\ undone'[m] >= undone[m]
                       /\ Writes(s, m) => undone'[m] = undone[m] + 1
  <2> SUFFICES ASSUME NEW m \in Mails
               PROVE  /\ undone'[m] \in Nat /\ undone[m] \in Nat /\ undone'[m] >= undone[m]
                      /\ Writes(s, m) => undone'[m] = undone[m] + 1
    OBVIOUS
  <2>1. undone[m] \in Nat /\ undone'[m] = undone[m] + IF m \in redone THEN 1 ELSE 0
    BY <1>1 DEF MailInv, MailTypes
  <2>2. Writes(s, m) => m \in redone
    BY DEF Dirty, Writes
  <2>3. QED BY <2>1, <2>2
<1>6. RowLocks' /\ SnapshotTrue'
  BY <1>1, <1>4 DEF MailInv, RowLocks, SnapshotTrue
<1>7. Sendings'
  BY <1>1, <1>2, TurnSendings DEF MailInv, MailTypes
<1>8. Counted'
  <2> SUFFICES ASSUME NEW m \in Mails, NEW r \in Recipients
               PROVE  /\ delivered[m][r] <= 1 + undone'[m]
                      /\ ~Heard(m, r)' => delivered[m][r] <= undone'[m]
    BY <1>1 DEF Counted
  <2>1. /\ delivered[m][r] \in Nat /\ delivered[m][r] <= 1 + undone[m]
        /\ ~Heard(m, r) => delivered[m][r] <= undone[m]
    BY DEF MailInv, MailTypes, Counted
  <2>2. CASE Writes(s, m)
    BY <1>5, <2>1, <2>2
  <2>3. CASE ~Writes(s, m)
    <3>1. Heard(m, r) => Heard(m, r)'
      BY <1>1, <1>2, <1>4, <2>3, TurnSends DEF Heard
    <3>2. QED BY <1>5, <2>1, <3>1
  <2>4. QED BY <2>2, <2>3
<1>9. \A m \in Mails, r \in Recipients : undone'[m] = 0 => undone[m] = 0
  BY <1>5
<1>10. CommittedTold'
  BY <1>1, <1>9 DEF MailInv, CommittedTold, TellsSent, TellsAll
<1>11. WrittenTold'
  <2> SUFFICES ASSUME NEW t \in Senders, NEW m \in Mails, NEW r \in Recipients, Writes(t, m)'
               PROVE  /\ TellsSent(m, r, written[t][m].notif)'
                      /\ IF Sends(t, m)' THEN r \in success'[t] => delivered'[m][r] > 0
                                         ELSE TellsAll(m, r, written[t][m].notif)'
    BY DEF WrittenTold
  <2>1. t # s /\ Writes(t, m) /\ written'[t][m] = written[t][m]
    BY <1>1, <1>4 DEF MailInv, MailTypes
  <2>2. QED BY <1>1, <1>2, <1>9, <2>1, TurnSends DEF MailInv, WrittenTold, TellsSent, TellsAll
<1>12. QED BY <1>2, <1>3, <1>6, <1>7, <1>8, <1>10, <1>11 DEF MailInv, Turn

\* A sequence of all elements of a set of mails.
LEMMA SeqsOfMails ==
  ASSUME NEW T \in SUBSET Mails, NEW ms \in SetToSeqs(T) PROVE ms \in Seq(Mails)
<1>1. IsFiniteSet(T)
  BY MailQueueAssumption, FS_Subset
<1>2. Cardinality(T) \in Nat
  BY <1>1, FS_CardinalityType
<1>3. ms \in [1..Cardinality(T) -> T]
  BY DEF SetToSeqs
<1>4. QED BY <1>2, <1>3

\* Nothing is sent when a sender begins, or leaves out a mail.
LEMMA BetweenInv ==
  ASSUME MailInv, NEW s \in Senders, Turn(s), ~sending[s],
         UNCHANGED <<mailState, notification, written, delivered, undone>>,
         \/ UNCHANGED <<snapshot, behind>>
         \/ /\ snapshot' = [snapshot EXCEPT ![s] = mailState]
            /\ behind' = [behind EXCEPT ![s] = {}]
  PROVE  MailInv'
<1>0. MailTypes
  BY DEF MailInv
<1>1. MailTypes'
  <2>1. snapshot' \in [Senders -> [Mails -> MailStates]] /\ behind' \in [Senders -> SUBSET Mails]
    BY <1>0 DEF MailTypes
  <2>2. QED BY <1>0, <2>1 DEF MailTypes, Turn
<1>2. \A t \in Senders, m \in Mails : Writes(t, m)' <=> Writes(t, m)
  BY DEF Writes
<1>3. \A t \in Senders, m \in Mails : Sends(t, m)' <=> Sends(t, m)
  BY TurnSends DEF Sends
<1>4. \A t \in Senders, m \in Mails, r \in Recipients :
        Sends(t, m) => (r \in success'[t] <=> r \in success[t])
  BY TurnSends DEF Sends
<1>5. RowLocks' /\ SnapshotTrue'
  <2>1. \A t \in Senders : /\ behind'[t] \subseteq behind[t]
                          /\ \/ snapshot'[t] = snapshot[t] /\ behind'[t] = behind[t]
                             \/ snapshot'[t] = mailState
    BY <1>0 DEF MailTypes
  <2>2. RowLocks'
    BY <1>2, <2>1 DEF MailInv, RowLocks
  <2>3. SnapshotTrue'
    BY <2>1 DEF MailInv, SnapshotTrue
  <2>4. QED BY <2>2, <2>3
<1>6. Sendings'
  BY TurnSendings
<1>7. Counted'
  <2>1. \A m \in Mails, r \in Recipients : Heard(m, r)' <=> Heard(m, r)
    BY <1>2, <1>3, <1>4 DEF Heard
  <2>2. QED BY <2>1 DEF MailInv, Counted
<1>8. CommittedTold'
  BY DEF MailInv, CommittedTold, TellsSent, TellsAll
<1>9. WrittenTold'
  BY <1>2, <1>3, <1>4 DEF MailInv, WrittenTold, TellsSent, TellsAll
<1>10. QED BY <1>1, <1>5, <1>6, <1>7, <1>8, <1>9 DEF MailInv, Turn

LEMMA QueueInv ==
  ASSUME MailInv, NEW s \in Senders,
         \/ \E T \in SUBSET Mails \ {{}} : \E ms \in SetToSeqs(T) : Send(s, ms)
         \/ SkipMail(s)
  PROVE  MailInv'
<1>1. CASE \E T \in SUBSET Mails \ {{}} : \E ms \in SetToSeqs(T) : Send(s, ms)
  <2>0. PICK T \in SUBSET Mails \ {{}} : \E ms \in SetToSeqs(T) : Send(s, ms)
    BY <1>1
  <2>1. PICK ms \in SetToSeqs(T) : Send(s, ms)
    BY <2>0
  <2>2. ms \in Seq(Mails)
    BY SeqsOfMails
  <2>3. ~sending[s]
    BY <2>1 DEF Send, MailInv, Sendings
  <2>4. Turn(s)
    <3>1. TodoTypes' /\ \A t \in Senders \ {s} : todo'[t] = todo[t]
      BY <2>1, <2>2, TodoNext DEF Send
    <3>2. QED BY <2>1, <2>3, <3>1 DEF Send, Turn, MailInv, MailTypes
  <2>5. QED BY <2>1, <2>3, <2>4, BetweenInv DEF Send
<1>2. CASE SkipMail(s)
  <2>1. TodoTypes' /\ \A t \in Senders \ {s} : todo'[t] = todo[t]
    BY <1>2, TodoAt, TodoNext DEF SkipMail, NextMail
  <2>2. Turn(s)
    BY <1>2, <2>1 DEF SkipMail, Turn, MailInv, MailTypes
  <2>3. QED BY <1>2, <2>2, BetweenInv DEF SkipMail
<1>3. QED BY <1>1, <1>2

\* The mail is written before it is sent: nobody else can have it in hand.
LEMMA BeginMailInv ==
  ASSUME MailInv, NEW s \in Senders, BeginMail(s)
  PROVE  MailInv'
<1>0. PICK m : m = Current(s)
  OBVIOUS
<1>1. /\ todo[s] # <<>> /\ ~sending[s] /\ Seen(s, m) = "outgoing"
      /\ \A t \in Senders \ {s} : written[t][m] = NotWritten
      /\ m \notin behind[s] /\ written' = [written EXCEPT ![s][m] = Provisional(m)]
      /\ sending' = [sending EXCEPT ![s] = TRUE]
      /\ left' = [left EXCEPT ![s] = Recipients] /\ success' = [success EXCEPT ![s] = {}]
      /\ failure' = [failure EXCEPT ![s] = ""]
      /\ UNCHANGED <<mailState, notification, snapshot, behind, todo, delivered, undone>>
  BY <1>0 DEF BeginMail, WriteEarly
<1>2. m \in Mails /\ Current(s)' = m
  BY <1>0, <1>1, TodoAt DEF Current
<1>2a. PICK p : p = Provisional(m)
  OBVIOUS
<1>3. p \in WrittenRows
  <2>1. "exception" \in {"sent", "exception"}
    OBVIOUS
  <2>2. [r \in Recipients |-> IF notification[m][r] = "sent" THEN "sent" ELSE "exception"]
          \in [Recipients -> {"sent", "exception"}]
    OBVIOUS
  <2>3. QED BY <1>2a, <2>1, <2>2 DEF Provisional, WrittenRows
<1>4. \A r \in Recipients : p.notif[r] = "sent" => notification[m][r] = "sent"
  BY <1>2a DEF Provisional
<1>5. p # NotWritten
  BY <1>3, WrittenRow
<1>6. MailTypes'
  <2>1. written' \in [Senders -> [Mails -> WrittenRows \cup {NotWritten}]]
    BY <1>1, <1>2, <1>3, <1>2a DEF MailInv, MailTypes
  <2>2. QED BY <1>1, <2>1 DEF MailInv, MailTypes
<1>7. written'[s][m] = p /\ Writes(s, m)'
  <2>1. written' = [written EXCEPT ![s][m] = p]
    BY <1>1, <1>2a
  <2>2. written'[s][m] = p
    BY <1>2, <2>1 DEF MailInv, MailTypes
  <2>3. QED BY <1>5, <2>2 DEF Writes
<1>8. \A t \in Senders, x \in Mails : t # s \/ x # m => written'[t][x] = written[t][x]
  BY <1>1, <1>2 DEF MailInv, MailTypes
<1>9. ~Writes(s, m) /\ mailState[m] = "outgoing"
  <2>1. ~Writes(s, m)
    <3> SUFFICES ASSUME Writes(s, m) PROVE FALSE
      OBVIOUS
    <3>1. written[s][m] \in WrittenRows
      <4>1. written[s][m] \in WrittenRows \cup {NotWritten}
        BY <1>2, TypesAt
      <4>2. QED BY <4>1 DEF Writes
    <3>2. Seen(s, m) = written[s][m].state
      BY DEF Writes, Seen
    <3>3. QED BY <1>1, <3>1, <3>2 DEF WrittenRows
  <2>2. snapshot[s][m] = mailState[m]
    BY <1>1, <1>2 DEF MailInv, SnapshotTrue
  <2>3. QED BY <1>1, <2>1, <2>2 DEF Writes, Seen
<1>10. \A t \in Senders : ~Writes(t, m)
  BY <1>1, <1>9 DEF Writes
<1>11. \A t \in Senders, x \in Mails :
         t # s \/ x # m => /\ Writes(t, x)' <=> Writes(t, x)
                           /\ Sends(t, x)' <=> Sends(t, x)
                           /\ Sends(t, x) => success'[t] = success[t]
  BY <1>1, <1>2, <1>8 DEF Writes, Sends, Current, MailInv, MailTypes
<1>12. RowLocks' /\ SnapshotTrue'
  <2>1. SnapshotTrue'
    BY <1>1 DEF MailInv, SnapshotTrue
  <2> SUFFICES ASSUME NEW t \in Senders, NEW x \in Mails, Writes(t, x)'
               PROVE  /\ mailState[x] = "outgoing" /\ x \notin behind[t]
                      /\ \A u \in Senders : Writes(u, x)' => u = t
    BY <1>1, <2>1 DEF RowLocks
  <2>2. CASE x = m
    <3>1. t = s /\ \A u \in Senders : Writes(u, x)' => u = s
      BY <1>10, <1>11, <2>2
    <3>2. QED BY <1>1, <1>9, <2>2, <3>1
  <2>3. CASE x # m
    BY <1>11, <2>3 DEF MailInv, RowLocks
  <2>4. QED BY <2>2, <2>3
<1>13. Sendings'
  <2> SUFFICES ASSUME NEW t \in Senders, sending'[t]
               PROVE  /\ todo'[t] # <<>> /\ Writes(t, Current(t))'
                      /\ left'[t] \cap success'[t] = {}
                      /\ failure'[t] = "" => left'[t] \cup success'[t] = Recipients
    BY DEF Sendings
  <2>1. CASE t = s
    <3>1. left'[s] = Recipients /\ success'[s] = {}
      BY <1>1 DEF MailInv, MailTypes
    <3>2. todo'[s] # <<>> /\ Writes(s, Current(s))'
      BY <1>1, <1>2, <1>7 DEF Writes
    <3>3. QED BY <2>1, <3>1, <3>2
  <2>2. CASE t # s
    <3>1. /\ sending[t] /\ Current(t)' = Current(t) /\ todo'[t] = todo[t] /\ left'[t] = left[t]
          /\ success'[t] = success[t] /\ failure'[t] = failure[t]
      BY <1>1, <2>2 DEF MailInv, MailTypes, Current
    <3>2. written'[t] = written[t]
      BY <1>1, <2>2 DEF MailInv, MailTypes
    <3>3. QED BY <3>1, <3>2 DEF MailInv, Sendings, Writes
  <2>3. QED BY <2>1, <2>2
<1>14. Counted'
  <2> SUFFICES ASSUME NEW x \in Mails, NEW r \in Recipients, ~Heard(x, r)'
               PROVE  ~Heard(x, r)
    BY <1>1 DEF MailInv, Counted
  <2>1. CASE x = m
    BY <1>9, <1>10, <2>1 DEF Heard
  <2>2. CASE x # m
    BY <1>1, <1>11, <2>2 DEF Heard
  <2>3. QED BY <2>1, <2>2
<1>15. CommittedTold'
  BY <1>1 DEF MailInv, CommittedTold, TellsSent, TellsAll
<1>16. WrittenTold'
  <2> SUFFICES ASSUME NEW t \in Senders, NEW x \in Mails, NEW r \in Recipients, Writes(t, x)'
               PROVE  /\ TellsSent(x, r, written[t][x].notif)'
                      /\ IF Sends(t, x)' THEN r \in success'[t] => delivered'[x][r] > 0
                                         ELSE TellsAll(x, r, written[t][x].notif)'
    BY DEF WrittenTold
  <2>1. CASE t = s /\ x = m
    <3>1. sending'[s] /\ success'[s] = {}
      BY <1>1 DEF MailInv, MailTypes
    <3>2. Sends(s, m)'
      BY <1>2, <3>1 DEF Sends
    <3>3. TellsSent(m, r, notification[m])
      BY <1>2 DEF MailInv, CommittedTold
    <3>4. TellsSent(m, r, written[s][m].notif)'
      BY <1>1, <1>4, <1>7, <3>3 DEF TellsSent
    <3>5. QED BY <2>1, <3>1, <3>2, <3>4
  <2>2. CASE t # s \/ x # m
    <3>1. /\ Writes(t, x) /\ written'[t][x] = written[t][x]
          /\ Sends(t, x)' <=> Sends(t, x)
          /\ Sends(t, x) => success'[t] = success[t]
      BY <1>8, <1>11, <2>2
    <3>2. /\ TellsSent(x, r, written[t][x].notif)
          /\ IF Sends(t, x) THEN r \in success[t] => delivered[x][r] > 0
                            ELSE TellsAll(x, r, written[t][x].notif)
      BY <3>1 DEF MailInv, WrittenTold
    <3>3. QED BY <1>1, <3>1, <3>2 DEF TellsSent, TellsAll
  <2>3. QED BY <2>1, <2>2
<1>17. TodoTypes'
  BY <1>1 DEF MailInv, TodoTypes
<1>18. QED BY <1>6, <1>12, <1>13, <1>14, <1>15, <1>16, <1>17 DEF MailInv

\* Who sends holds the mail, and the recipient has not heard of it.
LEMMA SendEmailInv ==
  ASSUME MailInv, NEW s \in Senders, SendEmail(s)
  PROVE  MailInv'
<1>0. PICK m, q : m = Current(s) /\ q = OneOf(left[s])
  OBVIOUS
<1>1. /\ sending[s] /\ left[s] # {}
      /\ delivered' = [delivered EXCEPT ![m][q] = @ + 1]
      /\ success' = [success EXCEPT ![s] = @ \cup {q}]
      /\ left' = [left EXCEPT ![s] = @ \ {q}]
      /\ UNCHANGED <<mailState, notification, written, snapshot, behind, todo, sending,
                     failure, undone>>
  BY <1>0 DEF SendEmail
<1>2. q \in left[s]
  BY <1>0, <1>1 DEF OneOf
<1>3. m \in Mails /\ Writes(s, m) /\ Sends(s, m) /\ \A t \in Senders : Current(t)' = Current(t)
  <2>1. todo[s] # <<>> /\ Writes(s, m)
    BY <1>0, <1>1 DEF MailInv, Sendings
  <2>2. QED BY <1>0, <1>1, <2>1, TodoAt DEF Current, Sends
<1>4. mailState[m] = "outgoing" /\ \A t \in Senders : Writes(t, m) => t = s
  BY <1>3 DEF MailInv, RowLocks
<1>5. q \in Recipients /\ q \notin success[s]
  BY <1>1, <1>2 DEF MailInv, MailTypes, Sendings
<1>6. /\ \A t \in Senders : /\ success[t] \subseteq success'[t]
                            /\ t # s => success'[t] = success[t] /\ left'[t] = left[t]
      /\ success'[s] = success[s] \cup {q} /\ left'[s] = left[s] \ {q}
  BY <1>1 DEF MailInv, MailTypes
<1>7. MailTypes'
  <2>1. success' \in [Senders -> SUBSET Recipients] /\ left' \in [Senders -> SUBSET Recipients]
    BY <1>1, <1>5 DEF MailInv, MailTypes
  <2>2. delivered' \in [Mails -> [Recipients -> Nat]]
    <3>1. delivered \in [Mails -> [Recipients -> Nat]] /\ delivered[m][q] + 1 \in Nat
      <4>1. delivered \in [Mails -> [Recipients -> Nat]]
        BY DEF MailInv, MailTypes
      <4>2. delivered[m][q] \in Nat
        BY <1>3, <1>5, <4>1
      <4>3. QED BY <4>1, <4>2
    <3>2. QED BY <1>1, <3>1
  <2>3. QED BY <1>1, <2>1, <2>2 DEF MailInv, MailTypes
<1>8. /\ delivered'[m][q] = delivered[m][q] + 1
      /\ \A x \in Mails, r \in Recipients :
           x # m \/ r # q => delivered'[x][r] = delivered[x][r]
  BY <1>1, <1>3, <1>5 DEF MailInv, MailTypes
<1>9. \A t \in Senders, x \in Mails : /\ Writes(t, x)' <=> Writes(t, x)
                                      /\ Sends(t, x)' <=> Sends(t, x)
  BY <1>1, <1>3 DEF Writes, Sends
<1>10. RowLocks' /\ SnapshotTrue'
  BY <1>1, <1>9 DEF MailInv, RowLocks, SnapshotTrue
<1>11. Sendings'
  <2> SUFFICES ASSUME NEW t \in Senders, sending[t]
               PROVE  /\ todo[t] # <<>> /\ Writes(t, Current(t))
                      /\ left'[t] \cap success'[t] = {}
                      /\ failure[t] = "" => left'[t] \cup success'[t] = Recipients
    BY <1>1, <1>3 DEF Sendings, Writes
  <2>1. /\ todo[t] # <<>> /\ Writes(t, Current(t)) /\ left[t] \cap success[t] = {}
        /\ failure[t] = "" => left[t] \cup success[t] = Recipients
    BY DEF MailInv, Sendings
  <2>2. CASE t = s
    BY <1>2, <1>6, <2>1, <2>2
  <2>3. CASE t # s
    BY <1>6, <2>1, <2>3
  <2>4. QED BY <2>2, <2>3
<1>12. Counted'
  <2> SUFFICES ASSUME NEW x \in Mails, NEW r \in Recipients
               PROVE  /\ delivered'[x][r] <= 1 + undone[x]
                      /\ ~Heard(x, r)' => delivered'[x][r] <= undone[x]
    BY <1>1 DEF Counted
  <2>1. /\ delivered[x][r] <= 1 + undone[x]
        /\ ~Heard(x, r) => delivered[x][r] <= undone[x]
    BY DEF MailInv, Counted
  <2>2. CASE x = m /\ r = q
    <3>1. ~Heard(m, q)
      BY <1>3, <1>4, <1>5 DEF Heard
    <3>2. Heard(m, q)'
      <4>1. Writes(s, m)' /\ q \in success'[s]
        BY <1>3, <1>6, <1>9
      <4>2. QED BY <4>1 DEF Heard
    <3>3. delivered[m][q] \in Nat /\ undone[m] \in Nat
      BY <1>3, <1>5 DEF MailInv, MailTypes
    <3>4. delivered'[m][q] <= 1 + undone[m]
      BY <1>8, <2>1, <2>2, <3>1, <3>3
    <3>5. QED BY <2>2, <3>2, <3>4
  <2>3. CASE x # m \/ r # q
    <3>1. Heard(x, r) => Heard(x, r)'
      BY <1>1, <1>6, <1>9 DEF Heard
    <3>2. QED BY <1>8, <2>1, <2>3, <3>1
  <2>4. QED BY <2>2, <2>3
<1>13. \A x \in Mails, r \in Recipients : /\ delivered[x][r] > 0 => delivered'[x][r] > 0
                                          /\ x # m => delivered'[x][r] = delivered[x][r]
  <2> SUFFICES ASSUME NEW x \in Mails, NEW r \in Recipients
               PROVE  /\ delivered[x][r] > 0 => delivered'[x][r] > 0
                      /\ x # m => delivered'[x][r] = delivered[x][r]
    OBVIOUS
  <2>1. delivered[x][r] \in Nat
    BY DEF MailInv, MailTypes
  <2>2. CASE x = m /\ r = q
    BY <1>8, <2>1, <2>2
  <2>3. CASE x # m \/ r # q
    BY <1>8, <2>3
  <2>4. QED BY <2>2, <2>3
<1>14. CommittedTold'
  BY <1>1, <1>4, <1>13 DEF MailInv, CommittedTold, TellsSent, TellsAll
<1>15. WrittenTold'
  <2> SUFFICES ASSUME NEW t \in Senders, NEW x \in Mails, NEW r \in Recipients, Writes(t, x)
               PROVE  /\ TellsSent(x, r, written[t][x].notif)'
                      /\ IF Sends(t, x) THEN r \in success'[t] => delivered'[x][r] > 0
                                        ELSE TellsAll(x, r, written[t][x].notif)'
    BY <1>9 DEF WrittenTold
  <2>1. /\ TellsSent(x, r, written[t][x].notif)
        /\ IF Sends(t, x) THEN r \in success[t] => delivered[x][r] > 0
                          ELSE TellsAll(x, r, written[t][x].notif)
    BY DEF MailInv, WrittenTold
  <2>2. TellsSent(x, r, written[t][x].notif)'
    BY <1>1, <1>13, <2>1 DEF TellsSent
  <2>3. CASE x = m
    <3>1. t = s /\ Sends(t, x)
      BY <1>3, <1>4, <2>3
    <3>2. r \in success'[t] => delivered'[x][r] > 0
      <4>1. CASE r = q
        <5>1. delivered[m][q] \in Nat
          BY <1>3, <1>5 DEF MailInv, MailTypes
        <5>2. QED BY <1>8, <2>3, <4>1, <5>1
      <4>2. CASE r # q
        BY <1>6, <1>13, <2>1, <3>1, <4>2
      <4>3. QED BY <4>1, <4>2
    <3>3. QED BY <2>2, <3>1, <3>2
  <2>4. CASE x # m
    <3>1. delivered'[x][r] = delivered[x][r]
      BY <1>13, <2>4
    <3>2. Sends(t, x) => t # s /\ success'[t] = success[t]
      BY <1>3, <1>6, <2>4 DEF Sends
    <3>3. QED BY <1>1, <2>1, <2>2, <3>1, <3>2 DEF TellsAll
  <2>5. QED BY <2>3, <2>4
<1>16. TodoTypes'
  BY <1>1 DEF MailInv, TodoTypes
<1>17. QED BY <1>7, <1>10, <1>11, <1>12, <1>14, <1>15, <1>16 DEF MailInv

\* A recipient less is left; the failure is remembered.
LEMMA InvalidInv ==
  ASSUME MailInv, NEW s \in Senders, NoValidRecipient(s)
  PROVE  MailInv'
<1>1. /\ sending[s] /\ left' = [left EXCEPT ![s] = @ \ {OneOf(@)}]
      /\ failure' = [failure EXCEPT ![s] = "mail_email_invalid"]
      /\ UNCHANGED <<mailState, notification, written, snapshot, behind, todo, sending,
                     success, delivered, undone>>
  BY DEF NoValidRecipient
<1>2. MailTypes'
  BY <1>1 DEF MailInv, MailTypes
<1>3. /\ \A m : \A t \in Senders : /\ Writes(t, m)' <=> Writes(t, m)
                                   /\ Sends(t, m)' <=> Sends(t, m)
      /\ \A m, r : Heard(m, r)' <=> Heard(m, r)
  BY <1>1 DEF Writes, Sends, Current, Heard
<1>4. RowLocks' /\ SnapshotTrue' /\ CommittedTold' /\ Counted'
  BY <1>1, <1>3 DEF MailInv, RowLocks, SnapshotTrue, CommittedTold, TellsSent, TellsAll, Counted
<1>5. Sendings'
  <2> SUFFICES ASSUME NEW t \in Senders, sending[t]
               PROVE  /\ todo[t] # <<>> /\ Writes(t, Current(t))
                      /\ left'[t] \cap success[t] = {}
                      /\ failure'[t] = "" => left'[t] \cup success[t] = Recipients
    BY <1>1, <1>3 DEF Sendings, Current, Writes
  <2>1. /\ todo[t] # <<>> /\ Writes(t, Current(t)) /\ left[t] \cap success[t] = {}
        /\ failure[t] = "" => left[t] \cup success[t] = Recipients
    BY DEF MailInv, Sendings
  <2>2. left'[t] \subseteq left[t] /\ (t = s => failure'[t] # "")
        /\ (t # s => left'[t] = left[t] /\ failure'[t] = failure[t])
    BY <1>1 DEF MailInv, MailTypes
  <2>3. QED BY <2>1, <2>2
<1>6. WrittenTold'
  BY <1>1, <1>3 DEF MailInv, WrittenTold, TellsSent, TellsAll
<1>7. TodoTypes'
  BY <1>1 DEF MailInv, TodoTypes
<1>8. QED BY <1>2, <1>4, <1>5, <1>6, <1>7 DEF MailInv

LEMMA BreaksInv ==
  ASSUME MailInv, NEW s \in Senders, WriteConflicts(s) \/ SendBreaks(s)
  PROVE  MailInv'
  BY UndoInv DEF WriteConflicts, SendBreaks

\* The rows of a sender who sends none are true; they are what it commits.
LEMMA EndRequestInv ==
  ASSUME MailInv, NEW s \in Senders, EndRequest(s)
  PROVE  MailInv'
<1>1. /\ todo[s] = <<>> /\ CommitMails(written[s], s)
      /\ UNCHANGED <<todo, sending, left, success, failure, delivered, undone>>
  BY DEF EndRequest
<1>2. ~sending[s]
  BY <1>1 DEF MailInv, Sendings
<1>3. Turn(s)
  BY <1>1, <1>2 DEF Turn, MailInv, MailTypes, TodoTypes
<1>4. GoodWrites(s, written[s])
  <2>1. written[s] \in [Mails -> WrittenRows \cup {NotWritten}]
    BY DEF MailInv, MailTypes
  <2>2. \A m : ~Sends(s, m)
    BY <1>2 DEF Sends
  <2>3. QED BY <2>1, <2>2 DEF MailInv, WrittenTold, GoodWrites, Writes
<1>5. PICK w : w = written[s]
  OBVIOUS
<1>6. QED BY <1>1, <1>3, <1>4, <1>5, CommitMailInv

\* Done with a mail: what is written tells of who got it, and of them only.
LEMMA DoneInv ==
  ASSUME MailInv, NEW s \in Senders, sending[s],
         NEW state \in {"sent", "exception"}, NEW type, Done(s, state, type),
         type = "" => success[s] = Recipients
  PROVE  MailInv'
<1>1. PICK m, w : /\ m = Current(s)
                  /\ w = [written[s] EXCEPT ![m] =
                            [state |-> state, notif |-> Postprocess(m, success[s], type)]]
  OBVIOUS
<1>2. m \in Mails /\ Writes(s, m) /\ Sends(s, m)
  BY <1>1, TodoAt DEF MailInv, Sendings, Sends
<1>3. mailState[m] = "outgoing" /\ \A t \in Senders : Writes(t, m) => t = s
  BY <1>2 DEF MailInv, RowLocks
<1>4. PICK n : n = Postprocess(m, success[s], type)
  OBVIOUS
<1>5. n \in [Recipients -> {"sent", "exception"}]
  BY <1>4 DEF Postprocess
<1>6. \A r \in Recipients : TellsSent(m, r, n) /\ TellsAll(m, r, n)
  <2> SUFFICES ASSUME NEW r \in Recipients PROVE TellsSent(m, r, n) /\ TellsAll(m, r, n)
    OBVIOUS
  <2>1. n[r] = "sent" <=> notification[m][r] = "sent" \/ type = "" \/ r \in success[s]
    BY <1>4 DEF Postprocess
  <2>2. r \in success[s] => delivered[m][r] > 0
    BY <1>2 DEF MailInv, WrittenTold
  <2>3. notification[m][r] = "sent" => delivered[m][r] > 0
    BY <1>2 DEF MailInv, CommittedTold, TellsSent
  <2>4. TellsSent(m, r, n)
    BY <2>1, <2>2, <2>3 DEF TellsSent
  <2>5. r \notin success[s] => ~Heard(m, r)
    BY <1>2, <1>3 DEF Heard
  <2>6. delivered[m][r] > 0 /\ undone[m] = 0 => r \in success[s]
    BY <1>2, <2>5, Unheard
  <2>7. TellsAll(m, r, n)
    BY <2>1, <2>6 DEF TellsAll
  <2>8. QED BY <2>4, <2>7
<1>7. [state |-> state, notif |-> n] \in WrittenRows
  BY <1>5 DEF WrittenRows
<1>8. PICK line : line = [state |-> state, notif |-> n]
  OBVIOUS
<1>9. line \in WrittenRows /\ line # NotWritten /\ line.notif = n
  BY <1>7, <1>8, WrittenRow
<1>10. w = [written[s] EXCEPT ![m] = line] /\ written[s] \in [Mails -> WrittenRows \cup {NotWritten}]
  BY <1>1, <1>4, <1>8 DEF MailInv, MailTypes
<1>11. /\ w \in [Mails -> WrittenRows \cup {NotWritten}] /\ w[m] = line
       /\ \A x \in Mails \ {m} : w[x] = written[s][x]
  BY <1>2, <1>9, <1>10
<1>12. GoodWrites(s, w)
  <2>1. \A x \in Mails : w[x] # NotWritten <=> Writes(s, x)
    BY <1>2, <1>9, <1>11 DEF Writes
  <2>2. \A x \in Mails, r \in Recipients : w[x] # NotWritten =>
          TellsSent(x, r, w[x].notif) /\ TellsAll(x, r, w[x].notif)
    <3> SUFFICES ASSUME NEW x \in Mails, NEW r \in Recipients, w[x] # NotWritten
                 PROVE  TellsSent(x, r, w[x].notif) /\ TellsAll(x, r, w[x].notif)
      OBVIOUS
    <3>1. CASE x = m
      BY <1>6, <1>9, <1>11, <3>1
    <3>2. CASE x # m
      <4>1. w[x] = written[s][x] /\ Writes(s, x) /\ ~Sends(s, x)
        BY <1>1, <1>11, <3>2 DEF Writes, Sends
      <4>2. QED BY <4>1 DEF MailInv, WrittenTold
    <3>3. QED BY <3>1, <3>2
  <2>3. QED BY <1>11, <2>1, <2>2 DEF GoodWrites
<1>13. Turn(s)
  <2>1. todo[s] # <<>>
    BY DEF MailInv, Sendings
  <2>2. TodoTypes' /\ \A t \in Senders \ {s} : todo'[t] = todo[t]
    BY <2>1, TodoAt, TodoNext DEF Done, NextMail
  <2>3. QED BY <2>2 DEF Done, Turn, MailInv, MailTypes
<1>14. UNCHANGED <<delivered, undone>>
  BY DEF Done
<1>15. CASE s \in AutoCommit
  <2>1. CommitMails(w, s)
    BY <1>1, <1>15 DEF Done
  <2>2. QED BY <1>12, <1>13, <1>14, <2>1, CommitMailInv
<1>16. CASE s \notin AutoCommit
  <2>1. /\ written' = [written EXCEPT ![s] = w]
        /\ UNCHANGED <<mailState, notification, snapshot, behind>>
    BY <1>1, <1>16 DEF Done
  <2>2. QED BY <1>12, <1>13, <1>14, <2>1, KeepInv
<1>17. QED BY <1>15, <1>16

LEMMA SentInv ==
  ASSUME MailInv, NEW s \in Senders, MailSent(s) \/ SendFails(s)
  PROVE  MailInv'
<1>1. CASE MailSent(s)
  <2>1. sending[s] /\ left[s] = {}
    BY <1>1 DEF MailSent
  <2>2. failure[s] = "" => success[s] = Recipients
    BY <2>1 DEF MailInv, Sendings
  <2>3. PICK state \in {"sent", "exception"} : Done(s, state, failure[s])
    BY <1>1 DEF MailSent
  <2>4. PICK type : type = failure[s]
    OBVIOUS
  <2>5. QED BY <2>1, <2>2, <2>3, <2>4, DoneInv
<1>2. CASE SendFails(s) /\ s \in RaiseException
  BY <1>2, UndoInv DEF SendFails
<1>3. CASE SendFails(s) /\ s \notin RaiseException
  <2>1. PICK type : type = IF failure[s] = "" THEN "unknown" ELSE failure[s]
    OBVIOUS
  <2>2. sending[s] /\ type # "" /\ Done(s, "exception", type)
    BY <1>3, <2>1 DEF SendFails
  <2>3. QED BY <2>2, DoneInv
<1>4. QED BY <1>1, <1>2, <1>3

LEMMA MailInvNext ==
  ASSUME MailInv, [MailNext]_mailVars
  PROVE  MailInv'
<1>1. CASE UNCHANGED mailVars
  <2> USE <1>1 DEF mailVars
  <2>1. MailTypes' /\ TodoTypes' /\ SnapshotTrue'
    BY DEF MailInv, MailTypes, TodoTypes, SnapshotTrue
  <2>2. RowLocks' /\ Sendings'
    BY DEF MailInv, RowLocks, Sendings, Writes, Current
  <2>3. \A m, r : Heard(m, r)' <=> Heard(m, r)
    BY DEF Heard, Writes, Sends, Current
  <2>4. Counted'
    BY <2>3 DEF MailInv, Counted
  <2>5. CommittedTold' /\ WrittenTold'
    BY DEF MailInv, CommittedTold, WrittenTold, TellsSent, TellsAll, Writes, Sends, Current
  <2>6. QED BY <2>1, <2>2, <2>4, <2>5 DEF MailInv
<1>2. CASE MailNext
  <2>1. PICK s \in Senders :
          \/ \E T \in SUBSET Mails \ {{}} : \E ms \in SetToSeqs(T) : Send(s, ms)
          \/ SkipMail(s) \/ BeginMail(s) \/ WriteConflicts(s)
          \/ SendEmail(s) \/ NoValidRecipient(s) \/ SendBreaks(s)
          \/ MailSent(s) \/ SendFails(s) \/ EndRequest(s)
    BY <1>2 DEF MailNext
  <2>2. QED
    BY <2>1, QueueInv, BeginMailInv, BreaksInv, SendEmailInv, InvalidInv, SentInv, EndRequestInv
<1>3. QED BY <1>1, <1>2

\* Who got a mail got it once for each time it was really sent, and the
\* notifications tell who did, whoever sends the same mails at the same time.
THEOREM MailsAreTold == MailSpec => []MailIsTold
<1>1. MailInv /\ [MailNext]_mailVars => MailInv'
  BY MailInvNext
<1>2. QED BY <1>1, MailInvInit, MailInvImplies, PTL DEF MailSpec

\* Type correctness of the queue of mails; a mail is locked by one at most.
THEOREM MailsAreTyped == MailSpec => []MailTypeOK
<1>1. MailInv /\ [MailNext]_mailVars => MailInv'
  BY MailInvNext
<1>2. MailInv => MailTypeOK
  <2> SUFFICES ASSUME MailInv PROVE MailTypeOK
    OBVIOUS
  <2>1. MailTypes /\ RowLocks
    BY DEF MailInv
  <2>2. ASSUME NEW m \in Mails PROVE Cardinality({s \in Senders : written[s][m] # NotWritten}) <= 1
    <3> DEFINE W == {s \in Senders : written[s][m] # NotWritten}
    <3>1. \A s, t \in W : s = t
      BY <2>1 DEF RowLocks, Writes
    <3>2. W = {} => Cardinality(W) <= 1
      <4>1. W = {} => Cardinality(W) = 0
        BY FS_EmptySet
      <4> HIDE DEF W
      <4>2. QED BY <4>1
    <3>3. W # {} => Cardinality(W) <= 1
      <4> SUFFICES ASSUME W # {} PROVE Cardinality(W) <= 1
        OBVIOUS
      <4>1. PICK s \in W : W = {s}
        BY <3>1
      <4>2. Cardinality(W) = 1
        BY <4>1, FS_Singleton
      <4> HIDE DEF W
      <4>3. QED BY <4>2
    <3>4. QED BY <3>2, <3>3
  <2>3. QED BY <2>1, <2>2 DEF MailTypes, MailTypeOK
<1>3. QED BY <1>1, <1>2, MailInvInit, PTL DEF MailSpec

-----------------------------------------------------------------------------
(* Transactions on the table of jobs                                       *)

Tx == [op: Ops \ {"idle"}, job: Jobs, snap: [Jobs -> Row],
       new: UNION {[D -> Row] : D \in SUBSET Jobs}, stale: SUBSET Jobs]

\* The rows a transaction has written and not committed.
TxTypes ==
  /\ row \in [Jobs -> Row]
  /\ tx \in [Slots -> Tx \cup {Idle}]
  /\ gone \subseteq Jobs /\ brokenJobs \subseteq Jobs
  /\ overlapped \in BOOLEAN /\ lost \in BOOLEAN

LEMMA RowTypes ==
  ASSUME NEW r \in Row, NEW j \in Jobs, NEW rows
  PROVE  /\ SetPending(r, j, rows) \in Row /\ SetDone(r) \in Row /\ SetCancelled(r) \in Row
         /\ \A s \in States : [r EXCEPT !.state = s] \in Row
  BY DEF SetPending, SetDone, SetCancelled, Row, States, Dates

LEMMA PendingType ==
  ASSUME NEW C \in SUBSET Jobs, NEW rows \in [Jobs -> Row]
  PROVE  /\ Pending(C, rows) \in [C -> Row]
         /\ \A c \in C : Pending(C, rows)[c] = [rows[c] EXCEPT !.state = "pending"]
  BY DEF Pending, Row, States

LEMMA NewType ==
  ASSUME NEW op \in Ops \ {"idle"}, NEW j \in Jobs, NEW rows \in [Jobs -> Row]
  PROVE  New(op, j, rows) \in Tx
<1>1. <<>> \in [{} -> Row]
  OBVIOUS
<1> QED BY <1>1 DEF New, Tx

LEMMA UpdatedType ==
  ASSUME NEW C \in SUBSET Jobs, NEW w \in [C -> Row], NEW rows \in [Jobs -> Row]
  PROVE  /\ Updated(rows, w) \in [Jobs -> Row]
         /\ \A j \in Jobs : Updated(rows, w)[j] = IF j \in C THEN w[j] ELSE rows[j]
  BY DEF Updated

LEMMA SingleType ==
  ASSUME NEW j \in Jobs, NEW r \in Row
  PROVE  Single(j, r) \in [{j} -> Row] /\ Single(j, r)[j] = r
  BY DEF Single

\* What a commit does to the rows and to the other transactions.
Committed(t, C, w, rec) ==
  /\ row' \in [Jobs -> Row] /\ tx' \in [Slots -> Tx \cup {Idle}]
  /\ \A j \in Jobs : row'[j] = IF j \in C THEN w[j] ELSE row[j]
  /\ tx'[t] = rec
  /\ \A u \in Slots \ {t} :
       /\ tx'[u].op = tx[u].op
       /\ tx[u].op # "idle" =>
             /\ tx'[u].job = tx[u].job /\ tx'[u].snap = tx[u].snap
             /\ tx'[u].new = tx[u].new /\ tx'[u].stale = tx[u].stale \cup C

LEMMA CommitStep ==
  ASSUME TxTypes, NEW t \in Slots, NEW C \in SUBSET Jobs, NEW w \in [C -> Row],
         NEW rec \in Tx \cup {Idle}, CommitRows(t, w, rec)
  PROVE  Committed(t, C, w, rec)
<1>1. row' \in [Jobs -> Row] /\ \A j \in Jobs : row'[j] = IF j \in C THEN w[j] ELSE row[j]
  <2>1. row' = Updated(row, w) /\ row \in [Jobs -> Row]
    BY DEF CommitRows, TxTypes
  <2>2. QED BY <2>1, UpdatedType
<1>2. DOMAIN w = C
  OBVIOUS
<1>3. \A u \in Slots : tx[u].op = "idle" <=> tx[u] = Idle
  BY DEF TxTypes, Tx, Idle, Ops
<1>4. \A u \in Slots : tx[u] # Idle => [tx[u] EXCEPT !.stale = @ \cup C] \in Tx
  BY DEF TxTypes, Tx
<1>5. \A u \in Slots : tx'[u] = IF u = t THEN rec ELSE IF tx[u] = Idle THEN Idle
                                ELSE [tx[u] EXCEPT !.stale = @ \cup C]
  BY <1>2, <1>3 DEF CommitRows, Idle
<1>6. tx' \in [Slots -> Tx \cup {Idle}]
  BY <1>3, <1>4, <1>5 DEF CommitRows
<1>7. \A u \in Slots : tx[u] # Idle => tx[u] \in Tx
  BY DEF TxTypes
<1>8. QED BY <1>1, <1>3, <1>5, <1>6, <1>7 DEF Tx, Idle, Committed

\* A transaction that has written a row goes on.
Wrote(x, op, w) == [x EXCEPT !.op = op, !.new = w]

LEMMA WrittenType ==
  ASSUME NEW x \in Tx, NEW op \in Ops \ {"idle"}, NEW j \in Jobs, NEW w \in [{j} -> Row]
  PROVE  /\ Wrote(x, op, w) \in Tx
         /\ Wrote(x, op, w).op = op
         /\ Wrote(x, op, w).new = w
         /\ Wrote(x, op, w).snap = x.snap
         /\ Wrote(x, op, w).job = x.job
         /\ Wrote(x, op, w).stale = x.stale
<1>1. {j} \in SUBSET Jobs
  OBVIOUS
<1>2. w \in UNION {[D -> Row] : D \in SUBSET Jobs}
  BY <1>1
<1>3. QED BY <1>2 DEF Tx, Wrote

\* The slots that are open, and what may be read of them.
LEMMA OpenTx ==
  ASSUME TxTypes, NEW t \in Slots, tx[t].op # "idle"
  PROVE  /\ tx[t] \in Tx /\ tx[t].op \in Ops /\ tx[t].job \in Jobs
         /\ tx[t].snap \in [Jobs -> Row] /\ tx[t].stale \subseteq Jobs
         /\ tx[t].snap[tx[t].job] \in Row
  BY DEF TxTypes, Tx, Idle

LEMMA ChildrenType ==
  ASSUME NEW j, NEW rows PROVE Children(j, rows) \in SUBSET Jobs
  BY DEF Children

-----------------------------------------------------------------------------
(* Dates                                                                   *)

\* Only a job that is over has dates, or one whose commit failed.
DatedRow(r, j, B) ==
  \/ r.doneAt = "none" /\ r.cancelledAt = "none"
  \/ r.state \in {"done", "cancelled", "deleted"}
  \/ r.state = "failed" /\ j \in B

Dated(rows, B) == \A j \in Jobs : DatedRow(rows[j], j, B)

\* What a transaction has read is as well dated, and tells what it may do.
TxDated(x, B) ==
  /\ Dated(x.snap, B)
  /\ x.op = "perform" => x.snap[x.job].state = "started"
  /\ x.op \in UserOps => x.snap[x.job].state # "deleted"
  /\ x.op = "doneWritten" => x.new \in [{x.job} -> Row] /\ x.new[x.job].state = "done"

DatesInv ==
  /\ TxTypes
  /\ Dated(row, brokenJobs)
  /\ \A t \in Slots : tx[t].op # "idle" => TxDated(tx[t], brokenJobs)

NoneRevived == \A j \in Jobs : row'[j].state = "deleted" => row[j].state = "deleted"

LEMMA MoreBroken ==
  ASSUME NEW B, NEW B2, B \subseteq B2
  PROVE  /\ \A rows : Dated(rows, B) => Dated(rows, B2)
         /\ \A x : TxDated(x, B) => TxDated(x, B2)
  BY DEF TxDated, Dated, DatedRow

LEMMA CommitDates ==
  ASSUME DatesInv, NEW t \in Slots, NEW C \in SUBSET Jobs, NEW w \in [C -> Row],
         NEW rec \in Tx \cup {Idle}, CommitRows(t, w, rec),
         brokenJobs \subseteq brokenJobs', brokenJobs' \subseteq Jobs,
         gone' = gone, overlapped' \in BOOLEAN, lost' \in BOOLEAN,
         \A j \in C : w[j].state # "deleted" /\ DatedRow(w[j], j, brokenJobs'),
         rec.op # "idle" => TxDated(rec, brokenJobs')
  PROVE  DatesInv' /\ NoneRevived
<1>1. TxTypes
  BY DEF DatesInv
<1>2. Committed(t, C, w, rec)
  BY <1>1, CommitStep
<1>3. TxTypes'
  BY <1>1, <1>2 DEF TxTypes, Committed
<1>4. Dated(row', brokenJobs')
  <2>1. Dated(row, brokenJobs')
    BY MoreBroken DEF DatesInv
  <2>2. QED BY <1>2, <2>1 DEF Dated, Committed
<1>5. \A u \in Slots : tx'[u].op # "idle" => TxDated(tx'[u], brokenJobs')
  <2> SUFFICES ASSUME NEW u \in Slots, tx'[u].op # "idle"
               PROVE  TxDated(tx'[u], brokenJobs')
    OBVIOUS
  <2>1. CASE u = t
    BY <1>2, <2>1 DEF Committed
  <2>2. CASE u # t
    <3>1. tx[u].op # "idle"
      BY <1>2, <2>2 DEF Committed
    <3>a. TxDated(tx[u], brokenJobs')
      BY <3>1, MoreBroken DEF DatesInv
    <3>2. /\ tx'[u].op = tx[u].op /\ tx'[u].job = tx[u].job
          /\ tx'[u].snap = tx[u].snap /\ tx'[u].new = tx[u].new
      BY <1>2, <2>2, <3>1 DEF Committed
    <3>3. QED BY <3>a, <3>2 DEF TxDated
  <2>3. QED BY <2>1, <2>2
<1>6. NoneRevived
  BY <1>2 DEF NoneRevived, Committed
<1>7. QED BY <1>3, <1>4, <1>5, <1>6 DEF DatesInv

\* Steps that write no row.
LEMMA OtherDates ==
  ASSUME DatesInv, NEW t \in Slots, NEW rec \in Tx \cup {Idle},
         row' = row, brokenJobs' = brokenJobs, gone' = gone,
         overlapped' \in BOOLEAN, lost' \in BOOLEAN,
         tx' = [tx EXCEPT ![t] = rec],
         rec.op # "idle" => TxDated(rec, brokenJobs)
  PROVE  DatesInv' /\ NoneRevived
<1>1. tx \in [Slots -> Tx \cup {Idle}]
  BY DEF DatesInv, TxTypes
<1>2. TxTypes'
  BY <1>1 DEF DatesInv, TxTypes
<1>3. \A u \in Slots : tx'[u].op # "idle" => TxDated(tx'[u], brokenJobs)
  BY <1>1 DEF DatesInv
<1>4. QED BY <1>2, <1>3 DEF DatesInv, NoneRevived

\* What the methods of Job make of a row.
LEMMA DoneDates ==
  ASSUME NEW r \in Row, NEW j \in Jobs, NEW B
  PROVE  SetDone(r) \in Row /\ SetDone(r).state = "done" /\ DatedRow(SetDone(r), j, B)
  BY DEF DatedRow, SetDone, Row, States, Dates

LEMMA CancelledDates ==
  ASSUME NEW r \in Row, NEW j \in Jobs, NEW B
  PROVE  /\ SetCancelled(r) \in Row /\ SetCancelled(r).state = "cancelled"
         /\ DatedRow(SetCancelled(r), j, B)
  BY DEF DatedRow, SetCancelled, Row, States, Dates

LEMMA PendingDates ==
  ASSUME NEW r \in Row, NEW j \in Jobs, NEW B, NEW rows
  PROVE  /\ SetPending(r, j, rows) \in Row /\ DatedRow(SetPending(r, j, rows), j, B)
         /\ SetPending(r, j, rows).state =
              IF ParentsDone(j, rows) THEN "pending" ELSE "wait_dependencies"
  BY DEF DatedRow, SetPending, Row, States, Dates

\* A job that is not over has no dates in its next state either.
LEMMA StateDates ==
  ASSUME NEW r \in Row, NEW j \in Jobs, NEW B, NEW s \in States, DatedRow(r, j, B),
         r.state \in {"started", "pending", "wait_dependencies"}
  PROVE  /\ [r EXCEPT !.state = s] \in Row /\ [r EXCEPT !.state = s].state = s
         /\ DatedRow([r EXCEPT !.state = s], j, B)
  BY DEF DatedRow, Row, States, Dates

\* A commit of one row.
LEMMA CommitOne ==
  ASSUME DatesInv, NEW t \in Slots, NEW j \in Jobs, NEW r \in Row,
         NEW rec \in Tx \cup {Idle}, CommitRows(t, Single(j, r), rec),
         brokenJobs \subseteq brokenJobs', brokenJobs' \subseteq Jobs,
         gone' = gone, overlapped' \in BOOLEAN, lost' \in BOOLEAN,
         r.state # "deleted", DatedRow(r, j, brokenJobs'),
         rec.op # "idle" => TxDated(rec, brokenJobs')
  PROVE  DatesInv' /\ NoneRevived
<1> DEFINE w == Single(j, r)
<1>1. w \in [{j} -> Row] /\ w[j] = r
  BY SingleType
<1>2. \A i \in {j} : w[i].state # "deleted" /\ DatedRow(w[i], i, brokenJobs')
  BY <1>1
<1>3. {j} \in SUBSET Jobs
  OBVIOUS
<1> HIDE DEF w
<1>4. CommitRows(t, w, rec)
  BY DEF w
<1>5. QED BY <1>1, <1>2, <1>3, <1>4, CommitDates

\* A worker takes a job.
LEMMA StartDates ==
  ASSUME DatesInv, NEW t \in Slots, NEW j \in Jobs, Start(t, j)
  PROVE  DatesInv' /\ NoneRevived
<1> DEFINE r == [row[j] EXCEPT !.state = "started"]
           rows == Updated(row, Single(j, r))
<1>1. row[j] \in Row /\ row[j].state = "pending" /\ DatedRow(row[j], j, brokenJobs)
  BY DEF Start, DatesInv, TxTypes, Dated
<1>2. r \in Row /\ r.state = "started" /\ DatedRow(r, j, brokenJobs)
  BY <1>1, StateDates DEF States
<1>3. /\ rows \in [Jobs -> Row] /\ Dated(rows, brokenJobs) /\ rows[j] = r
  <2>1. Single(j, r) \in [{j} -> Row] /\ Single(j, r)[j] = r
    BY <1>2, SingleType
  <2>2. {j} \in SUBSET Jobs /\ row \in [Jobs -> Row] /\ Dated(row, brokenJobs)
    BY DEF DatesInv, TxTypes
  <2>3. /\ rows \in [Jobs -> Row]
        /\ \A i \in Jobs : rows[i] = IF i \in {j} THEN Single(j, r)[i] ELSE row[i]
    BY <2>1, <2>2, UpdatedType
  <2>4. QED BY <1>2, <2>1, <2>2, <2>3 DEF Dated
<1>4. New("perform", j, rows) \in Tx /\ TxDated(New("perform", j, rows), brokenJobs)
  BY <1>2, <1>3, NewType DEF TxDated, New, Ops, UserOps
<1>5. CommitRows(t, Single(j, r), New("perform", j, rows)) /\ UNCHANGED <<gone, brokenJobs, lost>>
  BY DEF Start
<1>6. overlapped' \in BOOLEAN /\ lost' \in BOOLEAN
  BY DEF Start, Overlap, DatesInv, TxTypes
<1> HIDE DEF r, rows
<1>7. QED
  BY <1>2, <1>4, <1>5, <1>6, CommitOne DEF DatesInv, TxTypes

\* A worker ends its try, in any way.
LEMMA PerformDates ==
  ASSUME DatesInv, NEW t \in Slots,
         PerformDone(t) \/ PerformRetry(t) \/ PerformFails(t) \/ CommitFails(t)
  PROVE  DatesInv' /\ NoneRevived
<1> DEFINE j == tx[t].job
           r == tx[t].snap[j]
<1>1. tx[t].op = "perform" /\ TxTypes
  BY DEF PerformDone, PerformRetry, PerformFails, CommitFails, DatesInv
<1>2. /\ tx[t] \in Tx /\ j \in Jobs /\ tx[t].snap \in [Jobs -> Row] /\ r \in Row
      /\ r.state = "started" /\ DatedRow(r, j, brokenJobs)
  BY <1>1, OpenTx DEF DatesInv, TxDated, Dated
<1>3. Idle \in Tx \cup {Idle} /\ Idle.op = "idle"
  BY DEF Idle
<1>4. row \in [Jobs -> Row] /\ Dated(row, brokenJobs)
  BY DEF DatesInv, TxTypes
<1>5. overlapped \in BOOLEAN /\ lost \in BOOLEAN /\ brokenJobs \subseteq Jobs
  BY <1>1 DEF TxTypes
<1>6. CASE PerformDone(t)
  <2>1. New("toRelease", j, row) \in Tx /\ TxDated(New("toRelease", j, row), brokenJobs)
    BY <1>2, <1>4, NewType DEF TxDated, New, Ops, UserOps
  <2>2. SetDone(r) \in Row /\ SetDone(r).state = "done" /\ DatedRow(SetDone(r), j, brokenJobs)
    BY <1>2, DoneDates
  <2>3. CommitRows(t, Single(j, SetDone(r)), New("toRelease", j, row))
        /\ UNCHANGED <<gone, brokenJobs, overlapped, lost>>
    BY <1>6 DEF PerformDone, ghosts
  <2> HIDE DEF r, j
  <2>4. QED BY <1>2, <1>5, <2>1, <2>2, <2>3, CommitOne
<1>7. CASE PerformRetry(t)
  <2> DEFINE q == SetPending(r, j, row)
  <2>1. q \in Row /\ q.state # "deleted" /\ DatedRow(q, j, brokenJobs)
    BY <1>2, PendingDates
  <2>2. CommitRows(t, Single(j, q), Idle) /\ UNCHANGED <<gone, brokenJobs, overlapped, lost>>
    BY <1>7 DEF PerformRetry, ghosts
  <2> HIDE DEF r, j, q
  <2>3. QED BY <1>2, <1>3, <1>5, <2>1, <2>2, CommitOne
<1>8. CASE PerformFails(t)
  <2> DEFINE q == [r EXCEPT !.state = "failed"]
  <2>1. q \in Row /\ q.state # "deleted" /\ DatedRow(q, j, brokenJobs)
    BY <1>2, StateDates DEF States
  <2>2. CommitRows(t, Single(j, q), Idle) /\ UNCHANGED <<gone, brokenJobs, overlapped, lost>>
    BY <1>8 DEF PerformFails, ghosts
  <2> HIDE DEF r, j, q
  <2>3. QED BY <1>2, <1>3, <1>5, <2>1, <2>2, CommitOne
<1>9. CASE CommitFails(t)
  <2> DEFINE q == [SetDone(r) EXCEPT !.state = "failed"]
  <2>1. CASE /\ CommitRows(t, Single(j, q), Idle)
             /\ brokenJobs' = brokenJobs \cup {j}
    <3>1. q \in Row /\ q.state # "deleted" /\ DatedRow(q, j, brokenJobs')
      BY <1>2, <2>1, DoneDates DEF DatedRow, States, Row
    <3>2. UNCHANGED <<gone, overlapped, lost>>
      BY <1>9 DEF CommitFails
    <3>3. brokenJobs \subseteq brokenJobs' /\ brokenJobs' \subseteq Jobs
      BY <1>2, <1>5, <2>1
    <3> HIDE DEF r, j, q
    <3>4. QED BY <1>2, <1>3, <1>5, <2>1, <3>1, <3>2, <3>3, CommitOne
  <2>2. CASE tx' = [tx EXCEPT ![t].op = "hung", ![t].new = Single(j, SetDone(r))]
             /\ UNCHANGED <<row, brokenJobs>>
    <3> DEFINE rec == Wrote(tx[t], "hung", Single(j, SetDone(r)))
    <3>1. Single(j, SetDone(r)) \in [{j} -> Row]
      BY <1>2, RowTypes, SingleType
    <3>2. rec \in Tx /\ rec.op = "hung" /\ rec.snap = tx[t].snap /\ rec.job = j
      <4>1. "hung" \in Ops \ {"idle"}
        BY DEF Ops
      <4>2. QED BY <1>2, <3>1, <4>1, WrittenType
    <3>3. TxDated(rec, brokenJobs)
      BY <1>1, <3>2 DEF DatesInv, TxDated, UserOps
    <3>4. tx' = [tx EXCEPT ![t] = rec]
      BY <1>1, <2>2 DEF TxTypes, Wrote
    <3>5. UNCHANGED <<row, gone, brokenJobs, overlapped, lost>>
      BY <1>9, <2>2 DEF CommitFails
    <3> HIDE DEF rec
    <3>6. QED BY <1>5, <3>2, <3>3, <3>4, <3>5, OtherDates
  <2>3. QED BY <1>9, <2>1, <2>2 DEF CommitFails
<1>10. QED BY <1>6, <1>7, <1>8, <1>9

\* The transaction in a slot ends without a write.
LEMMA EndedDates ==
  ASSUME DatesInv, NEW t \in Slots, tx' = [tx EXCEPT ![t] = Idle],
         UNCHANGED <<row, gone, brokenJobs, overlapped>>, lost' \in BOOLEAN
  PROVE  DatesInv' /\ NoneRevived
<1>1. Idle \in Tx \cup {Idle} /\ Idle.op = "idle" /\ overlapped \in BOOLEAN
  BY DEF Idle, DatesInv, TxTypes
<1>2. QED BY <1>1, OtherDates

\* A transaction is opened for a job.
LEMMA OpenedDates ==
  ASSUME DatesInv, NEW t \in Slots, NEW j \in Jobs, NEW op \in Ops \ {"idle", "perform", "doneWritten"},
         tx' = [tx EXCEPT ![t] = New(op, j, row)], Overlap(t, op),
         UNCHANGED <<row, gone, brokenJobs, lost>>,
         op \in UserOps => row[j].state # "deleted"
  PROVE  DatesInv' /\ NoneRevived
<1>1. row \in [Jobs -> Row] /\ Dated(row, brokenJobs) /\ lost \in BOOLEAN
  BY DEF DatesInv, TxTypes
<1>2. New(op, j, row) \in Tx
  BY <1>1, NewType
<1>3. TxDated(New(op, j, row), brokenJobs)
  BY <1>1 DEF TxDated, New
<1>4. overlapped' \in BOOLEAN
  BY DEF Overlap, DatesInv, TxTypes
<1>5. QED BY <1>1, <1>2, <1>3, <1>4, OtherDates

\* The dependents a transaction has found: they wait.
LEMMA ReleasedDates ==
  ASSUME NEW rows \in [Jobs -> Row], NEW B, Dated(rows, B), NEW j, NEW C, C = Children(j, rows)
  PROVE  /\ C \in SUBSET Jobs /\ Pending(C, rows) \in [C -> Row]
         /\ \A c \in C : /\ Pending(C, rows)[c].state = "pending"
                         /\ DatedRow(Pending(C, rows)[c], c, B)
<1>1. C \in SUBSET Jobs /\ \A c \in C : rows[c].state = "wait_dependencies"
  BY DEF Children
<1>2. Pending(C, rows) \in [C -> Row]
      /\ \A c \in C : Pending(C, rows)[c] = [rows[c] EXCEPT !.state = "pending"]
  BY <1>1, PendingType
<1>3. ASSUME NEW c \in C
      PROVE  Pending(C, rows)[c].state = "pending" /\ DatedRow(Pending(C, rows)[c], c, B)
  <2>1. rows[c] \in Row /\ rows[c].state = "wait_dependencies" /\ DatedRow(rows[c], c, B)
    BY <1>1, <1>3 DEF Dated
  <2>2. "pending" \in States
    BY DEF States
  <2>3. /\ [rows[c] EXCEPT !.state = "pending"].state = "pending"
        /\ DatedRow([rows[c] EXCEPT !.state = "pending"], c, B)
    BY <1>1, <1>3, <2>1, <2>2, StateDates
  <2>4. QED BY <1>2, <1>3, <2>3
<1>4. QED BY <1>1, <1>2, <1>3

LEMMA ReleaseDates ==
  ASSUME DatesInv, NEW t \in Slots, Released(t)
  PROVE  DatesInv' /\ NoneRevived
<1> DEFINE C == Children(tx[t].job, tx[t].snap)
           w == Pending(C, tx[t].snap)
<1>1. TxTypes /\ tx[t].op = "release"
  BY DEF Released, DatesInv
<1>2. tx[t].snap \in [Jobs -> Row] /\ Dated(tx[t].snap, brokenJobs)
  BY <1>1, OpenTx DEF DatesInv, TxDated
<1>3. UNCHANGED <<gone, brokenJobs, overlapped>> /\ overlapped \in BOOLEAN
      /\ lost \in BOOLEAN /\ brokenJobs \subseteq Jobs
  BY <1>1 DEF Released, TxTypes
<1>4. CASE Conflict(t, C)
  <2>1. tx' = [tx EXCEPT ![t] = Idle] /\ lost' = TRUE /\ row' = row
    BY <1>4 DEF Released
  <2>2. QED BY <1>3, <2>1, EndedDates
<1>5. CASE ~Conflict(t, C)
  <2>1. CommitRows(t, w, Idle) /\ lost' = lost
    BY <1>5 DEF Released
  <2>2. /\ C \in SUBSET Jobs /\ w \in [C -> Row]
        /\ \A c \in C : w[c].state = "pending" /\ DatedRow(w[c], c, brokenJobs)
    BY <1>2, ReleasedDates
  <2>3. Idle \in Tx \cup {Idle} /\ Idle.op = "idle"
    BY DEF Idle
  <2> HIDE DEF w, C
  <2>4. QED BY <1>3, <2>1, <2>2, <2>3, CommitDates
<1>6. QED BY <1>4, <1>5

\* A user's transaction writes the job.
LEMMA StoreDates ==
  ASSUME DatesInv, NEW t \in Slots, StoreChanged(t) \/ StoreDone(t)
  PROVE  DatesInv' /\ NoneRevived
<1> DEFINE j == tx[t].job
           r == tx[t].snap[j]
<1>1. tx[t].op \in UserOps /\ tx[t].op # "idle" /\ TxTypes /\ tx[t] \in Tx /\ j \in Jobs
      /\ UNCHANGED <<gone, brokenJobs, overlapped, lost>>
  BY OpenTx DEF StoreChanged, StoreDone, UserOps, DatesInv, ghosts
<1>2. /\ tx[t].snap \in [Jobs -> Row] /\ r \in Row /\ r.state # "deleted"
      /\ TxDated(tx[t], brokenJobs)
  BY <1>1, OpenTx DEF DatesInv, TxDated
<1>3. overlapped \in BOOLEAN /\ lost \in BOOLEAN /\ brokenJobs \subseteq Jobs
  BY <1>1 DEF TxTypes
<1>4. CASE StoreChanged(t)
  <2> DEFINE q == IF tx[t].op = "cancelled" THEN SetCancelled(r)
                  ELSE SetPending(r, j, tx[t].snap)
  <2>1. q \in Row /\ q.state # "deleted" /\ DatedRow(q, j, brokenJobs)
    BY <1>1, <1>2, CancelledDates, PendingDates
  <2>2. CommitRows(t, Single(j, q), Idle)
    BY <1>4 DEF StoreChanged
  <2>3. Idle \in Tx \cup {Idle} /\ Idle.op = "idle"
    BY DEF Idle
  <2> HIDE DEF q, r, j
  <2>4. QED BY <1>1, <1>3, <2>1, <2>2, <2>3, CommitOne
<1>5. CASE StoreDone(t)
  <2> DEFINE w == Single(j, SetDone(r))
             rec == Wrote(tx[t], "doneWritten", w)
  <2>1. w \in [{j} -> Row] /\ w[j].state = "done"
    BY <1>1, <1>2, DoneDates, SingleType
  <2>2. /\ rec \in Tx /\ rec.op = "doneWritten" /\ rec.snap = tx[t].snap /\ rec.job = j
        /\ rec.new = w
    <3>1. "doneWritten" \in Ops \ {"idle"}
      BY DEF Ops
    <3> HIDE DEF w
    <3>2. QED BY <1>1, <2>1, <3>1, WrittenType DEF w
  <2>3. TxDated(rec, brokenJobs)
    BY <1>2, <2>1, <2>2 DEF TxDated
  <2>4. tx' = [tx EXCEPT ![t] = rec] /\ row' = row
    BY <1>1, <1>5 DEF StoreDone, TxTypes, Wrote
  <2> HIDE DEF rec
  <2>5. QED BY <1>1, <1>3, <2>2, <2>3, <2>4, OtherDates
<1>6. QED BY <1>4, <1>5

LEMMA ReleaseDoneDates ==
  ASSUME DatesInv, NEW t \in Slots, ReleaseDone(t)
  PROVE  DatesInv' /\ NoneRevived
<1> DEFINE j == tx[t].job
           n == tx[t].new
           seen == Updated(tx[t].snap, n)
           C == Children(j, seen)
           w == Updated(n, Pending(C, seen))
<1>1. /\ tx[t].op = "doneWritten" /\ tx[t].op # "idle" /\ TxTypes /\ j \in Jobs
      /\ tx[t].snap \in [Jobs -> Row]
      /\ UNCHANGED <<gone, brokenJobs, overlapped, lost>> /\ CommitRows(t, w, Idle)
  BY OpenTx DEF ReleaseDone, DatesInv, ghosts
<1>2. Dated(tx[t].snap, brokenJobs) /\ n \in [{j} -> Row] /\ n[j].state = "done"
  BY <1>1 DEF DatesInv, TxDated
<1>3. seen \in [Jobs -> Row] /\ \A i \in Jobs : seen[i] = IF i \in {j} THEN n[i] ELSE tx[t].snap[i]
  <2>1. {j} \in SUBSET Jobs
    BY <1>1
  <2> HIDE DEF j, n
  <2>2. QED BY <1>1, <1>2, <2>1, UpdatedType
<1>4. DatedRow(n[j], j, brokenJobs)
  BY <1>2 DEF DatedRow
<1>5. Dated(seen, brokenJobs)
  <2> HIDE DEF seen, n
  <2>1. QED BY <1>2, <1>3, <1>4 DEF Dated
<1>6. /\ C \in SUBSET Jobs /\ Pending(C, seen) \in [C -> Row]
      /\ \A c \in C : /\ Pending(C, seen)[c].state = "pending"
                      /\ DatedRow(Pending(C, seen)[c], c, brokenJobs)
  <2> HIDE DEF seen
  <2>1. QED BY <1>3, <1>5, ReleasedDates
<1>7. w \in [C \cup {j} -> Row] /\ \A c \in C \cup {j} :
         w[c] = IF c \in C THEN Pending(C, seen)[c] ELSE n[c]
  <2> HIDE DEF C, n, seen
  <2>1. QED BY <1>2, <1>6 DEF Updated
<1>8. \A c \in C \cup {j} : w[c].state # "deleted" /\ DatedRow(w[c], c, brokenJobs)
  <2> HIDE DEF C, n, seen, w
  <2>1. QED BY <1>2, <1>4, <1>6, <1>7
<1>9. Idle \in Tx \cup {Idle} /\ Idle.op = "idle" /\ C \cup {j} \in SUBSET Jobs
  BY <1>1, <1>6 DEF Idle
<1>10. overlapped \in BOOLEAN /\ lost \in BOOLEAN /\ brokenJobs \subseteq Jobs
  BY <1>1 DEF TxTypes
<1> DEFINE D == C \cup {j}
<1> HIDE DEF w, C, D
<1>11. D \in SUBSET Jobs /\ w \in [D -> Row]
       /\ \A c \in D : w[c].state # "deleted" /\ DatedRow(w[c], c, brokenJobs)
  BY <1>7, <1>8, <1>9 DEF D
<1>12. QED BY <1>1, <1>9, <1>10, <1>11, CommitDates

\* What autovacuum and the time do to the rows and the transactions.
Vacuumed(Old) ==
  /\ Old \in SUBSET Jobs
  /\ \A j \in Old : Vacuumable(row[j])
  /\ row' \in [Jobs -> Row] /\ tx' \in [Slots -> Tx \cup {Idle}]
  /\ \A j \in Jobs : row'[j] = IF j \in Old
                               THEN [state |-> "deleted", doneAt |-> "none", cancelledAt |-> "none"]
                               ELSE row[j]
  /\ \A u \in Slots :
       /\ tx'[u].op = tx[u].op
       /\ tx[u].op # "idle" =>
             /\ Old \cap DOMAIN tx[u].new = {}
             /\ tx'[u].job = tx[u].job /\ tx'[u].snap = tx[u].snap
             /\ tx'[u].new = tx[u].new /\ tx'[u].stale = tx[u].stale \cup Old

LEMMA VacuumStep ==
  ASSUME TxTypes, JobAutovacuum
  PROVE  LET Old == {j \in Jobs : Vacuumable(row[j])}
         IN  /\ Vacuumed(Old) /\ gone' = gone \cup {j \in Old : row[j].state = "done"}
             /\ UNCHANGED <<begun, broken, brokenJobs, overlapped, lost>>
<1> DEFINE Old == {j \in Jobs : Vacuumable(row[j])}
           d == [j \in Old |-> [state |-> "deleted", doneAt |-> "none", cancelledAt |-> "none"]]
<1>1. Old \in SUBSET Jobs /\ \A j \in Old : Vacuumable(row[j])
  OBVIOUS
<1>2. d \in [Old -> Row]
  BY DEF Row, States, Dates
<1>3. row' = Updated(row, d) /\ row \in [Jobs -> Row]
  BY DEF JobAutovacuum, TxTypes
<1>4. row' \in [Jobs -> Row] /\ \A j \in Jobs : row'[j] = IF j \in Old THEN d[j] ELSE row[j]
  <2> HIDE DEF Old, d
  <2>1. QED BY <1>1, <1>2, <1>3, UpdatedType
<1>5. /\ tx' = [t \in Slots |->
           IF tx[t].op = "idle" THEN Idle ELSE [tx[t] EXCEPT !.stale = @ \cup Old]]
      /\ \A t \in Slots : tx[t].op # "idle" => Old \cap DOMAIN tx[t].new = {}
  BY DEF JobAutovacuum
<1>6. \A u \in Slots : (tx[u].op = "idle" <=> tx[u] = Idle) /\ (tx[u] # Idle => tx[u] \in Tx)
  BY DEF TxTypes, Tx, Idle, Ops
<1>7. \A u \in Slots : tx[u] # Idle => [tx[u] EXCEPT !.stale = @ \cup Old] \in Tx
  BY <1>1, <1>6 DEF Tx
<1>8. tx' \in [Slots -> Tx \cup {Idle}]
  BY <1>5, <1>6, <1>7
<1>9. \A u \in Slots :
        /\ tx'[u].op = tx[u].op
        /\ tx[u].op # "idle" =>
             /\ tx'[u].job = tx[u].job /\ tx'[u].snap = tx[u].snap
             /\ tx'[u].new = tx[u].new /\ tx'[u].stale = tx[u].stale \cup Old
  BY <1>5, <1>6 DEF Tx, Idle
<1>10. Vacuumed(Old)
  BY <1>1, <1>4, <1>5, <1>8, <1>9 DEF Vacuumed
<1>11. gone' = gone \cup {j \in Old : row[j].state = "done"}
       /\ UNCHANGED <<begun, broken, brokenJobs, overlapped, lost>>
  BY DEF JobAutovacuum
<1>12. QED BY <1>10, <1>11

LEMMA MonthStep ==
  ASSUME TxTypes, MonthPasses
  PROVE  /\ row' \in [Jobs -> Row] /\ \A j \in Jobs : row'[j].state = row[j].state
         /\ \A j \in Jobs : \A B : DatedRow(row[j], j, B) => DatedRow(row'[j], j, B)
         /\ UNCHANGED <<tx, begun, broken, gone, brokenJobs, overlapped, lost>>
<1> DEFINE age(d) == IF d = "none" THEN d ELSE "old"
<1>1. row' = [j \in Jobs |-> [row[j] EXCEPT !.doneAt = age(@), !.cancelledAt = age(@)]]
      /\ UNCHANGED <<tx, begun, broken, gone, brokenJobs, overlapped, lost>>
  BY DEF MonthPasses, ghosts
<1>2. ASSUME NEW j \in Jobs
      PROVE  /\ row'[j] \in Row /\ row'[j].state = row[j].state
             /\ row[j].doneAt = "none" => row'[j].doneAt = "none"
             /\ row[j].cancelledAt = "none" => row'[j].cancelledAt = "none"
  BY <1>1, <1>2 DEF TxTypes, Row, States, Dates
<1>3. QED BY <1>1, <1>2 DEF DatedRow

OnlyOver ==
  \A j \in Jobs \ brokenJobs :
    row'[j].state = "deleted" => row[j].state \in {"done", "cancelled", "deleted"}

LEMMA CronDates ==
  ASSUME DatesInv, JobAutovacuum \/ MonthPasses
  PROVE  DatesInv' /\ OnlyOver
<1>0. TxTypes
  BY DEF DatesInv
<1>1. CASE JobAutovacuum
  <2>1. PICK Old : Vacuumed(Old) /\ gone' = gone \cup {j \in Old : row[j].state = "done"}
                 /\ UNCHANGED <<brokenJobs, overlapped, lost>>
    BY <1>0, <1>1, VacuumStep
  <2>2. TxTypes'
    BY <1>0, <2>1 DEF TxTypes, Vacuumed
  <2>3. Dated(row', brokenJobs')
    BY <2>1 DEF DatesInv, Dated, DatedRow, Vacuumed
  <2>4. \A u \in Slots : tx'[u].op # "idle" => TxDated(tx'[u], brokenJobs')
    <3> SUFFICES ASSUME NEW u \in Slots, tx'[u].op # "idle"
                 PROVE  TxDated(tx'[u], brokenJobs')
      OBVIOUS
    <3>1. /\ tx[u].op # "idle" /\ tx'[u].op = tx[u].op /\ tx'[u].job = tx[u].job
          /\ tx'[u].snap = tx[u].snap /\ tx'[u].new = tx[u].new
      BY <2>1 DEF Vacuumed
    <3>2. TxDated(tx[u], brokenJobs)
      BY <3>1 DEF DatesInv
    <3>3. QED BY <2>1, <3>1, <3>2 DEF TxDated
  <2>5. OnlyOver
    <3> SUFFICES ASSUME NEW j \in Jobs \ brokenJobs, row'[j].state = "deleted"
                 PROVE  row[j].state \in {"done", "cancelled", "deleted"}
      BY DEF OnlyOver
    <3>1. CASE j \in Old
      <4>1. row[j].doneAt # "none" \/ row[j].cancelledAt # "none"
        BY <2>1, <3>1 DEF Vacuumed, Vacuumable
      <4>2. QED BY <4>1 DEF DatesInv, Dated, DatedRow
    <3>2. CASE j \notin Old
      BY <2>1, <3>2 DEF Vacuumed
    <3>3. QED BY <3>1, <3>2
  <2>6. QED BY <2>2, <2>3, <2>4, <2>5 DEF DatesInv
<1>2. CASE MonthPasses
  <2>1. TxTypes'
    BY <1>0, <1>2, MonthStep DEF TxTypes
  <2>2. Dated(row', brokenJobs')
    BY <1>0, <1>2, MonthStep DEF DatesInv, Dated
  <2>3. \A u \in Slots : tx'[u].op # "idle" => TxDated(tx'[u], brokenJobs')
    BY <1>0, <1>2, MonthStep DEF DatesInv
  <2>4. OnlyOver
    BY <1>0, <1>2, MonthStep DEF OnlyOver
  <2>5. QED BY <2>1, <2>2, <2>3, <2>4 DEF DatesInv
<1>3. QED BY <1>1, <1>2

LEMMA DatesNext ==
  ASSUME DatesInv, [JobTxNext]_jobTxVars
  PROVE  DatesInv' /\ OnlyOver
<1>1. ASSUME NEW t \in Slots,
             \/ \E j \in Jobs :
                   \/ Start(t, j)
                   \/ \E op \in {"done", "cancelled", "pending"} : ChangeJobState(t, j, op)
             \/ PerformDone(t) \/ PerformRetry(t) \/ PerformFails(t) \/ CommitFails(t)
             \/ Kill(t) \/ EnqueueDependentJobs(t) \/ Released(t)
             \/ UserConflict(t) \/ StoreChanged(t) \/ StoreDone(t) \/ ReleaseDone(t)
      PROVE  DatesInv' /\ NoneRevived
  <2>1. CASE \E j \in Jobs : Start(t, j)
    BY <2>1, StartDates
  <2>2. ASSUME NEW j \in Jobs, NEW op \in {"done", "cancelled", "pending"}, ChangeJobState(t, j, op)
        PROVE  DatesInv' /\ NoneRevived
    <3>1. op \in Ops \ {"idle", "perform", "doneWritten"} /\ row[j].state # "deleted"
      BY <2>2 DEF Ops, ChangeJobState, MayDo
    <3>2. tx' = [tx EXCEPT ![t] = New(op, j, row)] /\ Overlap(t, op)
          /\ UNCHANGED <<row, gone, brokenJobs, lost>>
      BY <2>2 DEF ChangeJobState
    <3>3. QED BY <3>1, <3>2, OpenedDates
  <2>3. CASE PerformDone(t) \/ PerformRetry(t) \/ PerformFails(t) \/ CommitFails(t)
    BY <2>3, PerformDates
  <2>4. CASE Kill(t)
    <3>1. /\ tx' = [tx EXCEPT ![t] = Idle]
          /\ UNCHANGED <<row, gone, brokenJobs, overlapped>> /\ lost' \in BOOLEAN
      BY <2>4 DEF Kill, DatesInv, TxTypes
    <3>2. QED BY <3>1, EndedDates
  <2>5. CASE EnqueueDependentJobs(t)
    <3>1. /\ tx' = [tx EXCEPT ![t] = New("release", tx[t].job, row)] /\ Overlap(t, "release")
          /\ UNCHANGED <<row, gone, brokenJobs, lost>> /\ tx[t].job \in Jobs
      BY <2>5, OpenTx DEF EnqueueDependentJobs, DatesInv
    <3>2. "release" \in Ops \ {"idle", "perform", "doneWritten"} /\ "release" \notin UserOps
      BY DEF Ops, UserOps
    <3>3. QED BY <3>1, <3>2, OpenedDates
  <2>6. CASE Released(t)
    BY <2>6, ReleaseDates
  <2>7. CASE UserConflict(t)
    <3>1. /\ tx' = [tx EXCEPT ![t] = Idle]
          /\ UNCHANGED <<row, gone, brokenJobs, overlapped>> /\ lost' \in BOOLEAN
      BY <2>7 DEF UserConflict, ghosts, DatesInv, TxTypes
    <3>2. QED BY <3>1, EndedDates
  <2>8. CASE StoreChanged(t) \/ StoreDone(t)
    BY <2>8, StoreDates
  <2>9. CASE ReleaseDone(t)
    BY <2>9, ReleaseDoneDates
  <2>10. QED BY <1>1, <2>1, <2>2, <2>3, <2>4, <2>5, <2>6, <2>7, <2>8, <2>9
<1>2. CASE JobAutovacuum \/ MonthPasses
  BY <1>2, CronDates
<1>3. CASE UNCHANGED jobTxVars
  BY <1>3 DEF jobTxVars, ghosts, DatesInv, TxTypes, OnlyOver
<1>4. NoneRevived => OnlyOver
  BY DEF NoneRevived, OnlyOver
<1>5. QED BY <1>1, <1>2, <1>3, <1>4 DEF JobTxNext

LEMMA DatesInit == JobTxInit => DatesInv
<1> SUFFICES ASSUME JobTxInit PROVE DatesInv
  OBVIOUS
<1>1. TxTypes
  BY DEF JobTxInit, TxTypes, Row, States, Dates, Idle
<1>2. Dated(row, brokenJobs)
  BY DEF JobTxInit, Dated, DatedRow
<1>3. \A t \in Slots : tx[t].op = "idle"
  BY DEF JobTxInit, Idle
<1>4. QED BY <1>1, <1>2, <1>3 DEF DatesInv

\* The vacuum looks at dates and not at states, and yet it deletes only jobs
\* that are over, whoever works on them at the time (autovacuum).
THEOREM OnlyOverAreVacuumed == JobTxSpec => OnlyOverVacuumed
<1>1. DatesInv /\ [JobTxNext]_jobTxVars => DatesInv' /\ OnlyOver
  BY DatesNext
<1>2. JobTxSpec => [][OnlyOver]_jobTxVars
  BY <1>1, DatesInit, PTL DEF JobTxSpec
<1>3. OnlyOverVacuumed <=> [][OnlyOver]_jobTxVars
  BY PTL DEF OnlyOverVacuumed, OnlyOver
<1>4. QED BY <1>2, <1>3

-----------------------------------------------------------------------------
(* No job is forgotten                                                     *)

Working == {"perform", "hung"}
Releasing == {"toRelease", "release"}

\* What a transaction has not been told is stale is as it has read it.
SnapshotHolds ==
  \A t \in Slots : tx[t].op \notin {"idle", "toRelease"} =>
    \A j \in Jobs \ tx[t].stale : row[j].state = tx[t].snap[j].state

\* A worker keeps its job, and has it alone.
WorkersApart ==
  \A t \in Slots : tx[t].op \in Working =>
    /\ row[tx[t].job].state = "started"
    /\ \A u \in Slots \ {t} : tx[u].op \in Working => tx[u].job # tx[t].job

\* A user is alone with autovacuum, and has not written what it has deleted.
UsersAlone ==
  \A t \in Slots : tx[t].op \in UserOps =>
    /\ \A u \in Slots \ {t} : tx[u].op = "idle"
    /\ \A j \in tx[t].stale :
         /\ row[j].state = "deleted"
         /\ j \in gone => tx[t].snap[j].state \in {"done", "deleted"}
    /\ tx[t].op = "doneWritten" => tx[t].job \notin tx[t].stale

\* The workers, the users and the deleted jobs, of a run without overlaps.
Apart == WorkersApart /\ UsersAlone /\ \A p \in gone : row[p].state = "deleted"

MayStart(c) ==
  /\ row[c].state = "wait_dependencies"
  /\ \A p \in Parents[c] : row[p].state = "done" \/ p \in gone

\* The transaction in t will release c: what it has read shows c as a child
\* that waits for nothing, or it is still to read.
WillRelease(t, c) ==
  /\ tx[t].op \in Releasing /\ tx[t].job \in Parents[c]
  /\ tx[t].op = "release" => c \in Children(tx[t].job, tx[t].snap)

AllReleased == \A c \in Jobs : MayStart(c) => \E t \in Slots : WillRelease(t, c)

ReleaseInv ==
  /\ DatesInv
  /\ SnapshotHolds
  /\ ~overlapped => Apart
  /\ ~overlapped /\ ~lost => AllReleased

LEMMA ReleaseInvImplies == ReleaseInv => NoneForgotten
  BY DEF ReleaseInv, AllReleased, MayStart, WillRelease, Releasing, NoneForgotten

LEMMA ReleaseInit == JobTxInit => ReleaseInv
<1> SUFFICES ASSUME JobTxInit PROVE ReleaseInv
  OBVIOUS
<1>1. \A t \in Slots : tx[t].op = "idle"
  BY DEF JobTxInit, Idle
<1>2. SnapshotHolds /\ WorkersApart /\ UsersAlone
  BY <1>1 DEF SnapshotHolds, WorkersApart, UsersAlone, Working, UserOps
<1>3. AllReleased
  BY JobTransactionsAssumption DEF JobTxInit, AllReleased, MayStart
<1>4. QED BY <1>2, <1>3, DatesInit DEF ReleaseInv, JobTxInit, Apart

LEMMA CommitSnapshots ==
  ASSUME TxTypes, SnapshotHolds, NEW t \in Slots, NEW C \in SUBSET Jobs, NEW w,
         NEW rec, Committed(t, C, w, rec),
         rec.op \in {"idle", "toRelease"} \/ rec.snap = row'
  PROVE  SnapshotHolds'
<1> SUFFICES ASSUME NEW u \in Slots, tx'[u].op \notin {"idle", "toRelease"},
                    NEW j \in Jobs \ tx'[u].stale
             PROVE  row'[j].state = tx'[u].snap[j].state
  BY DEF SnapshotHolds
<1>1. CASE u = t
  BY <1>1 DEF Committed
<1>2. CASE u # t
  <2>1. /\ tx[u].op \notin {"idle", "toRelease"} /\ tx'[u].snap = tx[u].snap
        /\ tx'[u].stale = tx[u].stale \cup C
    BY <1>2 DEF Committed
  <2>2. row'[j] = row[j] /\ j \notin tx[u].stale
    BY <2>1 DEF Committed
  <2>3. QED BY <2>1, <2>2 DEF SnapshotHolds
<1>3. QED BY <1>1, <1>2

LEMMA OtherSnapshots ==
  ASSUME TxTypes, SnapshotHolds, NEW t \in Slots, NEW rec, row' = row,
         tx' = [tx EXCEPT ![t] = rec],
         \/ rec.op \in {"idle", "toRelease"}
         \/ rec.snap = row
         \/ /\ tx[t].op \notin {"idle", "toRelease"}
            /\ rec.snap = tx[t].snap /\ rec.stale = tx[t].stale
  PROVE  SnapshotHolds'
<1>1. \A u \in Slots : tx'[u] = IF u = t THEN rec ELSE tx[u]
  BY DEF TxTypes
<1>2. QED BY <1>1 DEF SnapshotHolds

\* A commit by anyone but a user who goes on, when the others are no users.
LEMMA CommitApart ==
  ASSUME Apart, NEW t \in Slots, NEW C \in SUBSET Jobs, NEW w, NEW rec,
         Committed(t, C, w, rec), gone' = gone, gone \subseteq Jobs, rec.op \notin UserOps,
         \A u \in Slots \ {t} : tx[u].op \notin UserOps,
         \A u \in Slots \ {t} : tx[u].op \in Working => tx[u].job \notin C,
         \A c \in C : row[c].state # "deleted",
         rec.op \in Working =>
            /\ row'[rec.job].state = "started"
            /\ \A u \in Slots \ {t} : tx[u].op \in Working => tx[u].job # rec.job,
         \A u \in Slots : tx[u].op # "idle" => tx[u].job \in Jobs
  PROVE  Apart'
<1>1. \A u \in Slots \ {t} : /\ tx'[u].op = tx[u].op
                             /\ tx[u].op # "idle" => tx'[u].job = tx[u].job
  BY DEF Committed
<1>2. UsersAlone'
  BY <1>1 DEF UsersAlone, Committed
<1>3. \A p \in gone' : row'[p].state = "deleted"
  BY DEF Committed, Apart
<1>4. WorkersApart'
  <2> SUFFICES ASSUME NEW v \in Slots, tx'[v].op \in Working
               PROVE  /\ row'[tx'[v].job].state = "started"
                      /\ \A u \in Slots \ {v} : tx'[u].op \in Working => tx'[u].job # tx'[v].job
    BY DEF WorkersApart
  <2>0. "idle" \notin Working
    BY DEF Working
  <2>1. CASE v = t
    <3>1. tx'[v] = rec
      BY <2>1 DEF Committed
    <3>2. QED BY <1>1, <2>0, <2>1, <3>1
  <2>2. CASE v # t
    <3>1. tx[v].op \in Working /\ tx'[v].job = tx[v].job /\ tx[v].job \in Jobs
      BY <1>1, <2>0, <2>2
    <3>2. row'[tx[v].job] = row[tx[v].job] /\ row[tx[v].job].state = "started"
      BY <2>2, <3>1 DEF Committed, Apart, WorkersApart
    <3>3. ASSUME NEW u \in Slots \ {v}, tx'[u].op \in Working
          PROVE  tx'[u].job # tx[v].job
      <4>1. CASE u = t
        BY <2>2, <3>1, <3>3, <4>1 DEF Committed
      <4>2. CASE u # t
        BY <1>1, <2>0, <3>1, <3>3, <4>2 DEF Apart, WorkersApart
      <4>3. QED BY <4>1, <4>2
    <3>4. QED BY <3>1, <3>2, <3>3
  <2>3. QED BY <2>1, <2>2
<1>5. QED BY <1>2, <1>3, <1>4 DEF Apart

\* A step that writes no row, of anyone but a user.
LEMMA OtherApart ==
  ASSUME TxTypes, Apart, NEW t \in Slots, NEW rec, row' = row, gone' = gone,
         tx' = [tx EXCEPT ![t] = rec], rec.op \notin UserOps,
         \A u \in Slots \ {t} : tx[u].op \notin UserOps,
         rec.op \in Working => tx[t].op \in Working /\ rec.job = tx[t].job
  PROVE  Apart'
<1>1. \A u \in Slots : tx'[u] = IF u = t THEN rec ELSE tx[u]
  BY DEF TxTypes
<1>2. UsersAlone'
  BY <1>1 DEF UsersAlone
<1>3. WorkersApart'
  BY <1>1 DEF WorkersApart, Apart
<1>4. QED BY <1>2, <1>3 DEF Apart

\* The transaction that will release a job is not disturbed by another one.
LEMMA StillReleases ==
  ASSUME NEW t \in Slots, NEW C, NEW w, NEW rec, Committed(t, C, w, rec),
         NEW u \in Slots \ {t}, NEW c \in Jobs, WillRelease(u, c)
  PROVE  WillRelease(u, c)'
<1>1. tx[u].op \in Releasing /\ tx[u].op # "idle"
  BY DEF WillRelease, Releasing
<1>2. tx'[u].op = tx[u].op /\ tx'[u].job = tx[u].job /\ tx'[u].snap = tx[u].snap
  BY <1>1 DEF Committed
<1>3. QED BY <1>2 DEF WillRelease

LEMMA CommitReleased ==
  ASSUME AllReleased, NEW t \in Slots, NEW C, NEW w, NEW rec, Committed(t, C, w, rec),
         \A c \in Jobs : MayStart(c)' => (MayStart(c) /\ ~WillRelease(t, c)) \/ WillRelease(t, c)'
  PROVE  AllReleased'
<1> SUFFICES ASSUME NEW c \in Jobs, MayStart(c)'
             PROVE  \E u \in Slots : WillRelease(u, c)'
  BY DEF AllReleased
<1>1. CASE WillRelease(t, c)'
  BY <1>1
<1>2. CASE MayStart(c) /\ ~WillRelease(t, c)
  <2>1. PICK u \in Slots : WillRelease(u, c)
    BY <1>2 DEF AllReleased
  <2>2. u \in Slots \ {t}
    BY <1>2, <2>1
  <2>3. QED BY <2>1, <2>2, StillReleases
<1>3. QED BY <1>1, <1>2

\* A step that writes no row, of a transaction that releases nothing.
LEMMA OtherReleased ==
  ASSUME TxTypes, AllReleased, NEW t \in Slots, NEW rec, row' = row, gone' = gone,
         tx' = [tx EXCEPT ![t] = rec], tx[t].op \notin Releasing
  PROVE  AllReleased'
<1> SUFFICES ASSUME NEW c \in Jobs, MayStart(c)'
             PROVE  \E u \in Slots : WillRelease(u, c)'
  BY DEF AllReleased
<1>1. MayStart(c)
  BY DEF MayStart
<1>2. PICK u \in Slots : WillRelease(u, c)
  BY <1>1 DEF AllReleased
<1>3. u # t
  BY <1>2 DEF WillRelease
<1>4. tx'[u] = tx[u]
  BY <1>3 DEF TxTypes
<1>5. WillRelease(u, c)'
  BY <1>2, <1>4 DEF WillRelease
<1>6. QED BY <1>5
ReleaseKept ==
  /\ SnapshotHolds'
  /\ ~overlapped' => Apart'
  /\ ~overlapped' /\ ~lost' => AllReleased'

LEMMA NoUserBeside ==
  ASSUME Apart, NEW t \in Slots, tx[t].op # "idle"
  PROVE  \A u \in Slots \ {t} : tx[u].op \notin UserOps
  BY DEF Apart, UsersAlone, UserOps

LEMMA InvTypes ==
  ASSUME ReleaseInv
  PROVE  /\ DatesInv /\ TxTypes /\ SnapshotHolds /\ gone \subseteq Jobs
         /\ \A u \in Slots : tx[u].op # "idle" => tx[u].job \in Jobs
<1>1. DatesInv /\ TxTypes /\ SnapshotHolds /\ gone \subseteq Jobs
  BY DEF ReleaseInv, DatesInv, TxTypes
<1>2. QED BY <1>1, OpenTx

\* A worker that commits its job.
LEMMA WorkerCommit ==
  ASSUME ReleaseInv, NEW t \in Slots, tx[t].op = "perform", NEW r \in Row,
         NEW rec \in Tx \cup {Idle}, rec.op \in {"idle", "toRelease"},
         CommitRows(t, Single(tx[t].job, r), rec), UNCHANGED <<gone, overlapped, lost>>,
         \A c \in Jobs : /\ Apart /\ row'[tx[t].job] = r
                         /\ Committed(t, {tx[t].job}, Single(tx[t].job, r), rec)
                         /\ MayStart(c)'
                         => MayStart(c) \/ WillRelease(t, c)'
  PROVE  ReleaseKept
<1> DEFINE j == tx[t].job
           w == Single(j, r)
<1>1. DatesInv /\ TxTypes /\ SnapshotHolds /\ gone \subseteq Jobs /\ j \in Jobs
      /\ \A u \in Slots : tx[u].op # "idle" => tx[u].job \in Jobs
  BY InvTypes
<1>2. w \in [{j} -> Row] /\ w[j] = r /\ {j} \in SUBSET Jobs
  BY <1>1, SingleType
<1>3. Committed(t, {j}, w, rec)
  <2>1. CommitRows(t, w, rec)
    OBVIOUS
  <2> HIDE DEF w, j
  <2>2. QED BY <1>1, <1>2, <2>1, CommitStep
<1>4. row'[j] = r
  BY <1>1, <1>2, <1>3 DEF Committed
<1>5. SnapshotHolds'
  BY <1>1, <1>2, <1>3, CommitSnapshots
<1>6. ASSUME ~overlapped PROVE Apart'
  <2>1. Apart
    BY <1>6 DEF ReleaseInv
  <2>2. \A u \in Slots \ {t} : tx[u].op \notin UserOps
    BY <2>1, NoUserBeside
  <2>3. row[j].state = "started" /\ \A u \in Slots \ {t} : tx[u].op \in Working => tx[u].job # j
    BY <2>1 DEF Apart, WorkersApart, Working
  <2>4. rec.op \notin Working /\ rec.op \notin UserOps
    BY DEF Working, UserOps
  <2>5. \A c \in {j} : row[c].state # "deleted"
    BY <2>3
  <2> HIDE DEF w
  <2>6. QED BY <1>1, <1>2, <1>3, <2>1, <2>2, <2>3, <2>4, <2>5, CommitApart
<1>7. ASSUME ~overlapped, ~lost PROVE AllReleased'
  <2>1. AllReleased /\ Apart
    BY <1>7 DEF ReleaseInv
  <2>2. \A c : ~WillRelease(t, c)
    BY DEF WillRelease, Releasing
  <2>3. \A c \in Jobs : MayStart(c)' => (MayStart(c) /\ ~WillRelease(t, c)) \/ WillRelease(t, c)'
    BY <1>3, <1>4, <2>1, <2>2
  <2> HIDE DEF w, j
  <2>4. QED BY <1>3, <2>1, <2>3, CommitReleased
<1>8. QED BY <1>5, <1>6, <1>7 DEF ReleaseKept
\* A job that a commit has not written, and that waits for nothing after it,
\* waited for nothing before.
LEMMA ReadyBefore ==
  ASSUME Apart, NEW t, NEW j \in Jobs, NEW w, NEW rec, Committed(t, {j}, w, rec),
         gone' = gone, row[j].state # "deleted", NEW c \in Jobs, c # j, MayStart(c)',
         row'[j].state # "done" \/ j \notin Parents[c]
  PROVE  MayStart(c)
<1>1. row'[c] = row[c]
  BY DEF Committed
<1>2. ASSUME NEW p \in Parents[c] PROVE row[p].state = "done" \/ p \in gone
  <2>1. p \in Jobs
    BY JobTransactionsAssumption
  <2>2. row'[p].state = "done" \/ p \in gone
    BY DEF MayStart
  <2>3. CASE p = j
    BY <2>2, <2>3 DEF Apart
  <2>4. CASE p # j
    BY <2>1, <2>2, <2>4 DEF Committed
  <2>5. QED BY <2>3, <2>4
<1>3. QED BY <1>1, <1>2 DEF MayStart

\* A job that set_pending lets wait has a parent to wait for.
LEMMA PendingWaits ==
  ASSUME Apart, NEW t, NEW j \in Jobs, NEW r \in Row, NEW w, NEW rec,
         Committed(t, {j}, w, rec), gone' = gone, row[j].state # "deleted",
         row'[j] = SetPending(r, j, row)
  PROVE  ~MayStart(j)'
<1> SUFFICES ASSUME MayStart(j)' PROVE FALSE
  OBVIOUS
<1>1. row'[j].state = "wait_dependencies"
  BY DEF MayStart
<1>2. PICK p \in Parents[j] : row[p].state \notin {"done", "deleted"}
  BY <1>1, PendingDates DEF ParentsDone
<1>3. p \in Jobs /\ p \notin gone
  BY <1>2, JobTransactionsAssumption DEF Apart
<1>4. row'[p].state = "done"
  BY <1>3 DEF MayStart
<1>5. p # j
  BY <1>1, <1>4
<1>6. row'[p] = row[p]
  BY <1>3, <1>5 DEF Committed
<1>7. QED BY <1>2, <1>4, <1>6

LEMMA PerformReleased ==
  ASSUME ReleaseInv, NEW t \in Slots,
         PerformDone(t) \/ PerformRetry(t) \/ PerformFails(t)
  PROVE  ReleaseKept
<1> DEFINE j == tx[t].job
           r == tx[t].snap[j]
<1>1. tx[t].op = "perform" /\ UNCHANGED <<gone, overlapped, lost>>
  BY DEF PerformDone, PerformRetry, PerformFails, ghosts
<1>2. /\ DatesInv /\ j \in Jobs /\ r \in Row /\ row \in [Jobs -> Row]
      /\ Idle \in Tx \cup {Idle} /\ Idle.op = "idle"
  BY <1>1, OpenTx, InvTypes DEF TxTypes, Idle
<1>3. Apart => row[j].state # "deleted"
  BY <1>1 DEF Apart, WorkersApart, Working
<1>4. CASE PerformDone(t)
  <2> DEFINE rec == New("toRelease", j, row)
  <2>1. rec \in Tx /\ rec.op = "toRelease" /\ rec.job = j
    BY <1>2, NewType DEF New, Ops
  <2>2. CommitRows(t, Single(j, SetDone(r)), rec)
    BY <1>4 DEF PerformDone
  <2>3. SetDone(r) \in Row /\ SetDone(r).state = "done"
    BY <1>2, DoneDates
  <2>4. ASSUME NEW c \in Jobs, Apart, row'[j] = SetDone(r),
               Committed(t, {j}, Single(j, SetDone(r)), rec), MayStart(c)'
        PROVE  MayStart(c) \/ WillRelease(t, c)'
    <3>1. CASE j \in Parents[c]
      <4>1. tx'[t] = rec
        BY <2>4 DEF Committed
      <4>2. QED BY <2>1, <3>1, <4>1 DEF WillRelease, Releasing
    <3>2. CASE j \notin Parents[c]
      <4>1. c # j
        BY <2>3, <2>4 DEF MayStart
      <4> HIDE DEF j, r, rec
      <4>2. QED BY <1>1, <1>2, <1>3, <2>4, <3>2, <4>1, ReadyBefore
    <3>3. QED BY <3>1, <3>2
  <2>5. rec.op \in {"idle", "toRelease"} /\ rec \in Tx \cup {Idle}
    BY <2>1
  <2> HIDE DEF r, rec
  <2>6. QED BY <1>1, <2>2, <2>3, <2>4, <2>5, WorkerCommit
<1>5. CASE PerformRetry(t)
  <2> DEFINE q == SetPending(r, j, row)
  <2>1. q \in Row /\ q.state # "done"
    BY <1>2, PendingDates
  <2>2. CommitRows(t, Single(j, q), Idle)
    BY <1>5 DEF PerformRetry
  <2>3. ASSUME NEW c \in Jobs, Apart, row'[j] = q,
               Committed(t, {j}, Single(j, q), Idle), MayStart(c)'
        PROVE  MayStart(c) \/ WillRelease(t, c)'
    <3>1. c # j
      BY <1>1, <1>2, <1>3, <2>3, PendingWaits
    <3> HIDE DEF j, r, q
    <3>2. QED BY <1>1, <1>2, <1>3, <2>1, <2>3, <3>1, ReadyBefore
  <2> HIDE DEF r, q
  <2>4. QED BY <1>1, <1>2, <2>1, <2>2, <2>3, WorkerCommit
<1>6. CASE PerformFails(t)
  <2> DEFINE q == [r EXCEPT !.state = "failed"]
  <2>1. q \in Row /\ q.state = "failed"
    BY <1>2 DEF Row, States
  <2>2. CommitRows(t, Single(j, q), Idle)
    BY <1>6 DEF PerformFails
  <2>3. ASSUME NEW c \in Jobs, Apart, row'[j] = q,
               Committed(t, {j}, Single(j, q), Idle), MayStart(c)'
        PROVE  MayStart(c) \/ WillRelease(t, c)'
    <3>1. c # j
      BY <2>1, <2>3 DEF MayStart
    <3> HIDE DEF j, r, q
    <3>2. QED BY <1>1, <1>2, <1>3, <2>1, <2>3, <3>1, ReadyBefore
  <2> HIDE DEF r, q
  <2>4. QED BY <1>1, <1>2, <2>1, <2>2, <2>3, WorkerCommit
<1>7. QED BY <1>4, <1>5, <1>6
LEMMA FailsReleased ==
  ASSUME ReleaseInv, NEW t \in Slots, CommitFails(t)
  PROVE  ReleaseKept
<1> DEFINE j == tx[t].job
           r == SetDone(tx[t].snap[j])
           q == [r EXCEPT !.state = "failed"]
<1>1. tx[t].op = "perform" /\ UNCHANGED <<gone, overlapped, lost>>
  BY DEF CommitFails
<1>2. /\ DatesInv /\ TxTypes /\ j \in Jobs /\ r \in Row /\ tx[t] \in Tx
      /\ Idle \in Tx \cup {Idle} /\ Idle.op = "idle"
  BY <1>1, OpenTx, InvTypes, DoneDates DEF TxTypes, Idle
<1>3. CASE CommitRows(t, Single(j, q), Idle)
  <2>1. q \in Row /\ q.state = "failed"
    BY <1>2 DEF Row, States
  <2>2. Apart => row[j].state # "deleted"
    BY <1>1 DEF Apart, WorkersApart, Working
  <2>3. ASSUME NEW c \in Jobs, Apart, row'[j] = q,
               Committed(t, {j}, Single(j, q), Idle), MayStart(c)'
        PROVE  MayStart(c) \/ WillRelease(t, c)'
    <3>1. c # j
      BY <2>1, <2>3 DEF MayStart
    <3> HIDE DEF j, r, q
    <3>2. QED BY <1>1, <1>2, <2>1, <2>2, <2>3, <3>1, ReadyBefore
  <2> HIDE DEF r, q
  <2>4. QED BY <1>1, <1>2, <1>3, <2>1, <2>3, WorkerCommit
<1>4. CASE /\ tx' = [tx EXCEPT ![t].op = "hung", ![t].new = Single(j, r)]
           /\ UNCHANGED <<row, brokenJobs>>
  <2> DEFINE rec == Wrote(tx[t], "hung", Single(j, r))
  <2>1. /\ rec.op = "hung" /\ rec.snap = tx[t].snap /\ rec.job = j
        /\ rec.stale = tx[t].stale
    BY <1>2 DEF Wrote, Tx
  <2>2. tx' = [tx EXCEPT ![t] = rec] /\ row' = row
    BY <1>2, <1>4 DEF TxTypes, Wrote
  <2>3. "hung" \notin UserOps /\ "perform" \in Working /\ "perform" \notin Releasing
    BY DEF UserOps, Working, Releasing
  <2> HIDE DEF rec, r
  <2>4. SnapshotHolds'
    BY <1>1, <1>2, <2>1, <2>2, OtherSnapshots, InvTypes
  <2>5. ASSUME ~overlapped PROVE Apart'
    <3>1. Apart
      BY <2>5 DEF ReleaseInv
    <3>2. \A u \in Slots \ {t} : tx[u].op \notin UserOps
      BY <1>1, <3>1, NoUserBeside
    <3>3. QED BY <1>1, <1>2, <2>1, <2>2, <2>3, <3>1, <3>2, OtherApart
  <2>6. ~overlapped /\ ~lost => AllReleased'
    BY <1>1, <1>2, <2>2, <2>3, OtherReleased DEF ReleaseInv
  <2>7. QED BY <1>1, <2>4, <2>5, <2>6 DEF ReleaseKept
<1>5. QED BY <1>3, <1>4 DEF CommitFails

\* A transaction ends without a write: it is killed, or a user's one fails.
LEMMA EndedReleased ==
  ASSUME ReleaseInv, NEW t \in Slots, Kill(t) \/ UserConflict(t)
  PROVE  ReleaseKept
<1>1. /\ tx[t].op # "idle" /\ tx' = [tx EXCEPT ![t] = Idle]
      /\ UNCHANGED <<row, gone, overlapped>>
  BY DEF Kill, UserConflict, ghosts, UserOps
<1>2. ~lost' => ~lost /\ tx[t].op \notin Releasing
  BY DEF Kill, UserConflict, ghosts, UserOps, Releasing
<1>3. Idle.op = "idle" /\ Idle.op \notin UserOps /\ Idle.op \notin Working
  BY DEF Idle, UserOps, Working
<1>4. TxTypes /\ SnapshotHolds
  BY InvTypes
<1>5. SnapshotHolds'
  BY <1>1, <1>3, <1>4, OtherSnapshots
<1>6. ASSUME ~overlapped PROVE Apart'
  <2>1. Apart
    BY <1>6 DEF ReleaseInv
  <2>2. \A u \in Slots \ {t} : tx[u].op \notin UserOps
    BY <1>1, <2>1, NoUserBeside
  <2>3. QED BY <1>1, <1>3, <1>4, <2>1, <2>2, OtherApart
<1>7. ~overlapped /\ ~lost' => AllReleased'
  BY <1>1, <1>2, <1>4, OtherReleased DEF ReleaseInv
<1>8. QED BY <1>1, <1>5, <1>6, <1>7 DEF ReleaseKept

\* The cursor that releases the dependents reads the rows.
LEMMA EnqueueReleased ==
  ASSUME ReleaseInv, NEW t \in Slots, EnqueueDependentJobs(t)
  PROVE  ReleaseKept
<1> DEFINE j == tx[t].job
           rec == New("release", j, row)
<1>1. /\ tx[t].op = "toRelease" /\ tx' = [tx EXCEPT ![t] = rec] /\ UNCHANGED <<row, gone, lost>>
      /\ ~overlapped' => ~overlapped
  BY DEF EnqueueDependentJobs, Overlap
<1>2. rec.op = "release" /\ rec.job = j /\ rec.snap = row
  BY DEF New
<1>3. TxTypes /\ SnapshotHolds
  BY InvTypes
<1>4. SnapshotHolds'
  BY <1>1, <1>2, <1>3, OtherSnapshots
<1>5. ASSUME ~overlapped PROVE Apart'
  <2>1. Apart
    BY <1>5 DEF ReleaseInv
  <2>2. \A u \in Slots \ {t} : tx[u].op \notin UserOps
    BY <1>1, <2>1, NoUserBeside
  <2>3. rec.op \notin UserOps /\ rec.op \notin Working
    BY <1>2 DEF UserOps, Working
  <2>4. QED BY <1>1, <1>3, <2>1, <2>2, <2>3, OtherApart
<1>6. ASSUME ~overlapped, ~lost, NEW c \in Jobs, MayStart(c)'
      PROVE  \E u \in Slots : WillRelease(u, c)'
  <2>1. MayStart(c)
    BY <1>1, <1>6 DEF MayStart
  <2>2. PICK u \in Slots : WillRelease(u, c)
    BY <1>6, <2>1 DEF ReleaseInv, AllReleased
  <2>3. CASE u = t
    <3>1. j \in Parents[c] /\ tx'[t] = rec
      BY <1>1, <1>3, <2>2, <2>3 DEF WillRelease, TxTypes
    <3>2. c \in Children(j, row)
      BY <1>6, <2>1, <3>1 DEF Children, ParentsDone, MayStart, ReleaseInv, Apart
    <3>3. WillRelease(t, c)'
      BY <1>2, <3>1, <3>2 DEF WillRelease, Releasing
    <3>4. QED BY <3>3
  <2>4. CASE u # t
    <3>1. tx'[u] = tx[u]
      BY <1>1, <1>3, <2>4 DEF TxTypes
    <3>2. QED BY <2>2, <3>1 DEF WillRelease
  <2>5. QED BY <2>3, <2>4
<1>7. QED BY <1>1, <1>4, <1>5, <1>6 DEF ReleaseKept, AllReleased

\* A user opens a transaction, or writes the job he has opened.
LEMMA UserReleased ==
  ASSUME ReleaseInv, NEW t \in Slots,
         \/ StoreDone(t)
         \/ \E j \in Jobs, op \in {"done", "cancelled", "pending"} : ChangeJobState(t, j, op)
  PROVE  ReleaseKept
<1>1. TxTypes /\ DatesInv /\ SnapshotHolds
  BY InvTypes
<1>2. CASE StoreDone(t)
  <2> DEFINE j == tx[t].job
             w == Single(j, SetDone(tx[t].snap[j]))
             rec == Wrote(tx[t], "doneWritten", w)
  <2>1. tx[t].op = "done" /\ UNCHANGED <<row, gone, overlapped, lost>> /\ j \notin tx[t].stale
    BY <1>2 DEF StoreDone, Conflict, ghosts
  <2>2. tx[t] \in Tx
    BY <1>1, <2>1, OpenTx
  <2>3. /\ rec.op = "doneWritten" /\ rec.snap = tx[t].snap /\ rec.job = j
        /\ rec.stale = tx[t].stale
    BY <2>2 DEF Wrote, Tx
  <2>4. tx' = [tx EXCEPT ![t] = rec]
    BY <1>1, <1>2, <2>2 DEF StoreDone, TxTypes, Wrote
  <2> HIDE DEF rec, w
  <2>5. SnapshotHolds'
    BY <1>1, <2>1, <2>3, <2>4, OtherSnapshots
  <2>6. ASSUME ~overlapped PROVE Apart'
    <3>1. Apart
      BY <2>6 DEF ReleaseInv
    <3>2. \A u \in Slots : tx'[u] = IF u = t THEN rec ELSE tx[u]
      BY <1>1, <2>4 DEF TxTypes
    <3>3. \A u \in Slots \ {t} : tx[u].op = "idle"
      BY <2>1, <3>1 DEF Apart, UsersAlone, UserOps
    <3>4. "doneWritten" \notin Working /\ "idle" \notin Working /\ "idle" \notin UserOps
      BY DEF Working, UserOps
    <3>5. WorkersApart'
      BY <2>3, <3>2, <3>3, <3>4 DEF WorkersApart
    <3>6. \A i \in tx[t].stale :
            /\ row[i].state = "deleted"
            /\ i \in gone => tx[t].snap[i].state \in {"done", "deleted"}
      BY <2>1, <3>1 DEF Apart, UsersAlone, UserOps
    <3>7. UsersAlone'
      <4> SUFFICES ASSUME NEW v \in Slots, tx'[v].op \in UserOps
                   PROVE  /\ \A u \in Slots \ {v} : tx'[u].op = "idle"
                          /\ \A i \in tx'[v].stale :
                               /\ row'[i].state = "deleted"
                               /\ i \in gone' => tx'[v].snap[i].state \in {"done", "deleted"}
                          /\ tx'[v].op = "doneWritten" => tx'[v].job \notin tx'[v].stale
        BY DEF UsersAlone
      <4>1. v = t
        BY <3>2, <3>3, <3>4
      <4>2. tx'[v] = rec /\ \A u \in Slots \ {v} : tx'[u].op = "idle"
        BY <3>2, <3>3, <4>1
      <4>3. row' = row /\ gone' = gone
        BY <2>1
      <4>4. ASSUME NEW i \in tx[t].stale
            PROVE  /\ row'[i].state = "deleted"
                   /\ i \in gone' => rec.snap[i].state \in {"done", "deleted"}
        BY <2>3, <3>6, <4>3
      <4>5. rec.stale = tx[t].stale /\ rec.job \notin rec.stale
        BY <2>1, <2>3
      <4>6. QED BY <4>2, <4>4, <4>5
    <3>8. QED BY <2>1, <3>1, <3>5, <3>7 DEF Apart
  <2>7. "done" \notin Releasing
    BY DEF Releasing
  <2>8. ~overlapped /\ ~lost => AllReleased'
    BY <1>1, <2>1, <2>4, <2>7, OtherReleased DEF ReleaseInv
  <2>9. QED BY <2>1, <2>5, <2>6, <2>8 DEF ReleaseKept
<1>3. ASSUME NEW j \in Jobs, NEW op \in {"done", "cancelled", "pending"}, ChangeJobState(t, j, op)
      PROVE  ReleaseKept
  <2> DEFINE rec == New(op, j, row)
  <2>1. /\ tx[t].op = "idle" /\ tx' = [tx EXCEPT ![t] = rec]
        /\ UNCHANGED <<row, gone, lost>> /\ Overlap(t, op)
    BY <1>3 DEF ChangeJobState
  <2>2. rec.op = op /\ rec.snap = row /\ rec.stale = {} /\ op # "doneWritten"
    BY DEF New
  <2>3. op \in UserOps /\ op \notin Working /\ "idle" \notin Releasing
    BY DEF UserOps, Working, Releasing
  <2> HIDE DEF rec
  <2>4. SnapshotHolds'
    BY <1>1, <2>1, <2>2, OtherSnapshots
  <2>5. ASSUME ~overlapped' PROVE ~overlapped /\ Apart'
    <3>1. ~overlapped /\ Others(t) = {}
      BY <2>1, <2>3, <2>5 DEF Overlap
    <3>2. Apart
      BY <3>1 DEF ReleaseInv
    <3>3. \A u \in Slots : tx'[u] = IF u = t THEN rec ELSE tx[u]
      BY <1>1, <2>1 DEF TxTypes
    <3>4. \A u \in Slots \ {t} : tx[u].op = "idle"
      BY <3>1 DEF Others
    <3>5. "idle" \notin Working /\ "idle" \notin UserOps
      BY DEF Working, UserOps
    <3>6. WorkersApart'
      BY <2>2, <2>3, <3>3, <3>4, <3>5 DEF WorkersApart
    <3>7. UsersAlone'
      BY <2>2, <3>3, <3>4, <3>5 DEF UsersAlone
    <3>8. QED BY <2>1, <3>1, <3>2, <3>6, <3>7 DEF Apart
  <2>6. ~overlapped /\ ~lost => AllReleased'
    BY <1>1, <2>1, <2>3, OtherReleased DEF ReleaseInv
  <2>7. QED BY <2>1, <2>4, <2>5, <2>6 DEF ReleaseKept
<1>4. QED BY <1>2, <1>3
LEMMA StartReleased ==
  ASSUME ReleaseInv, NEW t \in Slots, NEW j \in Jobs, Start(t, j)
  PROVE  ReleaseKept
<1> DEFINE r == [row[j] EXCEPT !.state = "started"]
           w == Single(j, r)
           rec == New("perform", j, Updated(row, w))
<1>1. /\ tx[t].op = "idle" /\ row[j].state = "pending" /\ UNCHANGED <<gone, lost>>
      /\ CommitRows(t, w, rec) /\ Overlap(t, "perform")
  BY DEF Start
<1>2. DatesInv /\ TxTypes /\ SnapshotHolds /\ gone \subseteq Jobs
      /\ \A u \in Slots : tx[u].op # "idle" => tx[u].job \in Jobs
  BY InvTypes
<1>3. r \in Row /\ r.state = "started" /\ row \in [Jobs -> Row]
  BY <1>2 DEF TxTypes, Row, States
<1>4. w \in [{j} -> Row] /\ w[j] = r /\ {j} \in SUBSET Jobs
  BY <1>3, SingleType
<1>5. Updated(row, w) \in [Jobs -> Row] /\ row' = Updated(row, w)
  <2>1. row' = Updated(row, w)
    BY <1>1 DEF CommitRows
  <2> HIDE DEF w
  <2>2. QED BY <1>3, <1>4, <2>1, UpdatedType
<1>6. rec \in Tx /\ rec.op = "perform" /\ rec.job = j /\ rec.snap = row'
  BY <1>5, NewType DEF New, Ops
<1> HIDE DEF r, w, rec
<1>7. Committed(t, {j}, w, rec)
  BY <1>1, <1>2, <1>4, <1>6, CommitStep
<1>8. row'[j].state = "started"
  BY <1>3, <1>4, <1>7 DEF Committed
<1>9. SnapshotHolds'
  BY <1>2, <1>4, <1>6, <1>7, CommitSnapshots
<1>10. ASSUME ~overlapped' PROVE ~overlapped /\ Apart'
  <2>1. ~overlapped /\ \A u \in Others(t) : tx[u].op \notin UserOps
    BY <1>1, <1>10 DEF Overlap
  <2>2. Apart
    BY <2>1 DEF ReleaseInv
  <2>3. \A u \in Slots \ {t} : tx[u].op \notin UserOps
    BY <2>1 DEF Others, UserOps
  <2>4. \A u \in Slots \ {t} : tx[u].op \in Working => tx[u].job # j
    BY <1>1, <2>2 DEF Apart, WorkersApart
  <2>5. \A c \in {j} : row[c].state # "deleted"
    BY <1>1
  <2>6. rec.op \notin UserOps
    BY <1>6 DEF UserOps
  <2>7. \A u \in Slots \ {t} : tx[u].op \in Working => tx[u].job \notin {j}
    BY <2>4
  <2>8. QED BY <1>1, <1>2, <1>4, <1>6, <1>7, <1>8, <2>1, <2>2, <2>3, <2>4, <2>5, <2>6, <2>7, CommitApart
<1>11. ASSUME ~overlapped, ~lost PROVE AllReleased'
  <2>1. Apart /\ AllReleased
    BY <1>11 DEF ReleaseInv
  <2>2. ASSUME NEW c \in Jobs, MayStart(c)' PROVE MayStart(c) /\ ~WillRelease(t, c)
    <3>1. c # j
      BY <1>8, <2>2 DEF MayStart
    <3>2. MayStart(c)
      BY <1>1, <1>7, <1>8, <2>1, <2>2, <3>1, ReadyBefore
    <3>3. QED BY <1>1, <3>2 DEF WillRelease, Releasing
  <2>3. QED BY <1>7, <2>1, <2>2, CommitReleased
<1>12. QED BY <1>1, <1>9, <1>10, <1>11 DEF ReleaseKept

\* A worker releases the dependents of the job it has done.
LEMMA WorkerReleases ==
  ASSUME ReleaseInv, NEW t \in Slots, Released(t)
  PROVE  ReleaseKept
<1> DEFINE j == tx[t].job
           snap == tx[t].snap
           C == Children(j, snap)
           w == Pending(C, snap)
<1>1. tx[t].op = "release" /\ UNCHANGED <<gone, overlapped>>
  BY DEF Released
<1>2. /\ DatesInv /\ TxTypes /\ SnapshotHolds /\ gone \subseteq Jobs /\ j \in Jobs
      /\ \A u \in Slots : tx[u].op # "idle" => tx[u].job \in Jobs
      /\ snap \in [Jobs -> Row] /\ C \in SUBSET Jobs
  BY <1>1, InvTypes, OpenTx, ChildrenType
<1>3. Idle \in Tx \cup {Idle} /\ Idle.op = "idle" /\ Idle.op \notin UserOps /\ Idle.op \notin Working
  BY DEF Idle, UserOps, Working
<1>4. ASSUME Apart PROVE \A u \in Slots \ {t} : tx[u].op \notin UserOps
  BY <1>1, <1>4, NoUserBeside
<1>5. CASE Conflict(t, C)
  <2>1. tx' = [tx EXCEPT ![t] = Idle] /\ lost' /\ row' = row
    BY <1>5 DEF Released
  <2>2. SnapshotHolds'
    BY <1>2, <1>3, <2>1, OtherSnapshots
  <2>3. ASSUME ~overlapped PROVE Apart'
    <3>1. Apart
      BY <2>3 DEF ReleaseInv
    <3>2. QED BY <1>1, <1>2, <1>3, <1>4, <2>1, <3>1, OtherApart
  <2>4. QED BY <1>1, <2>1, <2>2, <2>3 DEF ReleaseKept
<1>6. CASE ~Conflict(t, C)
  <2>1. CommitRows(t, w, Idle) /\ lost' = lost
    BY <1>6 DEF Released
  <2>2. w \in [C -> Row] /\ \A c \in C : w[c].state = "pending"
    <3> HIDE DEF C, snap
    <3>1. w \in [C -> Row] /\ \A c \in C : w[c] = [snap[c] EXCEPT !.state = "pending"]
      BY <1>2, PendingType
    <3>2. QED BY <1>2, <3>1 DEF Row
  <2>3. \A c \in C : row[c].state = "wait_dependencies"
    BY <1>1, <1>2, <1>6 DEF Conflict, Children, SnapshotHolds
  <2> HIDE DEF w, C, snap
  <2>4. Committed(t, C, w, Idle)
    BY <1>2, <1>3, <2>1, <2>2, CommitStep
  <2>5. \A c \in C : row'[c].state = "pending"
    BY <1>2, <2>2, <2>4 DEF Committed
  <2>6. SnapshotHolds'
    BY <1>2, <1>3, <2>4, CommitSnapshots
  <2>7. ASSUME ~overlapped PROVE Apart'
    <3>1. Apart
      BY <2>7 DEF ReleaseInv
    <3>2. \A u \in Slots \ {t} : tx[u].op \in Working => tx[u].job \notin C
      BY <2>3, <3>1 DEF Apart, WorkersApart
    <3>3. \A c \in C : row[c].state # "deleted"
      BY <2>3
    <3>4. QED BY <1>1, <1>2, <1>3, <1>4, <2>4, <3>1, <3>2, <3>3, CommitApart
  <2>8. ASSUME ~overlapped, ~lost PROVE AllReleased'
    <3>1. Apart /\ AllReleased
      BY <2>8 DEF ReleaseInv
    <3>2. ASSUME NEW c \in Jobs, MayStart(c)' PROVE MayStart(c) /\ ~WillRelease(t, c)
      <4>1. c \notin C /\ row'[c] = row[c]
        BY <2>4, <2>5, <3>2 DEF MayStart, Committed
      <4>2. ASSUME NEW p \in Parents[c] PROVE row[p].state = "done" \/ p \in gone
        <5>1. p \in Jobs
          BY JobTransactionsAssumption
        <5>2. row'[p].state = "done" \/ p \in gone
          BY <1>1, <3>2 DEF MayStart
        <5>3. QED BY <2>4, <2>5, <5>1, <5>2 DEF Committed
      <4>3. MayStart(c)
        BY <3>2, <4>1, <4>2 DEF MayStart
      <4>4. ~WillRelease(t, c)
        BY <1>1, <4>1 DEF WillRelease, C, snap
      <4>5. QED BY <4>3, <4>4
    <3>3. QED BY <2>4, <3>1, <3>2, CommitReleased
  <2>9. QED BY <1>1, <2>1, <2>6, <2>7, <2>8 DEF ReleaseKept
<1>7. QED BY <1>5, <1>6
\* A user commits: there is nobody else, so nothing is to be released before
\* the commit, nor may be after it.
LEMMA UserCommit ==
  ASSUME ReleaseInv, NEW t \in Slots, tx[t].op \in UserOps, NEW C \in SUBSET Jobs,
         NEW w \in [C -> Row], CommitRows(t, w, Idle), UNCHANGED <<gone, overlapped, lost>>,
         Apart => \A c \in C : row[c].state # "deleted",
         \A c \in Jobs : /\ Apart /\ Committed(t, C, w, Idle)
                         /\ \A d \in Jobs : ~MayStart(d)
                         => ~MayStart(c)'
  PROVE  ReleaseKept
<1>1. /\ TxTypes /\ SnapshotHolds /\ gone \subseteq Jobs
      /\ \A u \in Slots : tx[u].op # "idle" => tx[u].job \in Jobs
  BY InvTypes
<1>2. Idle \in Tx \cup {Idle} /\ Idle.op = "idle" /\ Idle.op \notin UserOps /\ Idle.op \notin Working
  BY DEF Idle, UserOps, Working
<1>3. Committed(t, C, w, Idle)
  BY <1>1, <1>2, CommitStep
<1>4. SnapshotHolds'
  BY <1>1, <1>2, <1>3, CommitSnapshots
<1>5. ASSUME ~overlapped PROVE Apart' /\ \A u \in Slots : tx[u].op \notin Releasing
  <2>1. Apart
    BY <1>5 DEF ReleaseInv
  <2>2. \A u \in Slots \ {t} : tx[u].op = "idle"
    BY <2>1 DEF Apart, UsersAlone
  <2>3. "idle" \notin UserOps /\ "idle" \notin Working /\ tx[t].op \notin Releasing /\ "idle" \notin Releasing
    BY DEF UserOps, Working, Releasing
  <2>4. Apart'
    BY <1>1, <1>2, <1>3, <2>1, <2>2, <2>3, CommitApart
  <2>5. QED BY <2>2, <2>3, <2>4
<1>6. ASSUME ~overlapped, ~lost PROVE AllReleased'
  <2>1. Apart /\ AllReleased
    BY <1>6 DEF ReleaseInv
  <2>2. \A d \in Jobs : ~MayStart(d)
    BY <1>5, <1>6, <2>1 DEF AllReleased, WillRelease
  <2>3. \A c \in Jobs : ~MayStart(c)'
    BY <1>3, <2>1, <2>2
  <2>4. QED BY <2>3 DEF AllReleased
<1>7. QED BY <1>4, <1>5, <1>6 DEF ReleaseKept

\* What a user has read is true still, but for what autovacuum has deleted.
LEMMA UserSnapshot ==
  ASSUME ReleaseInv, Apart, NEW t \in Slots, tx[t].op \in UserOps, NEW p \in Jobs
  PROVE  /\ row[p].state = tx[t].snap[p].state \/ row[p].state = "deleted"
         /\ row[p].state = "done" => tx[t].snap[p].state = "done"
         /\ p \in gone => tx[t].snap[p].state \in {"done", "deleted"}
<1>1. tx[t].op \notin {"idle", "toRelease"}
  BY DEF UserOps
<1>2. \A j \in Jobs \ tx[t].stale : row[j].state = tx[t].snap[j].state
  BY <1>1 DEF ReleaseInv, SnapshotHolds
<1>3. \A j \in tx[t].stale : row[j].state = "deleted" /\ (j \in gone => tx[t].snap[j].state \in {"done", "deleted"})
  BY DEF Apart, UsersAlone
<1>4. p \in gone => row[p].state = "deleted"
  BY DEF Apart
<1>5. QED BY <1>2, <1>3, <1>4

LEMMA StoreReleased ==
  ASSUME ReleaseInv, NEW t \in Slots, StoreChanged(t)
  PROVE  ReleaseKept
<1> DEFINE j == tx[t].job
           snap == tx[t].snap
           q == IF tx[t].op = "cancelled" THEN SetCancelled(snap[j]) ELSE SetPending(snap[j], j, snap)
<1>1. /\ tx[t].op \in UserOps /\ tx[t].op # "idle" /\ UNCHANGED <<gone, overlapped, lost>>
      /\ CommitRows(t, Single(j, q), Idle) /\ j \notin tx[t].stale
  BY DEF StoreChanged, UserOps, Conflict, ghosts
<1>2. j \in Jobs /\ snap \in [Jobs -> Row] /\ snap[j] \in Row /\ TxTypes /\ DatesInv
  BY <1>1, InvTypes, OpenTx
<1>3. q \in Row /\ q.state # "done" /\ (q.state = "wait_dependencies" => ~ParentsDone(j, snap))
  BY <1>2, CancelledDates, PendingDates
<1>4. row[j].state = snap[j].state /\ snap[j].state # "deleted"
  <2>1. tx[t].op \notin {"idle", "toRelease"}
    BY <1>1 DEF UserOps
  <2>2. row[j].state = snap[j].state
    BY <1>1, <1>2, <2>1, InvTypes DEF SnapshotHolds
  <2>3. QED BY <1>1, <1>2, <2>2 DEF DatesInv, TxDated
<1> DEFINE w == Single(j, q)
           C == {j}
<1>5. w \in [C -> Row] /\ w[j] = q /\ C \in SUBSET Jobs /\ CommitRows(t, w, Idle)
  <2> HIDE DEF q
  <2>1. QED BY <1>1, <1>2, <1>3, SingleType
<1>6. ASSUME NEW c \in Jobs, Apart, Committed(t, C, w, Idle), \A d \in Jobs : ~MayStart(d)
      PROVE  ~MayStart(c)'
  <2> SUFFICES ASSUME MayStart(c)' PROVE FALSE
    OBVIOUS
  <2> HIDE DEF q, w
  <2>1. row'[j] = q
    BY <1>2, <1>5, <1>6 DEF Committed
  <2>2. CASE c # j
    <3>1. MayStart(c)
      BY <1>1, <1>2, <1>3, <1>4, <1>6, <2>1, <2>2, ReadyBefore
    <3>2. QED BY <1>6, <3>1
  <2>3. CASE c = j
    <3>1. q.state = "wait_dependencies"
      BY <2>1, <2>3 DEF MayStart
    <3>2. PICK p \in Parents[j] : snap[p].state \notin {"done", "deleted"}
      BY <1>3, <3>1 DEF ParentsDone
    <3>3. p \in Jobs
      BY <1>2, JobTransactionsAssumption
    <3>4. p \notin gone /\ row[p].state # "done"
      BY <1>1, <1>6, <3>2, <3>3, UserSnapshot
    <3>5. row'[p].state = "done"
      BY <1>1, <2>3, <3>4 DEF MayStart
    <3>6. p # j
      BY <1>3, <2>1, <3>5
    <3>7. row'[p] = row[p]
      BY <1>6, <3>3, <3>6 DEF Committed
    <3>8. QED BY <3>4, <3>5, <3>7
  <2>4. QED BY <2>2, <2>3
<1>7. \A c \in C : row[c].state # "deleted"
  BY <1>4
<1> HIDE DEF w, C
<1>8. QED BY <1>1, <1>5, <1>6, <1>7, UserCommit

LEMMA DoneReleased ==
  ASSUME ReleaseInv, NEW t \in Slots, ReleaseDone(t)
  PROVE  ReleaseKept
<1> DEFINE j == tx[t].job
           snap == tx[t].snap
           n == tx[t].new
           seen == Updated(snap, n)
           C == Children(j, seen)
           D == C \cup {j}
           w == Updated(n, Pending(C, seen))
<1>1. /\ tx[t].op = "doneWritten" /\ tx[t].op # "idle" /\ tx[t].op \in UserOps
      /\ UNCHANGED <<gone, overlapped, lost>> /\ CommitRows(t, w, Idle)
      /\ C \cap tx[t].stale = {}
  BY DEF ReleaseDone, UserOps, Conflict, ghosts
<1>2. j \in Jobs /\ snap \in [Jobs -> Row] /\ TxTypes /\ DatesInv /\ C \in SUBSET Jobs
  BY <1>1, InvTypes, OpenTx, ChildrenType
<1>3. n \in [{j} -> Row] /\ n[j].state = "done" /\ snap[j].state # "deleted"
  BY <1>1, <1>2 DEF DatesInv, TxDated
<1>4. seen \in [Jobs -> Row] /\ \A i \in Jobs : seen[i] = IF i \in {j} THEN n[i] ELSE snap[i]
  <2>1. {j} \in SUBSET Jobs
    BY <1>2
  <2> HIDE DEF j, n, snap
  <2>2. QED BY <1>2, <1>3, <2>1, UpdatedType
<1>5. \A c \in C : c # j /\ snap[c].state = "wait_dependencies"
  <2> HIDE DEF seen, n, snap
  <2>1. \A c \in C : c \in Jobs /\ seen[c].state = "wait_dependencies"
    BY DEF Children
  <2>2. QED BY <1>3, <1>4, <2>1
<1>6. Pending(C, seen) \in [C -> Row] /\ \A c \in C : Pending(C, seen)[c].state = "pending"
  <2> HIDE DEF C, seen
  <2>1. /\ Pending(C, seen) \in [C -> Row]
        /\ \A c \in C : Pending(C, seen)[c] = [seen[c] EXCEPT !.state = "pending"]
    BY <1>2, <1>4, PendingType
  <2>2. QED BY <1>2, <1>4, <2>1 DEF Row
<1>7. /\ w \in [D -> Row] /\ \A c \in C : w[c].state = "pending"
      /\ w[j].state = "done" /\ D \in SUBSET Jobs
  <2> HIDE DEF C, seen, n, j
  <2>1. DOMAIN Pending(C, seen) = C /\ DOMAIN n = {j}
    BY <1>3, <1>6
  <2>2. w = [i \in D |-> IF i \in C THEN Pending(C, seen)[i] ELSE n[i]]
    BY <2>1 DEF Updated
  <2>3. j \notin C
    BY <1>5
  <2>4. QED BY <1>2, <1>3, <1>6, <2>2, <2>3
<1>8. \A c \in C : row[c].state = "wait_dependencies"
  <2>1. tx[t].op \notin {"idle", "toRelease"}
    BY <1>1
  <2>2. \A c \in C : c \in Jobs \ tx[t].stale
    BY <1>1, <1>2
  <2>3. \A c \in C : row[c].state = snap[c].state
    BY <2>1, <2>2, InvTypes DEF SnapshotHolds
  <2>4. QED BY <1>5, <2>3
<1>9. ASSUME Apart PROVE \A c \in D : row[c].state # "deleted"
  <2>1. j \notin tx[t].stale
    BY <1>1, <1>9 DEF Apart, UsersAlone
  <2>2. row[j].state = snap[j].state
    BY <1>1, <1>2, <2>1, InvTypes DEF SnapshotHolds
  <2>3. QED BY <1>3, <1>8, <2>2
<1>10. ASSUME NEW c \in Jobs, Apart, Committed(t, D, w, Idle), \A d \in Jobs : ~MayStart(d)
       PROVE  ~MayStart(c)'
  <2> SUFFICES ASSUME MayStart(c)' PROVE FALSE
    OBVIOUS
  <2> HIDE DEF w, C, seen, n
  <2>1. \A i \in Jobs : row'[i] = IF i \in D THEN w[i] ELSE row[i]
    BY <1>10 DEF Committed
  <2>2. row'[c].state = "wait_dependencies" /\ c \notin C /\ c # j /\ row'[c] = row[c]
    BY <1>7, <2>1 DEF MayStart
  <2>3. \A p \in Parents[c] : p \in Jobs /\ (row'[p].state = "done" \/ p \in gone)
    BY <1>1, JobTransactionsAssumption DEF MayStart
  <2>4. \A p \in Parents[c] : p # j => row[p].state = "done" \/ p \in gone
    BY <1>7, <2>1, <2>3
  <2>5. CASE j \in Parents[c]
    <3>1. seen[c].state = "wait_dependencies"
      BY <1>1, <1>4, <1>10, <2>2, UserSnapshot
    <3>2. ASSUME NEW p \in Parents[c] PROVE seen[p].state \in {"done", "deleted"}
      <4>1. CASE p = j
        BY <1>2, <1>3, <1>4, <4>1
      <4>2. CASE p # j
        <5>1. snap[p].state \in {"done", "deleted"}
          BY <1>1, <1>10, <2>3, <2>4, <4>2, UserSnapshot
        <5>2. QED BY <1>4, <2>3, <4>2, <5>1
      <4>3. QED BY <4>1, <4>2
    <3>3. c \in C
      BY <2>5, <3>1, <3>2 DEF C, Children, ParentsDone
    <3>4. QED BY <2>2, <3>3
  <2>6. CASE j \notin Parents[c]
    <3>1. MayStart(c)
      BY <2>2, <2>4, <2>6 DEF MayStart
    <3>2. QED BY <1>10, <3>1
  <2>7. QED BY <2>5, <2>6
<1> HIDE DEF w, D
<1>11. QED BY <1>1, <1>7, <1>9, <1>10, UserCommit

LEMMA CronReleased ==
  ASSUME ReleaseInv, JobAutovacuum \/ MonthPasses
  PROVE  ReleaseKept
<1>1. TxTypes /\ SnapshotHolds /\ DatesInv
  BY InvTypes
<1>2. CASE JobAutovacuum
  <2>1. PICK Old : Vacuumed(Old) /\ gone' = gone \cup {j \in Old : row[j].state = "done"}
                 /\ UNCHANGED <<overlapped, lost>>
    BY <1>1, <1>2, VacuumStep
  <2>2. /\ Old \in SUBSET Jobs /\ \A j \in Old : row[j].state # "deleted"
        /\ \A j \in Old : row[j].doneAt # "none" \/ row[j].cancelledAt # "none"
        /\ \A j \in Old : row'[j].state = "deleted"
        /\ \A j \in Jobs : j \notin Old => row'[j] = row[j]
    BY <2>1 DEF Vacuumed, Vacuumable
  <2>3. \A u \in Slots :
          /\ tx'[u].op = tx[u].op
          /\ tx[u].op # "idle" =>
             /\ Old \cap DOMAIN tx[u].new = {}
             /\ tx'[u].job = tx[u].job /\ tx'[u].snap = tx[u].snap
             /\ tx'[u].stale = tx[u].stale \cup Old
    BY <2>1 DEF Vacuumed
  <2>4. SnapshotHolds'
    <3> SUFFICES ASSUME NEW u \in Slots, tx'[u].op \notin {"idle", "toRelease"},
                        NEW j \in Jobs \ tx'[u].stale
                 PROVE  row'[j].state = tx'[u].snap[j].state
      BY DEF SnapshotHolds
    <3>1. tx[u].op \notin {"idle", "toRelease"} /\ tx'[u].snap = tx[u].snap
          /\ tx'[u].stale = tx[u].stale \cup Old
      BY <2>3
    <3>2. row'[j] = row[j] /\ j \notin tx[u].stale
      BY <2>2, <3>1
    <3>3. QED BY <1>1, <3>1, <3>2 DEF SnapshotHolds
  <2>5. ASSUME ~overlapped PROVE Apart'
    <3>1. Apart
      BY <2>5 DEF ReleaseInv
    <3>2. \A p \in gone' : row'[p].state = "deleted"
      <4>1. \A p \in gone : p \in Jobs /\ row[p].state = "deleted"
        BY <1>1, <3>1 DEF Apart, TxTypes
      <4>2. QED BY <2>1, <2>2, <4>1
    <3>3. WorkersApart'
      <4>1. ASSUME NEW u \in Slots, tx[u].op \in Working
            PROVE  /\ tx'[u].job = tx[u].job /\ tx[u].job \in Jobs
                   /\ row'[tx[u].job].state = "started"
        <5>1. tx[u].op # "idle"
          BY <4>1 DEF Working
        <5>2. tx[u].job \in Jobs /\ tx'[u].job = tx[u].job
          BY <1>1, <2>3, <5>1, OpenTx
        <5>3. row[tx[u].job].state = "started"
          BY <3>1, <4>1 DEF Apart, WorkersApart
        <5>4. row[tx[u].job].doneAt = "none" /\ row[tx[u].job].cancelledAt = "none"
          BY <1>1, <5>2, <5>3 DEF DatesInv, Dated, DatedRow
        <5>5. QED BY <2>2, <5>2, <5>3, <5>4
      <4>2. QED BY <2>3, <3>1, <4>1 DEF Apart, WorkersApart
    <3>4. UsersAlone'
      <4> SUFFICES ASSUME NEW v \in Slots, tx'[v].op \in UserOps
                   PROVE  /\ \A u \in Slots \ {v} : tx'[u].op = "idle"
                          /\ \A i \in tx'[v].stale :
                               /\ row'[i].state = "deleted"
                               /\ i \in gone' => tx'[v].snap[i].state \in {"done", "deleted"}
                          /\ tx'[v].op = "doneWritten" => tx'[v].job \notin tx'[v].stale
        BY DEF UsersAlone
      <4>1. /\ tx[v].op \in UserOps /\ tx[v].op \notin {"idle", "toRelease"}
            /\ tx'[v].op = tx[v].op /\ tx'[v].job = tx[v].job /\ tx'[v].snap = tx[v].snap
            /\ tx'[v].stale = tx[v].stale \cup Old /\ Old \cap DOMAIN tx[v].new = {}
        BY <2>3 DEF UserOps
      <4>2. \A u \in Slots \ {v} : tx'[u].op = "idle"
        BY <2>3, <3>1, <4>1 DEF Apart, UsersAlone
      <4>3. ASSUME NEW i \in tx[v].stale \cup Old
            PROVE  /\ row'[i].state = "deleted"
                   /\ i \in gone' => tx[v].snap[i].state \in {"done", "deleted"}
        <5>1. CASE i \in tx[v].stale
          <6>1. /\ row[i].state = "deleted" /\ i \in Jobs
                /\ i \in gone => tx[v].snap[i].state \in {"done", "deleted"}
            BY <1>1, <3>1, <4>1, <5>1, OpenTx DEF Apart, UsersAlone
          <6>2. i \notin Old /\ row'[i] = row[i]
            BY <2>2, <6>1
          <6>3. QED BY <2>1, <6>1, <6>2
        <5>2. CASE i \in Old /\ i \notin tx[v].stale
          <6>1. row[i].state = tx[v].snap[i].state /\ row'[i].state = "deleted"
            BY <1>1, <2>2, <4>1, <5>2 DEF SnapshotHolds
          <6>2. i \notin gone
            BY <2>2, <3>1, <5>2 DEF Apart
          <6>3. QED BY <2>1, <6>1, <6>2
        <5>3. QED BY <4>3, <5>1, <5>2
      <4>4. ASSUME tx[v].op = "doneWritten" PROVE tx[v].job \notin tx[v].stale \cup Old
        <5>1. tx[v].job \notin tx[v].stale
          BY <3>1, <4>1, <4>4 DEF Apart, UsersAlone
        <5>2. tx[v].new \in [{tx[v].job} -> Row]
          BY <1>1, <4>1, <4>4 DEF DatesInv, TxDated
        <5>3. QED BY <4>1, <5>1, <5>2
      <4>5. QED BY <4>1, <4>2, <4>3, <4>4
    <3>5. QED BY <3>2, <3>3, <3>4 DEF Apart
  <2>6. ASSUME ~overlapped, ~lost, NEW c \in Jobs, MayStart(c)'
        PROVE  \E u \in Slots : WillRelease(u, c)'
    <3>1. c \notin Old /\ row'[c] = row[c]
      BY <2>2, <2>6 DEF MayStart
    <3>2. ASSUME NEW p \in Parents[c] PROVE row[p].state = "done" \/ p \in gone
      <4>1. p \in Jobs
        BY JobTransactionsAssumption
      <4>2. row'[p].state = "done" \/ p \in gone'
        BY <2>6 DEF MayStart
      <4>3. QED BY <2>1, <2>2, <4>1, <4>2
    <3>3. MayStart(c)
      BY <2>6, <3>1, <3>2 DEF MayStart
    <3>4. PICK u \in Slots : WillRelease(u, c)
      BY <2>6, <3>3 DEF ReleaseInv, AllReleased
    <3>5. tx[u].op # "idle"
      BY <3>4 DEF WillRelease, Releasing
    <3>6. WillRelease(u, c)'
      BY <2>3, <3>4, <3>5 DEF WillRelease
    <3>7. QED BY <3>6
  <2>7. QED BY <2>1, <2>4, <2>5, <2>6 DEF ReleaseKept, AllReleased
<1>3. CASE MonthPasses
  <2>1. /\ \A j \in Jobs : row'[j].state = row[j].state
        /\ UNCHANGED <<tx, gone, overlapped, lost>>
    BY <1>1, <1>3, MonthStep
  <2>2. /\ \A u \in Slots : tx[u].op # "idle" => tx[u].job \in Jobs /\ tx[u].stale \subseteq Jobs
        /\ gone \subseteq Jobs
    BY <1>1, OpenTx DEF TxTypes
  <2>3. SnapshotHolds'
    BY <1>1, <2>1 DEF SnapshotHolds
  <2>4. ASSUME ~overlapped PROVE Apart'
    <3>1. Apart
      BY <2>4 DEF ReleaseInv
    <3>2. WorkersApart' /\ UsersAlone'
      BY <2>1, <2>2, <3>1 DEF Apart, WorkersApart, UsersAlone, Working, UserOps
    <3>3. QED BY <2>1, <2>2, <3>1, <3>2 DEF Apart
  <2>5. ASSUME ~overlapped, ~lost PROVE AllReleased'
    <3>1. \A c \in Jobs : Parents[c] \subseteq Jobs
      BY JobTransactionsAssumption
    <3>2. \A c \in Jobs : MayStart(c)' => MayStart(c)
      BY <2>1, <3>1 DEF MayStart
    <3>3. QED BY <2>1, <2>5, <3>2 DEF ReleaseInv, AllReleased, WillRelease
  <2>6. QED BY <2>1, <2>3, <2>4, <2>5 DEF ReleaseKept
<1>4. QED BY <1>2, <1>3

LEMMA ReleaseNext ==
  ASSUME ReleaseInv, [JobTxNext]_jobTxVars
  PROVE  ReleaseInv'
<1>1. DatesInv /\ DatesInv'
  BY DatesNext DEF ReleaseInv
<1>2. ASSUME NEW t \in Slots,
             \/ \E j \in Jobs :
                   \/ Start(t, j)
                   \/ \E op \in {"done", "cancelled", "pending"} : ChangeJobState(t, j, op)
             \/ PerformDone(t) \/ PerformRetry(t) \/ PerformFails(t) \/ CommitFails(t)
             \/ Kill(t) \/ EnqueueDependentJobs(t) \/ Released(t)
             \/ UserConflict(t) \/ StoreChanged(t) \/ StoreDone(t) \/ ReleaseDone(t)
      PROVE  ReleaseKept
  <2>1. CASE \E j \in Jobs : Start(t, j)
    BY <2>1, StartReleased
  <2>2. CASE StoreDone(t) \/ \E j \in Jobs, op \in {"done", "cancelled", "pending"} : ChangeJobState(t, j, op)
    BY <2>2, UserReleased
  <2>3. CASE PerformDone(t) \/ PerformRetry(t) \/ PerformFails(t)
    BY <2>3, PerformReleased
  <2>4. CASE CommitFails(t)
    BY <2>4, FailsReleased
  <2>5. CASE Kill(t) \/ UserConflict(t)
    BY <2>5, EndedReleased
  <2>6. CASE EnqueueDependentJobs(t)
    BY <2>6, EnqueueReleased
  <2>7. CASE Released(t)
    BY <2>7, WorkerReleases
  <2>8. CASE StoreChanged(t)
    BY <2>8, StoreReleased
  <2>9. CASE ReleaseDone(t)
    BY <2>9, DoneReleased
  <2>10. QED BY <1>2, <2>1, <2>2, <2>3, <2>4, <2>5, <2>6, <2>7, <2>8, <2>9
<1>3. ASSUME JobAutovacuum \/ MonthPasses PROVE ReleaseKept
  BY <1>3, CronReleased
<1>4. ReleaseKept => ReleaseInv'
  BY <1>1 DEF ReleaseKept, ReleaseInv
<1>5. CASE UNCHANGED jobTxVars
  <2>1. UNCHANGED <<row, tx, gone, overlapped, lost>>
    BY <1>5 DEF jobTxVars, ghosts
  <2>2. SnapshotHolds' /\ (Apart => Apart') /\ (AllReleased => AllReleased')
    BY <2>1 DEF ReleaseInv, SnapshotHolds, Apart, WorkersApart, UsersAlone, AllReleased, MayStart, WillRelease
  <2>3. QED BY <1>1, <2>1, <2>2 DEF ReleaseInv
<1>6. QED BY <1>2, <1>3, <1>4, <1>5 DEF JobTxNext

\* No order of workers, failures, retries, requeues, cancellations and
\* deletions leaves a job waiting for nothing, as long as no transaction of a
\* user overlaps with another one and no release is lost.
THEOREM NoJobForgotten == JobTxSpec => []NoneForgotten
<1>1. ReleaseInv /\ [JobTxNext]_jobTxVars => ReleaseInv'
  BY ReleaseNext
<1>2. QED BY <1>1, ReleaseInit, ReleaseInvImplies, PTL DEF JobTxSpec

\* The rows and the transactions of every reachable state have their types.
THEOREM JobTxTypes == JobTxSpec => []JobTxTypeOK
<1>1. DatesInv => JobTxTypeOK
  <2> SUFFICES ASSUME DatesInv PROVE JobTxTypeOK
    OBVIOUS
  <2>1. TxTypes
    BY DEF DatesInv
  <2>2. ASSUME NEW t \in Slots
        PROVE  /\ tx[t].op \in Ops
               /\ tx[t].op # "idle" => DOMAIN tx[t].new \subseteq Jobs
    <3>1. tx[t] \in Tx \/ tx[t] = Idle
      BY <2>1 DEF TxTypes
    <3>2. QED BY <3>1 DEF Tx, Idle, Ops
  <2>3. QED BY <2>1, <2>2, OpenTx DEF JobTxTypeOK, TxTypes
<1>2. DatesInv /\ [JobTxNext]_jobTxVars => DatesInv'
  BY DatesNext
<1>3. QED BY <1>1, <1>2, DatesInit, PTL DEF JobTxSpec

-----------------------------------------------------------------------------
(* The tree of channels: what it was configured with, and the lookups of    *)
(* jobs that make it grow                                                   *)

Part == UNION {Range(n) : n \in JobNames \cup {e.name : e \in Entries}}
PathNames == Seq(Part)

LEMMA NamesArePaths ==
  /\ \A n \in JobNames : n \in PathNames /\ Path(n) \in PathNames
  /\ \A e \in Entries : e.name \in PathNames /\ Path(e.name) \in PathNames
<1>1. ASSUME NEW n \in JobNames \cup {e.name : e \in Entries}
      PROVE  n \in PathNames /\ Path(n) \in PathNames
  <2>1. n \in Seq(Range(n)) /\ Range(n) \subseteq Part
    BY ChannelConfigAssumption DEF Part
  <2>2. n \in Seq(Part)
    BY <2>1
  <2>3. n # <<>> => Tail(n) \in Seq(Part)
    BY <2>2
  <2>4. QED BY <2>2, <2>3 DEF Path, PathNames
<1>2. QED BY <1>1

\* q is the beginning of s.
Begins(q, s) == Len(q) <= Len(s) /\ \A i \in 1..Len(q) : q[i] = s[i]

LEMMA PrefixesBegin ==
  \A s \in PathNames : \A q : q \in Prefixes(s) <=> q \in PathNames /\ Begins(q, s)
<1> SUFFICES ASSUME NEW s \in Seq(Part), NEW q
             PROVE  q \in Prefixes(s) <=> q \in Seq(Part) /\ Begins(q, s)
  BY DEF PathNames
<1>1. ASSUME q \in Prefixes(s) PROVE q \in Seq(Part) /\ Begins(q, s)
  <2>1. PICK l \in 0..Len(s) : q = SubSeq(s, 1, l)
    BY <1>1 DEF Prefixes
  <2>2. q \in Seq(Part) /\ Len(q) = l /\ \A i \in 1..l : q[i] = s[i]
    BY <2>1
  <2>3. QED BY <2>1, <2>2 DEF Begins
<1>2. ASSUME q \in Seq(Part), Begins(q, s) PROVE q \in Prefixes(s)
  <2>1. Len(q) \in 0..Len(s)
    BY <1>2 DEF Begins
  <2>2. q = SubSeq(s, 1, Len(q))
    BY <1>2, <2>1 DEF Begins
  <2>3. QED BY <2>1, <2>2 DEF Prefixes
<1>3. QED BY <1>1, <1>2

LEMMA BeginsFacts ==
  \A p, q, s \in PathNames :
    /\ Begins(<<>>, s) /\ Begins(s, s)
    /\ Begins(p, q) /\ Begins(q, s) => Begins(p, s)
    /\ Begins(p, s) /\ Begins(q, s) /\ Len(p) <= Len(q) => Begins(p, q)
    /\ Begins(p, q) /\ Len(p) = Len(q) => p = q
    /\ Begins(q, q \o s) /\ q \o s \in PathNames
    /\ Begins(p, q \o s) /\ Len(p) <= Len(q) => Begins(p, q)
    /\ Begins(p, q) => Begins(p, q \o s)
BY DEF Begins, PathNames

LEMMA ShorterBegins ==
  ASSUME NEW p \in PathNames, NEW q \in PathNames, NEW s \in PathNames,
         Begins(p, s), Begins(q, s), Len(p) <= Len(q)
  PROVE  Begins(p, q)
BY BeginsFacts

\* No two parts of q \o s are the same only if q or s is empty or s begins
\* otherwise than q.
LEMMA Repeats ==
  \A b, s, q \in PathNames :
    b # <<>> /\ Begins(b, s) /\ Begins(q, b \o s) /\ Len(q) > Len(b) => ~IsInjective(q)
<1> SUFFICES ASSUME NEW b \in Seq(Part), NEW s \in Seq(Part), NEW q \in Seq(Part),
                    b # <<>>, Begins(b, s), Begins(q, b \o s), Len(q) > Len(b), IsInjective(q)
             PROVE  FALSE
  BY DEF PathNames
<1>1. Len(b) \in Nat \ {0} /\ Len(q) \in Nat /\ Len(s) \in Nat /\ Len(s) >= Len(b)
  BY DEF Begins
<1>2. 1 \in DOMAIN q /\ Len(b) + 1 \in DOMAIN q /\ 1 # Len(b) + 1
  BY <1>1
<1>3. (b \o s)[1] = b[1] /\ (b \o s)[Len(b) + 1] = s[1]
  BY <1>1
<1>4. q[1] = b[1] /\ q[Len(b) + 1] = s[1] /\ b[1] = s[1]
  BY <1>1, <1>2, <1>3 DEF Begins
<1>5. QED BY <1>2, <1>4 DEF IsInjective

\* The known channels above a name.
Above(p) == Proper(p) \cap DOMAIN channels

LEMMA AboveFacts ==
  \A p \in PathNames : \A q :
    q \in Above(p) <=> /\ q \in PathNames /\ Begins(q, p) /\ q # p /\ q # <<>>
                       /\ q \in DOMAIN channels
BY PrefixesBegin DEF Above, Proper, Root

LEMMA BaseFacts ==
  \A p \in PathNames :
    /\ Above(p) = {} => Base(p) = <<>>
    /\ Above(p) # {} => Base(p) \in Above(p) /\ \A k \in Above(p) : Len(k) <= Len(Base(p))
<1> SUFFICES ASSUME NEW p \in PathNames
             PROVE  /\ Above(p) = {} => Base(p) = <<>>
                    /\ Above(p) # {} => /\ Base(p) \in Above(p)
                                       /\ \A k \in Above(p) : Len(k) <= Len(Base(p))
  OBVIOUS
<1>1. Base(p) = IF Above(p) = {} THEN <<>>
                ELSE CHOOSE b \in Above(p) : \A k \in Above(p) : Len(k) <= Len(b)
  BY DEF Base, Above, Root
<1>2. ASSUME Above(p) # {}
      PROVE  \E b \in Above(p) : \A k \in Above(p) : Len(k) <= Len(b)
  <2> DEFINE less == OpToRel(<, Nat)
             U == {Len(p) - Len(k) : k \in Above(p)}
  <2>1. \A k \in Above(p) : Len(k) \in Nat /\ Len(k) <= Len(p) /\ Len(p) - Len(k) \in Nat
    BY AboveFacts DEF Begins, PathNames
  <2>2. IsWellFoundedOn(less, Nat) /\ U \subseteq Nat /\ U # {}
    BY <1>2, <2>1, NatLessThanWellFounded
  <2>3. PICK m \in U : \A u \in U : ~(<<u, m>> \in less)
    <3> HIDE DEF less, U
    <3> QED BY <2>2, WFMin
  <2>4. PICK b \in Above(p) : m = Len(p) - Len(b)
    OBVIOUS
  <2>5. \A k \in Above(p) : ~(Len(p) - Len(k) < m)
    BY <2>1, <2>2, <2>3 DEF OpToRel
  <2>6. \A k \in Above(p) : Len(k) <= Len(b)
    BY <2>1, <2>4, <2>5
  <2>7. QED BY <2>6
<1>3. QED BY <1>1, <1>2

\* The tree: its paths and what is above them.
Tree ==
  /\ DOMAIN channels \subseteq PathNames /\ <<>> \in DOMAIN channels
  /\ \A p \in DOMAIN channels : Prefixes(p) \subseteq DOMAIN channels

LEMMA ChannelOfFacts ==
  \A p \in PathNames : Tree =>
    /\ ChannelOf(p, TRUE) \in PathNames
    /\ p \in DOMAIN channels => ChannelOf(p, TRUE) = p
    /\ p \notin DOMAIN channels /\ Above(p) = {} => ChannelOf(p, TRUE) = p
    /\ p \notin DOMAIN channels /\ Above(p) # {} =>
         ChannelOf(p, TRUE) = Base(p) \o p /\ Base(p) \in Above(p)
<1> SUFFICES ASSUME NEW p \in PathNames, Tree
             PROVE  /\ ChannelOf(p, TRUE) \in PathNames
                    /\ p \in DOMAIN channels => ChannelOf(p, TRUE) = p
                    /\ p \notin DOMAIN channels /\ Above(p) = {} => ChannelOf(p, TRUE) = p
                    /\ p \notin DOMAIN channels /\ Above(p) # {} =>
                         ChannelOf(p, TRUE) = Base(p) \o p /\ Base(p) \in Above(p)
  OBVIOUS
<1>1. <<>> \o p = p
  BY DEF PathNames
<1>2. Above(p) # {} => Base(p) \in PathNames
  BY BaseFacts, AboveFacts
<1>3. Base(p) \in PathNames => Base(p) \o p \in PathNames
  BY DEF PathNames
<1>4. QED BY <1>1, <1>2, <1>3, BaseFacts DEF ChannelOf

\* Channels that a lookup makes are not above a name without a repeated part
\* that has a channel above it already.
LEMMA NothingNewAbove ==
  ASSUME Tree, NEW p \in PathNames, IsInjective(p), Above(p) # {}, p \notin DOMAIN channels,
         NEW r \in PathNames, NEW q \in Created(r, TRUE), Begins(q, p)
  PROVE  q \in DOMAIN channels
<1> SUFFICES ASSUME q \notin DOMAIN channels PROVE FALSE
  OBVIOUS
<1> DEFINE c == ChannelOf(r, TRUE)
<1>1. /\ c \in PathNames /\ q \in PathNames /\ Begins(q, c)
  BY ChannelOfFacts, PrefixesBegin DEF Created
<1>2. r \notin DOMAIN channels
  <2>1. r \in DOMAIN channels => Created(r, TRUE) \subseteq DOMAIN channels
    BY ChannelOfFacts DEF Created, Tree
  <2>2. QED BY <2>1
<1>3. IsInjective(q)
  <2>1. DOMAIN q \subseteq DOMAIN p /\ \A i \in DOMAIN q : q[i] = p[i]
    BY <1>1 DEF Begins, PathNames
  <2>2. QED BY <2>1 DEF IsInjective
<1>4. q # <<>>
  BY DEF Tree
<1> HIDE DEF c
<1>5. CASE Above(r) = {}
  <2>1. c = r
    BY <1>2, <1>5, ChannelOfFacts DEF c
  <2>2. PICK b \in Above(p) : TRUE
    OBVIOUS
  <2>3. b \in PathNames /\ Begins(b, p) /\ b # <<>> /\ b \in DOMAIN channels
    BY <2>2, AboveFacts
  <2>4. CASE Len(q) <= Len(b)
    <3>1. Begins(q, b)
      BY <1>1, <2>3, <2>4, ShorterBegins
    <3>2. QED BY <1>1, <2>3, <3>1, PrefixesBegin DEF Tree
  <2>5. CASE ~(Len(q) <= Len(b))
    <3>1. Len(b) <= Len(q)
      BY <1>1, <2>3, <2>5 DEF PathNames
    <3>2. Begins(b, q)
      BY <1>1, <2>3, <3>1, BeginsFacts
    <3>3. Begins(b, r)
      BY <1>1, <2>1, <2>3, <3>2, BeginsFacts
    <3>4. b \in Above(r)
      BY <1>2, <2>3, <3>3, AboveFacts
    <3>5. QED BY <1>5, <3>4
  <2>6. QED BY <2>4, <2>5
<1>6. CASE Above(r) # {}
  <2>1. c = Base(r) \o r /\ Base(r) \in Above(r)
    BY <1>2, <1>6, ChannelOfFacts DEF c
  <2>2. /\ Base(r) \in PathNames /\ Begins(Base(r), r) /\ Base(r) # <<>>
        /\ Base(r) \in DOMAIN channels
    BY <2>1, AboveFacts
  <2>3. Len(q) <= Len(Base(r))
    <3>1. Len(q) \in Nat /\ Len(Base(r)) \in Nat
      BY <1>1, <2>2 DEF PathNames
    <3>2. ~(Len(q) > Len(Base(r)))
      BY <1>1, <1>3, <2>1, <2>2, Repeats
    <3>3. QED BY <3>1, <3>2
  <2>4. Begins(q, Base(r))
    BY <1>1, <2>1, <2>2, <2>3, BeginsFacts
  <2>5. QED BY <1>1, <2>2, <2>4, PrefixesBegin DEF Tree
<1>7. QED BY <1>5, <1>6

\* What a name was resolved to is what it would be resolved to again.
Steady ==
  \A asked \in DOMAIN answer :
    IsInjective(Path(asked)) => answer[asked] = ChannelOf(Path(asked), TRUE)

Numbers == {"0", "1", "2", "3"}
Setting == [capacity : {Unlimited} \cup Numbers, sequential : BOOLEAN, throttle : Numbers]

ConfTypes ==
  /\ config \in BoundedSeq(Entries, MaxEntries) /\ config \in Seq(Entries)
  /\ done \in 0..Len(config) /\ refused \in BOOLEAN
  /\ channels \in [DOMAIN channels -> Setting] /\ Tree
  /\ DOMAIN answer \subseteq JobNames
  /\ \A asked \in DOMAIN answer : answer[asked] \in DOMAIN channels

\* What the first n entries say of a channel.
LastOf(p, l, n) ==
  /\ l \in 1..n /\ Path(config[l].name) = p
  /\ \A k \in 1..n : Path(config[k].name) = p => k <= l

Unnamed(p) == IF p = Root THEN [Default EXCEPT !.capacity = "1"] ELSE Default

Applied ==
  /\ \A i \in 1..done : Path(config[i].name) \in DOMAIN channels
  /\ ~refused =>
       \A p \in DOMAIN channels :
         \/ (\A i \in 1..done : Path(config[i].name) # p) /\ channels[p] = Unnamed(p)
         \/ \E l \in 1..done : LastOf(p, l, done) /\ channels[p] = Settings(config[l])

Limited ==
  \A asked \in DOMAIN answer : \A i \in 1..done :
    Begins(Path(config[i].name), Path(asked)) => Begins(Path(config[i].name), answer[asked])

ConfInv ==
  /\ ConfTypes /\ Applied /\ Limited /\ Steady
  /\ DOMAIN answer # {} => done = Len(config)

LEMMA EntryFacts ==
  \A e \in Entries : Parses(e) =>
    /\ Settings(e).capacity \in Numbers /\ Settings(e).sequential \in BOOLEAN
    /\ DOMAIN Settings(e) = {"capacity", "sequential", "throttle"}
    /\ Settings(e) = [capacity |-> Settings(e).capacity, sequential |-> Settings(e).sequential,
                      throttle |-> Settings(e).throttle]
BY DEF Parses, Settings, IsNumber, Numbers

\* A channel that is looked up is there afterwards, with all above it.
LEMMA TreeGrows ==
  ASSUME Tree, NEW p \in PathNames, NEW fallback \in BOOLEAN,
         DOMAIN channels' = DOMAIN channels \cup Created(p, fallback)
  PROVE  /\ Tree' /\ ChannelOf(p, fallback) \in DOMAIN channels'
         /\ <<>> \in DOMAIN channels
<1>1. ChannelOf(p, fallback) \in PathNames
  BY ChannelOfFacts DEF ChannelOf
<1>2. Created(p, fallback) \subseteq PathNames /\ ChannelOf(p, fallback) \in Created(p, fallback)
  BY <1>1, PrefixesBegin, BeginsFacts DEF Created
<1>3. ASSUME NEW q \in Created(p, fallback) PROVE Prefixes(q) \subseteq Created(p, fallback)
  <2>1. q \in PathNames /\ Begins(q, ChannelOf(p, fallback))
    BY <1>1, PrefixesBegin DEF Created
  <2>2. \A r \in Prefixes(q) : r \in PathNames /\ Begins(r, q)
    BY <2>1, PrefixesBegin
  <2>3. \A r \in Prefixes(q) : Begins(r, ChannelOf(p, fallback))
    BY ONLY <1>1, <2>1, <2>2, BeginsFacts, Zenon
  <2>4. QED BY <1>1, <2>2, <2>3, PrefixesBegin DEF Created
<1>4. QED BY <1>2, <1>3 DEF Tree

LEMMA ConfInitInv == ConfigInit => ConfInv
<1> SUFFICES ASSUME ConfigInit PROVE ConfInv
  OBVIOUS
<1>1. config \in Seq(Entries)
  BY DEF ConfigInit, BoundedSeq, SeqOf
<1>2. /\ done = 0 /\ refused = FALSE /\ answer = <<>> /\ DOMAIN answer = {}
      /\ DOMAIN channels = {<<>>} /\ channels[<<>>] = [Default EXCEPT !.capacity = "1"]
  BY DEF ConfigInit, Root
<1>3. channels \in [DOMAIN channels -> Setting]
  <2>1. [Default EXCEPT !.capacity = "1"] \in Setting
    BY DEF Default, Setting, Numbers
  <2>2. channels = [p \in {Root} |-> [Default EXCEPT !.capacity = "1"]]
    BY DEF ConfigInit
  <2>3. QED BY <2>1, <2>2
<1>4. Tree
  <2>1. <<>> \in PathNames
    BY DEF PathNames
  <2>2. \A q \in Prefixes(<<>>) : q = <<>>
    <3>1. \A q \in PathNames : Begins(q, <<>>) => q = <<>>
      BY DEF Begins, PathNames
    <3>2. QED BY <2>1, <3>1, PrefixesBegin
  <2>3. QED BY <1>2, <2>1, <2>2 DEF Tree
<1>5. Applied
  BY <1>2 DEF Applied, Unnamed, Root
<1>6. done \in 0..Len(config)
  BY <1>1, <1>2
<1>7. QED BY <1>1, <1>2, <1>3, <1>4, <1>5, <1>6 DEF ConfInv, ConfTypes, Limited, Steady, ConfigInit

LEMMA ParseFailsInv == ConfInv /\ ParseFails => ConfInv'
<1> SUFFICES ASSUME ConfInv, ParseFails PROVE ConfInv'
  OBVIOUS
<1>1. refused' = TRUE /\ UNCHANGED <<config, done, channels, answer>>
  BY DEF ParseFails
<1>2. Steady'
  BY <1>1 DEF ConfInv, Steady, ChannelOf, Base
<1>3. QED BY <1>1, <1>2 DEF ConfInv, ConfTypes, Applied, Limited, Tree

LEMMA ConfigureInv == ConfInv /\ ConfigureNext => ConfInv'
<1> SUFFICES ASSUME ConfInv, ConfigureNext PROVE ConfInv'
  OBVIOUS
<1> DEFINE n == done + 1
           e == config[n]
           p == Path(e.name)
           s == Settings(e)
           W == WithChannel(p, FALSE)
<1>1. /\ Parsed /\ ~refused /\ done < Len(config) /\ done' = n
      /\ refused' = (~IsNumber(s.throttle) \/ (s.sequential /\ s.capacity # "1"))
      /\ channels' = [W EXCEPT ![p] = Configure(@, s)]
      /\ config' = config /\ answer' = answer
  BY DEF ConfigureNext
<1>2. /\ config \in Seq(Entries) /\ done \in Nat /\ n \in 1..Len(config) /\ Len(config) \in Nat
      /\ channels \in [DOMAIN channels -> Setting] /\ Tree /\ Applied
  BY <1>1 DEF ConfInv, ConfTypes
<1>3. e \in Entries /\ p \in PathNames /\ Parses(e)
  <2>1. e \in Entries /\ n \in DOMAIN config
    BY <1>2
  <2>2. QED BY <1>1, <2>1, NamesArePaths DEF Parsed
<1> HIDE DEF n, e
<1>4. DOMAIN answer = {}
  <2>1. done # Len(config)
    BY <1>1, <1>2
  <2>2. QED BY <2>1 DEF ConfInv
<1>5. /\ DOMAIN W = DOMAIN channels \cup Created(p, FALSE) /\ p \in DOMAIN W
      /\ DOMAIN channels' = DOMAIN W
      /\ \A q \in DOMAIN W : W[q] = IF q \in DOMAIN channels THEN channels[q] ELSE Default
  <2>1. ChannelOf(p, FALSE) = p
    BY DEF ChannelOf
  <2>2. p \in Created(p, FALSE)
    BY <1>3, <2>1, PrefixesBegin, BeginsFacts DEF Created
  <2>3. QED BY <1>1, <2>2 DEF WithChannel
<1>6. Tree'
  BY <1>2, <1>3, <1>5, TreeGrows
<1>7. \A q \in DOMAIN W : W[q] \in Setting
  <2>1. Default \in Setting
    BY DEF Default, Setting, Numbers
  <2>2. QED BY <1>2, <1>5, <2>1
<1> HIDE DEF W
<1>8. /\ \A q \in DOMAIN W : q # p => channels'[q] = W[q]
      /\ channels'[p] = Configure(W[p], s)
      /\ channels' = [q \in DOMAIN W |-> channels'[q]]
  BY <1>1, <1>5
<1>9. Configure(W[p], s) \in Setting /\ (~refused' => Configure(W[p], s) = s)
  <2>1. /\ s.capacity \in Numbers /\ s.sequential \in BOOLEAN
        /\ s = [capacity |-> s.capacity, sequential |-> s.sequential, throttle |-> s.throttle]
    BY <1>3, EntryFacts
  <2>2. W[p].throttle \in Numbers
    BY <1>5, <1>7 DEF Setting
  <2> DEFINE t == IF IsNumber(s.throttle) THEN s.throttle ELSE W[p].throttle
  <2>3. t \in Numbers
    BY <2>2 DEF IsNumber, Numbers
  <2> HIDE DEF s
  <2>4. Configure(W[p], s) = [capacity |-> s.capacity, sequential |-> s.sequential, throttle |-> t]
    BY <2>1 DEF Configure
  <2>5. ~refused' => t = s.throttle
    BY <1>1
  <2> HIDE DEF t
  <2>6. QED BY <2>1, <2>3, <2>4, <2>5 DEF Setting
<1>10. channels' \in [DOMAIN channels' -> Setting]
  <2>1. \A q \in DOMAIN W : channels'[q] \in Setting
    BY <1>7, <1>8, <1>9
  <2>2. QED BY <1>5, <1>8, <2>1
<1>11. Applied'
  <2>1. \A i \in 1..n : i = n \/ i \in 1..done
    BY <1>2 DEF n
  <2>2. \A i \in 1..n : Path(config[i].name) \in DOMAIN channels'
    BY <1>2, <1>5, <2>1 DEF Applied, e
  <2>3. ASSUME ~refused', NEW q \in DOMAIN channels'
        PROVE  \/ (\A i \in 1..n : Path(config[i].name) # q) /\ channels'[q] = Unnamed(q)
               \/ \E l \in 1..n : LastOf(q, l, n) /\ channels'[q] = Settings(config[l])
    <3>1. CASE q = p
      <4>1. n \in 1..n /\ \A k \in 1..n : k <= n
        BY <1>2 DEF n
      <4>2. LastOf(q, n, n) /\ channels'[q] = Settings(config[n])
        BY <1>8, <1>9, <2>3, <3>1, <4>1 DEF LastOf, e
      <4>3. QED BY <4>1, <4>2
    <3>2. CASE q # p /\ q \in DOMAIN channels
      <4>1. channels'[q] = channels[q]
        BY <1>5, <1>8, <3>2
      <4>2. \A i \in 1..n : Path(config[i].name) = q => i \in 1..done
        BY <2>1, <3>2 DEF e
      <4>3. CASE (\A i \in 1..done : Path(config[i].name) # q) /\ channels[q] = Unnamed(q)
        BY <4>1, <4>2, <4>3
      <4>4. ASSUME NEW l \in 1..done, LastOf(q, l, done), channels[q] = Settings(config[l])
            PROVE  \E m \in 1..n : LastOf(q, m, n) /\ channels'[q] = Settings(config[m])
        <5>1. l \in 1..n
          BY <1>2 DEF n
        <5>2. LastOf(q, l, n)
          BY <4>2, <4>4, <5>1 DEF LastOf
        <5>3. QED BY <4>1, <4>4, <5>1, <5>2
      <4>5. QED BY <1>1, <1>2, <3>2, <4>3, <4>4 DEF Applied
    <3>3. CASE q # p /\ q \notin DOMAIN channels
      <4>1. channels'[q] = Default /\ q # <<>>
        BY <1>2, <1>5, <1>8, <3>3 DEF Tree
      <4>2. \A i \in 1..n : Path(config[i].name) # q
        BY <1>2, <2>1, <3>3 DEF Applied, e
      <4>3. QED BY <4>1, <4>2 DEF Unnamed, Root
    <3>4. QED BY <3>1, <3>2, <3>3
  <2>4. QED BY <1>1, <2>2, <2>3 DEF Applied, LastOf
<1>12. QED BY <1>1, <1>2, <1>4, <1>6, <1>10, <1>11 DEF ConfInv, ConfTypes, Limited, Steady, n

\* A lookup for jobs leaves every channel as it is and makes the one it finds.
LEMMA LookupFacts ==
  ASSUME Tree, NEW r \in PathNames, channels' = WithChannel(r, TRUE)
  PROVE  /\ DOMAIN channels' = DOMAIN channels \cup Created(r, TRUE)
         /\ \A q \in DOMAIN channels' :
              channels'[q] = IF q \in DOMAIN channels THEN channels[q] ELSE Default
         /\ channels' = [q \in DOMAIN channels' |-> channels'[q]]
         /\ Tree' /\ ChannelOf(r, TRUE) \in DOMAIN channels'
<1>1. /\ DOMAIN channels' = DOMAIN channels \cup Created(r, TRUE)
      /\ \A q \in DOMAIN channels' :
           channels'[q] = IF q \in DOMAIN channels THEN channels[q] ELSE Default
      /\ channels' = [q \in DOMAIN channels' |-> channels'[q]]
  BY DEF WithChannel
<1>2. Tree' /\ ChannelOf(r, TRUE) \in DOMAIN channels'
  BY <1>1, TreeGrows
<1>3. QED BY <1>1, <1>2

\* A name without a repeated part whose channel exists is resolved as before.
LEMMA SameAnswer ==
  ASSUME Tree, NEW r \in PathNames, channels' = WithChannel(r, TRUE),
         NEW p \in PathNames, IsInjective(p), ChannelOf(p, TRUE) \in DOMAIN channels'
  PROVE  ChannelOf(p, TRUE)' = ChannelOf(p, TRUE)
<1>1. DOMAIN channels' = DOMAIN channels \cup Created(r, TRUE) /\ Tree'
  BY LookupFacts
<1>2. ChannelOf(p, TRUE)' = IF p \in DOMAIN channels' THEN p ELSE Base(p)' \o p
  BY DEF ChannelOf
<1>3. CASE p \in DOMAIN channels \/ Above(p) = {}
  <2>1. ChannelOf(p, TRUE) = p
    BY <1>3, ChannelOfFacts
  <2>2. QED BY <1>2, <2>1
<1>4. CASE p \notin DOMAIN channels /\ Above(p) # {}
  <2>1. \A q \in Created(r, TRUE) : Begins(q, p) => q \in DOMAIN channels
    BY <1>4, NothingNewAbove
  <2>2. p \notin DOMAIN channels'
    BY <1>1, <1>4, <2>1, BeginsFacts
  <2>3. Proper(p) \cap DOMAIN channels' = Proper(p) \cap DOMAIN channels
    <3>1. \A q \in Proper(p) : Begins(q, p)
      BY PrefixesBegin DEF Proper
    <3>2. QED BY <1>1, <2>1, <3>1
  <2>4. Base(p)' = Base(p)
    <3> DEFINE S == Proper(p) \cap DOMAIN channels
               nearest == IF S = {} THEN Root
                          ELSE CHOOSE b \in S : \A k \in S : Len(k) <= Len(b)
    <3>1. Base(p) = nearest /\ Base(p)' = nearest'
      BY DEF Base
    <3>2. S' = S
      BY <2>3 DEF Proper
    <3> HIDE DEF S
    <3>3. nearest' = nearest
      BY <3>2
    <3>4. QED BY <3>1, <3>3
  <2>5. QED BY <1>2, <1>4, <2>2, <2>4, ChannelOfFacts
<1>5. QED BY <1>3, <1>4

\* A channel above a name, or at it, is above or at the channel of the name.
LEMMA NoEscape ==
  \A p, q \in PathNames :
    Tree /\ q \in DOMAIN channels /\ Begins(q, p) => Begins(q, ChannelOf(p, TRUE))
<1> SUFFICES ASSUME NEW p \in PathNames, NEW q \in PathNames,
                    Tree, q \in DOMAIN channels, Begins(q, p)
             PROVE  Begins(q, ChannelOf(p, TRUE))
  OBVIOUS
<1>1. CASE p \in DOMAIN channels \/ Above(p) = {}
  BY <1>1, ChannelOfFacts
<1>2. CASE p \notin DOMAIN channels /\ Above(p) # {}
  <2>1. ChannelOf(p, TRUE) = Base(p) \o p /\ Base(p) \in Above(p)
    BY <1>2, ChannelOfFacts
  <2>2. Base(p) \in PathNames /\ Begins(Base(p), p)
    BY <2>1, AboveFacts
  <2>3. CASE q = <<>>
    <3>1. Base(p) \o p \in PathNames
      BY <2>2 DEF PathNames
    <3>2. QED BY <2>1, <2>3, <3>1, BeginsFacts
  <2>4. CASE q # <<>>
    <3>1. q \in Above(p)
      BY <1>2, <2>4, AboveFacts
    <3>2. Len(q) <= Len(Base(p))
      BY <3>1, BaseFacts
    <3>3. Begins(q, Base(p))
      BY ONLY p \in PathNames, q \in PathNames, Begins(q, p), <2>2, <3>2, ShorterBegins
    <3>4. Begins(q, Base(p) \o p)
      BY ONLY p \in PathNames, q \in PathNames, <2>2, <3>3, BeginsFacts, Zenon
    <3>5. QED BY <2>1, <3>4
  <2>5. QED BY <2>3, <2>4
<1>3. QED BY <1>1, <1>2

\* What a lookup does, in the terms of the invariant.
LEMMA ResolveFacts ==
  ASSUME ConfInv, NEW asked \in JobNames, Resolve(asked)
  PROVE  /\ Tree /\ Path(asked) \in PathNames /\ channels' = WithChannel(Path(asked), TRUE)
         /\ done = Len(config) /\ ~refused /\ UNCHANGED <<config, done, refused>>
         /\ DOMAIN answer' = DOMAIN answer \cup {asked}
         /\ answer'[asked] = ChannelOf(Path(asked), TRUE)
         /\ \A n \in DOMAIN answer : n # asked => answer'[n] = answer[n]
BY NamesArePaths DEF ConfInv, ConfTypes, Resolve, Ready

LEMMA ResolveInv == ASSUME ConfInv, NEW asked \in JobNames, Resolve(asked) PROVE ConfInv'
<1> DEFINE r == Path(asked)
<1>1. /\ Tree /\ r \in PathNames /\ channels' = WithChannel(r, TRUE)
      /\ done = Len(config) /\ ~refused
      /\ config' = config /\ done' = done /\ refused' = refused
      /\ DOMAIN answer' = DOMAIN answer \cup {asked} /\ answer'[asked] = ChannelOf(r, TRUE)
      /\ \A n \in DOMAIN answer : n # asked => answer'[n] = answer[n]
  BY ResolveFacts
<1>2. /\ DOMAIN channels' = DOMAIN channels \cup Created(r, TRUE)
      /\ \A q \in DOMAIN channels' :
           channels'[q] = IF q \in DOMAIN channels THEN channels[q] ELSE Default
      /\ channels' = [q \in DOMAIN channels' |-> channels'[q]]
      /\ Tree' /\ ChannelOf(r, TRUE) \in DOMAIN channels'
  BY <1>1, LookupFacts
<1>3. /\ config \in Seq(Entries) /\ channels \in [DOMAIN channels -> Setting] /\ Applied
      /\ config \in BoundedSeq(Entries, MaxEntries) /\ done \in 0..Len(config) /\ refused \in BOOLEAN
      /\ DOMAIN answer \subseteq JobNames /\ \A n \in DOMAIN answer : answer[n] \in DOMAIN channels
      /\ Limited /\ Steady
  BY DEF ConfInv, ConfTypes
<1>4. ConfTypes'
  <2>1. Default \in Setting
    BY DEF Default, Setting, Numbers
  <2>2. \A q \in DOMAIN channels' : channels'[q] \in Setting
    BY <1>2, <1>3, <2>1
  <2>3. channels' \in [DOMAIN channels' -> Setting]
    BY <1>2, <2>2
  <2>4. \A n \in DOMAIN answer' : answer'[n] \in DOMAIN channels'
    BY <1>1, <1>2, <1>3
  <2>5. DOMAIN answer' \subseteq JobNames
    BY <1>1, <1>3
  <2>6. QED BY <1>1, <1>2, <1>3, <2>3, <2>4, <2>5 DEF ConfTypes
<1>5. \A i \in 1..done : Path(config[i].name) \in DOMAIN channels
  BY <1>3 DEF Applied
<1>6. Applied'
  <2>1. \A i \in 1..done : Path(config[i].name) \in DOMAIN channels'
    BY <1>2, <1>5
  <2>2. ASSUME NEW q \in DOMAIN channels'
        PROVE  \/ (\A i \in 1..done : Path(config[i].name) # q) /\ channels'[q] = Unnamed(q)
               \/ \E l \in 1..done : LastOf(q, l, done) /\ channels'[q] = Settings(config[l])
    <3>1. CASE q \in DOMAIN channels
      <4>1. channels'[q] = channels[q]
        BY <1>2, <3>1
      <4>2. QED BY <1>1, <1>3, <3>1, <4>1 DEF Applied
    <3>2. CASE q \notin DOMAIN channels
      BY <1>1, <1>2, <1>5, <3>2 DEF Unnamed, Root, Tree
    <3>3. QED BY <3>1, <3>2
  <2>3. QED BY <1>1, <2>1, <2>2 DEF Applied, LastOf
<1>7. Limited'
  <2> SUFFICES ASSUME NEW n \in DOMAIN answer', NEW i \in 1..done,
                      Begins(Path(config[i].name), Path(n))
               PROVE  Begins(Path(config[i].name), answer'[n])
    BY <1>1 DEF Limited
  <2>1. CASE n = asked
    <3>1. Path(config[i].name) \in DOMAIN channels /\ Path(config[i].name) \in PathNames
      BY <1>1, <1>5 DEF Tree
    <3>2. QED BY <1>1, <2>1, <3>1, NoEscape
  <2>2. CASE n # asked
    BY <1>1, <1>3, <2>2 DEF Limited
  <2>3. QED BY <2>1, <2>2
<1>8. Steady'
  <2> SUFFICES ASSUME NEW n \in DOMAIN answer', IsInjective(Path(n))
               PROVE  answer'[n] = ChannelOf(Path(n), TRUE)'
    BY DEF Steady
  <2>1. Path(n) \in PathNames
    BY <1>1, <1>3, NamesArePaths
  <2>2. answer'[n] = ChannelOf(Path(n), TRUE)
    BY <1>1, <1>3 DEF Steady
  <2>3. answer'[n] \in DOMAIN channels'
    BY <1>1, <1>2, <1>3
  <2>4. QED BY <1>1, <2>1, <2>2, <2>3, SameAnswer
<1>9. DOMAIN answer' # {} => done' = Len(config')
  BY <1>1
<1>10. QED BY <1>4, <1>6, <1>7, <1>8, <1>9 DEF ConfInv

LEMMA ConfAlways == ConfigSpec => []ConfInv
<1>1. ConfInv /\ [ConfigNext]_configVars => ConfInv'
  <2> SUFFICES ASSUME ConfInv, [ConfigNext]_configVars PROVE ConfInv'
    OBVIOUS
  <2>1. CASE ParseFails
    BY <2>1, ParseFailsInv
  <2>2. CASE ConfigureNext
    BY <2>2, ConfigureInv
  <2>3. ASSUME NEW asked \in JobNames, Resolve(asked) PROVE ConfInv'
    BY <2>3, ResolveInv
  <2>4. CASE UNCHANGED configVars
    <3>1. /\ config' = config /\ done' = done /\ channels' = channels
          /\ refused' = refused /\ answer' = answer
      BY <2>4 DEF configVars
    <3>2. ConfTypes'
      BY <3>1 DEF ConfInv, ConfTypes, Tree
    <3>3. Applied'
      BY <3>1 DEF ConfInv, Applied, LastOf
    <3>4. Steady'
      BY <3>1 DEF ConfInv, Steady, ChannelOf, Base
    <3>5. Limited'
      BY <3>1 DEF ConfInv, Limited
    <3>6. QED BY <3>1, <3>2, <3>3, <3>4, <3>5 DEF ConfInv
  <2>5. QED BY <2>1, <2>2, <2>3, <2>4 DEF ConfigNext
<1>2. QED BY <1>1, ConfInitInv, PTL DEF ConfigSpec

LEMMA ConfImpliesTypes == ConfInv => ConfigTypeOK
<1> SUFFICES ASSUME ConfInv PROVE ConfigTypeOK
  OBVIOUS
<1>1. \A p \in DOMAIN channels :
        channels[p] \in [capacity: {Unlimited, "0", "1", "2", "3"},
                         sequential: BOOLEAN, throttle: {"0", "1", "2", "3"}]
  BY DEF ConfInv, ConfTypes, Setting, Numbers
<1>2. QED BY <1>1 DEF ConfInv, ConfTypes, Tree, ConfigTypeOK, Root

\* Type correctness of the configuration and of the tree of channels.
THEOREM ConfigIsTyped == ConfigSpec => []ConfigTypeOK
BY ConfAlways, ConfImpliesTypes, PTL

LEMMA ConfImpliesAsConfigured == ConfInv => AsConfigured
<1> SUFFICES ASSUME ConfInv, Ready, NEW p \in DOMAIN channels
             PROVE  channels[p] =
                IF p \in Configured
                THEN LET last == CHOOSE i \in DOMAIN config :
                             /\ Path(config[i].name) = p
                             /\ \A k \in DOMAIN config : Path(config[k].name) = p => k <= i
                     IN Settings(config[last])
                ELSE IF p = Root THEN [Default EXCEPT !.capacity = "1"] ELSE Default
  BY DEF AsConfigured
<1> DEFINE IsLast(i) == /\ Path(config[i].name) = p
                        /\ \A k \in DOMAIN config : Path(config[k].name) = p => k <= i
           last == CHOOSE i \in DOMAIN config : IsLast(i)
<1>1. /\ config \in Seq(Entries) /\ Applied /\ ~refused /\ done = Len(config)
      /\ DOMAIN config = 1..done /\ done \in Nat
  BY DEF ConfInv, ConfTypes, Ready
<1>2. CASE (\A i \in 1..done : Path(config[i].name) # p) /\ channels[p] = Unnamed(p)
  <2>1. p \notin Configured
    BY <1>1, <1>2 DEF Configured
  <2>2. QED BY <1>2, <2>1 DEF Unnamed
<1>3. ASSUME NEW l \in 1..done, LastOf(p, l, done), channels[p] = Settings(config[l])
      PROVE  p \in Configured /\ channels[p] = Settings(config[last])
  <2>1. l \in DOMAIN config /\ IsLast(l)
    BY <1>1, <1>3 DEF LastOf
  <2>2. last \in DOMAIN config /\ IsLast(last)
    BY <2>1
  <2>3. last = l
    BY <1>1, <2>1, <2>2
  <2>4. QED BY <1>3, <2>1, <2>3 DEF Configured
<1>4. QED BY <1>1, <1>2, <1>3 DEF Applied

LEMMA ConfImpliesLimits == ConfInv => LimitsHold
<1> SUFFICES ASSUME ConfInv, NEW asked \in DOMAIN answer, NEW i \in DOMAIN config,
                    Path(config[i].name) \in Prefixes(Path(asked))
             PROVE  Path(config[i].name) \in Prefixes(answer[asked])
  BY DEF LimitsHold, Configured
<1>1. /\ config \in Seq(Entries) /\ done = Len(config) /\ Tree /\ asked \in JobNames
      /\ answer[asked] \in DOMAIN channels /\ Limited
  BY DEF ConfInv, ConfTypes
<1>2. i \in 1..done /\ Path(asked) \in PathNames /\ answer[asked] \in PathNames
  BY <1>1, NamesArePaths DEF Tree
<1>3. Path(config[i].name) \in PathNames /\ Begins(Path(config[i].name), Path(asked))
  BY <1>2, PrefixesBegin
<1>4. Begins(Path(config[i].name), answer[asked])
  BY <1>1, <1>2, <1>3 DEF Limited
<1>5. QED BY <1>2, <1>3, <1>4, PrefixesBegin

LEMMA AnswersStay ==
  ConfInv /\ [ConfigNext]_configVars => KeepsAnswers
<1> SUFFICES ASSUME ConfInv, [ConfigNext]_configVars, NEW asked \in DOMAIN answer,
                    IsInjective(Path(asked))
             PROVE  answer'[asked] = answer[asked]
  BY DEF KeepsAnswers
<1>1. CASE ParseFails \/ ConfigureNext \/ UNCHANGED configVars
  BY <1>1 DEF ParseFails, ConfigureNext, configVars
<1>2. ASSUME NEW n \in JobNames, Resolve(n) PROVE answer'[asked] = answer[asked]
  <2>1. answer[asked] = ChannelOf(Path(asked), TRUE)
    BY DEF ConfInv, Steady
  <2>2. QED BY <1>2, <2>1, ResolveFacts
<1>3. QED BY <1>1, <1>2 DEF ConfigNext

\* A job is kept in the channels it was configured for: a channel has what the
\* last entry for it asks for, no lookup leads a job out of a configured channel,
\* and a name without a repeated part keeps its channel (get_channel_from_config,
\* get_channel_by_name).
THEOREM JobsKeepChannelsHolds == ConfigSpec => JobsKeepChannels
<1>1. ConfInv => AsConfigured /\ LimitsHold
  BY ConfImpliesAsConfigured, ConfImpliesLimits
<1>2. QED BY <1>1, ConfAlways, AnswersStay, PTL DEF ConfigSpec, JobsKeepChannels, SameChannel

-----------------------------------------------------------------------------
(* All of them beside each other                                           *)

LEMMA PartsBegin ==
  Init => JobTxInit /\ StorageInit /\ FnInit /\ ConfigInit /\ IdentityInit /\ MailInit
BY DEF Init

LEMMA PartsStep ==
  [Next]_vars =>
    /\ [JobTxNext]_jobTxVars /\ [StorageNext]_storageVars /\ [FnNext]_fnVars
    /\ [ConfigNext]_configVars /\ [IdentityNext]_identityVars /\ [MailNext]_mailVars
<1> SUFFICES ASSUME [Next]_vars
             PROVE  /\ [JobTxNext]_jobTxVars /\ [StorageNext]_storageVars /\ [FnNext]_fnVars
                    /\ [ConfigNext]_configVars /\ [IdentityNext]_identityVars
                    /\ [MailNext]_mailVars
  OBVIOUS
<1>1. \/ JobTxNext \/ UNCHANGED jobTxVars
  BY DEF Next, vars
<1>2. \/ StorageNext \/ UNCHANGED storageVars
  BY DEF Next, vars
<1>3. \/ FnNext \/ UNCHANGED fnVars
  BY DEF Next, vars
<1>4. \/ ConfigNext \/ UNCHANGED configVars
  BY DEF Next, vars
<1>5. \/ IdentityNext \/ UNCHANGED identityVars
  BY DEF Next, vars
<1>6. \/ MailNext \/ UNCHANGED mailVars
  BY DEF Next, vars
<1>7. QED BY <1>1, <1>2, <1>3, <1>4, <1>5, <1>6

\* Each part behaves as it does alone.
LEMMA PartsAsAlone ==
  Spec => JobTxSpec /\ StorageSpec /\ FnSpec /\ ConfigSpec /\ IdentitySpec /\ MailSpec
BY PartsBegin, PartsStep, PTL
   DEF Spec, JobTxSpec, StorageSpec, FnSpec, ConfigSpec, IdentitySpec, MailSpec

\* Type correctness of all the queues: rows of jobs, functions, channels, keys
\* and mails.
THEOREM QueueModelsAreTyped == Spec => []TypeOK
<1>1. JobTxTypeOK /\ StorageTypeOK /\ FnTypeOK /\ ConfigTypeOK /\ IdentityTypeOK /\ MailTypeOK
        => TypeOK
  BY DEF TypeOK
<1>2. QED
  BY <1>1, PartsAsAlone, JobTxTypes, RowsAreTyped, FunctionsAreTyped, ConfigIsTyped,
     IdentityIsTyped, MailsAreTyped, PTL
=============================================================================
