---------------------------- MODULE RunnerService ----------------------------
(***************************************************************************)
(* The runner as a service of the Odoo server: how the server starts,      *)
(* stops and replaces it (jobrunner/__init__.py), and how it opens, serves *)
(* and drops the databases of the server together (jobrunner/runner.py).   *)
(* The channels are taken here as one with room for every job; JobRunner   *)
(* models the channels and one database in full.                           *)
(***************************************************************************)
EXTENDS Naturals, Sequences, SequencesExt

CONSTANTS
  Db,        \* the databases of the server
  DbNames,   \* their names in the order get_db_names lists them
  Uuid,      \* uuids of jobs
  Tables,    \* the tables queue_job there may be at first
  NoDb,
  MaxFailures  \* bound: failing queries, killed runners, CPU limits

ASSUME ServiceAssumption ==
  /\ DbNames \in Seq(Db) /\ MaxFailures \in Nat /\ NoDb \notin Db
  /\ Tables \subseteq [Db -> [Uuid -> {"none", "pending", "sent", "done"}]]

VARIABLES
  server,    \* the Odoo server: up, stopping or down
  prefork,   \* it forks workers, or has threads only
  table,     \* table[d][u]: the job's row in d; sent: enqueued or started
  rpc,       \* where the runner is
  stop,      \* its _stop
  stopPipe,  \* a byte is in its _stop_pipe
  recover,   \* _recover of its worker process
  toOpen,    \* databases initialize_databases has still to open
  served,    \* the keys of db_by_name
  known,     \* known[u]: db_name of u in _jobs_by_uuid, or NoDb
  ready,     \* the jobs in the queue of the channel
  notified,  \* notified[d]: uuids notified on the connection to d
  failures     \* failures still to come

serviceVars == <<server, prefork, table, rpc, stop, stopPipe, recover, toOpen,
                 served, known, ready, notified, failures>>
runnerVars == <<stop, stopPipe, toOpen, served, known, ready, notified>>

Unfinished == {"pending", "sent"}

NewRunner ==    \* QueueJobRunner.__init__
  /\ stop' = FALSE /\ stopPipe' = FALSE /\ toOpen' = <<>> /\ served' = {}
  /\ known' = [u \in Uuid |-> NoDb] /\ ready' = {}
  /\ notified' = [d \in Db |-> {}]

ServiceInit ==
  /\ server = "up" /\ prefork \in BOOLEAN /\ table \in Tables
  /\ rpc = "off" /\ stop = FALSE /\ stopPipe = FALSE /\ recover = FALSE
  /\ toOpen = <<>> /\ served = {} /\ known = [u \in Uuid |-> NoDb]
  /\ ready = {} /\ notified = [d \in Db |-> {}] /\ failures = MaxFailures

-----------------------------------------------------------------------------
(* The server                                                              *)

\* threaded_start; prefork_process_spawn, also after the process has died
StartRunner ==
  /\ server = "up" /\ rpc = "off"
  /\ NewRunner /\ recover' = FALSE
  /\ rpc' = "delay"
  /\ UNCHANGED <<server, prefork, table, failures>>

Stop == stop' = TRUE /\ stopPipe' = TRUE

\* threaded_stop; the signal handler of the runner's worker process
StopServer ==
  /\ server = "up" /\ server' = "stopping"
  /\ IF rpc = "off" THEN UNCHANGED <<stop, stopPipe>> ELSE Stop
  /\ UNCHANGED <<prefork, table, rpc, recover, toOpen, served, known, ready,
                 notified, failures>>

\* the thread is joined, the workers have ended
StopEnds ==
  /\ server = "stopping" /\ rpc = "off"
  /\ server' = "down"
  /\ UNCHANGED <<prefork, table, rpc, recover, failures, runnerVars>>

StartServer ==
  /\ server = "down" /\ server' = "up"
  /\ UNCHANGED <<prefork, table, rpc, recover, failures, runnerVars>>

Failure == failures > 0 /\ failures' = failures - 1

\* signal_time_expired_handler, in a process of its own only
CpuLimit ==
  /\ prefork /\ server = "up" /\ rpc \notin {"off", "ended", "again"} /\ Failure
  /\ recover' = TRUE
  /\ Stop
  /\ UNCHANGED <<server, prefork, table, rpc, toOpen, served, known, ready, notified>>

\* The worker process dies, and what it held; prefork_worker_pop lets it be
\* spawned again.
Dies ==
  /\ prefork /\ rpc # "off"
  /\ rpc' = "off" /\ NewRunner /\ recover' = FALSE
  /\ UNCHANGED <<server, prefork, table>>

RunnerKilled == server = "up" /\ Failure /\ Dies

\* The server ends a worker that does not stop in time; a thread is joined
\* for ever.
StopTimeout == server = "stopping" /\ Dies /\ UNCHANGED failures

\* The runner has returned: its thread ends, and its worker unless it is alive.
Returned ==
  /\ rpc = "ended"
  /\ IF prefork /\ server = "up"
     THEN rpc' = "again" /\ UNCHANGED <<recover, runnerVars>>
     ELSE rpc' = "off" /\ NewRunner /\ recover' = FALSE
  /\ UNCHANGED <<server, prefork, table, failures>>

\* Mutant of WorkAgain: the runner that was stopped is run again.
WorkAgain_SameRunner ==
  /\ rpc = "again"
  /\ rpc' = "delay" /\ recover' = FALSE
  /\ UNCHANGED <<server, prefork, table, failures, runnerVars>>

\* process_work once more: with a new runner when it recovers, even if it has
\* been asked to stop since.
WorkAgain ==
  /\ rpc = "again"
  /\ rpc' = "delay" /\ recover' = FALSE
  /\ IF recover THEN NewRunner ELSE UNCHANGED runnerVars
  /\ UNCHANGED <<server, prefork, table, failures>>

-----------------------------------------------------------------------------
(* The runner                                                              *)

\* Every loop of run() looks at _stop first.
Go(where) == rpc' = IF stop THEN "closing" ELSE where

BeginRun ==
  /\ rpc = "delay"
  /\ Go("init") /\ toOpen' = DbNames
  /\ UNCHANGED <<server, prefork, table, stop, stopPipe, recover, served, known,
                 ready, notified, failures>>

\* The assertions of notify hold for u in d.
Same(u, d) == known[u] \in {NoDb, d}

\* Database() and the jobs that are not done; an AssertionError ends the loop
\* over them somewhere.
OpenDatabase ==
  /\ rpc = "init" /\ toOpen # <<>>
  /\ LET d == Head(toOpen)
         jobs == {u \in Uuid : table[d][u] \in Unfinished}
     IN  /\ served' = served \cup {d}
         /\ toOpen' = Tail(toOpen)
         /\ known' = [u \in Uuid |-> IF u \in jobs /\ Same(u, d) THEN d ELSE known[u]]
         /\ ready' = ready \cup {u \in jobs : Same(u, d) /\ table[d][u] = "pending"}
         /\ rpc' = IF \A u \in jobs : Same(u, d) THEN "init" ELSE "recovery"
  /\ UNCHANGED <<server, prefork, table, stop, stopPipe, recover, notified, failures>>

AllOpen ==
  /\ rpc = "init" /\ toOpen = <<>>
  /\ Go("notifications")
  /\ UNCHANGED <<server, prefork, table, recover, failures, runnerVars>>

\* process_notifications: the rows are read again
ReadNotification(d, u) ==
  /\ rpc = "notifications" /\ ~stop /\ d \in served /\ u \in notified[d]
  /\ notified' = [notified EXCEPT ![d] = @ \ {u}]
  /\ IF table[d][u] = "none"
     THEN /\ known' = [known EXCEPT ![u] = NoDb] /\ ready' = ready \ {u}
          /\ UNCHANGED rpc
     ELSE IF Same(u, d)
     THEN /\ known' = [known EXCEPT ![u] = d]
          /\ ready' = IF table[d][u] = "pending" THEN ready \cup {u} ELSE ready \ {u}
          /\ UNCHANGED rpc
     ELSE rpc' = "recovery" /\ UNCHANGED <<known, ready>>
  /\ UNCHANGED <<server, prefork, table, stop, stopPipe, recover, toOpen, served, failures>>

AllProcessed ==
  /\ rpc = "notifications" /\ (stop \/ \A d \in served : notified[d] = {})
  /\ rpc' = "run"
  /\ UNCHANGED <<server, prefork, table, recover, failures, runnerVars>>

\* run_jobs: the job is enqueued in its database, and Odoo asked to run it
RunJob(u) ==
  /\ rpc = "run" /\ ~stop /\ u \in ready
  /\ ready' = ready \ {u}
  /\ IF known[u] \notin served
     THEN rpc' = "recovery" /\ UNCHANGED <<table, notified>>       \* KeyError
     ELSE /\ UNCHANGED rpc
          /\ table' = [table EXCEPT ![known[u]][u] = IF @ = "none" THEN @ ELSE "sent"]
          /\ notified' = IF table[known[u]][u] = "none" THEN notified
                         ELSE [notified EXCEPT ![known[u]] = @ \cup {u}]
  /\ UNCHANGED <<server, prefork, stop, stopPipe, recover, toOpen, served, known, failures>>

AllRun ==
  /\ rpc = "run" /\ (stop \/ ready = {})
  /\ rpc' = "wait"
  /\ UNCHANGED <<server, prefork, table, recover, failures, runnerVars>>

\* wait_notification: select() on the connections and the stop pipe
WakeUp ==
  /\ rpc = "wait" /\ (stopPipe \/ \E d \in served : notified[d] # {})
  /\ Go("notifications")
  /\ UNCHANGED <<server, prefork, table, recover, failures, runnerVars>>

SelectEnds ==
  /\ rpc = "wait"
  /\ Go("notifications")
  /\ UNCHANGED <<server, prefork, table, recover, failures, runnerVars>>

\* A query of the runner fails, on any of its connections.
QueryFails ==
  /\ rpc \in {"init", "notifications", "run", "wait"} /\ Failure
  /\ rpc' = "recovery"
  /\ UNCHANGED <<server, prefork, table, recover, runnerVars>>

\* close_databases, sleep, and the outer loop again
Recovery ==
  /\ rpc = "recovery"
  /\ known' = [u \in Uuid |-> IF known[u] \in served THEN NoDb ELSE known[u]]
  /\ ready' = {u \in ready : known[u] \notin served}
  /\ served' = {} /\ notified' = [d \in Db |-> {}]
  /\ Go("init") /\ toOpen' = DbNames
  /\ UNCHANGED <<server, prefork, table, stop, stopPipe, recover, failures>>

CloseDatabases ==
  /\ rpc = "closing" /\ rpc' = "ended"
  /\ served' = {} /\ notified' = [d \in Db |-> {}]
  /\ UNCHANGED <<server, prefork, table, stop, stopPipe, recover, toOpen, known,
                 ready, failures>>

RunnerStep ==
  \/ BeginRun \/ OpenDatabase \/ AllOpen \/ AllProcessed \/ AllRun \/ WakeUp
  \/ Recovery \/ CloseDatabases \/ Returned \/ WorkAgain
  \/ \E u \in Uuid : RunJob(u) \/ \E d \in Db : ReadNotification(d, u)

-----------------------------------------------------------------------------
(* The databases                                                           *)

Changed(d, u, state) ==
  /\ table' = [table EXCEPT ![d][u] = state]
  /\ notified' = IF d \in served THEN [notified EXCEPT ![d] = @ \cup {u}] ELSE notified
  /\ UNCHANGED <<server, prefork, rpc, stop, stopPipe, recover, toOpen, served,
                 known, ready, failures>>

\* A uuid is made once (uuid4): the job is in no other database.
DelayJob(d, u) == (\A e \in Db : table[e][u] = "none") /\ Changed(d, u, "pending")
JobEnds(d, u) == table[d][u] = "sent" /\ Changed(d, u, "done")
JobPostponed(d, u) == table[d][u] = "sent" /\ Changed(d, u, "pending")

ServiceNext ==
  \/ StartRunner \/ StopServer \/ StopEnds \/ StartServer \/ CpuLimit \/ RunnerKilled
  \/ StopTimeout
  \/ RunnerStep \/ SelectEnds \/ QueryFails
  \/ \E d \in Db, u \in Uuid : DelayJob(d, u) \/ JobEnds(d, u) \/ JobPostponed(d, u)

\* The server starts runners and ends after them, its timeout included, and the
\* runner goes on; select() returns when there is something to read.
ServiceSpec ==
  /\ ServiceInit /\ [][ServiceNext]_serviceVars
  /\ WF_serviceVars(StartRunner) /\ WF_serviceVars(StopEnds)
  /\ WF_serviceVars(StopTimeout) /\ WF_serviceVars(RunnerStep)

-----------------------------------------------------------------------------
\* The types of the variables.
ServiceTypeOK ==
  /\ server \in {"up", "stopping", "down"} /\ prefork \in BOOLEAN
  /\ table \in [Db -> [Uuid -> {"none", "pending", "sent", "done"}]]
  /\ rpc \in {"off", "delay", "init", "notifications", "run", "wait", "recovery",
              "closing", "ended", "again"}
  /\ stop \in BOOLEAN /\ stopPipe \in BOOLEAN /\ recover \in BOOLEAN
  /\ IsSuffix(toOpen, DbNames) /\ served \subseteq Db
  /\ known \in [Uuid -> Db \cup {NoDb}] /\ ready \subseteq Uuid
  /\ notified \in [Db -> SUBSET Uuid] /\ failures \in 0..MaxFailures

\* The runner asks Odoo to run jobs of databases it is connected to, and of no
\* other: what it knew through connections it lost is forgotten with them.
KnownIsServed ==
  rpc \in {"init", "notifications", "run", "wait"} =>
    \A u \in Uuid : known[u] # NoDb => known[u] \in served

\* A server that is asked to stop does: a runner that sleeps wakes up for it, and
\* one that starts, waits or recovers sees it in time.
StopsWhenAsked == server = "stopping" ~> server = "down"

\* The runner serves every database of the server, after errors, CPU limits and
\* the death of its process too: a pending job is sent, unless the server stops.
AllServed ==
  \A d \in Db, u \in Uuid :
    table[d][u] = "pending" ~> (table[d][u] # "pending" \/ server # "up")
\* The runner serves its databases, no less and no more, and stops in time.
ServesAndStops == [](ServiceTypeOK /\ KnownIsServed) /\ StopsWhenAsked /\ AllServed
=============================================================================
