------------------------------ MODULE JobRunner ------------------------------
(***************************************************************************)
(* The life of queued jobs: the queue_job table with its NOTIFY trigger,   *)
(* the runner process (jobrunner/runner.py) and its channels, the threads  *)
(* that ask Odoo to run a job, the HTTP workers that run it                *)
(* (controllers/main.py), the cron and the users.  They share nothing but  *)
(* the table, and none of them waits for another.                          *)
(***************************************************************************)
EXTENDS Channels

CONSTANTS
  ChannelOf,   \* ChannelOf[j]: the channel of job j
  PrioOf,      \* PrioOf[j]: its priority
  DependsOn,   \* DependsOn[j]: the jobs j depends on
  Graph,       \* the sets of jobs delayed together, in one transaction
  Etas,        \* the etas a job may be created with, 0 for none
  MaxRetries,  \* max_retries of the jobs, 0 for no limit
  RetryDelay,  \* seconds a job is postponed by
  Call,        \* bound: the HTTP calls in progress at one time
  MaxClock,    \* bound: the last instant; etas are capped there
  MaxRetry,    \* bound: the retry counter saturates there
  MaxFaults,   \* bound: timeouts before the request is read, crashes, ...
  UserOps,     \* what users do: subset of {"requeue","done","cancel","vacuum"}
  Requeued     \* the states in which users requeue a job

ASSUME RunnerAssumption ==
  /\ ChannelOf \in [Job -> Channel] /\ PrioOf \in [Job -> Prio]
  /\ DependsOn \in [Job -> SUBSET Job]
  /\ Graph \subseteq SUBSET Job
  /\ Etas \subseteq 0..MaxClock
  /\ MaxRetries \in Nat /\ RetryDelay \in Nat /\ MaxRetry \in Nat
  /\ MaxClock \in Nat \ {0} /\ MaxFaults \in Nat

VARIABLES
  row,       \* row[j]: the record of job j in the table queue_job
  wire,      \* uuids notified and not yet read by the runner's connection
  notifies,  \* conn.notifies: uuids read and not yet processed
  pc,        \* what the runner does
  cur,       \* the job the runner is asking Odoo to run
  call,      \* call[k]: an HTTP call, its thread and the worker serving it
  clock,     \* the current time
  faults     \* faults still to come

vars == <<chvars, row, wire, notifies, pc, cur, call, clock, faults>>

State == {"wait_dependencies", "pending", "enqueued", "started", "done",
          "cancelled", "failed"}
NoRow == {"none", "deleted"}      \* not created yet; deleted
\* Mutant of NotDone: started jobs are not loaded by a new runner.
NotDone_NoStarted == {"wait_dependencies", "pending", "enqueued", "failed"}
NotDone == {"wait_dependencies", "pending", "enqueued", "started", "failed"}
Busy(j) == row[j].state \in {"enqueued", "started"}

\* client: the thread of _async_http_get, waiting for the reply or ended.
\* server: the request is unread, its worker performs the job, has
\* committed it as done but not yet released its dependents, or has replied,
\* with an error when the job failed.
CallState == [job : Job, client : {"waiting", "ended"},
              server : {"unread", "performing", "committed", "over", "error"}]
Free == [job |-> NoJob, client |-> "ended", server |-> "over"]
IsFree(k) == call[k].client = "ended" /\ call[k].server \in {"over", "error"}
Performing(j) == {k \in Call : ~IsFree(k) /\ call[k].job = j
                               /\ call[k].server = "performing"}

Init ==
  /\ ChInit
  /\ row \in [Job -> {[state |-> "none", eta |-> e, retry |-> 0] : e \in Etas}]
  /\ wire = {} /\ notifies = {}
  /\ pc = "init" /\ cur = NoJob
  /\ call = [k \in Call |-> Free]
  /\ clock = 1 /\ faults = MaxFaults

-----------------------------------------------------------------------------
(* The table.  A committed change of a row notifies its uuid; nobody       *)
(* listens before the runner's LISTEN.                                     *)

Exists(r, j) == r[j].state \notin NoRow

Commit(r, changed) ==
  /\ row' = r
  /\ wire' = IF pc = "init" THEN wire ELSE wire \cup changed

Set(j, s) == [row EXCEPT ![j].state = s]

\* Job.set_pending: depends_on loads the parents that still exist.
\* Mutant of ParentsDone: one parent is enough.
ParentsDone_Any(r, j) ==
  DependsOn[j] = {} \/ \E p \in DependsOn[j] : Exists(r, p) /\ r[p].state = "done"
ParentsDone(r, j) == \A p \in DependsOn[j] : Exists(r, p) => r[p].state = "done"
PendingState(r, j) ==
  IF ParentsDone(r, j) THEN "pending" ELSE "wait_dependencies"

\* Job.enqueue_waiting: one UPDATE of the children whose parents are all done
Released(r, j) == {i \in Job : /\ j \in DependsOn[i]
                               /\ r[i].state = "wait_dependencies"
                               /\ ParentsDone(r, i)}
EnqueueWaiting(r, j) ==
  [i \in Job |-> IF i \in Released(r, j) THEN [r[i] EXCEPT !.state = "pending"]
                 ELSE r[i]]

\* Delayable.delay: the jobs of a graph are stored in one transaction.
Delay(g) ==
  /\ \A j \in g : row[j].state = "none"
  /\ Commit([j \in Job |->
              IF j \in g THEN [row[j] EXCEPT !.state =
                IF DependsOn[j] = {} THEN "pending" ELSE "wait_dependencies"]
              ELSE row[j]], g)
  /\ UNCHANGED <<chvars, notifies, pc, cur, call, clock, faults>>

-----------------------------------------------------------------------------
(* The runner                                                              *)

\* Every query on the runner's connection reads the notifications in.
ReadWire(more) == notifies' = notifies \cup wire \cup more /\ wire' = {}

Listen ==
  /\ pc = "init" /\ pc' = "select"
  /\ wire' = {} /\ notifies' = {}
  /\ UNCHANGED <<chvars, row, cur, call, clock, faults>>

RowOf(j) == [chan |-> ChannelOf[j], prio |-> PrioOf[j], eta |-> row[j].eta]

\* Mutant of SelectNotDone: what was notified since LISTEN is dropped.
SelectNotDone_Deaf ==
  /\ pc = "select" /\ pc' = "notify"
  /\ wire' = {} /\ notifies' = {}
  /\ UNCHANGED <<chvars, row, cur, call, clock, faults>>

\* initialize_databases: one SELECT of the jobs that are not done
SelectNotDone ==
  /\ pc = "select" /\ pc' = "notify"
  /\ ReadWire({})
  /\ at' = [j \in Job |-> IF row[j].state \in NotDone
                          THEN Notified(at[j], obj[j], RowOf(j), row[j].state)
                          ELSE at[j]]
  /\ obj' = [j \in Job |-> IF row[j].state \in NotDone THEN RowOf(j)
                           ELSE obj[j]]
  /\ UNCHANGED <<pauseUntil, runNow, turn, row, cur, call, clock, faults>>

\* The notified row is read again: the state it has now counts.
ProcessNotification(j) ==
  /\ pc = "notify" /\ j \in notifies
  /\ notifies' = (notifies \ {j}) \cup wire /\ wire' = {}
  /\ IF Exists(row, j) THEN Notify(j, RowOf(j), row[j].state) ELSE RemoveJob(j)
  /\ UNCHANGED <<row, pc, cur, call, clock, faults>>

RunJobs ==
  /\ pc = "notify" /\ notifies = {}
  /\ pc' = "run"
  /\ StartRun(clock)
  /\ UNCHANGED <<row, wire, notifies, cur, call, clock, faults>>

\* The generator of the root is advanced until it yields a job or ends.
Advance ==
  /\ pc = "run"
  /\ \/ /\ \E c \in Channel \ {Root} : RunStep(c)
        /\ UNCHANGED <<pc, cur>>
     \/ /\ LeavePaused(Root) \/ LeaveFull(Root) \/ LeaveEmpty(Root)
        /\ pc' = "wait" /\ UNCHANGED cur
     \/ \E j \in Job : Yield(Root, j) /\ pc' = "enqueue" /\ cur' = j
  /\ UNCHANGED <<row, wire, notifies, call, clock, faults>>

\* UPDATE queue_job SET state = 'enqueued' WHERE uuid = cur
SetJobEnqueued ==
  /\ pc = "enqueue" /\ pc' = "http"
  /\ IF Exists(row, cur)
     THEN row' = Set(cur, "enqueued") /\ ReadWire({cur})
     ELSE UNCHANGED row /\ ReadWire({})
  /\ UNCHANGED <<chvars, cur, call, clock, faults>>

AsyncHttpGet ==
  /\ pc = "http"
  /\ \E k \in Call :
       /\ IsFree(k)
       /\ call' = [call EXCEPT ![k] = [job |-> cur, client |-> "waiting",
                                       server |-> "unread"]]
  /\ pc' = IF turn = 0 THEN "wait" ELSE "run"
  /\ cur' = NoJob
  /\ UNCHANGED <<chvars, row, wire, notifies, clock, faults>>

\* wait_notification: something was read already, or select() returns
\* because of a notification or of the wakeup time of the channels.
WaitNotification ==
  /\ pc = "wait" /\ pc' = "notify"
  /\ \/ notifies # {} /\ UNCHANGED <<notifies, wire>>
     \/ /\ notifies = {}
        /\ wire # {} \/ \E t \in WakeupTimes : t <= clock
        /\ ReadWire({})
  /\ UNCHANGED <<chvars, row, cur, call, clock, faults>>

\* ... or after SELECT_TIMEOUT when there is no wakeup time
SelectTimeout ==
  /\ pc = "wait" /\ pc' = "notify"
  /\ notifies = {} /\ WakeupTimes = {}
  /\ ReadWire({})
  /\ UNCHANGED <<chvars, row, cur, call, clock, faults>>

Runner == \/ Listen \/ SelectNotDone \/ RunJobs \/ Advance \/ SetJobEnqueued
          \/ AsyncHttpGet \/ WaitNotification
          \/ \E j \in Job : ProcessNotification(j)

ForgetJobs ==
  /\ at' = [j \in Job |-> Nowhere] /\ obj' = [j \in Job |-> NoJob]
  /\ turn' = 0 /\ runNow' = 0
  /\ pc' = "init" /\ cur' = NoJob
  /\ wire' = {} /\ notifies' = {}

Fault == faults > 0 /\ faults' = faults - 1

\* An exception in the runner: close_databases, then start over.  The pause
\* of a throttled root begins when its generator is resumed after a job: it
\* never does when asking Odoo to run that job has failed.
RunnerError ==
  /\ pc # "init" /\ Fault
  /\ ForgetJobs
  /\ pauseUntil' = IF pc \in {"enqueue", "http"}
                   THEN [pauseUntil EXCEPT ![Root] = 0] ELSE pauseUntil
  /\ UNCHANGED <<row, call, clock>>

\* The server dies: its threads and workers with it.  The documentation asks
\* to reset the started and enqueued jobs before it is started again.
Crash ==
  /\ Fault
  /\ ForgetJobs
  /\ pauseUntil' = [c \in Channel |-> 0]
  /\ call' = [k \in Call |-> Free]
  /\ \E reset \in BOOLEAN :
       row' = [j \in Job |-> IF reset /\ Busy(j)
                             THEN [row[j] EXCEPT !.state = "pending"]
                             ELSE row[j]]
  /\ UNCHANGED clock

-----------------------------------------------------------------------------
(* The HTTP call: the thread of the runner and the worker.                 *)

Server(k, s) == call' = [call EXCEPT ![k].server = s]

\* Mutant of ClientEnd: the reset does not check the state of the job.
ClientEnd_Unguarded(k) ==
  /\ ~IsFree(k) /\ call[k].client = "waiting"
  /\ call' = [call EXCEPT ![k].client = "ended"]
  /\ Commit(Set(call[k].job, "pending"), {call[k].job})
  /\ IF call[k].server \in {"unread", "over"} THEN Fault ELSE UNCHANGED faults
  /\ UNCHANGED <<chvars, notifies, pc, cur, clock>>

\* The thread ends by an error or a timeout of one second, and then resets
\* the job if it is still enqueued.  A timeout is a fault when the request
\* is unread or just answered; jobs of more than a second always cause it.
ClientEnd(k) ==
  /\ ~IsFree(k) /\ call[k].client = "waiting"
  /\ call' = [call EXCEPT ![k].client = "ended"]
  /\ LET j == call[k].job
     IN  IF row[j].state = "enqueued"
         THEN Commit(Set(j, "pending"), {j}) ELSE UNCHANGED <<row, wire>>
  /\ IF call[k].server \in {"unread", "over"} THEN Fault ELSE UNCHANGED faults
  /\ UNCHANGED <<chvars, notifies, pc, cur, clock>>

ClientReply(k) ==
  /\ ~IsFree(k) /\ call[k].client = "waiting" /\ call[k].server = "over"
  /\ call' = [call EXCEPT ![k].client = "ended"]
  /\ UNCHANGED <<chvars, row, wire, notifies, pc, cur, clock, faults>>

\* Mutant of Begin: the SELECT does not ask for the state.
Begin_AnyState(k) ==
  /\ ~IsFree(k) /\ call[k].server = "unread"
  /\ Server(k, "performing")
  /\ Commit(Set(call[k].job, "started"), {call[k].job})
  /\ UNCHANGED <<chvars, notifies, pc, cur, clock, faults>>

\* runjob: SELECT ... WHERE state = 'enqueued' FOR UPDATE, then set_started
\* and commit under that lock.
Begin(k) ==
  /\ ~IsFree(k) /\ call[k].server = "unread"
  /\ LET j == call[k].job
     IN  IF row[j].state = "enqueued"
         THEN /\ Server(k, "performing")
              /\ Commit(Set(j, "started"), {j})
         ELSE Server(k, "over") /\ UNCHANGED <<row, wire>>
  /\ UNCHANGED <<chvars, notifies, pc, cur, clock, faults>>

\* perform() counts the try in memory; it is stored with the outcome.
Tried(n) == IF n < MaxRetry THEN n + 1 ELSE n
Postponed == IF clock + RetryDelay > MaxClock THEN MaxClock
             ELSE clock + RetryDelay

MayRetry(j) == MaxRetries = 0 \/ Tried(row[j].retry) < MaxRetries

\* Mutant of PerformDone: the dependents are not looked at.
PerformDone_NoRelease(k) ==
  /\ ~IsFree(k) /\ call[k].server = "performing"
  /\ Server(k, "over")
  /\ Commit(Set(call[k].job, "done"), {call[k].job})
  /\ UNCHANGED <<chvars, notifies, pc, cur, clock, faults>>

\* The three outcomes of perform(), stored over whatever the row has become.
PerformDone(k) ==
  /\ ~IsFree(k) /\ call[k].server = "performing"
  /\ Server(k, "committed")
  /\ LET j == call[k].job
     IN  Commit([row EXCEPT ![j].state = "done",
                            ![j].retry = Tried(row[j].retry)], {j})
  /\ UNCHANGED <<chvars, notifies, pc, cur, clock, faults>>

PerformFails(k) ==
  /\ ~IsFree(k) /\ call[k].server = "performing"
  /\ Server(k, "error")
  /\ LET j == call[k].job
     IN  Commit([row EXCEPT ![j].state = "failed",
                            ![j].retry = Tried(row[j].retry)], {j})
  /\ UNCHANGED <<chvars, notifies, pc, cur, clock, faults>>

\* RetryableJobError: postponed, unless this was the last allowed try.  A
\* concurrency error of PostgreSQL (a fault) postpones without that limit.
Postpone(k) ==
  /\ ~IsFree(k) /\ call[k].server = "performing"
  /\ LET j == call[k].job
     IN  /\ MayRetry(j) \/ faults > 0
         /\ faults' = IF MayRetry(j) THEN faults ELSE faults - 1
         /\ Commit([row EXCEPT ![j] = [state |-> PendingState(row, j),
                                       eta |-> Postponed,
                                       retry |-> Tried(row[j].retry)]], {j})
  /\ Server(k, "over")
  /\ UNCHANGED <<chvars, notifies, pc, cur, clock>>

\* _enqueue_dependent_jobs: a transaction of its own, after the commit of
\* "done"; it may fail for good.
EnqueueDependentJobs(k) ==
  /\ ~IsFree(k) /\ call[k].server = "committed"
  /\ Server(k, "over")
  /\ LET j == call[k].job
     IN  Commit(EnqueueWaiting(row, j), Released(row, j))
  /\ UNCHANGED <<chvars, notifies, pc, cur, clock, faults>>

EnqueueDependentJobsFails(k) ==
  /\ ~IsFree(k) /\ call[k].server = "committed"
  /\ Fault
  /\ Server(k, "error")
  /\ UNCHANGED <<chvars, row, wire, notifies, pc, cur, clock>>

Perform(k) == \/ PerformDone(k) \/ PerformFails(k) \/ Postpone(k)
              \/ EnqueueDependentJobs(k)

-----------------------------------------------------------------------------
(* The cron and the users                                                  *)

Requeue(j) ==     \* queue.job requeue(), which resets the retry counter
  /\ Commit([row EXCEPT ![j].state = PendingState(row, j), ![j].retry = 0], {j})
  /\ UNCHANGED <<chvars, notifies, pc, cur, call, clock, faults>>

\* Mutant of RequeueStuckJobs: the search looks for the other state.
RequeueStuckJobs_Started(j) ==
  /\ row[j].state = "started"
  /\ \A k \in Call : IsFree(k) \/ call[k].job # j
  /\ Requeue(j)

\* requeue_stuck_jobs: enqueued for more than five minutes, when the thread
\* that waits at most one second for the reply has long ended.
RequeueStuckJobs(j) ==
  /\ row[j].state = "enqueued"
  /\ pc \in {"enqueue", "http"} => cur # j
  /\ \A k \in Call : ~IsFree(k) /\ call[k].job = j => call[k].client = "ended"
  /\ Requeue(j)

UserRequeue(j) ==
  /\ "requeue" \in UserOps
  /\ row[j].state \in Requeued \ {"wait_dependencies"}
  /\ Requeue(j)

UserDone(j) ==    \* button_done, its dependents in the same transaction
  /\ "done" \in UserOps /\ Exists(row, j)
  /\ LET r == Set(j, "done")
     IN  Commit(EnqueueWaiting(r, j), {j} \cup Released(r, j))
  /\ UNCHANGED <<chvars, notifies, pc, cur, call, clock, faults>>

UserCancel(j) ==
  /\ "cancel" \in UserOps
  /\ row[j].state \in {"pending", "enqueued", "failed"}
  /\ Commit(Set(j, "cancelled"), {j})
  /\ UNCHANGED <<chvars, notifies, pc, cur, call, clock, faults>>

\* autovacuum, days after the job was done or cancelled; the trigger does
\* not notify the deletion of a job that is done.
Autovacuum(j) ==
  /\ "vacuum" \in UserOps
  /\ row[j].state \in {"done", "cancelled"}
  /\ \A k \in Call : ~IsFree(k) => call[k].job # j
  /\ Commit(Set(j, "deleted"), IF row[j].state = "done" THEN {} ELSE {j})
  /\ UNCHANGED <<chvars, notifies, pc, cur, call, clock, faults>>

Tick ==
  /\ clock < MaxClock /\ clock' = clock + 1
  /\ UNCHANGED <<chvars, row, wire, notifies, pc, cur, call, faults>>

User == \E j \in Job : \/ UserRequeue(j) \/ UserDone(j) \/ UserCancel(j)
                       \/ Autovacuum(j)

Next ==
  \/ Runner \/ SelectTimeout \/ RunnerError \/ Crash \/ Tick \/ User
  \/ \E g \in Graph : Delay(g)
  \/ \E k \in Call : \/ ClientEnd(k) \/ ClientReply(k) \/ Begin(k)
                     \/ Perform(k) \/ EnqueueDependentJobsFails(k)
  \/ \E j \in Job : RequeueStuckJobs(j)

Spec == Init /\ [][Next]_vars

\* The runner loops, the workers read the requests they are sent and jobs
\* end, a thread waits for at most a second, the cron runs, time passes.
Fairness ==
  /\ WF_vars(Runner) /\ WF_vars(Tick)
  /\ \A k \in Call : /\ WF_vars(ClientEnd(k) \/ ClientReply(k))
                     /\ WF_vars(Begin(k)) /\ WF_vars(Perform(k))
  /\ \A j \in Job : WF_vars(RequeueStuckJobs(j))

FairSpec == Spec /\ Fairness

-----------------------------------------------------------------------------
TypeOK ==
  /\ ChTypeOK
  /\ row \in [Job -> [state : State \cup NoRow, eta : 0..MaxClock,
                      retry : 0..MaxRetry]]
  /\ wire \subseteq Job /\ notifies \subseteq Job
  /\ pc \in {"init", "select", "notify", "run", "enqueue", "http", "wait"}
  /\ cur \in Job \cup {NoJob}
  /\ call \in [Call -> CallState \cup {Free}]
  /\ clock \in 1..MaxClock /\ faults \in 0..MaxFaults

\* Two workers never perform one job at the same time, although a request
\* that timed out may be read late, after the job was reset and sent again.
OneWorkerPerJob ==
  \A j \in Job, k, l \in Call :
    k \in Performing(j) /\ l \in Performing(j) => k = l

\* A job that the table shows as enqueued or started runs in every channel
\* of the runner up to the root, whatever the runner has not been told yet;
\* this is what keeps it from being sent again.
BusyIsRunning ==
  pc \notin {"init", "select"} =>
    \A j \in Job : Busy(j) =>
      /\ \A c \in Up[ChannelOf[j]] : at[j][c] = {"running"}
      /\ ~(pc = "enqueue" /\ cur = j)

\* The workers never perform more jobs of a channel than its capacity, with
\* timeouts, errors of the runner and restarts.
WithinCapacity ==
  \A c \in Channel : Capacity[c] > 0 =>
    Cardinality({j \in Job : Performing(j) # {} /\ c \in Up[ChannelOf[j]]})
      <= Capacity[c]

Begins(j) == \E k \in Call : k \in Performing(j)' /\ k \notin Performing(j)

\* A job that begins has reached its eta, also after it was postponed while
\* an older request for it was still on its way.
EtaReached ==
  [][\A j \in Job : Begins(j) => row[j].eta <= clock]_vars

\* No job of a sequential channel begins while a job of it is failed: the
\* failure reaches the runner before the place in the channel is free.
SequentialStops ==
  [][\A i, j \in Job :
       Begins(i) /\ row[j].state = "failed"
       => ChannelOf[i] # ChannelOf[j] \/ ChannelOf[i] \notin Sequential]_vars

\* "the final state is done" (class Job): no late request, timeout, restart
\* or requeue of a stuck job takes a job out of it.
DoneIsFinal ==
  [][\A j \in Job : row[j].state = "done"
       => row'[j].state \in {"done", "deleted"}]_vars

\* Once nothing is left to read, the channels show the table as it is: no
\* notification was lost between LISTEN and the first SELECT, or reordered
\* into a stale state.  A runner asleep on a stale view would never wake up.
Settled == pc = "wait" /\ notifies = {} /\ wire = {}
InView(j) ==
  LET own == at[j][ChannelOf[j]]
  IN  CASE Busy(j) -> at[j][Root] = {"running"}
        [] row[j].state = "pending" -> /\ own # {} /\ own # {"failed"}
                                       /\ "running" \notin at[j][Root]
        [] row[j].state = "failed"  -> own = {"failed"}
        [] OTHER                    -> own = {}
ViewIsCurrent == Settled => \A j \in Job : InView(j)

\* A dependent job begins only when all its parents are done.
ParentsFirst ==
  [][\A j \in Job : Begins(j)
       => \A p \in DependsOn[j] : row[p].state = "done"]_vars

\* The job is considered as failed after max_retries tries.
RetryLimit ==
  \A j \in Job : row[j].state = "pending" /\ MaxRetries > 0
                   => row[j].retry < MaxRetries

\* The channels and the table agree: as much runs as they allow, and nothing
\* that is not known to them.
TableIsFollowed == WithinCapacity /\ ViewIsCurrent

\* Whatever makes a job begin, its parents, its eta, its sequential channel and
\* its number of tries let it.
JobsBegin == EtaReached /\ SequentialStops /\ ParentsFirst /\ []RetryLimit

\* Users who requeue, finish, cancel and delete jobs while they are sent and
\* performed make no job run twice or hold two places.
UsersHarmNothing == PlacedOnce /\ OneWorkerPerJob /\ BusyIsRunning

\* Every pending job is tried, in spite of timeouts, of errors of the runner
\* and of crashes, unless a crash has abandoned a started job, which holds
\* its place in the channels until a user requeues it (documented).
Abandoned == \E j \in Job : row[j].state = "started" /\ Performing(j) = {}
PendingIsTried ==
  \A j \in Job : row[j].state \in {"pending", "enqueued"} ~>
                   row[j].state \notin {"pending", "enqueued"} \/ Abandoned

\* A job whose parents are all done does not wait for ever.
DependentsReleased ==
  \A j \in Job :
    row[j].state = "wait_dependencies" /\ ParentsDone(row, j)
      ~> row[j].state # "wait_dependencies"
=============================================================================
