--------------------------- MODULE JobsBegin_proofs ---------------------------
(***************************************************************************)
(* What lets a job begin: its eta, its sequential channel, its parents and *)
(* the number of its tries, for every number of jobs, calls and channels;  *)
(* and its database, for any number of databases, failures and any server. *)
(***************************************************************************)
EXTENDS JobRunner_proofs, RunnerService

USE DEF ChannelJob, Place

-----------------------------------------------------------------------------
(* What the steps do to rows, queues and workers                           *)

\* j waits in a channel, or is about to be sent.
Waits(j) == \E c \in Channel : at[j][c] \cap {"queue", "eta"} # {}
Sending(j) == Waits(j) \/ (pc = "enqueue" /\ cur = j)

\* Neither the eta nor the number of tries of j is changed.
SameTries(j) == row'[j].eta = row[j].eta /\ row'[j].retry = row[j].retry

\* Everything that threads, workers, cron and users make of a row.
Delayed(j) ==
  /\ row[j].state = "none" /\ SameTries(j)
  /\ \/ row'[j].state = "wait_dependencies"
     \/ row'[j].state = "pending" /\ DependsOn[j] = {}
  /\ \E g \in Graph : j \in g /\ \A i \in g : row'[i].state # "none"
Freed(j) ==
  /\ row[j].state = "wait_dependencies" /\ row'[j].state = "pending"
  /\ SameTries(j) /\ ParentsDone(row', j)
Called(j) ==
  /\ row[j].state = "enqueued" /\ row'[j].state \in {"pending", "started"}
  /\ SameTries(j)
Finishes(j) ==
  /\ Performing(j) # {} /\ row'[j].retry = Tried(row[j].retry)
  /\ \/ row'[j].state \in {"done", "failed"}
     \/ row'[j].state = PendingState(row, j) /\ (MayRetry(j) \/ faults > 0)
Again(j) ==
  /\ row[j].state \in (Requeued \ {"wait_dependencies"}) \cup {"enqueued"}
  /\ row'[j].state = PendingState(row, j)
  /\ row'[j].eta = row[j].eta /\ row'[j].retry = 0
Ended(j) ==
  /\ SameTries(j)
  /\ \/ row'[j].state = "done" /\ "done" \in UserOps
     \/ row'[j].state = "deleted" /\ "vacuum" \in UserOps
     \/ row'[j].state = "cancelled" /\ row[j].state \in {"pending", "enqueued", "failed"}

RowChange(j) ==
  \/ row'[j] = row[j]
  \/ Delayed(j) \/ Freed(j) \/ Called(j) \/ Finishes(j) \/ Again(j) \/ Ended(j)

LEMMA FreedRows ==
  ASSUME NEW r \in [Job -> RowType], NEW j \in Job, NEW i \in Job, row' = EnqueueWaiting(r, j)
  PROVE  \/ row'[i] = r[i]
         \/ /\ r[i].state = "wait_dependencies" /\ row'[i].state = "pending"
            /\ row'[i].eta = r[i].eta /\ row'[i].retry = r[i].retry
            /\ ParentsDone(row', i)
<1>1. \A k \in Job : row'[k] = IF k \in Released(r, j)
                               THEN [r[k] EXCEPT !.state = "pending"] ELSE r[k]
  BY DEF EnqueueWaiting
<1>2. SUFFICES ASSUME i \in Released(r, j)
               PROVE  /\ r[i].state = "wait_dependencies" /\ row'[i].state = "pending"
                      /\ row'[i].eta = r[i].eta /\ row'[i].retry = r[i].retry
                      /\ ParentsDone(row', i)
  BY <1>1
<1>3. row'[i] = [r[i] EXCEPT !.state = "pending"] /\ r[i] \in RowType
  BY <1>1, <1>2
<1>4. r[i].state = "wait_dependencies" /\ ParentsDone(r, i)
  BY <1>2 DEF Released
<1>5. /\ row'[i].state = "pending"
      /\ row'[i].eta = r[i].eta /\ row'[i].retry = r[i].retry
  BY <1>3 DEF RowType
<1>6. ParentsDone(row', i)
  <2>1. SUFFICES ASSUME NEW p \in DependsOn[i], Exists(row', p) PROVE row'[p].state = "done"
    BY DEF ParentsDone
  <2>2. p \in Job
    BY <2>1, RunnerAssumption
  <2>3. CASE p \in Released(r, j)
    <3>1. r[p].state = "wait_dependencies"
      BY <2>3 DEF Released
    <3>2. QED BY <1>4, <2>1, <3>1 DEF ParentsDone, Exists, NoRow
  <2>4. CASE p \notin Released(r, j)
    <3>1. row'[p] = r[p]
      BY <1>1, <2>2, <2>4
    <3>2. QED BY <1>4, <2>1, <3>1 DEF ParentsDone, Exists
  <2>5. QED BY <2>3, <2>4
<1>7. QED BY <1>4, <1>5, <1>6

\* A change of one row.
LEMMA OneChange ==
  ASSUME NEW j \in Job, RowChange(j), \A i \in Job : i # j => row'[i] = row[i]
  PROVE  \A i \in Job : RowChange(i)
BY DEF RowChange

LEMMA DelayChange ==
  ASSUME IInv, NEW g \in Graph, Delay(g) PROVE \A j \in Job : RowChange(j)
<1>1. row \in [Job -> RowType] /\ g \subseteq Job
  BY TypeFacts, RunnerAssumption
<1>2. /\ \A j \in g : row[j].state = "none"
      /\ \A j \in Job : row'[j] = IF j \in g
           THEN [row[j] EXCEPT !.state =
                   IF DependsOn[j] = {} THEN "pending" ELSE "wait_dependencies"]
           ELSE row[j]
  BY DEF Delay, Commit
<1>3. ASSUME NEW j \in g
      PROVE  /\ SameTries(j)
             /\ row'[j].state = IF DependsOn[j] = {} THEN "pending" ELSE "wait_dependencies"
  BY <1>1, <1>2 DEF SameTries, RowType
<1>4. \A i \in g : row'[i].state # "none"
  BY <1>3
<1>5. \A j \in g : Delayed(j)
  BY <1>2, <1>3, <1>4 DEF Delayed
<1>6. QED BY <1>1, <1>2, <1>5 DEF RowChange

LEMMA RequeueChange ==
  ASSUME IInv, NEW j \in Job, Requeue(j),
         row[j].state \in (Requeued \ {"wait_dependencies"}) \cup {"enqueued"}
  PROVE  \A i \in Job : RowChange(i)
<1>1. row' = [row EXCEPT ![j].state = PendingState(row, j), ![j].retry = 0]
  BY DEF Requeue, Commit
<1>2. /\ row'[j].state = PendingState(row, j) /\ row'[j].retry = 0
      /\ row'[j].eta = row[j].eta
      /\ \A i \in Job : i # j => row'[i] = row[i]
  BY <1>1, TypeFacts DEF RowType
<1>3. QED BY <1>2, OneChange DEF RowChange, Again

\* An update of the state of one row.
LEMMA SetChange ==
  ASSUME IInv, NEW j \in Job, NEW s \in State \cup NoRow, row' = Set(j, s)
  PROVE  /\ row'[j].state = s /\ SameTries(j)
         /\ \A i \in Job : i # j => row'[i] = row[i]
<1>1. row' = [row EXCEPT ![j].state = s]
  BY DEF Set
<1>2. QED BY <1>1, TypeFacts DEF SameTries, RowType

LEMMA UserChange ==
  ASSUME IInv, User PROVE \A i \in Job : RowChange(i)
<1>1. PICK j \in Job : UserRequeue(j) \/ UserDone(j) \/ UserCancel(j) \/ Autovacuum(j)
  BY DEF User
<1>2. CASE UserRequeue(j)
  BY <1>2, RequeueChange DEF UserRequeue
<1>3. CASE UserCancel(j)
  <2>1. row' = Set(j, "cancelled") /\ row[j].state \in {"pending", "enqueued", "failed"}
    BY <1>3 DEF UserCancel, Commit
  <2>2. QED BY <2>1, SetChange, OneChange DEF RowChange, Ended, State
<1>4. CASE Autovacuum(j)
  <2>1. row' = Set(j, "deleted") /\ "vacuum" \in UserOps
    BY <1>4 DEF Autovacuum, Commit
  <2>2. QED BY <2>1, SetChange, OneChange DEF RowChange, Ended, NoRow
<1>5. CASE UserDone(j)
  <2> DEFINE r == Set(j, "done")
  <2>1. row' = EnqueueWaiting(r, j) /\ "done" \in UserOps
    BY <1>5 DEF UserDone, Commit
  <2>2. /\ r \in [Job -> RowType] /\ r[j].state = "done"
        /\ \A i \in Job : i # j => r[i] = row[i]
    BY TypeFacts, SetRow DEF State
  <2>3. r[j].eta = row[j].eta /\ r[j].retry = row[j].retry
    BY TypeFacts DEF Set, RowType
  <2> HIDE DEF r
  <2>4. ASSUME NEW i \in Job PROVE RowChange(i)
    <3>1. CASE i = j
      BY <2>1, <2>2, <2>3, <3>1, FreedRows DEF RowChange, Ended, SameTries
    <3>2. CASE i # j
      BY <2>1, <2>2, <3>2, FreedRows DEF RowChange, Freed, SameTries
    <3>3. QED BY <3>1, <3>2
  <2>5. QED BY <2>4
<1>6. QED BY <1>1, <1>2, <1>3, <1>4, <1>5

LEMMA CallChange ==
  ASSUME IInv, NEW k \in Call,
         \/ ClientEnd(k) \/ ClientReply(k) \/ Begin(k)
         \/ Perform(k) \/ EnqueueDependentJobsFails(k)
  PROVE  \A i \in Job : RowChange(i)
<1>1. ~IsFree(k)
  BY DEF ClientEnd, ClientReply, Begin, Perform, PerformDone, PerformFails, Postpone,
       EnqueueDependentJobs, EnqueueDependentJobsFails
<1>2. PICK j \in Job : j = call[k].job
  BY <1>1, TypeFacts, CallInProgress
<1>3. row \in [Job -> RowType]
  BY TypeFacts
<1>4. CASE ClientReply(k) \/ EnqueueDependentJobsFails(k)
  BY <1>4 DEF ClientReply, EnqueueDependentJobsFails, RowChange
<1>5. CASE ClientEnd(k)
  <2>1. row' = row \/ (row[j].state = "enqueued" /\ row' = Set(j, "pending"))
    BY <1>2, <1>5 DEF ClientEnd, Commit
  <2>2. QED BY <2>1, SetChange, OneChange DEF RowChange, Called, State
<1>6. CASE Begin(k)
  <2>1. row' = row \/ (row[j].state = "enqueued" /\ row' = Set(j, "started"))
    BY <1>2, <1>6 DEF Begin, Commit
  <2>2. QED BY <2>1, SetChange, OneChange DEF RowChange, Called, State
<1>7. ASSUME call[k].server = "performing" PROVE Performing(j) # {}
  BY <1>1, <1>2, <1>7 DEF Performing
<1>8. CASE PerformDone(k) \/ PerformFails(k)
  <2>1. PICK s \in {"done", "failed"} :
          row' = [row EXCEPT ![j].state = s, ![j].retry = Tried(row[j].retry)]
    BY <1>2, <1>8 DEF PerformDone, PerformFails, Commit
  <2>2. /\ row'[j].state = s /\ row'[j].retry = Tried(row[j].retry)
        /\ \A i \in Job : i # j => row'[i] = row[i]
    BY <1>3, <2>1 DEF RowType
  <2>3. Performing(j) # {}
    BY <1>7, <1>8 DEF PerformDone, PerformFails
  <2>4. QED BY <2>2, <2>3, OneChange DEF RowChange, Finishes
<1>9. CASE Postpone(k)
  <2>1. /\ row' = [row EXCEPT ![j] = [state |-> PendingState(row, j), eta |-> Postponed,
                                      retry |-> Tried(row[j].retry)]]
        /\ MayRetry(j) \/ faults > 0
    BY <1>2, <1>9 DEF Postpone, Commit
  <2>2. /\ row'[j].state = PendingState(row, j) /\ row'[j].retry = Tried(row[j].retry)
        /\ \A i \in Job : i # j => row'[i] = row[i]
    BY <1>3, <2>1
  <2>3. Performing(j) # {}
    BY <1>7, <1>9 DEF Postpone
  <2>4. QED BY <2>1, <2>2, <2>3, OneChange DEF RowChange, Finishes
<1>10. CASE EnqueueDependentJobs(k)
  <2>1. row' = EnqueueWaiting(row, j)
    BY <1>2, <1>10 DEF EnqueueDependentJobs, Commit
  <2>2. QED BY <1>3, <2>1, FreedRows DEF RowChange, Freed, SameTries
<1>11. QED BY <1>4, <1>5, <1>6, <1>8, <1>9, <1>10 DEF Perform

LEMMA TableRows ==
  ASSUME IInv, [Next]_vars, ~AnyRunnerStep
  PROVE  /\ \A j \in Job : RowChange(j)
         /\ UNCHANGED <<at, obj, runNow, pc, cur>> /\ clock' >= clock
<1>1. \A j \in Job : RowChange(j)
  <2>1. CASE Tick \/ UNCHANGED vars
    BY <2>1 DEF Tick, vars, RowChange
  <2>2. CASE \E j \in Job : RequeueStuckJobs(j)
    BY <2>2, RequeueChange DEF RequeueStuckJobs
  <2>3. QED BY <2>1, <2>2, UserChange, DelayChange, CallChange DEF Next, AnyRunnerStep
<1>2. UNCHANGED <<chvars, pc, cur>> /\ clock' \in {clock, clock + 1}
  BY DEF Next, AnyRunnerStep, vars, Tick, User, Delay, ClientEnd, ClientReply, Begin,
       Perform, PerformDone, PerformFails, Postpone, EnqueueDependentJobs,
       EnqueueDependentJobsFails, RequeueStuckJobs, UserRequeue, UserDone,
       UserCancel, Autovacuum, Requeue
<1>3. clock \in Nat
  BY TypeFacts, ConstantFacts
<1>4. QED BY <1>1, <1>2, <1>3 DEF chvars

\* The runner sets the state of the job it sends, a crash that of busy jobs.
LEMMA RunnerRows ==
  ASSUME IInv, AnyRunnerStep, NEW j \in Job
  PROVE  \/ row'[j] = row[j]
         \/ SetJobEnqueued /\ j = cur /\ row'[j].state = "enqueued" /\ SameTries(j)
         \/ Crash /\ Busy(j) /\ row'[j].state = "pending" /\ SameTries(j)
<1>1. CASE SetJobEnqueued
  <2>1. cur \in Job /\ row' \in {row, Set(cur, "enqueued")}
    BY <1>1 DEF SetJobEnqueued, IInv, CurRuns
  <2>2. QED BY <1>1, <2>1, SetChange DEF State
<1>2. CASE Crash
  <2>1. PICK reset \in BOOLEAN :
          row' = [i \in Job |-> IF reset /\ Busy(i) THEN [row[i] EXCEPT !.state = "pending"]
                                ELSE row[i]]
    BY <1>2 DEF Crash
  <2>2. QED BY <1>2, <2>1, TypeFacts DEF SameTries, RowType
<1>3. CASE ~SetJobEnqueued /\ ~Crash
  BY <1>3 DEF AnyRunnerStep, Runner, Listen, SelectNotDone, RunJobs, Advance,
       AsyncHttpGet, WaitNotification, SelectTimeout, RunnerError, ProcessNotification
<1>4. QED BY <1>1, <1>2, <1>3

\* Only a worker that finds its job enqueued begins.
LEMMA BeginsEnqueued ==
  ASSUME IInv, SpareStarted, [Next]_vars, NEW j \in Job, Begins(j)
  PROVE  row[j].state = "enqueued"
<1>1. PICK k \in Call : k \in Performing(j)' /\ k \notin Performing(j)
  BY DEF Begins
<1>2. CASE ~AnyRunnerStep
  BY <1>1, <1>2, TableStep DEF TableChange
<1>3. CASE AsyncHttpGet
  <2>1. PICK l \in Call : call' = [call EXCEPT ![l] = [job |-> cur, client |-> "waiting",
                                                       server |-> "unread"]]
    BY <1>3 DEF AsyncHttpGet
  <2>2. QED BY <1>1, <2>1, TypeFacts DEF Performing, IsFree
<1>4. CASE Crash
  BY <1>1, <1>4 DEF Crash, Performing, IsFree, Free
<1>5. CASE AnyRunnerStep /\ ~AsyncHttpGet /\ ~Crash
  <2>1. call' = call
    BY <1>5 DEF AnyRunnerStep, Runner, Listen, SelectNotDone, RunJobs, Advance, SetJobEnqueued,
         WaitNotification, SelectTimeout, RunnerError, ProcessNotification
  <2>2. QED BY <1>1, <2>1, SameCalls
<1>6. QED BY <1>2, <1>3, <1>4, <1>5

\* A job that is performed waits in no queue, nor is it about to be sent.
LEMMA PerformedRests ==
  ASSUME IInv, NEW j \in Job, Performing(j) # {} PROVE ~Sending(j)
<1>1. RunsToRoot(j) \/ at[j] = Nowhere
  BY DEF IInv, StartsEmpty, NotQueued
<1>2. ~(pc = "enqueue" /\ cur = j)
  BY DEF IInv, NotQueued
<1>3. QED BY <1>1, <1>2, NoQueue DEF Sending, Waits

-----------------------------------------------------------------------------
(* How the channels follow                                                 *)

LEMMA AdvanceRuns ==
  ASSUME Advance
  PROVE  /\ pc = "run" /\ UNCHANGED <<row, runNow, clock>>
         /\ \E c \in Channel : /\ RunStep(c)
                               /\ pc' = "enqueue" => cur' \in Job /\ Yield(c, cur')
<1>1. CASE \E c \in Channel \ {Root} : RunStep(c) /\ UNCHANGED <<pc, cur>>
  BY <1>1 DEF Advance, RunStep, LeavePaused, LeaveFull, LeaveEmpty, Yield
<1>2. CASE (LeavePaused(Root) \/ LeaveFull(Root) \/ LeaveEmpty(Root)) /\ pc' = "wait"
  BY <1>2, PrioFacts DEF Advance, RunStep, LeavePaused, LeaveFull, LeaveEmpty
<1>3. ASSUME NEW j \in Job, Yield(Root, j), cur' = j
      PROVE  RunStep(Root) /\ Yield(Root, cur')
  BY <1>3 DEF RunStep
<1>4. CASE \E j \in Job : Yield(Root, j) /\ pc' = "enqueue" /\ cur' = j
  BY <1>3, <1>4, PrioFacts DEF Advance, Yield
<1>5. QED BY <1>1, <1>2, <1>4 DEF Advance

\* A run takes a job out of the queue of its channel, if it is there or due.
LEMMA RunStepTakes ==
  ASSUME ChInv, NEW c \in Channel, RunStep(c), NEW j \in Job
  PROVE  /\ \/ at'[j] = at[j] /\ obj'[j] = obj[j]
            \/ j \in Ready(c)
         /\ obj'[j] = obj[j] \/ obj'[j].eta = 0
         /\ \A d \in Channel : "eta" \in at'[j][d] => "eta" \in at[j][d]
<1>1. at[j] \in Line /\ obj[j] \in ChannelJob \cup {NoJob} /\ DOMAIN WithDue(c) = Job
  BY DEF ChInv, ChTypeOK, Line, WithDue
<1>2. j \notin Due(c) => WithDue(c)[j] = at[j] /\ EtaCleared(c)[j] = obj[j]
  BY DEF WithDue, EtaCleared
<1>3. EtaCleared(c)[j] = obj[j] \/ EtaCleared(c)[j].eta = 0
  <2>1. CASE j \in Due(c)
    <3>1. "eta" \in at[j][c] /\ Placed(at[j], obj[j])
      BY <2>1 DEF Due, In, ChInv, PlacedOnce
    <3>2. obj[j] \in ChannelJob
      BY <1>1, <3>1 DEF Placed
    <3>3. QED BY <2>1, <3>2 DEF EtaCleared
  <2>2. QED BY <1>2, <2>1
<1>4. \A d \in Channel : "eta" \in WithDue(c)[j][d] => "eta" \in at[j][d]
  BY <1>1 DEF WithDue, Line
<1>5. CASE LeavePaused(c) \/ LeaveFull(c)
  BY <1>5 DEF LeavePaused, LeaveFull
<1>6. CASE LeaveEmpty(c)
  BY <1>2, <1>3, <1>4, <1>6 DEF LeaveEmpty, Ready
<1>7. ASSUME NEW i \in Job, Yield(c, i)
      PROVE  /\ \/ at'[j] = at[j] /\ obj'[j] = obj[j]
                \/ j \in Ready(c)
             /\ obj'[j] = obj[j] \/ obj'[j].eta = 0
             /\ \A d \in Channel : "eta" \in at'[j][d] => "eta" \in at[j][d]
  <2>1. obj' = EtaCleared(c) /\ i \in Ready(c)
    BY <1>7 DEF Yield, IsFirstReady
  <2>2. CASE j # i
    <3>1. at'[j] = WithDue(c)[j]
      BY <1>1, <1>7, <2>2 DEF Yield
    <3>2. QED BY <1>2, <1>3, <1>4, <2>1, <3>1 DEF Ready
  <2>3. CASE j = i
    <3>1. \A d \in Channel : at'[j][d] = IF d = c THEN {"running"}
                                         ELSE IF d \in Parents(c) THEN at[j][d] \cup {"queue"}
                                         ELSE at[j][d]
      BY <1>1, <1>7, <2>3 DEF Yield
    <3>2. obj'[j] = obj[j] \/ obj'[j].eta = 0
      BY <1>3, <2>1
    <3>3. ASSUME NEW d \in Channel, "eta" \in at'[j][d] PROVE "eta" \in at[j][d]
      <4>1. at'[j][d] \in {{"running"}, at[j][d] \cup {"queue"}, at[j][d]}
        BY <3>1
      <4>2. QED BY <3>3, <4>1
    <3>4. QED BY <2>1, <2>3, <3>2, <3>3
  <2>4. QED BY <2>2, <2>3
<1>8. QED BY <1>5, <1>6, <1>7 DEF RunStep

LEMMA AdvanceSends ==
  ASSUME IInv, Advance, NEW j \in Job, Sending(j)' PROVE Sending(j)
<1>1. PICK c \in Channel : RunStep(c) /\ (pc' = "enqueue" => cur' \in Job /\ Yield(c, cur'))
  BY AdvanceRuns
<1>2. ChInv
  BY InvChannels
<1>3. j \in Ready(c) => Waits(j)
  BY DEF Ready, Due, In, Waits
<1>4. CASE pc' = "enqueue" /\ cur' = j
  BY <1>1, <1>3, <1>4 DEF Yield, IsFirstReady, Sending
<1>5. CASE Waits(j)'
  <2>1. at'[j] = at[j] \/ j \in Ready(c)
    BY <1>1, <1>2, RunStepTakes
  <2>2. QED BY <1>3, <1>5, <2>1 DEF Waits, Sending
<1>6. QED BY <1>4, <1>5 DEF Sending

\* Only pending rows put a job into a queue when they are read.
LEMMA NotifiedWaits ==
  ASSUME NEW a \in Line, NEW old \in ChannelJob \cup {NoJob}, NEW r \in ChannelJob,
         NEW s \in State, s # "pending", NEW c \in Channel,
         NEW p \in {"queue", "eta"}, p \in Notified(a, old, r, s)[c]
  PROVE  p \in a[c]
<1> DEFINE a0 == IF old # NoJob /\ old # r THEN RemoveFrom(a, old.chan) ELSE a
<1>1. a0 \in Line /\ (p \in a0[c] => p \in a[c])
  BY DEF RemoveFrom, Line
<1>2. Notified(a, old, r, s) = Moved(a0, r, s)
  BY DEF Notified
<1> HIDE DEF a0
<1>3. p \in Moved(a0, r, s)[c] => p \in a0[c]
  BY <1>1 DEF Moved, SetDone, SetRunning, SetFailed, RemoveFrom, Line, State
<1>4. QED BY <1>1, <1>2, <1>3

\* What reading a row makes of its job, and what restarting the runner does.
LEMMA ReadEffect ==
  ASSUME IInv, SelectNotDone \/ (\E i \in Job : ProcessNotification(i)), NEW j \in Job
  PROVE  /\ UNCHANGED <<row, clock, runNow, cur>> /\ pc' = "notify"
         /\ \/ at'[j] = at[j] /\ obj'[j] = obj[j]
            \/ at'[j] = Nowhere /\ obj'[j] = NoJob
            \/ /\ at'[j] = Notified(at[j], obj[j], RowOf(j), row[j].state)
               /\ obj'[j] = RowOf(j)
<1>1. CASE SelectNotDone
  BY <1>1 DEF SelectNotDone
<1>2. ASSUME NEW i \in Job, ProcessNotification(i)
      PROVE  /\ UNCHANGED <<row, clock, runNow, cur>> /\ pc' = "notify"
             /\ \/ at'[j] = at[j] /\ obj'[j] = obj[j]
                \/ at'[j] = Nowhere /\ obj'[j] = NoJob
                \/ /\ at'[j] = Notified(at[j], obj[j], RowOf(j), row[j].state)
                   /\ obj'[j] = RowOf(j)
  <2>1. ChInv /\ at \in [Job -> Line] /\ obj \in [Job -> ChannelJob \cup {NoJob}]
    BY InvChannels DEF ChInv, ChTypeOK, Line
  <2>2. UNCHANGED <<row, clock, runNow, cur>> /\ pc' = "notify"
    BY <1>2 DEF ProcessNotification, Notify, RemoveJob
  <2>3. CASE Notify(i, RowOf(i), row[i].state)
    BY <2>1, <2>2, <2>3 DEF Notify
  <2>4. CASE RemoveJob(i)
    <3>1. obj'[j] = IF j = i THEN NoJob ELSE obj[j]
      BY <2>1, <2>4 DEF RemoveJob
    <3>2. at'[j] = IF j = i THEN Nowhere ELSE at[j]
      <4>1. CASE j = i
        BY <2>1, <2>4, <4>1, RemovedLine DEF RemoveJob
      <4>2. CASE j # i
        BY <2>1, <2>4, <4>2 DEF RemoveJob
      <4>3. QED BY <4>1, <4>2
    <3>3. QED BY <2>2, <3>1, <3>2
  <2>5. QED BY <1>2, <2>2, <2>3, <2>4 DEF ProcessNotification
<1>3. QED BY <1>1, <1>2

-----------------------------------------------------------------------------
(* A job that begins has reached its eta                                   *)

Sent(j) == \/ row[j].state = "enqueued" \/ (pc = "enqueue" /\ cur = j)
           \/ \E c \in Channel : "queue" \in at[j][c]
InEta(j) == \E c \in Channel : "eta" \in at[j][c]

\* What is sent is due, and the queues sort a job by the eta of its row, or by
\* a later one.
EtaKept(j) == /\ Sent(j) => row[j].eta <= clock
              /\ InEta(j) => row[j].eta <= obj[j].eta
EtaInv == runNow <= clock /\ \A j \in Job : EtaKept(j)

LEMMA EtaNumbers ==
  ASSUME IInv, NEW j \in Job
  PROVE  /\ row[j].eta \in Nat /\ clock \in Nat /\ runNow \in Nat
         /\ InEta(j) => obj[j] \in ChannelJob /\ obj[j].eta \in Nat /\ obj[j].eta > 0
<1>1. row[j].eta \in Nat /\ clock \in Nat
  BY TypeFacts, ConstantFacts DEF RowType
<1>2. runNow \in Nat
  BY DEF IInv, TypeOK, ChTypeOK
<1>3. ASSUME InEta(j) PROVE obj[j] \in ChannelJob /\ obj[j].eta > 0
  BY <1>3, JobFacts DEF InEta, Placed
<1>4. QED BY <1>1, <1>2, <1>3

LEMMA TableEta ==
  ASSUME IInv, IInv', EtaInv, [Next]_vars, ~AnyRunnerStep, NEW j \in Job PROVE EtaKept(j)'
<1>1. /\ RowChange(j) /\ UNCHANGED <<at, obj, runNow, pc, cur>> /\ clock' >= clock
      /\ row[j].eta \in Nat /\ clock \in Nat /\ clock' \in Nat
  <2>1. clock' \in Nat
    BY ConstantFacts DEF IInv, TypeOK
  <2>2. QED BY <2>1, TableRows, EtaNumbers
<1>2. CASE Finishes(j)
  <2>1. row'[j].state # "enqueued"
    BY <1>2, PendingStates DEF Finishes
  <2>2. ~Sending(j)
    BY <1>2, PerformedRests DEF Finishes
  <2>3. QED BY <1>1, <2>1, <2>2 DEF EtaKept, Sent, InEta, Sending, Waits
<1>3. CASE ~Finishes(j)
  <2>1. row'[j].eta = row[j].eta /\ (row'[j].state = "enqueued" => row[j].state = "enqueued")
    BY <1>1, <1>3, PendingStates
    DEF RowChange, Delayed, Freed, Called, Again, Ended, SameTries
  <2>2. Sent(j)' => Sent(j)
    BY <1>1, <2>1 DEF Sent
  <2>3. InEta(j)' = InEta(j)
    BY <1>1 DEF InEta
  <2>4. QED BY <1>1, <2>1, <2>2, <2>3 DEF EtaKept, EtaInv
<1>4. QED BY <1>2, <1>3

LEMMA AdvanceEta ==
  ASSUME IInv, IInv', EtaInv, Advance, NEW j \in Job PROVE EtaKept(j)'
<1>1. PICK c \in Channel : RunStep(c) /\ (pc' = "enqueue" => cur' \in Job /\ Yield(c, cur'))
  BY AdvanceRuns
<1>2. UNCHANGED <<row, clock, runNow>> /\ ChInv
  BY AdvanceRuns, InvChannels
<1>3. /\ at'[j] = at[j] \/ j \in Ready(c)
      /\ obj'[j] = obj[j] \/ obj'[j].eta = 0
      /\ InEta(j)' => InEta(j)
  BY <1>1, <1>2, RunStepTakes DEF InEta
<1>4. /\ row[j].eta \in Nat /\ clock \in Nat /\ runNow \in Nat
      /\ InEta(j) => obj[j].eta \in Nat
      /\ InEta(j)' => obj'[j].eta > 0
  <2>1. Placed(at'[j], obj'[j])
    BY DEF IInv, PlacedOnce
  <2>2. QED BY <2>1, EtaNumbers DEF InEta, Placed
<1>5. ASSUME j \in Ready(c) PROVE row[j].eta <= clock
  <2>1. CASE "queue" \in at[j][c]
    BY <2>1 DEF EtaInv, EtaKept, Sent
  <2>2. CASE j \in Due(c)
    <3>1. InEta(j) /\ obj[j].eta <= runNow
      BY <2>2 DEF Due, In, InEta
    <3>2. row[j].eta <= obj[j].eta /\ runNow <= clock
      BY <3>1 DEF EtaInv, EtaKept
    <3>3. QED BY <1>4, <3>1, <3>2
  <2>3. QED BY <1>5, <2>1, <2>2 DEF Ready, In
<1>6. ASSUME Sent(j)' PROVE row[j].eta <= clock
  <2>1. CASE pc' = "enqueue" /\ cur' = j
    BY <1>1, <1>5, <2>1 DEF Yield, IsFirstReady
  <2>2. CASE row[j].state = "enqueued"
    BY <2>2 DEF EtaInv, EtaKept, Sent
  <2>3. CASE \E d \in Channel : "queue" \in at'[j][d]
    BY <1>3, <1>5, <2>3 DEF EtaInv, EtaKept, Sent
  <2>4. QED BY <1>2, <1>6, <2>1, <2>2, <2>3 DEF Sent
<1>7. ASSUME InEta(j)' PROVE row[j].eta <= obj'[j].eta
  <2>1. obj'[j] = obj[j]
    BY <1>3, <1>4, <1>7
  <2>2. QED BY <1>3, <1>7, <2>1 DEF EtaInv, EtaKept
<1>8. QED BY <1>2, <1>6, <1>7 DEF EtaKept

LEMMA ReadEta ==
  ASSUME IInv, IInv', EtaInv, SelectNotDone \/ (\E i \in Job : ProcessNotification(i)),
         NEW j \in Job
  PROVE  EtaKept(j)'
<1>1. /\ UNCHANGED <<row, clock>> /\ pc' = "notify"
      /\ row[j].eta \in Nat /\ clock \in Nat
  BY ReadEffect, EtaNumbers
<1>2. CASE at'[j] = at[j] /\ obj'[j] = obj[j]
  BY <1>1, <1>2 DEF EtaInv, EtaKept, Sent, InEta
<1>3. CASE at'[j] = Nowhere
  BY <1>1, <1>3 DEF EtaInv, EtaKept, Sent, InEta, Nowhere
<1>4. CASE obj'[j] = RowOf(j)
  <2>1. Placed(at'[j], RowOf(j)) /\ RowOf(j).eta = row[j].eta
    BY <1>4 DEF IInv, PlacedOnce, RowOf
  <2>2. (\E c \in Channel : "queue" \in at'[j][c]) => row[j].eta = 0
    BY <2>1 DEF Placed
  <2>3. Sent(j)' => row[j].eta <= clock
    BY <1>1, <2>2 DEF Sent, EtaInv, EtaKept
  <2>4. QED BY <1>1, <1>4, <2>1, <2>3 DEF EtaKept
<1>5. QED BY <1>2, <1>3, <1>4, ReadEffect

LEMMA EtaStep == ASSUME IInv, SpareStarted, EtaInv, [Next]_vars PROVE EtaInv'
<1>1. IInv'
  BY StepInv
<1>2. CASE ~AnyRunnerStep
  <2>1. runNow' <= clock'
    <3>1. runNow' = runNow /\ clock' >= clock /\ runNow <= clock
      BY <1>2, TableRows DEF EtaInv
    <3>2. runNow \in Nat /\ clock \in Nat /\ clock' \in Nat
      BY <1>1, ConstantFacts DEF IInv, TypeOK, ChTypeOK
    <3>3. QED BY <3>1, <3>2
  <2>2. QED BY <1>1, <1>2, <2>1, TableEta DEF EtaInv
<1>3. CASE Advance
  BY <1>1, <1>3, AdvanceEta, AdvanceRuns DEF EtaInv
<1>4. CASE SelectNotDone \/ \E i \in Job : ProcessNotification(i)
  <2>1. UNCHANGED <<clock, runNow>>
    BY <1>4 DEF SelectNotDone, ProcessNotification, Notify, RemoveJob
  <2>2. QED BY <1>1, <1>4, <2>1, ReadEta DEF EtaInv
<1>5. CASE SetJobEnqueued
  <2>1. UNCHANGED <<at, obj, runNow, clock>> /\ pc = "enqueue" /\ pc' = "http"
    BY <1>5 DEF SetJobEnqueued, chvars
  <2>2. ASSUME NEW j \in Job PROVE EtaKept(j)'
    <3>1. row'[j].eta = row[j].eta /\ (Sent(j)' => Sent(j))
      BY <1>5, <2>1, RunnerRows DEF AnyRunnerStep, Runner, SameTries, Sent, Crash, ForgetJobs
    <3>2. QED BY <2>1, <3>1 DEF EtaInv, EtaKept, InEta
  <2>3. QED BY <2>1, <2>2 DEF EtaInv
<1>6. CASE RunnerError \/ Crash
  <2>1. runNow' = 0 /\ clock' = clock /\ pc' = "init"
    BY <1>6 DEF RunnerError, Crash, ForgetJobs
  <2>2. ASSUME NEW j \in Job PROVE EtaKept(j)'
    <3>1. at'[j] = Nowhere
      BY <1>6 DEF RunnerError, Crash, ForgetJobs
    <3>2. ~SetJobEnqueued
      BY <2>1 DEF SetJobEnqueued
    <3>3. row'[j] = row[j] \/ (SameTries(j) /\ row'[j].state # "enqueued")
      <4>1. AnyRunnerStep
        BY <1>6 DEF AnyRunnerStep
      <4>2. QED BY <3>2, <4>1, RunnerRows
    <3>4. QED BY <2>1, <3>1, <3>3 DEF EtaInv, EtaKept, Sent, InEta, Nowhere, SameTries
  <2>3. QED BY <2>1, <2>2, EtaNumbers, TypeFacts, ConstantFacts DEF EtaInv
<1>7. CASE Listen \/ AsyncHttpGet \/ WaitNotification \/ SelectTimeout \/ RunJobs
  <2>1. /\ UNCHANGED <<at, obj, row, clock>> /\ pc' # "enqueue"
        /\ runNow' \in {runNow, clock}
    BY <1>7 DEF Listen, AsyncHttpGet, WaitNotification, SelectTimeout, RunJobs, StartRun, chvars
  <2>2. runNow' <= clock'
    BY <2>1, TypeFacts, ConstantFacts DEF EtaInv
  <2>3. QED BY <2>1, <2>2 DEF EtaInv, EtaKept, Sent, InEta
<1>8. QED BY <1>2, <1>3, <1>4, <1>5, <1>6, <1>7 DEF AnyRunnerStep, Runner

LEMMA EtaInit == Init => EtaInv
<1> SUFFICES ASSUME Init PROVE EtaInv
  OBVIOUS
<1>2. /\ clock = 1 /\ pc = "init" /\ ChInit
      /\ row \in [Job -> {[state |-> "none", eta |-> e, retry |-> 0] : e \in Etas}]
  BY DEF Init
<1>3. \A j \in Job : row[j].state = "none"
  BY <1>2
<1>4. runNow = 0 /\ \A j \in Job : at[j] = Nowhere
  BY <1>2 DEF ChInit
<1>5. QED BY <1>2, <1>3, <1>4 DEF EtaInv, EtaKept, Sent, InEta, Nowhere

\* Workers begin no job before its eta: neither one that was postponed while an
\* older request for it was on its way, nor one that a user or the cron requeued.
THEOREM EtaWaited == ASSUME SpareStarted PROVE Spec => EtaReached
<1>1. ASSUME IInv, EtaInv, [Next]_vars, NEW j \in Job, Begins(j)
      PROVE  row[j].eta <= clock
  BY <1>1, BeginsEnqueued DEF EtaInv, EtaKept, Sent
<1>2. IInv /\ EtaInv /\ [Next]_vars => [\A j \in Job : Begins(j) => row[j].eta <= clock]_vars
  BY <1>1
<1>3. Spec => []EtaInv
  BY EtaInit, EtaStep, Invariance, PTL DEF Spec
<1>4. QED BY <1>2, <1>3, Invariance, PTL DEF Spec, EtaReached

-----------------------------------------------------------------------------
(* The number of tries                                                     *)

\* The runner sends nothing that it did not read as pending.
LEMMA SendingFrom ==
  ASSUME IInv, [Next]_vars, NEW j \in Job, Sending(j)'
  PROVE  Sending(j) \/ (row[j].state = "pending" /\ row'[j] = row[j])
<1>1. CASE ~AnyRunnerStep
  BY <1>1, TableRows DEF Sending, Waits
<1>2. CASE Advance
  BY <1>2, AdvanceSends
<1>3. CASE SelectNotDone \/ \E i \in Job : ProcessNotification(i)
  <2>1. row' = row /\ pc' = "notify"
    BY <1>3, ReadEffect
  <2>2. PICK c \in Channel, p \in {"queue", "eta"} : p \in at'[j][c]
    BY <2>1 DEF Sending, Waits
  <2>3. CASE at'[j] = Notified(at[j], obj[j], RowOf(j), row[j].state)
    <3>1. CASE row[j].state \in State
      BY <2>1, <2>2, <2>3, <3>1, JobFacts, NotifiedWaits DEF Sending, Waits
    <3>2. CASE row[j].state \in NoRow
      <4>1. row[j].state \notin {"done", "pending", "enqueued", "started", "failed"}
        BY <3>2 DEF NoRow
      <4>2. p \in at[j][c]
        BY <2>2, <2>3, <4>1, JobFacts DEF Notified, Moved, RemoveFrom
      <4>3. QED BY <4>2 DEF Sending, Waits
    <3>3. QED BY <3>1, <3>2, TypeFacts DEF RowType
  <2>4. CASE at'[j] = at[j] \/ at'[j] = Nowhere
    BY <2>2, <2>4 DEF Sending, Waits, Nowhere
  <2>5. QED BY <1>3, <2>3, <2>4, ReadEffect
<1>4. CASE RunnerError \/ Crash
  BY <1>4 DEF RunnerError, Crash, ForgetJobs, Sending, Waits, Nowhere
<1>5. CASE Listen \/ RunJobs \/ SetJobEnqueued \/ AsyncHttpGet \/ WaitNotification
           \/ SelectTimeout
  <2>1. at' = at /\ pc' # "enqueue"
    BY <1>5 DEF Listen, RunJobs, StartRun, SetJobEnqueued, AsyncHttpGet, WaitNotification,
         SelectTimeout, chvars
  <2>2. QED BY <2>1 DEF Sending, Waits
<1>6. QED BY <1>1, <1>2, <1>3, <1>4, <1>5 DEF AnyRunnerStep, Runner

\* Except for the concurrency errors, which are faults, tries are counted for as
\* long as the job may be tried again.
ToBeTried == {"none", "wait_dependencies", "pending", "enqueued", "started"}
TriesLeft(j) ==
  row[j].state \in ToBeTried \/ Sending(j) => row[j].retry < MaxRetries
RetryInv == MaxRetries > 0 => \A j \in Job : TriesLeft(j)

LEMMA RetryStep ==
  ASSUME IInv, SpareStarted, MaxFaults = 0, RetryInv, [Next]_vars PROVE RetryInv'
<1>1. SUFFICES ASSUME MaxRetries > 0, NEW j \in Job PROVE TriesLeft(j)'
  BY DEF RetryInv
<1>2. TriesLeft(j) /\ MaxRetries \in Nat /\ (Sending(j)' => Sending(j) \/ row'[j] = row[j])
  BY <1>1, SendingFrom, ConstantFacts DEF RetryInv
<1>3. Sending(j)' /\ row'[j] = row[j] => row[j].retry < MaxRetries
  BY <1>2, SendingFrom DEF TriesLeft, ToBeTried
<1>4. CASE row'[j] = row[j]
  BY <1>2, <1>3, <1>4 DEF TriesLeft
<1>5. CASE AnyRunnerStep
  <2>1. CASE SetJobEnqueued /\ j = cur /\ row'[j].state = "enqueued" /\ SameTries(j)
    BY <1>2, <2>1 DEF SetJobEnqueued, SameTries, TriesLeft, Sending
  <2>2. CASE Crash /\ Busy(j) /\ row'[j].state = "pending" /\ SameTries(j)
    BY <1>2, <2>2 DEF SameTries, TriesLeft, Busy, ToBeTried
  <2>3. QED BY <1>4, <1>5, <2>1, <2>2, RunnerRows
<1>6. CASE ~AnyRunnerStep
  <2>1. RowChange(j) /\ Sending(j)' = Sending(j)
    BY <1>6, TableRows DEF Sending, Waits
  <2>2. CASE Finishes(j)
    <3>1. ~Sending(j)'
      BY <2>1, <2>2, PerformedRests DEF Finishes
    <3>2. CASE row'[j].state \in {"done", "failed"}
      BY <3>1, <3>2 DEF TriesLeft, ToBeTried
    <3>3. CASE MayRetry(j) \/ faults > 0
      <4>1. faults = 0
        BY TypeFacts
      <4>2. Tried(row[j].retry) < MaxRetries
        BY <1>1, <3>3, <4>1 DEF MayRetry
      <4>3. QED BY <2>2, <4>2 DEF Finishes, TriesLeft
    <3>4. QED BY <2>2, <3>2, <3>3 DEF Finishes
  <2>3. CASE Again(j)
    BY <1>1, <2>3 DEF Again, TriesLeft
  <2>4. CASE Ended(j)
    BY <1>2, <2>1, <2>4 DEF Ended, SameTries, TriesLeft, ToBeTried
  <2>5. CASE Delayed(j) \/ Freed(j) \/ Called(j)
    <3>1. row[j].state \in ToBeTried /\ SameTries(j)
      BY <2>5 DEF Delayed, Freed, Called, ToBeTried
    <3>2. QED BY <1>2, <3>1 DEF TriesLeft, SameTries
  <2>6. QED BY <1>4, <2>1, <2>2, <2>3, <2>4, <2>5 DEF RowChange
<1>7. QED BY <1>5, <1>6

LEMMA RetryInit == Init => RetryInv
<1> SUFFICES ASSUME Init, MaxRetries > 0, NEW j \in Job PROVE row[j].retry = 0
  BY ConstantFacts DEF RetryInv, TriesLeft
<1>1. row \in [Job -> {[state |-> "none", eta |-> e, retry |-> 0] : e \in Etas}]
  BY DEF Init
<1>2. QED BY <1>1

\* A job is tried max_retries times at most: a job that is pending has tries
\* left, unless a concurrency error has postponed it.
THEOREM TriesAreLimited ==
  ASSUME SpareStarted, MaxRetries = 0 \/ MaxFaults = 0 PROVE Spec => []RetryLimit
<1>1. RetryInv => RetryLimit
  BY DEF RetryInv, RetryLimit, TriesLeft, ToBeTried
<1>2. IInv /\ RetryInv /\ [Next]_vars => RetryInv'
  BY RetryStep, ConstantFacts DEF RetryInv
<1>3. QED BY <1>1, <1>2, RetryInit, Invariance, PTL DEF Spec

-----------------------------------------------------------------------------
(* The parents                                                             *)

\* The jobs of a graph depend on jobs of the graph, users leave it to the
\* workers to finish jobs, and only rows that exist can be requeued.
ClosedGraphs ==
  /\ SpareStarted /\ Requeued \subseteq State
  /\ UserOps \cap {"done", "vacuum"} = {}
  /\ \A g \in Graph : \A j \in g : DependsOn[j] \subseteq g

\* A row has come further than waiting, or is about to, when its parents are done.
ParentsKept(j) ==
  /\ row[j].state # "deleted"
  /\ row[j].state # "none" => \A p \in DependsOn[j] : row[p].state # "none"
  /\ row[j].state \notin {"none", "wait_dependencies"} \/ Sending(j) =>
       \A p \in DependsOn[j] : row[p].state = "done"
ParentInv == \A j \in Job : ParentsKept(j)

\* No row disappears.
LEMMA RowsStay ==
  ASSUME IInv, ClosedGraphs, ParentInv, [Next]_vars, NEW j \in Job
  PROVE  /\ row'[j].state # "deleted"
         /\ row[j].state # "none" => row'[j].state # "none"
         /\ row[j].state = "done" => row'[j].state = "done"
<1>1. row[j].state # "deleted"
  BY DEF ParentInv, ParentsKept
<1>2. /\ row'[j].state # "deleted"
      /\ row[j].state # "none" => row'[j].state # "none"
  <2>1. CASE AnyRunnerStep
    BY <1>1, <2>1, RunnerRows
  <2>2. CASE ~AnyRunnerStep
    <3>1. RowChange(j)
      BY <2>2, TableRows
    <3>2. QED BY <1>1, <3>1, PendingStates
              DEF RowChange, Delayed, Freed, Called, Finishes, Again, Ended, ClosedGraphs
  <2>3. QED BY <2>1, <2>2
<1>3. row[j].state = "done" => row'[j].state = "done"
  BY <1>2, DoneStep DEF ClosedGraphs
<1>4. QED BY <1>2, <1>3

LEMMA ParentStep ==
  ASSUME IInv, ClosedGraphs, ParentInv, [Next]_vars PROVE ParentInv'
<1>1. SUFFICES ASSUME NEW j \in Job PROVE ParentsKept(j)'
  BY DEF ParentInv
<1>2. /\ ParentsKept(j) /\ DependsOn[j] \subseteq Job
      /\ \A i \in Job : /\ row'[i].state # "deleted"
                        /\ row[i].state # "none" => row'[i].state # "none"
                        /\ row[i].state = "done" => row'[i].state = "done"
  BY RowsStay, RunnerAssumption DEF ParentInv
<1>3. CASE row[j].state \notin {"none", "wait_dependencies"} \/ Sending(j)
  <2>1. \A p \in DependsOn[j] : row'[p].state = "done"
    BY <1>2, <1>3 DEF ParentsKept
  <2>2. QED BY <1>2, <2>1 DEF ParentsKept
<1>4. CASE row[j].state \in {"none", "wait_dependencies"} /\ ~Sending(j)
  <2>1. ~Sending(j)'
    BY <1>4, SendingFrom
  <2>2. CASE row'[j] = row[j]
    BY <1>2, <1>4, <2>1, <2>2 DEF ParentsKept
  <2>3. CASE AnyRunnerStep
    <3>1. ~(SetJobEnqueued /\ j = cur) /\ ~Busy(j)
      BY <1>4 DEF SetJobEnqueued, Sending, Busy
    <3>2. QED BY <2>2, <2>3, <3>1, RunnerRows
  <2>4. CASE ~AnyRunnerStep
    <3>1. RowChange(j)
      BY <2>4, TableRows
    <3>2. CASE Delayed(j)
      <4>1. \A p \in DependsOn[j] : row'[p].state # "none"
        BY <3>2 DEF Delayed, ClosedGraphs
      <4>2. row'[j].state = "wait_dependencies" \/ DependsOn[j] = {}
        BY <3>2 DEF Delayed
      <4>3. QED BY <1>2, <2>1, <4>1, <4>2 DEF ParentsKept
    <3>3. CASE Freed(j)
      <4>1. \A p \in DependsOn[j] : row'[p].state \notin NoRow
        BY <1>2, <3>3 DEF Freed, ParentsKept, NoRow
      <4>2. \A p \in DependsOn[j] : row'[p].state = "done"
        BY <3>3, <4>1 DEF Freed, ParentsDone, Exists
      <4>3. QED BY <1>2, <4>2 DEF ParentsKept
    <3>4. CASE Called(j) \/ Finishes(j) \/ Again(j) \/ Ended(j)
      <4>1. Performing(j) = {}
        BY <1>4, NotPerformed
      <4>2. ~Called(j) /\ ~Finishes(j)
        BY <1>4, <4>1 DEF Called, Finishes
      <4>3. ~Again(j)
        BY <1>4 DEF Again, ClosedGraphs, State
      <4>4. ~Ended(j)
        BY <1>4 DEF Ended, ClosedGraphs
      <4>5. QED BY <3>4, <4>2, <4>3, <4>4
    <3>5. QED BY <2>2, <3>1, <3>2, <3>3, <3>4 DEF RowChange
  <2>5. QED BY <2>3, <2>4
<1>5. QED BY <1>3, <1>4

LEMMA ParentInit == Init => ParentInv
<1> SUFFICES ASSUME Init, NEW j \in Job PROVE ParentsKept(j)
  BY DEF ParentInv
<1>1. /\ row \in [Job -> {[state |-> "none", eta |-> e, retry |-> 0] : e \in Etas}]
      /\ pc = "init" /\ ChInit
  BY DEF Init
<1>2. row[j].state = "none" /\ at[j] = Nowhere
  BY <1>1 DEF ChInit
<1>3. QED BY <1>1, <1>2 DEF ParentsKept, Sending, Waits, Nowhere

\* A dependent job begins only when all its parents are done, whatever is
\* requeued and however requests and notifications are late.
THEOREM ParentsAreFirst == ASSUME ClosedGraphs PROVE Spec => ParentsFirst
<1>1. ASSUME IInv, ParentInv, [Next]_vars, NEW j \in Job, Begins(j)
      PROVE  \A p \in DependsOn[j] : row[p].state = "done"
  BY <1>1, BeginsEnqueued DEF ParentInv, ParentsKept, ClosedGraphs
<1>2. IInv /\ ParentInv /\ [Next]_vars =>
        [\A j \in Job : Begins(j) => \A p \in DependsOn[j] : row[p].state = "done"]_vars
  BY <1>1
<1>3. IInv /\ ParentInv /\ [Next]_vars => ParentInv'
  BY ParentStep
<1>4. Spec => []IInv
  BY Invariance DEF ClosedGraphs
<1>5. QED BY <1>2, <1>3, <1>4, ParentInit, PTL DEF Spec, ParentsFirst

-----------------------------------------------------------------------------
(* Sequential channels                                                     *)

Loaded == pc \notin {"init", "select"}
Neighbours(i, j) == i # j /\ ChannelOf[i] = ChannelOf[j] /\ ChannelOf[i] \in Sequential
Runs(j) == "running" \in at[j][ChannelOf[j]]

\* A failed job of a sequential channel leaves none of its neighbours busy; in
\* the channels it holds its place as a running job until it is known to have
\* failed, and no neighbour runs.
FailedPlace(j) == RunsToRoot(j) \/ at[j][ChannelOf[j]] = {"failed"}
SeqKept(j) ==
  row[j].state = "failed" =>
    /\ \A i \in Job : Neighbours(i, j) => ~Busy(i)
    /\ Loaded => FailedPlace(j) /\ \A i \in Job : Neighbours(i, j) => ~Runs(i)
SeqInv == \A j \in Job : SeqKept(j)

LEMMA AtMostOne ==
  ASSUME NEW S, AtMost(S, 1), NEW i \in S, NEW j \in S PROVE i = j
<1>1. IsFiniteSet(S) /\ Cardinality(S) \in Nat /\ Cardinality(S) <= 1
  BY FS_CardinalityType DEF AtMost
<1>2. Cardinality(S) # 0
  BY <1>1, FS_EmptySet
<1>3. Cardinality(S) = 1
  BY <1>1, <1>2
<1>4. QED BY <1>1, <1>3, FS_Singleton

\* A job that fails was alone in its channel.
LEMMA FailsAlone ==
  ASSUME IInv, CapInv, "done" \notin UserOps, NEW j \in Job, Performing(j) # {}
  PROVE  /\ Busy(j) /\ (Loaded => RunsToRoot(j))
         /\ \A i \in Job : Neighbours(i, j) => ~Busy(i) /\ (Loaded => ~Runs(i))
<1>1. Busy(j) /\ (Loaded => RunsToRoot(j))
  BY DEF IInv, WorkerState, Busy, Loaded, BusyIsRunning, RunsToRoot
<1>2. SUFFICES ASSUME NEW i \in Job, Neighbours(i, j)
               PROVE  ~Busy(i) /\ (Loaded => ~Runs(i))
  BY <1>1
<1> DEFINE c == ChannelOf[j]
<1>3. /\ c \in Channel /\ c \in Up[c] /\ Capacity[c] = 1
      /\ ChannelOf[i] = c /\ i # j
  BY <1>2, JobFacts, TreeAssumption DEF Neighbours
<1> HIDE DEF c
<1>4. AtMost(BusyIn(c), 1) /\ (Loaded => AtMost(In(c, "running"), 1))
  BY <1>3 DEF CapInv, Loaded
<1>5. ~Busy(i)
  <2>1. SUFFICES ASSUME Busy(i) PROVE FALSE
    OBVIOUS
  <2>2. i \in BusyIn(c) /\ j \in BusyIn(c)
    BY <1>1, <1>3, <2>1 DEF BusyIn, c
  <2>3. QED BY <1>3, <1>4, <2>2, AtMostOne
<1>6. ASSUME Loaded PROVE ~Runs(i)
  <2>1. SUFFICES ASSUME Runs(i) PROVE FALSE
    OBVIOUS
  <2>2. i \in In(c, "running") /\ j \in In(c, "running")
    BY <1>1, <1>3, <1>6, <2>1 DEF In, Runs, RunsToRoot, c
  <2>3. QED BY <1>3, <1>4, <1>6, <2>2, AtMostOne
<1>7. QED BY <1>5, <1>6

LEMMA TableSeq ==
  ASSUME IInv, SpareStarted, CapInv, "done" \notin UserOps, SeqInv, [Next]_vars,
         ~AnyRunnerStep, NEW j \in Job, row'[j].state = "failed"
  PROVE  SeqKept(j)'
<1>1. RowChange(j) /\ UNCHANGED <<at, pc>>
  BY TableRows
<1>2. \A i \in Job : Busy(i)' => Busy(i)
  BY TableStep DEF TableChange
<1>3. /\ \A i \in Job : Neighbours(i, j) => ~Busy(i)
      /\ Loaded => FailedPlace(j) /\ \A i \in Job : Neighbours(i, j) => ~Runs(i)
  <2>1. CASE row[j].state = "failed"
    BY <2>1 DEF SeqInv, SeqKept
  <2>2. CASE row[j].state # "failed"
    <3>1. Finishes(j)
      BY <1>1, <2>2, PendingStates DEF RowChange, Delayed, Freed, Called, Again, Ended
    <3>2. QED BY <3>1, FailsAlone DEF Finishes, FailedPlace
  <2>3. QED BY <2>1, <2>2
<1>4. QED BY <1>1, <1>2, <1>3
          DEF SeqKept, Loaded, FailedPlace, RunsToRoot, Runs, Neighbours

\* A failed job stays where it is, and its neighbours are not taken.
LEMMA AdvanceSeq ==
  ASSUME IInv, CapInv, SeqInv, Advance, NEW j \in Job, row[j].state = "failed"
  PROVE  SeqKept(j)'
<1>1. PICK c \in Channel : RunStep(c)
  BY AdvanceRuns
<1>2. /\ UNCHANGED row /\ Loaded /\ ChInv
      /\ at \in [Job -> Line]
  BY AdvanceRuns, InvChannels DEF Loaded, ChInv, ChTypeOK, Line
<1>3. /\ \A i \in Job : Neighbours(i, j) => ~Busy(i) /\ ~Runs(i)
      /\ FailedPlace(j)
  BY <1>2 DEF SeqInv, SeqKept
<1>4. at'[j] = at[j]
  <2>1. at[j][c] \cap {"queue", "eta"} = {}
    BY <1>3, NoQueue, OwnEmpty DEF FailedPlace
  <2>2. QED BY <1>1, <1>2, <2>1, RunStepKeeps
<1>5. ASSUME NEW i \in Job, Neighbours(i, j), Runs(i)' PROVE FALSE
  <2> DEFINE ch == ChannelOf[i]
  <2>1. ch \in Channel /\ ch = ChannelOf[j] /\ ch \in Sequential /\ "running" \notin at[i][ch]
    BY <1>3, <1>5, JobFacts DEF Neighbours, Runs
  <2> HIDE DEF ch
  <2>2. "running" \in at'[i][ch]
    BY <1>5 DEF Runs, ch
  <2>3. "running" \notin WithDue(c)[i][ch] /\ WithDue(c) \in [Job -> Line]
    BY <1>2, <2>1, WithDueInv DEF WithDue
  <2>4. PICK k \in Job : Yield(c, k)
    BY <1>1, <2>1, <2>2, <2>3 DEF RunStep, LeavePaused, LeaveFull, LeaveEmpty
  <2>5. i = k
    <3>1. i # k => at'[i] = WithDue(c)[i]
      BY <2>3, <2>4 DEF Yield
    <3>2. QED BY <2>2, <2>3, <3>1
  <2>6. ch = c
    <3>1. at'[i][ch] = IF ch = c THEN {"running"}
                       ELSE IF ch \in Parents(c) THEN at[i][ch] \cup {"queue"}
                       ELSE at[i][ch]
      BY <2>1, <2>3, <2>4, <2>5 DEF Yield
    <3>2. ch # c => at'[i][ch] \in {at[i][ch] \cup {"queue"}, at[i][ch]}
      BY <3>1
    <3>3. QED BY <2>1, <2>2, <3>2
  <2>7. In(c, "failed") = {} /\ (Capacity[c] = 0 \/ Cardinality(In(c, "running")) < Capacity[c])
    BY <2>1, <2>4, <2>6 DEF Yield, HasCapacity
  <2>8. Capacity[c] = 1 /\ Cardinality(In(c, "running")) < 1
    BY <2>1, <2>6, <2>7, TreeAssumption
  <2>9. In(c, "running") = {}
    <3>1. IsFiniteSet(In(c, "running"))
      BY <1>2, <2>8 DEF CapInv, AtMost, Loaded
    <3>2. Cardinality(In(c, "running")) = 0
      BY <2>8, <3>1, FS_CardinalityType
    <3>3. QED BY <3>1, <3>2, FS_EmptySet
  <2>10. c \in Up[ChannelOf[j]]
    BY <2>1, <2>6, TreeAssumption
  <2>11. j \in In(c, "failed") \cup In(c, "running")
    BY <1>3, <2>1, <2>6, <2>10 DEF FailedPlace, RunsToRoot, In
  <2>12. QED BY <2>7, <2>9, <2>11
<1>6. QED BY <1>2, <1>3, <1>4, <1>5 DEF SeqKept, FailedPlace, RunsToRoot, Busy, Neighbours

\* Reading its row takes a failed job out of the place in which it ran.
LEMMA ReadSeq ==
  ASSUME IInv, SeqInv, [Next]_vars, SelectNotDone \/ (\E i \in Job : ProcessNotification(i)),
         NEW j \in Job, row[j].state = "failed"
  PROVE  SeqKept(j)'
<1>1. UNCHANGED row /\ pc' = "notify"
  BY ReadEffect
<1>2. \A i \in Job : Neighbours(i, j) => ~Busy(i)
  BY DEF SeqInv, SeqKept
<1>3. row[j].state \in State /\ ~Busy(j) /\ Exists(row, j) /\ row[j].state \in NotDone
  BY DEF State, Busy, Exists, NoRow, NotDone
<1>4. at'[j] = Notified(at[j], obj[j], RowOf(j), row[j].state) => FailedPlace(j)'
  BY <1>3, ReadShown DEF FailedPlace
<1>5. CASE SelectNotDone
  <2>1. at'[j] = Notified(at[j], obj[j], RowOf(j), row[j].state)
    BY <1>3, <1>5 DEF SelectNotDone
  <2>2. \A i \in Job : Neighbours(i, j) => ~Runs(i)'
    <3>1. SUFFICES ASSUME NEW i \in Job, Neighbours(i, j), Runs(i)' PROVE FALSE
      OBVIOUS
    <3>2. i \in In(ChannelOf[i], "running")' /\ ChannelOf[i] \in Channel
      BY <3>1, JobFacts DEF Runs, In
    <3>3. Busy(i)
      BY <1>5, <3>2, FirstRead DEF BusyIn
    <3>4. QED BY <1>2, <3>1, <3>3
  <2>3. QED BY <1>1, <1>2, <1>4, <2>1, <2>2 DEF SeqKept, Busy, Neighbours
<1>6. CASE \E i \in Job : ProcessNotification(i)
  <2>1. PICK i \in Job : ProcessNotification(i)
    BY <1>6
  <2>2. pc = "notify" /\ at \in [Job -> Line]
    BY <2>1 DEF ProcessNotification, IInv, TypeOK, ChTypeOK, Line
  <2>3. FailedPlace(j) /\ \A k \in Job : Neighbours(k, j) => ~Runs(k)
    BY <2>2 DEF SeqInv, SeqKept, Loaded
  <2>4. at'[j] = at[j] \/ at'[j] = Notified(at[j], obj[j], RowOf(j), row[j].state)
    BY <1>3, <2>1, <2>2 DEF ProcessNotification, Notify, RemoveJob
  <2>5. FailedPlace(j)'
    BY <1>4, <2>3, <2>4 DEF FailedPlace, RunsToRoot
  <2>6. ASSUME NEW k \in Job, Runs(k)' PROVE Runs(k)
    <3>1. ~Advance
      BY <2>2 DEF Advance
    <3>2. In(ChannelOf[k], "running")' \subseteq In(ChannelOf[k], "running")
      BY <1>1, <2>2, <3>1, JobFacts, NoNewRunning
    <3>3. QED BY <2>6, <3>2 DEF Runs, In
  <2>7. QED BY <1>1, <1>2, <2>3, <2>5, <2>6 DEF SeqKept, Busy, Neighbours
<1>7. QED BY <1>5, <1>6

LEMMA SeqStep ==
  ASSUME IInv, SpareStarted, CapInv, "done" \notin UserOps, SeqInv, [Next]_vars
  PROVE  SeqInv'
<1>1. SUFFICES ASSUME NEW j \in Job, row'[j].state = "failed" PROVE SeqKept(j)'
  BY DEF SeqInv, SeqKept
<1>2. CASE ~AnyRunnerStep
  BY <1>1, <1>2, TableSeq
<1>3. CASE AnyRunnerStep
  <2>1. row[j].state = "failed"
    BY <1>1, <1>3, RunnerRows
  <2>2. \A i \in Job : Neighbours(i, j) => ~Busy(i)
    BY <2>1 DEF SeqInv, SeqKept
  <2>3. CASE Advance
    BY <2>1, <2>3, AdvanceSeq
  <2>4. CASE SelectNotDone \/ \E i \in Job : ProcessNotification(i)
    BY <2>1, <2>4, ReadSeq
  <2>5. CASE RunnerError \/ Crash
    <3>1. ~SetJobEnqueued
      BY <2>5 DEF RunnerError, Crash, ForgetJobs, SetJobEnqueued
    <3>2. \A i \in Job : Neighbours(i, j) => ~Busy(i)'
      BY <2>2, <3>1, BusyShrinks
    <3>3. ~Loaded'
      BY <2>5 DEF RunnerError, Crash, ForgetJobs, Loaded
    <3>4. QED BY <3>2, <3>3 DEF SeqKept, Neighbours
  <2>6. CASE SetJobEnqueued
    <3>1. at' = at /\ Loaded /\ Loaded' /\ cur \in Job /\ RunsToRoot(cur)
      BY <2>6 DEF SetJobEnqueued, Loaded, chvars, IInv, CurRuns
    <3>2. FailedPlace(j) /\ \A i \in Job : Neighbours(i, j) => ~Runs(i)
      BY <2>1, <3>1 DEF SeqInv, SeqKept
    <3>3. Runs(cur)
      BY <3>1, JobFacts, TreeAssumption DEF Runs, RunsToRoot
    <3>4. ASSUME NEW i \in Job, Neighbours(i, j) PROVE ~Busy(i)'
      <4>1. i # cur
        BY <3>2, <3>3, <3>4
      <4>2. row'[i] = row[i]
        BY <1>3, <2>6, <4>1, RunnerRows DEF Crash, ForgetJobs, SetJobEnqueued
      <4>3. QED BY <2>2, <3>4, <4>2 DEF Busy
    <3>5. QED BY <3>1, <3>2, <3>4 DEF SeqKept, FailedPlace, RunsToRoot, Runs, Neighbours
  <2>7. CASE Listen \/ RunJobs \/ AsyncHttpGet \/ WaitNotification \/ SelectTimeout
    <3>1. UNCHANGED <<at, row>> /\ (Loaded' => Loaded)
      BY <2>7 DEF Listen, RunJobs, StartRun, AsyncHttpGet, WaitNotification, SelectTimeout,
           Loaded, chvars
    <3>2. SeqKept(j)
      BY DEF SeqInv
    <3>3. QED BY <3>1, <3>2 DEF SeqKept, FailedPlace, RunsToRoot, Runs, Neighbours, Busy
  <2>8. QED BY <1>3, <2>3, <2>4, <2>5, <2>6, <2>7 DEF AnyRunnerStep, Runner
<1>4. QED BY <1>2, <1>3

LEMMA SeqInit == Init => SeqInv
<1> SUFFICES ASSUME Init, NEW j \in Job PROVE row[j].state # "failed"
  BY DEF SeqInv, SeqKept
<1>1. row \in [Job -> {[state |-> "none", eta |-> e, retry |-> 0] : e \in Etas}]
  BY DEF Init
<1>2. QED BY <1>1

\* A failed job stops its sequential channel: no other job of it begins until
\* the failed one is requeued, set to done or cancelled, with late requests,
\* errors of the runner and restarts.
THEOREM FailureStops ==
  ASSUME SpareStarted, "done" \notin UserOps PROVE Spec => SequentialStops
<1> DEFINE Stops == \A i, j \in Job :
                      Begins(i) /\ row[j].state = "failed"
                      => ChannelOf[i] # ChannelOf[j] \/ ChannelOf[i] \notin Sequential
<1>1. ASSUME IInv, SeqInv, [Next]_vars PROVE Stops
  <2>1. SUFFICES ASSUME NEW i \in Job, NEW j \in Job, Begins(i), row[j].state = "failed"
                 PROVE  ~Neighbours(i, j) /\ i # j
    BY DEF Neighbours
  <2>2. row[i].state = "enqueued"
    BY <1>1, <2>1, BeginsEnqueued
  <2>3. QED BY <1>1, <2>1, <2>2 DEF SeqInv, SeqKept, Busy
<1>2. IInv /\ SeqInv /\ [Next]_vars => [Stops]_vars
  BY <1>1
<1>3. Spec => []IInv
  BY Invariance
<1>4. IInv /\ CapInv /\ [Next]_vars => CapInv'
  BY CapStep
<1>5. IInv /\ CapInv /\ SeqInv /\ [Next]_vars => SeqInv'
  BY SeqStep
<1>6. QED BY <1>2, <1>3, <1>4, <1>5, CapInit, SeqInit, PTL DEF Spec, SequentialStops, Stops

\* Jobs begin rightly: at their eta, after their parents, never beside a failed
\* job of their sequential channel, and no more often than they may.
THEOREM JobsBeginRightly ==
  ASSUME ClosedGraphs, MaxRetries = 0 \/ MaxFaults = 0 PROVE Spec => JobsBegin
<1>1. SpareStarted /\ "done" \notin UserOps
  BY DEF ClosedGraphs
<1>2. Spec => EtaReached /\ SequentialStops /\ ParentsFirst /\ []RetryLimit
  BY <1>1, EtaWaited, FailureStops, ParentsAreFirst, TriesAreLimited
<1>3. QED BY <1>2 DEF JobsBegin

-----------------------------------------------------------------------------
(* Jobs of several databases, while servers and runners come and go        *)

Serving == {"init", "notifications", "run", "wait", "recovery"}

AllServedNow == \A u \in Uuid : known[u] # NoDb => known[u] \in served

\* What a stopped runner knew may outlast its connections: it is harmless since
\* it stays stopped, and another one takes its place.
ServiceInv ==
  /\ known \in [Uuid -> Db \cup {NoDb}]
  /\ served \subseteq Db
  /\ toOpen \in Seq(Db)
  /\ rpc \in Serving => AllServedNow
  /\ rpc = "delay" => stop \/ \A u \in Uuid : known[u] = NoDb
  /\ rpc \in {"closing", "ended"} => stop
  /\ rpc = "again" => stop
  /\ stop \in BOOLEAN

\* A new runner knows nothing.
LEMMA Blank ==
  ASSUME NewRunner
  PROVE  /\ known' \in [Uuid -> Db \cup {NoDb}] /\ served' \subseteq Db
         /\ toOpen' \in Seq(Db) /\ stop' = FALSE
         /\ \A u \in Uuid : known'[u] = NoDb
  BY DEF NewRunner

\* Starting, stopping and replacing the runner.
LEMMA ServerStep ==
  ASSUME ServiceInv,
         \/ StartRunner \/ StopServer \/ StopEnds \/ StartServer \/ CpuLimit
         \/ RunnerKilled \/ StopTimeout \/ Returned \/ WorkAgain
  PROVE  ServiceInv'
<1>1. CASE StartRunner
  BY <1>1, Blank DEF StartRunner, ServiceInv, Serving, AllServedNow
<1>2. CASE StopServer
  BY <1>2 DEF StopServer, Stop, ServiceInv, Serving, AllServedNow
<1>3. CASE StopEnds \/ StartServer
  BY <1>3 DEF StopEnds, StartServer, runnerVars, ServiceInv, Serving, AllServedNow
<1>4. CASE CpuLimit
  BY <1>4 DEF CpuLimit, Stop, ServiceInv, Serving, AllServedNow
<1>5. CASE RunnerKilled \/ StopTimeout
  BY <1>5, Blank DEF RunnerKilled, StopTimeout, Dies, ServiceInv, Serving, AllServedNow
<1>6. CASE Returned
  <2>1. CASE prefork /\ server = "up"
    BY <1>6, <2>1 DEF Returned, runnerVars, ServiceInv, Serving, AllServedNow
  <2>2. CASE ~(prefork /\ server = "up")
    BY <1>6, <2>2, Blank DEF Returned, ServiceInv, Serving, AllServedNow
  <2> QED  BY <2>1, <2>2
<1>7. CASE WorkAgain
  <2>1. CASE recover
    BY <1>7, <2>1, Blank DEF WorkAgain, ServiceInv, Serving, AllServedNow
  <2>2. CASE ~recover
    BY <1>7, <2>2 DEF WorkAgain, runnerVars, ServiceInv, Serving, AllServedNow
  <2> QED  BY <2>1, <2>2
<1> QED  BY <1>1, <1>2, <1>3, <1>4, <1>5, <1>6, <1>7

\* Steps of the runner's loops that change nothing it knows.
LEMMA LoopStep ==
  ASSUME ServiceInv,
         \/ BeginRun \/ AllOpen \/ AllProcessed \/ AllRun \/ WakeUp
         \/ SelectEnds \/ QueryFails \/ CloseDatabases
  PROVE  ServiceInv'
<1>1. CASE BeginRun
  BY <1>1, ServiceAssumption DEF BeginRun, Go, ServiceInv, Serving, AllServedNow
<1>2. CASE AllOpen \/ WakeUp \/ SelectEnds
  BY <1>2 DEF AllOpen, WakeUp, SelectEnds, Go, runnerVars, ServiceInv,
     Serving, AllServedNow
<1>3. CASE AllProcessed \/ AllRun \/ QueryFails
  BY <1>3 DEF AllProcessed, AllRun, QueryFails, runnerVars, ServiceInv, Serving,
     AllServedNow
<1>4. CASE CloseDatabases
  BY <1>4 DEF CloseDatabases, ServiceInv, Serving, AllServedNow
<1> QED  BY <1>1, <1>2, <1>3, <1>4

\* A database is served before its jobs are known.
LEMMA OpenStep == ASSUME ServiceInv, OpenDatabase PROVE ServiceInv'
<1> DEFINE d == Head(toOpen)
           jobs == {u \in Uuid : table[d][u] \in Unfinished}
<1>1. d \in Db /\ Tail(toOpen) \in Seq(Db)
  BY DEF OpenDatabase, ServiceInv
<1>2. /\ served' = served \cup {d} /\ toOpen' = Tail(toOpen)
      /\ known' = [u \in Uuid |-> IF u \in jobs /\ Same(u, d) THEN d ELSE known[u]]
      /\ rpc' \in {"init", "recovery"} /\ rpc = "init" /\ stop' = stop
  BY DEF OpenDatabase
<1> HIDE DEF d, jobs
<1> QED  BY <1>1, <1>2 DEF ServiceInv, Serving, AllServedNow

\* Jobs of connections that are still there come and go.
LEMMA JobStep ==
  ASSUME ServiceInv, NEW u \in Uuid,
         RunJob(u) \/ \E d \in Db : ReadNotification(d, u)
  PROVE  ServiceInv'
<1>1. CASE RunJob(u)
  BY <1>1 DEF RunJob, ServiceInv, Serving, AllServedNow
<1>2. ASSUME NEW d \in Db, ReadNotification(d, u) PROVE ServiceInv'
  <2>1. /\ known' \in {known, [known EXCEPT ![u] = NoDb], [known EXCEPT ![u] = d]}
        /\ rpc' \in {rpc, "recovery"} /\ rpc = "notifications" /\ d \in served
        /\ served' = served /\ toOpen' = toOpen /\ stop' = stop
    BY <1>2 DEF ReadNotification
  <2> QED  BY <2>1 DEF ServiceInv, Serving, AllServedNow
<1> QED  BY <1>1, <1>2

\* close_databases forgets the jobs of every database it served, that is all.
LEMMA RecoveryStep == ASSUME ServiceInv, Recovery PROVE ServiceInv'
<1>1. /\ known' = [u \in Uuid |-> IF known[u] \in served THEN NoDb ELSE known[u]]
      /\ served' = {} /\ toOpen' = DbNames /\ stop' = stop
      /\ rpc = "recovery" /\ rpc' = IF stop THEN "closing" ELSE "init"
  BY DEF Recovery, Go
<1>2. \A u \in Uuid : known'[u] = NoDb
  BY <1>1 DEF ServiceInv, Serving, AllServedNow
<1>3. known' \in [Uuid -> Db \cup {NoDb}]
  BY <1>1 DEF ServiceInv
<1> QED  BY <1>1, <1>2, <1>3, ServiceAssumption DEF ServiceInv, Serving, AllServedNow

\* Nothing else changes what the runner knows.
LEMMA TablesStep ==
  ASSUME ServiceInv,
         \/ UNCHANGED serviceVars
         \/ \E d \in Db, u \in Uuid : DelayJob(d, u) \/ JobEnds(d, u) \/ JobPostponed(d, u)
  PROVE  ServiceInv'
BY DEF serviceVars, DelayJob, JobEnds, JobPostponed, Changed, ServiceInv, Serving,
   AllServedNow

\* Jobs the runner may ask Odoo to run are of databases it is connected to
\* (close_databases, remove_db), whatever fails and however it is replaced.
THEOREM OnlyServedKnown == ServiceSpec => []KnownIsServed
<1>1. ServiceInit => ServiceInv
  <2> SUFFICES ASSUME ServiceInit PROVE ServiceInv
    OBVIOUS
  <2>1. toOpen \in Seq(Db)
    BY DEF ServiceInit
  <2>2. rpc = "off" /\ stop = FALSE /\ served = {} /\ known \in [Uuid -> Db \cup {NoDb}]
    BY DEF ServiceInit
  <2> QED  BY <2>1, <2>2 DEF ServiceInv, Serving
<1>2. ServiceInv /\ [ServiceNext]_serviceVars => ServiceInv'
  BY ServerStep, LoopStep, OpenStep, JobStep, RecoveryStep, TablesStep
     DEF ServiceNext, RunnerStep
<1>3. ServiceInv => KnownIsServed
  BY DEF ServiceInv, KnownIsServed, AllServedNow, Serving
<1> QED  BY <1>1, <1>2, <1>3, PTL DEF ServiceSpec
=============================================================================
