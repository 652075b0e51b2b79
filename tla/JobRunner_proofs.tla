--------------------------- MODULE JobRunner_proofs ---------------------------
(***************************************************************************)
(* Theorems about the runner, its workers and its users, for every number  *)
(* of jobs, calls, faults and channels.                                    *)
(***************************************************************************)
EXTENDS JobRunner, Channels_proofs, FiniteSetTheorems

USE DEF ChannelJob, Place

RowType == [state : State \cup NoRow, eta : 0..MaxClock, retry : 0..MaxRetry]

RunsToRoot(j) == \A c \in Up[ChannelOf[j]] : at[j][c] = {"running"}

\* A ChannelJob belongs to the channel of its job.
ChannelKnown == \A j \in Job : obj[j] # NoJob => obj[j].chan = ChannelOf[j]

\* The runner reads the table into empty channels.
StartsEmpty ==
  pc \in {"init", "select"} =>
    \A j \in Job : at[j] = Nowhere /\ obj[j] = NoJob

\* A job the runner is sending already runs in all its channels.
CurRuns == pc \in {"enqueue", "http"} => cur \in Job /\ RunsToRoot(cur)

\* A job being performed is started, unless a user has set it to done.
WorkerState ==
  \A j \in Job : Performing(j) # {} =>
    \/ row[j].state = "started"
    \/ row[j].state = "done" /\ "done" \in UserOps

\* A job that is being performed or done is neither queued in a channel nor
\* about to be sent.
Finished(j) == row[j].state = "done" /\ "done" \notin UserOps
NotQueued ==
  pc \notin {"init", "select"} =>
    \A j \in Job : Performing(j) # {} \/ Finished(j) =>
      /\ RunsToRoot(j) \/ at[j] = Nowhere
      /\ ~(pc = "enqueue" /\ cur = j)

IInv == /\ TypeOK /\ PlacedOnce
        /\ ChannelKnown /\ StartsEmpty /\ CurRuns
        /\ BusyIsRunning /\ OneWorkerPerJob /\ WorkerState /\ NotQueued

-----------------------------------------------------------------------------
(* Types                                                                   *)

LEMMA ConstantFacts ==
  /\ ChannelOf \in [Job -> Channel] /\ PrioOf \in [Job -> Prio]
  /\ MaxRetries \in Nat /\ RetryDelay \in Nat /\ MaxRetry \in Nat
  /\ MaxClock \in Nat /\ MaxClock > 0 /\ MaxFaults \in Nat
BY RunnerAssumption

LEMMA PrioFacts == Prio \subseteq Nat /\ Root \in Channel
BY TreeAssumption

LEMMA RowOfType ==
  ASSUME TypeOK, NEW j \in Job
  PROVE  RowOf(j) \in ChannelJob /\ RowOf(j).chan = ChannelOf[j]
BY ConstantFacts DEF RowOf, TypeOK

\* An update of the state of one row.
LEMMA SetRow ==
  ASSUME row \in [Job -> RowType], NEW j \in Job, NEW s \in State \cup NoRow
  PROVE  /\ Set(j, s) \in [Job -> RowType]
         /\ Set(j, s)[j].state = s
         /\ \A i \in Job : i # j => Set(j, s)[i] = row[i]
BY DEF Set, RowType

LEMMA TriedType ==
  ASSUME NEW n \in 0..MaxRetry PROVE Tried(n) \in 0..MaxRetry
BY ConstantFacts DEF Tried

\* Releasing dependents changes jobs that wait for their dependencies only.
LEMMA ReleaseRows ==
  ASSUME NEW r \in [Job -> RowType], NEW j \in Job
  PROVE  /\ EnqueueWaiting(r, j) \in [Job -> RowType]
         /\ Released(r, j) \subseteq Job
         /\ \A i \in Job : \/ EnqueueWaiting(r, j)[i] = r[i]
                           \/ /\ r[i].state = "wait_dependencies"
                              /\ EnqueueWaiting(r, j)[i].state = "pending"
<1> DEFINE e == EnqueueWaiting(r, j)
<1>1. e = [i \in Job |-> IF i \in Released(r, j)
                         THEN [r[i] EXCEPT !.state = "pending"] ELSE r[i]]
  BY DEF EnqueueWaiting
<1>2. Released(r, j) \subseteq Job
      /\ \A i \in Released(r, j) : r[i].state = "wait_dependencies"
  BY DEF Released
<1>3. ASSUME NEW i \in Job
      PROVE  /\ [r[i] EXCEPT !.state = "pending"] \in RowType
             /\ [r[i] EXCEPT !.state = "pending"].state = "pending"
  BY DEF RowType, State
<1> HIDE DEF e
<1>4. e \in [Job -> RowType]
  BY <1>1, <1>3
<1>5. QED BY <1>1, <1>2, <1>3, <1>4 DEF e

LEMMA CommitType ==
  ASSUME TypeOK, NEW r \in [Job -> RowType], NEW ch \in SUBSET Job,
         Commit(r, ch)
  PROVE  row' = r /\ row' \in [Job -> RowType] /\ wire' \subseteq Job
BY DEF Commit, TypeOK

\* A call in progress is one for a job; its update leaves the others alone.
LEMMA CallInProgress ==
  ASSUME TypeOK, NEW k \in Call, ~IsFree(k)
  PROVE  call[k] \in CallState /\ call[k].job \in Job
BY DEF TypeOK, IsFree, Free, CallState

LEMMA ServerUpdate ==
  ASSUME TypeOK, NEW k \in Call, ~IsFree(k),
         NEW s \in {"unread", "performing", "committed", "over", "error"},
         Server(k, s)
  PROVE  /\ call' \in [Call -> CallState \cup {Free}]
         /\ call'[k].job = call[k].job /\ call'[k].server = s
         /\ \A l \in Call : l # k => call'[l] = call[l]
<1>1. call[k] \in CallState
  BY CallInProgress
<1>2. call' = [call EXCEPT ![k] = [call[k] EXCEPT !.server = s]]
  BY DEF Server
<1>3. /\ [call[k] EXCEPT !.server = s] \in CallState
      /\ [call[k] EXCEPT !.server = s].job = call[k].job
      /\ [call[k] EXCEPT !.server = s].server = s
  BY <1>1 DEF CallState
<1>4. QED BY <1>2, <1>3 DEF TypeOK

LEMMA ClientUpdate ==
  ASSUME TypeOK, NEW k \in Call, ~IsFree(k),
         call' = [call EXCEPT ![k].client = "ended"]
  PROVE  /\ call' \in [Call -> CallState \cup {Free}]
         /\ call'[k].job = call[k].job /\ call'[k].server = call[k].server
         /\ \A l \in Call : l # k => call'[l] = call[l]
<1>1. call[k] \in CallState
  BY CallInProgress
<1>2. call' = [call EXCEPT ![k] = [call[k] EXCEPT !.client = "ended"]]
  OBVIOUS
<1>3. /\ [call[k] EXCEPT !.client = "ended"] \in CallState
      /\ [call[k] EXCEPT !.client = "ended"].job = call[k].job
      /\ [call[k] EXCEPT !.client = "ended"].server = call[k].server
  BY <1>1 DEF CallState
<1>4. QED BY <1>2, <1>3 DEF TypeOK

LEMMA PerformingIs ==
  ASSUME NEW j
  PROVE  Performing(j) = {k \in Call : call[k].job = j
                                       /\ call[k].server = "performing"}
BY DEF Performing, IsFree

-----------------------------------------------------------------------------
(* The steps of threads, workers, cron and users: they change rows and     *)
(* calls, and leave the runner and its channels alone.                     *)

TableChange ==
  /\ UNCHANGED <<at, obj, pc, cur>>
  /\ \A j \in Job :
       /\ Busy(j)' => Busy(j)
       /\ \/ Performing(j)' \subseteq Performing(j)
          \/ /\ row[j].state = "enqueued"
             /\ \E k \in Call : Performing(j)' \subseteq {k}
       /\ Performing(j)' # {} => \/ row'[j].state = "started"
                                 \/ row'[j].state = "done" /\ "done" \in UserOps
       /\ Finished(j)' => Finished(j) \/ Performing(j) # {}
       /\ Finished(j) => row'[j].state \in {"done", "deleted"}

LEMMA TableInv ==
  ASSUME IInv, TypeOK', TableChange
  PROVE  IInv'
<1>1. UNCHANGED <<at, obj, pc, cur>>
  BY DEF TableChange
<1>2. PlacedOnce' /\ ChannelKnown' /\ StartsEmpty' /\ CurRuns'
  BY <1>1 DEF IInv, PlacedOnce, ChannelKnown, StartsEmpty, CurRuns, RunsToRoot
<1>3. \A j \in Job : Busy(j)' => Busy(j)
  BY DEF TableChange
<1>4. BusyIsRunning'
  BY <1>1, <1>3 DEF IInv, BusyIsRunning
<1>5. WorkerState'
  BY DEF TableChange, WorkerState
<1>6. ASSUME NEW j \in Job
      PROVE  \/ Performing(j)' \subseteq Performing(j)
             \/ Busy(j) /\ \E k \in Call : Performing(j)' \subseteq {k}
  BY DEF TableChange, Busy
<1>7. OneWorkerPerJob'
  BY <1>6 DEF IInv, OneWorkerPerJob
<1>8. NotQueued'
  <2>1. SUFFICES ASSUME pc \notin {"init", "select"}, NEW j \in Job,
                        Performing(j)' # {} \/ Finished(j)'
                 PROVE  /\ RunsToRoot(j) \/ at[j] = Nowhere
                        /\ ~(pc = "enqueue" /\ cur = j)
    BY <1>1 DEF NotQueued, RunsToRoot
  <2>2. Performing(j) # {} \/ Finished(j) \/ Busy(j)
    BY <2>1, <1>6 DEF TableChange
  <2>3. CASE Performing(j) # {} \/ Finished(j)
    BY <2>1, <2>3 DEF IInv, NotQueued
  <2>4. CASE Busy(j)
    BY <2>1, <2>4 DEF IInv, BusyIsRunning, RunsToRoot
  <2>5. QED BY <2>2, <2>3, <2>4
<1>9. QED BY <1>2, <1>4, <1>5, <1>7, <1>8 DEF IInv

\* Most steps only take rows out of their state, and end calls.
LEMMA Effect ==
  ASSUME IInv, UNCHANGED <<chvars, pc, cur>>,
         \A i \in Job : Performing(i)' \subseteq Performing(i),
         \A i \in Job : \/ row'[i] = row[i]
                        \/ /\ row'[i].state \notin {"enqueued", "started", "done"}
                           /\ Performing(i)' = {}
                           /\ Finished(i) => row'[i].state = "deleted"
  PROVE  TableChange
<1>1. UNCHANGED <<at, obj, pc, cur>>
  BY DEF chvars
<1>2. ASSUME NEW i \in Job
      PROVE  /\ Busy(i)' => Busy(i)
             /\ Performing(i)' # {} => \/ row'[i].state = "started"
                                       \/ row'[i].state = "done" /\ "done" \in UserOps
             /\ Finished(i)' => Finished(i)
             /\ Finished(i) => row'[i].state \in {"done", "deleted"}
  <2>1. CASE row'[i] = row[i]
    <3>1. Performing(i)' # {} => Performing(i) # {}
      OBVIOUS
    <3>2. QED BY <2>1, <3>1 DEF Busy, Finished, IInv, WorkerState
  <2>2. CASE /\ row'[i].state \notin {"enqueued", "started", "done"}
             /\ Performing(i)' = {}
             /\ Finished(i) => row'[i].state = "deleted"
    BY <2>2 DEF Busy, Finished
  <2>3. QED BY <2>1, <2>2
<1>3. QED BY <1>1, <1>2 DEF TableChange

\* A job that is neither started nor done is not being performed.
LEMMA NotPerformed ==
  ASSUME IInv, NEW j \in Job, row[j].state \notin {"started", "done"}
  PROVE  Performing(j) = {}
BY DEF IInv, WorkerState

LEMMA SameCalls ==
  ASSUME call' = call PROVE \A i : Performing(i)' = Performing(i)
BY DEF Performing, IsFree

\* A call that does not begin to perform its job adds no worker.
LEMMA CallEnds ==
  ASSUME NEW k \in Call, call'[k].job = call[k].job,
         call'[k].server \in {call[k].server, "committed", "over", "error"},
         \A l \in Call : l # k => call'[l] = call[l]
  PROVE  \A i : Performing(i)' \subseteq Performing(i)
<1>1. SUFFICES ASSUME NEW i, NEW l \in Performing(i)'
               PROVE  l \in Performing(i)
  OBVIOUS
<1>2. l \in Call /\ call'[l].job = i /\ call'[l].server = "performing"
  BY <1>1 DEF Performing
<1>3. call[l].job = i /\ call[l].server = "performing"
  BY <1>2
<1>4. QED BY <1>2, <1>3 DEF Performing, IsFree

\* The worker that ends was the only one of its job.
LEMMA LastWorker ==
  ASSUME IInv, NEW k \in Call, call[k].server = "performing",
         call'[k].server # "performing",
         \A i : Performing(i)' \subseteq Performing(i),
         NEW j \in Job, j = call[k].job
  PROVE  Performing(j)' = {} /\ Performing(j) = {k}
<1>1. k \in Performing(j)
  BY DEF Performing, IsFree
<1>2. Performing(j) = {k}
  BY <1>1 DEF IInv, OneWorkerPerJob, Performing
<1>3. k \notin Performing(j)'
  BY DEF Performing
<1>4. QED BY <1>2, <1>3

-----------------------------------------------------------------------------
(* One lemma per step.                                                     *)

LEMMA TypeNext ==
  ASSUME TypeOK, UNCHANGED <<chvars, notifies, pc, cur>>,
         row' \in [Job -> RowType], wire' \subseteq Job,
         call' \in [Call -> CallState \cup {Free}],
         clock' \in 1..MaxClock, faults' \in 0..MaxFaults
  PROVE  TypeOK'
BY DEF TypeOK, ChTypeOK, chvars, RowType, CallState, Free

LEMMA FaultType ==
  ASSUME TypeOK, Fault \/ UNCHANGED faults PROVE faults' \in 0..MaxFaults
BY ConstantFacts DEF TypeOK, Fault

LEMMA TypeFacts ==
  ASSUME IInv
  PROVE  /\ TypeOK /\ row \in [Job -> RowType]
         /\ wire \subseteq Job /\ notifies \subseteq Job
         /\ call \in [Call -> CallState \cup {Free}]
         /\ clock \in 1..MaxClock /\ faults \in 0..MaxFaults
BY DEF IInv, TypeOK, RowType

LEMMA DelayStep ==
  ASSUME IInv, NEW g \in Graph, Delay(g)
  PROVE  TypeOK' /\ TableChange
<1> DEFINE r == [j \in Job |->
                  IF j \in g THEN [row[j] EXCEPT !.state =
                    IF DependsOn[j] = {} THEN "pending" ELSE "wait_dependencies"]
                  ELSE row[j]]
<1>1. row \in [Job -> RowType] /\ TypeOK /\ g \subseteq Job
  BY RunnerAssumption, TypeFacts
<1>2. /\ \A j \in g : row[j].state = "none"
      /\ Commit(r, g)
  BY DEF Delay
<1>3. UNCHANGED <<chvars, notifies, pc, cur>> /\ UNCHANGED <<chvars, pc, cur>>
      /\ call' = call /\ clock' = clock /\ faults' = faults
  BY DEF Delay
<1>4. ASSUME NEW j \in Job
      PROVE  /\ r[j] \in RowType
             /\ r[j] = row[j] \/ (j \in g /\ r[j].state \in {"pending", "wait_dependencies"})
  BY <1>1 DEF RowType, State
<1>5. r \in [Job -> RowType]
  BY <1>4
<1> HIDE DEF r
<1>6. row' = r /\ wire' \subseteq Job
  BY <1>1, <1>2, <1>5, CommitType
<1>7. TypeOK'
  BY <1>1, <1>3, <1>5, <1>6, TypeNext, TypeFacts
<1>8. \A i : Performing(i)' = Performing(i)
  BY <1>3, SameCalls
<1>9. ASSUME NEW i \in Job
      PROVE  \/ row'[i] = row[i]
             \/ /\ row'[i].state \notin {"enqueued", "started", "done"}
                /\ Performing(i)' = {}
                /\ Finished(i) => row'[i].state = "deleted"
  <2>1. CASE i \in g
    <3>1. Performing(i) = {} /\ ~Finished(i)
      BY <2>1, <1>2, NotPerformed DEF Finished
    <3>2. QED BY <3>1, <1>4, <1>6, <1>8
  <2>2. CASE i \notin g
    BY <2>2, <1>4, <1>6
  <2>3. QED BY <2>1, <2>2
<1>10. TableChange
  BY <1>3, <1>8, <1>9, Effect
<1>11. QED BY <1>7, <1>10

LEMMA TickStep ==
  ASSUME IInv, Tick PROVE TypeOK' /\ TableChange
<1>1. UNCHANGED <<chvars, notifies, pc, cur>> /\ UNCHANGED <<chvars, pc, cur>>
      /\ row' = row /\ wire' = wire /\ call' = call /\ faults' = faults
  BY DEF Tick
<1>2. clock' \in 1..MaxClock
  BY ConstantFacts, TypeFacts DEF Tick
<1>3. \A i : Performing(i)' = Performing(i)
  BY <1>1, SameCalls
<1>4. QED BY <1>1, <1>2, <1>3, Effect, TypeNext, TypeFacts

LEMMA PendingStates ==
  ASSUME NEW r, NEW j PROVE PendingState(r, j) \in {"pending", "wait_dependencies"}
BY DEF PendingState

\* A step that changes the row of one job which nobody performs.
LEMMA OneRow ==
  ASSUME IInv, UNCHANGED <<chvars, pc, cur>>, call' = call,
         NEW j \in Job, Performing(j) = {},
         \A i \in Job : i # j => row'[i] = row[i],
         row'[j].state \notin {"enqueued", "started", "done"},
         Finished(j) => row'[j].state = "deleted"
  PROVE  TableChange
<1>1. \A i : Performing(i)' = Performing(i)
  BY SameCalls
<1>2. QED BY <1>1, Effect

LEMMA RequeueStep ==
  ASSUME IInv, NEW j \in Job, Performing(j) = {}, ~Finished(j), Requeue(j)
  PROVE  TypeOK' /\ TableChange
<1> DEFINE s == PendingState(row, j)
           r == [row EXCEPT ![j].state = s, ![j].retry = 0]
<1>1. Commit(r, {j})
  BY DEF Requeue
<1>2. UNCHANGED <<chvars, notifies, pc, cur>> /\ UNCHANGED <<chvars, pc, cur>>
      /\ call' = call /\ clock' = clock /\ faults' = faults
  BY DEF Requeue
<1>3. s \in {"pending", "wait_dependencies"} /\ s \in State /\ 0 \in 0..MaxRetry
  BY PendingStates, ConstantFacts DEF State
<1> HIDE DEF s
<1>4. /\ r \in [Job -> RowType] /\ r[j].state = s
      /\ \A i \in Job : i # j => r[i] = row[i]
  <2>1. row \in [Job -> RowType]
    BY TypeFacts
  <2>2. QED BY <1>3, <2>1 DEF RowType
<1> HIDE DEF r
<1>5. row' = r /\ wire' \subseteq Job
  BY <1>1, <1>4, TypeFacts, CommitType
<1>6. TypeOK'
  BY <1>2, <1>4, <1>5, TypeNext, TypeFacts
<1>7. TableChange
  BY <1>2, <1>3, <1>4, <1>5, OneRow
<1>8. QED BY <1>6, <1>7

LEMMA RequeueStuckStep ==
  ASSUME IInv, NEW j \in Job, RequeueStuckJobs(j)
  PROVE  TypeOK' /\ TableChange
<1>1. row[j].state = "enqueued" /\ Requeue(j)
  BY DEF RequeueStuckJobs
<1>2. Performing(j) = {} /\ ~Finished(j)
  BY <1>1, NotPerformed DEF Finished
<1>3. QED BY <1>1, <1>2, RequeueStep

\* A step that sets the state of one row, which nobody performs.
LEMMA SetStep ==
  ASSUME IInv, NEW j \in Job, Performing(j) = {},
         NEW s \in State \cup NoRow, s \notin {"enqueued", "started", "done"},
         Finished(j) => s = "deleted",
         NEW ch \in SUBSET Job, Commit(Set(j, s), ch),
         UNCHANGED <<chvars, notifies, pc, cur, call, clock, faults>>
  PROVE  TypeOK' /\ TableChange
<1>1. UNCHANGED <<chvars, notifies, pc, cur>> /\ UNCHANGED <<chvars, pc, cur>>
      /\ call' = call /\ clock' = clock /\ faults' = faults
  OBVIOUS
<1>2. /\ Set(j, s) \in [Job -> RowType] /\ Set(j, s)[j].state = s
      /\ \A i \in Job : i # j => Set(j, s)[i] = row[i]
  BY TypeFacts, SetRow
<1>3. row' = Set(j, s) /\ wire' \subseteq Job
  BY <1>2, TypeFacts, CommitType
<1>4. TypeOK'
  BY <1>1, <1>2, <1>3, TypeNext, TypeFacts
<1>5. TableChange
  BY <1>1, <1>2, <1>3, OneRow
<1>6. QED BY <1>4, <1>5

LEMMA CancelStep ==
  ASSUME IInv, NEW j \in Job, UserCancel(j)
  PROVE  TypeOK' /\ TableChange
<1>1. /\ row[j].state \in {"pending", "enqueued", "failed"}
      /\ Commit(Set(j, "cancelled"), {j})
      /\ UNCHANGED <<chvars, notifies, pc, cur, call, clock, faults>>
  BY DEF UserCancel
<1>2. Performing(j) = {} /\ ~Finished(j)
  BY <1>1, NotPerformed DEF Finished
<1>3. "cancelled" \in State \cup NoRow /\ {j} \in SUBSET Job
  BY DEF State
<1>4. QED BY <1>1, <1>2, <1>3, SetStep

LEMMA AutovacuumStep ==
  ASSUME IInv, NEW j \in Job, Autovacuum(j)
  PROVE  TypeOK' /\ TableChange
<1> DEFINE ch == IF row[j].state = "done" THEN {} ELSE {j}
<1>1. /\ \A k \in Call : ~IsFree(k) => call[k].job # j
      /\ Commit(Set(j, "deleted"), ch)
      /\ UNCHANGED <<chvars, notifies, pc, cur, call, clock, faults>>
  BY DEF Autovacuum
<1>2. Performing(j) = {}
  BY <1>1 DEF Performing
<1>3. "deleted" \in State \cup NoRow /\ ch \in SUBSET Job
  BY DEF NoRow
<1> HIDE DEF ch
<1>4. QED BY <1>1, <1>2, <1>3, SetStep

LEMMA UserDoneStep ==
  ASSUME IInv, NEW j \in Job, UserDone(j)
  PROVE  TypeOK' /\ TableChange
<1> DEFINE r == Set(j, "done")
           e == EnqueueWaiting(r, j)
<1>1. /\ "done" \in UserOps /\ Commit(e, {j} \cup Released(r, j))
      /\ UNCHANGED <<chvars, notifies, pc, cur, call, clock, faults>>
  BY DEF UserDone
<1>2. UNCHANGED <<chvars, notifies, pc, cur>> /\ UNCHANGED <<at, obj, pc, cur>>
      /\ call' = call /\ clock' = clock /\ faults' = faults
  BY <1>1 DEF chvars
<1>3. /\ r \in [Job -> RowType] /\ r[j].state = "done"
      /\ \A i \in Job : i # j => r[i] = row[i]
  BY TypeFacts, SetRow DEF State
<1> HIDE DEF r
<1>4. /\ e \in [Job -> RowType] /\ Released(r, j) \subseteq Job
      /\ \A i \in Job : \/ e[i] = r[i]
                        \/ r[i].state = "wait_dependencies" /\ e[i].state = "pending"
  BY <1>3, ReleaseRows
<1> HIDE DEF e
<1>5. row' = e /\ wire' \subseteq Job
  BY <1>1, <1>4, TypeFacts, CommitType
<1>6. TypeOK'
  BY <1>2, <1>4, <1>5, TypeNext, TypeFacts
<1>7. \A i : Performing(i)' = Performing(i)
  BY <1>2, SameCalls
<1>8. ASSUME NEW i \in Job
      PROVE  /\ Busy(i)' => Busy(i)
             /\ Performing(i)' # {} => \/ row'[i].state = "started"
                                       \/ row'[i].state = "done" /\ "done" \in UserOps
  <2>1. CASE i = j
    BY <1>1, <1>3, <1>4, <1>5, <2>1 DEF Busy
  <2>2. CASE i # j
    <3>1. \/ row'[i] = row[i]
          \/ row[i].state = "wait_dependencies" /\ row'[i].state = "pending"
      BY <1>3, <1>4, <1>5, <2>2
    <3>2. row[i].state = "wait_dependencies" => Performing(i) = {}
      BY NotPerformed
    <3>3. QED BY <3>1, <3>2, <1>7 DEF Busy, IInv, WorkerState
  <2>3. QED BY <2>1, <2>2
<1>9. \A i \in Job : ~Finished(i)' /\ ~Finished(i)
  BY <1>1 DEF Finished
<1>10. TableChange
  BY <1>2, <1>7, <1>8, <1>9 DEF TableChange
<1>11. QED BY <1>6, <1>10

LEMMA ClientEndStep ==
  ASSUME IInv, NEW k \in Call, ClientEnd(k)
  PROVE  TypeOK' /\ TableChange
<1> DEFINE j == call[k].job
<1>1. /\ ~IsFree(k) /\ call' = [call EXCEPT ![k].client = "ended"]
      /\ IF row[j].state = "enqueued"
         THEN Commit(Set(j, "pending"), {j}) ELSE row' = row /\ wire' = wire
      /\ Fault \/ faults' = faults
  BY DEF ClientEnd
<1>2. UNCHANGED <<chvars, notifies, pc, cur>> /\ UNCHANGED <<chvars, pc, cur>>
      /\ clock' = clock
  BY DEF ClientEnd
<1>3. j \in Job
  BY <1>1, TypeFacts, CallInProgress
<1>4. /\ call' \in [Call -> CallState \cup {Free}]
      /\ call'[k].job = call[k].job /\ call'[k].server = call[k].server
      /\ \A l \in Call : l # k => call'[l] = call[l]
  BY <1>1, TypeFacts, ClientUpdate
<1>5. \A i : Performing(i)' \subseteq Performing(i)
  BY <1>4, CallEnds
<1> HIDE DEF j
<1>6. /\ row' \in [Job -> RowType] /\ wire' \subseteq Job
      /\ \A i \in Job : \/ row'[i] = row[i]
                        \/ /\ row'[i].state = "pending"
                           /\ row[i].state = "enqueued"
  <2>1. CASE row[j].state = "enqueued"
    <3>1. /\ Set(j, "pending") \in [Job -> RowType]
          /\ Set(j, "pending")[j].state = "pending"
          /\ \A i \in Job : i # j => Set(j, "pending")[i] = row[i]
      BY <1>3, TypeFacts, SetRow DEF State
    <3>2. row' = Set(j, "pending") /\ wire' \subseteq Job
      BY <1>1, <1>3, <2>1, <3>1, TypeFacts, CommitType
    <3>3. QED BY <2>1, <3>1, <3>2
  <2>2. CASE row[j].state # "enqueued"
    BY <1>1, <2>2, TypeFacts
  <2>3. QED BY <2>1, <2>2
<1>7. TypeOK'
  BY <1>1, <1>2, <1>4, <1>6, TypeNext, TypeFacts, FaultType
<1>8. ASSUME NEW i \in Job, row'[i] # row[i]
      PROVE  /\ row'[i].state \notin {"enqueued", "started", "done"}
             /\ Performing(i)' = {} /\ ~Finished(i)
  <2>1. row'[i].state = "pending" /\ row[i].state = "enqueued"
    BY <1>6, <1>8
  <2>2. Performing(i) = {} /\ ~Finished(i)
    BY <2>1, NotPerformed DEF Finished
  <2>3. QED BY <2>1, <2>2, <1>5
<1>9. TableChange
  BY <1>2, <1>5, <1>8, Effect
<1>10. QED BY <1>7, <1>9

\* A step that ends a call, or goes on with it, without a change of rows.
LEMMA CallOnly ==
  ASSUME IInv, NEW k \in Call, row' = row, wire' = wire, clock' = clock,
         UNCHANGED <<chvars, notifies, pc, cur>>, UNCHANGED <<chvars, pc, cur>>,
         Fault \/ UNCHANGED faults,
         call' \in [Call -> CallState \cup {Free}],
         call'[k].job = call[k].job,
         call'[k].server \in {call[k].server, "committed", "over", "error"},
         \A l \in Call : l # k => call'[l] = call[l]
  PROVE  TypeOK' /\ TableChange
<1>1. TypeOK'
  BY TypeNext, TypeFacts, FaultType
<1>2. \A i : Performing(i)' \subseteq Performing(i)
  BY CallEnds
<1>3. TableChange
  BY <1>2, Effect
<1>4. QED BY <1>1, <1>3

LEMMA ClientReplyStep ==
  ASSUME IInv, NEW k \in Call, ClientReply(k)
  PROVE  TypeOK' /\ TableChange
<1>1. ~IsFree(k) /\ call' = [call EXCEPT ![k].client = "ended"]
  BY DEF ClientReply
<1>2. UNCHANGED <<chvars, notifies, pc, cur>> /\ UNCHANGED <<chvars, pc, cur>>
      /\ row' = row /\ wire' = wire /\ clock' = clock /\ faults' = faults
  BY DEF ClientReply
<1>3. /\ call' \in [Call -> CallState \cup {Free}]
      /\ call'[k].job = call[k].job /\ call'[k].server = call[k].server
      /\ \A l \in Call : l # k => call'[l] = call[l]
  BY <1>1, TypeFacts, ClientUpdate
<1>4. QED BY <1>2, <1>3, CallOnly

LEMMA ReleaseFailsStep ==
  ASSUME IInv, NEW k \in Call, EnqueueDependentJobsFails(k)
  PROVE  TypeOK' /\ TableChange
<1>1. ~IsFree(k) /\ Server(k, "error") /\ Fault
  BY DEF EnqueueDependentJobsFails
<1>2. UNCHANGED <<chvars, notifies, pc, cur>> /\ UNCHANGED <<chvars, pc, cur>>
      /\ row' = row /\ wire' = wire /\ clock' = clock
  BY DEF EnqueueDependentJobsFails
<1>3. /\ call' \in [Call -> CallState \cup {Free}]
      /\ call'[k].job = call[k].job /\ call'[k].server = "error"
      /\ \A l \in Call : l # k => call'[l] = call[l]
  BY <1>1, TypeFacts, ServerUpdate
<1>4. QED BY <1>1, <1>2, <1>3, CallOnly

\* The worker that takes an enqueued job is the only one: nobody performs a
\* job that is enqueued.
LEMMA BeginStep ==
  ASSUME IInv, NEW k \in Call, Begin(k)
  PROVE  TypeOK' /\ TableChange
<1> DEFINE j == call[k].job
<1>1. /\ ~IsFree(k) /\ call[k].server = "unread"
      /\ IF row[j].state = "enqueued"
         THEN Server(k, "performing") /\ Commit(Set(j, "started"), {j})
         ELSE Server(k, "over") /\ row' = row /\ wire' = wire
  BY DEF Begin
<1>2. UNCHANGED <<chvars, notifies, pc, cur>> /\ UNCHANGED <<chvars, pc, cur>>
      /\ clock' = clock /\ faults' = faults /\ UNCHANGED <<at, obj, pc, cur>>
  BY DEF Begin, chvars
<1>3. j \in Job
  BY <1>1, TypeFacts, CallInProgress
<1>4. CASE row[j].state # "enqueued"
  <2>1. Server(k, "over") /\ row' = row /\ wire' = wire
    BY <1>1, <1>4
  <2>2. /\ call' \in [Call -> CallState \cup {Free}]
        /\ call'[k].job = call[k].job /\ call'[k].server = "over"
        /\ \A l \in Call : l # k => call'[l] = call[l]
    BY <1>1, <2>1, TypeFacts, ServerUpdate
  <2>3. QED BY <1>2, <2>1, <2>2, CallOnly
<1>5. CASE row[j].state = "enqueued"
  <2>1. Server(k, "performing") /\ Commit(Set(j, "started"), {j})
    BY <1>1, <1>5
  <2>2. /\ call' \in [Call -> CallState \cup {Free}]
        /\ call'[k].job = call[k].job /\ call'[k].server = "performing"
        /\ \A l \in Call : l # k => call'[l] = call[l]
    BY <1>1, <2>1, TypeFacts, ServerUpdate
  <2>3. Performing(j) = {}
    BY <1>3, <1>5, NotPerformed
  <2>4. PICK i0 \in Job : i0 = j
    BY <1>3
  <2>5. call[k].job = i0 /\ row[i0].state = "enqueued" /\ Performing(i0) = {}
        /\ Commit(Set(i0, "started"), {i0})
    BY <2>1, <2>3, <2>4, <1>5
  <2> HIDE DEF j
  <2>6. /\ Set(i0, "started") \in [Job -> RowType]
        /\ Set(i0, "started")[i0].state = "started"
        /\ \A i \in Job : i # i0 => Set(i0, "started")[i] = row[i]
    BY TypeFacts, SetRow DEF State
  <2>7. row' = Set(i0, "started") /\ wire' \subseteq Job
    BY <2>5, <2>6, TypeFacts, CommitType
  <2>8. TypeOK'
    BY <1>2, <2>2, <2>6, <2>7, TypeNext, TypeFacts
  <2>9. /\ Performing(i0)' \subseteq {k}
        /\ \A i : i # i0 => Performing(i)' \subseteq Performing(i)
    <3>1. ASSUME NEW i, NEW l \in Performing(i)', l # k
          PROVE  l \in Performing(i)
      BY <2>2, <3>1 DEF Performing, IsFree
    <3>2. ASSUME NEW i, k \in Performing(i)'
          PROVE  i = i0
      BY <2>2, <2>5, <3>2 DEF Performing
    <3>3. QED BY <3>1, <3>2, <2>5
  <2>10. ASSUME NEW i \in Job
         PROVE  /\ Busy(i)' => Busy(i)
                /\ \/ Performing(i)' \subseteq Performing(i)
                   \/ /\ row[i].state = "enqueued"
                      /\ \E l \in Call : Performing(i)' \subseteq {l}
                /\ Performing(i)' # {} => \/ row'[i].state = "started"
                                          \/ row'[i].state = "done" /\ "done" \in UserOps
                /\ Finished(i)' => Finished(i)
                /\ Finished(i) => row'[i].state \in {"done", "deleted"}
    <3>1. CASE i = i0
      BY <3>1, <2>5, <2>6, <2>7, <2>9 DEF Busy, Finished
    <3>2. CASE i # i0
      BY <3>2, <2>6, <2>7, <2>9 DEF Busy, Finished, IInv, WorkerState
    <3>3. QED BY <3>1, <3>2
  <2>11. TableChange
    BY <1>2, <2>10 DEF TableChange
  <2>12. QED BY <2>8, <2>11
<1>6. QED BY <1>4, <1>5

\* What a worker that ends performing its job has done to the calls.
LEMMA PerformEnds ==
  ASSUME IInv, NEW k \in Call, ~IsFree(k), call[k].server = "performing",
         NEW s \in {"committed", "over", "error"}, Server(k, s)
  PROVE  /\ call' \in [Call -> CallState \cup {Free}]
         /\ \A i : Performing(i)' \subseteq Performing(i)
         /\ \E j \in Job : /\ j = call[k].job
                           /\ Performing(j) = {k} /\ Performing(j)' = {}
                           /\ ~Finished(j)
                           /\ row[j].retry \in 0..MaxRetry
<1>1. /\ call' \in [Call -> CallState \cup {Free}]
      /\ call'[k].job = call[k].job /\ call'[k].server = s
      /\ \A l \in Call : l # k => call'[l] = call[l]
  BY TypeFacts, ServerUpdate
<1>2. \A i : Performing(i)' \subseteq Performing(i)
  BY <1>1, CallEnds
<1>3. PICK j \in Job : j = call[k].job
  BY TypeFacts, CallInProgress
<1>4. Performing(j) = {k} /\ Performing(j)' = {}
  BY <1>1, <1>2, <1>3, LastWorker
<1>5. ~Finished(j)
  BY <1>4 DEF IInv, WorkerState, Finished
<1>6. row[j].retry \in 0..MaxRetry
  BY TypeFacts DEF RowType
<1>7. QED BY <1>1, <1>2, <1>3, <1>4, <1>5, <1>6

LEMMA PerformDoneStep ==
  ASSUME IInv, NEW k \in Call, PerformDone(k)
  PROVE  TypeOK' /\ TableChange
<1>1. ~IsFree(k) /\ call[k].server = "performing" /\ Server(k, "committed")
  BY DEF PerformDone
<1>2. UNCHANGED <<chvars, notifies, pc, cur>> /\ UNCHANGED <<at, obj, pc, cur>>
      /\ clock' = clock /\ faults' = faults
  BY DEF PerformDone, chvars
<1>3. /\ call' \in [Call -> CallState \cup {Free}]
      /\ \A i : Performing(i)' \subseteq Performing(i)
  BY <1>1, PerformEnds
<1>4. PICK j \in Job : /\ j = call[k].job
                       /\ Performing(j) = {k} /\ Performing(j)' = {}
                       /\ ~Finished(j)
                       /\ row[j].retry \in 0..MaxRetry
  BY <1>1, PerformEnds
<1> DEFINE r == [row EXCEPT ![j].state = "done", ![j].retry = Tried(row[j].retry)]
<1>5. Commit(r, {j})
  BY <1>4 DEF PerformDone
<1>6. /\ r \in [Job -> RowType] /\ r[j].state = "done"
      /\ \A i \in Job : i # j => r[i] = row[i]
  <2>1. Tried(row[j].retry) \in 0..MaxRetry /\ "done" \in State
    BY <1>4, TriedType DEF State
  <2>2. row \in [Job -> RowType]
    BY TypeFacts
  <2>3. QED BY <2>1, <2>2 DEF RowType
<1> HIDE DEF r
<1>7. row' = r /\ wire' \subseteq Job
  BY <1>5, <1>6, TypeFacts, CommitType
<1>8. TypeOK'
  BY <1>2, <1>3, <1>6, <1>7, TypeNext, TypeFacts
<1>9. ASSUME NEW i \in Job
      PROVE  /\ Busy(i)' => Busy(i)
             /\ Performing(i)' # {} => \/ row'[i].state = "started"
                                       \/ row'[i].state = "done" /\ "done" \in UserOps
             /\ Finished(i)' => Finished(i) \/ Performing(i) # {}
             /\ Finished(i) => row'[i].state \in {"done", "deleted"}
  <2>1. CASE i = j
    BY <2>1, <1>4, <1>6, <1>7 DEF Busy
  <2>2. CASE i # j
    BY <2>2, <1>3, <1>6, <1>7 DEF Busy, Finished, IInv, WorkerState
  <2>3. QED BY <2>1, <2>2
<1>10. TableChange
  BY <1>2, <1>3, <1>9 DEF TableChange
<1>11. QED BY <1>8, <1>10

LEMMA PerformFailsStep ==
  ASSUME IInv, NEW k \in Call, PerformFails(k)
  PROVE  TypeOK' /\ TableChange
<1>1. ~IsFree(k) /\ call[k].server = "performing" /\ Server(k, "error")
  BY DEF PerformFails
<1>2. UNCHANGED <<chvars, notifies, pc, cur>> /\ UNCHANGED <<chvars, pc, cur>>
      /\ clock' = clock /\ faults' = faults
  BY DEF PerformFails
<1>3. /\ call' \in [Call -> CallState \cup {Free}]
      /\ \A i : Performing(i)' \subseteq Performing(i)
  BY <1>1, PerformEnds
<1>4. PICK j \in Job : /\ j = call[k].job
                       /\ Performing(j) = {k} /\ Performing(j)' = {}
                       /\ ~Finished(j)
                       /\ row[j].retry \in 0..MaxRetry
  BY <1>1, PerformEnds
<1> DEFINE r == [row EXCEPT ![j].state = "failed", ![j].retry = Tried(row[j].retry)]
<1>5. Commit(r, {j})
  BY <1>4 DEF PerformFails
<1>6. /\ r \in [Job -> RowType] /\ r[j].state = "failed"
      /\ \A i \in Job : i # j => r[i] = row[i]
  <2>1. Tried(row[j].retry) \in 0..MaxRetry /\ "failed" \in State
    BY <1>4, TriedType DEF State
  <2>2. row \in [Job -> RowType]
    BY TypeFacts
  <2>3. QED BY <2>1, <2>2 DEF RowType
<1> HIDE DEF r
<1>7. row' = r /\ wire' \subseteq Job
  BY <1>5, <1>6, TypeFacts, CommitType
<1>8. TypeOK'
  BY <1>2, <1>3, <1>6, <1>7, TypeNext, TypeFacts
<1>9. TableChange
  BY <1>2, <1>3, <1>4, <1>6, <1>7, Effect
<1>10. QED BY <1>8, <1>9

LEMMA PostponeStep ==
  ASSUME IInv, NEW k \in Call, Postpone(k)
  PROVE  TypeOK' /\ TableChange
<1>1. ~IsFree(k) /\ call[k].server = "performing" /\ Server(k, "over")
  BY DEF Postpone
<1>2. UNCHANGED <<chvars, notifies, pc, cur>> /\ UNCHANGED <<chvars, pc, cur>>
      /\ clock' = clock
  BY DEF Postpone
<1>3. /\ call' \in [Call -> CallState \cup {Free}]
      /\ \A i : Performing(i)' \subseteq Performing(i)
  BY <1>1, PerformEnds
<1>4. PICK j \in Job : /\ j = call[k].job
                       /\ Performing(j) = {k} /\ Performing(j)' = {}
                       /\ ~Finished(j)
                       /\ row[j].retry \in 0..MaxRetry
  BY <1>1, PerformEnds
<1> DEFINE x == [state |-> PendingState(row, j), eta |-> Postponed,
                 retry |-> Tried(row[j].retry)]
           r == [row EXCEPT ![j] = x]
<1>5. Commit(r, {j}) /\ (MayRetry(j) \/ faults > 0)
      /\ faults' = IF MayRetry(j) THEN faults ELSE faults - 1
  BY <1>4 DEF Postpone
<1>6. faults' \in 0..MaxFaults
  BY <1>5, TypeFacts, ConstantFacts
<1>7. x \in RowType /\ x.state \in {"pending", "wait_dependencies"}
  <2>1. Tried(row[j].retry) \in 0..MaxRetry
    BY <1>4, TriedType
  <2>2. Postponed \in 0..MaxClock
    BY ConstantFacts, TypeFacts DEF Postponed
  <2>3. PendingState(row, j) \in {"pending", "wait_dependencies"}
    BY PendingStates
  <2>4. QED BY <2>1, <2>2, <2>3 DEF RowType, State
<1> HIDE DEF x
<1>8. /\ r \in [Job -> RowType] /\ r[j] = x
      /\ \A i \in Job : i # j => r[i] = row[i]
  BY <1>7, TypeFacts
<1> HIDE DEF r
<1>9. row' = r /\ wire' \subseteq Job
  BY <1>5, <1>8, TypeFacts, CommitType
<1>10. TypeOK'
  BY <1>2, <1>3, <1>6, <1>8, <1>9, TypeNext, TypeFacts
<1>11. TableChange
  BY <1>2, <1>3, <1>4, <1>7, <1>8, <1>9, Effect
<1>12. QED BY <1>10, <1>11

LEMMA ReleaseStep ==
  ASSUME IInv, NEW k \in Call, EnqueueDependentJobs(k)
  PROVE  TypeOK' /\ TableChange
<1>1. ~IsFree(k) /\ Server(k, "over")
  BY DEF EnqueueDependentJobs
<1>2. UNCHANGED <<chvars, notifies, pc, cur>> /\ UNCHANGED <<chvars, pc, cur>>
      /\ clock' = clock /\ faults' = faults
  BY DEF EnqueueDependentJobs
<1>3. /\ call' \in [Call -> CallState \cup {Free}]
      /\ call'[k].job = call[k].job /\ call'[k].server = "over"
      /\ \A l \in Call : l # k => call'[l] = call[l]
  BY <1>1, TypeFacts, ServerUpdate
<1>4. \A i : Performing(i)' \subseteq Performing(i)
  BY <1>3, CallEnds
<1>5. PICK j \in Job : j = call[k].job
  BY <1>1, TypeFacts, CallInProgress
<1> DEFINE e == EnqueueWaiting(row, j)
<1>6. Commit(e, Released(row, j))
  BY <1>5 DEF EnqueueDependentJobs
<1>7. /\ e \in [Job -> RowType] /\ Released(row, j) \subseteq Job
      /\ \A i \in Job : \/ e[i] = row[i]
                        \/ row[i].state = "wait_dependencies" /\ e[i].state = "pending"
  BY TypeFacts, ReleaseRows
<1> HIDE DEF e
<1>8. row' = e /\ wire' \subseteq Job
  BY <1>6, <1>7, TypeFacts, CommitType
<1>9. TypeOK'
  BY <1>2, <1>3, <1>7, <1>8, TypeNext, TypeFacts
<1>10. ASSUME NEW i \in Job, row'[i] # row[i]
       PROVE  /\ row'[i].state \notin {"enqueued", "started", "done"}
              /\ Performing(i)' = {} /\ ~Finished(i)
  <2>1. row[i].state = "wait_dependencies" /\ row'[i].state = "pending"
    BY <1>7, <1>8, <1>10
  <2>2. Performing(i) = {} /\ ~Finished(i)
    BY <2>1, NotPerformed DEF Finished
  <2>3. QED BY <2>1, <2>2, <1>4
<1>11. TableChange
  BY <1>2, <1>4, <1>10, Effect
<1>12. QED BY <1>9, <1>11

-----------------------------------------------------------------------------
(* The steps of the runner                                                 *)

LEMMA InvChannels == ASSUME IInv PROVE ChInv
BY DEF IInv, TypeOK, ChInv

LEMMA JobFacts ==
  ASSUME IInv, NEW j \in Job
  PROVE  /\ at[j] \in Line /\ obj[j] \in ChannelJob \cup {NoJob}
         /\ Placed(at[j], obj[j])
         /\ RowOf(j) \in ChannelJob /\ RowOf(j).chan = ChannelOf[j]
         /\ obj[j] # NoJob => obj[j].chan = ChannelOf[j]
         /\ ChannelOf[j] \in Channel
<1>1. at[j] \in Line /\ obj[j] \in ChannelJob \cup {NoJob}
  BY DEF IInv, TypeOK, ChTypeOK, Line
<1>2. Placed(at[j], obj[j]) /\ (obj[j] # NoJob => obj[j].chan = ChannelOf[j])
  BY DEF IInv, PlacedOnce, ChannelKnown
<1>3. QED BY <1>1, <1>2, RowOfType, ConstantFacts, TypeFacts

\* Steps that change no channel, row or worker.
Quiet ==
  /\ UNCHANGED <<at, obj, row>>
  /\ \A j \in Job : Performing(j)' = Performing(j)

LEMMA QuietInv ==
  ASSUME IInv, TypeOK', Quiet, StartsEmpty', CurRuns',
         pc' # "enqueue",
         pc' \in {"init", "select"} \/ pc \notin {"init", "select"}
  PROVE  IInv'
<1>1. PlacedOnce' /\ ChannelKnown'
  BY DEF Quiet, IInv, PlacedOnce, ChannelKnown
<1>2. BusyIsRunning'
  BY DEF Quiet, IInv, BusyIsRunning, Busy
<1>3. OneWorkerPerJob'
  BY DEF Quiet, IInv, OneWorkerPerJob
<1>4. WorkerState'
  BY DEF Quiet, IInv, WorkerState
<1>5. NotQueued'
  BY DEF Quiet, IInv, NotQueued, Finished, RunsToRoot
<1>6. QED BY <1>1, <1>2, <1>3, <1>4, <1>5 DEF IInv

LEMMA ListenStep == ASSUME IInv, Listen PROVE IInv'
<1>1. /\ pc = "init" /\ pc' = "select" /\ wire' = {} /\ notifies' = {}
      /\ UNCHANGED <<at, obj, pauseUntil, runNow, turn, row, cur, call, clock, faults>>
  BY DEF Listen, chvars
<1>2. TypeOK'
  BY <1>1 DEF IInv, TypeOK, ChTypeOK, CallState, Free
<1>3. Quiet
  BY <1>1, SameCalls DEF Quiet
<1>4. StartsEmpty' /\ CurRuns'
  BY <1>1 DEF IInv, StartsEmpty, CurRuns
<1>5. QED BY <1>1, <1>2, <1>3, <1>4, QuietInv

LEMMA WaitStep ==
  ASSUME IInv, WaitNotification \/ SelectTimeout PROVE IInv'
<1>1. /\ pc = "wait" /\ pc' = "notify"
      /\ UNCHANGED <<at, obj, pauseUntil, runNow, turn, row, cur, call, clock, faults>>
  BY DEF WaitNotification, SelectTimeout, chvars
<1>2. \/ UNCHANGED <<notifies, wire>>
      \/ wire' = {} /\ notifies' = notifies \cup wire \cup {}
  BY DEF WaitNotification, SelectTimeout, ReadWire
<1>3. wire' \subseteq Job /\ notifies' \subseteq Job
  BY <1>2, TypeFacts
<1>4. TypeOK'
  BY <1>1, <1>3 DEF IInv, TypeOK, ChTypeOK, CallState, Free
<1>5. Quiet
  BY <1>1, SameCalls DEF Quiet
<1>6. StartsEmpty' /\ CurRuns'
  BY <1>1 DEF IInv, StartsEmpty, CurRuns
<1>7. QED BY <1>1, <1>4, <1>5, <1>6, QuietInv

LEMMA RunJobsStep == ASSUME IInv, RunJobs PROVE IInv'
<1>1. /\ pc = "notify" /\ pc' = "run" /\ StartRun(clock)
      /\ UNCHANGED <<row, wire, notifies, cur, call, clock, faults>>
  BY DEF RunJobs
<1>2. ChInv'
  BY <1>1, InvChannels, StartRunInv, TypeFacts
<1>3. TypeOK'
  BY <1>1, <1>2 DEF ChInv, IInv, TypeOK, CallState, Free
<1>4. Quiet
  BY <1>1, SameCalls DEF Quiet, StartRun
<1>5. StartsEmpty' /\ CurRuns'
  BY <1>1 DEF StartsEmpty, CurRuns
<1>6. QED BY <1>1, <1>3, <1>4, <1>5, QuietInv

LEMMA HttpStep == ASSUME IInv, AsyncHttpGet PROVE IInv'
<1>1. PICK k \in Call :
        /\ IsFree(k)
        /\ call' = [call EXCEPT ![k] = [job |-> cur, client |-> "waiting",
                                        server |-> "unread"]]
  BY DEF AsyncHttpGet
<1>2. /\ pc = "http" /\ pc' \in {"wait", "run"} /\ cur' = NoJob
      /\ UNCHANGED <<at, obj, pauseUntil, runNow, turn, row, wire, notifies, clock, faults>>
  BY DEF AsyncHttpGet, chvars
<1>3. cur \in Job
  BY <1>2 DEF IInv, CurRuns
<1>4. call' \in [Call -> CallState \cup {Free}]
  BY <1>1, <1>3, TypeFacts DEF CallState
<1>5. TypeOK'
  BY <1>2, <1>4 DEF IInv, TypeOK, ChTypeOK, CallState, Free
<1>6. \A j : Performing(j)' = Performing(j)
  BY <1>1, TypeFacts DEF Performing, IsFree
<1>7. Quiet
  BY <1>2, <1>6 DEF Quiet
<1>8. StartsEmpty' /\ CurRuns'
  BY <1>2 DEF StartsEmpty, CurRuns
<1>9. QED BY <1>2, <1>5, <1>7, <1>8, QuietInv

\* The job sent runs in all its channels, and nobody performs it.
LEMMA EnqueuedStep == ASSUME IInv, SetJobEnqueued PROVE IInv'
<1>1. /\ pc = "enqueue" /\ pc' = "http"
      /\ UNCHANGED <<at, obj, pauseUntil, runNow, turn, cur, call, clock, faults>>
  BY DEF SetJobEnqueued, chvars
<1>2. cur \in Job /\ RunsToRoot(cur)
  BY <1>1 DEF IInv, CurRuns
<1>3. /\ wire' = {}
      /\ notifies' \in {notifies \cup wire \cup {cur}, notifies \cup wire \cup {}}
      /\ row' \in {row, Set(cur, "enqueued")}
  BY DEF SetJobEnqueued, ReadWire
<1>4. /\ Set(cur, "enqueued") \in [Job -> RowType]
      /\ \A i \in Job : i # cur => Set(cur, "enqueued")[i] = row[i]
      /\ Set(cur, "enqueued")[cur].state = "enqueued"
  BY <1>2, TypeFacts, SetRow DEF State
<1>5. TypeOK'
  BY <1>1, <1>2, <1>3, <1>4, TypeFacts
     DEF TypeOK, ChTypeOK, CallState, Free, RowType
<1>6. PlacedOnce' /\ ChannelKnown' /\ StartsEmpty' /\ CurRuns'
  BY <1>1, <1>2 DEF IInv, PlacedOnce, ChannelKnown, StartsEmpty, CurRuns, RunsToRoot
<1>7. \A j : Performing(j)' = Performing(j)
  BY <1>1, SameCalls
<1>8. OneWorkerPerJob'
  BY <1>7 DEF IInv, OneWorkerPerJob
<1>9. Performing(cur) = {} /\ ~Finished(cur)
  BY <1>1, <1>2 DEF IInv, NotQueued
<1>10. \A i \in Job : \/ row'[i] = row[i]
                      \/ i = cur /\ row'[i].state = "enqueued"
  BY <1>3, <1>4
<1>11. ASSUME NEW i \in Job
       PROVE  /\ Busy(i)' => Busy(i) \/ i = cur
              /\ Finished(i)' => Finished(i)
              /\ Performing(i) # {} => \/ row'[i].state = "started"
                                       \/ row'[i].state = "done" /\ "done" \in UserOps
  BY <1>9, <1>10 DEF Busy, Finished, IInv, WorkerState
<1>12. BusyIsRunning'
  BY <1>1, <1>2, <1>11 DEF IInv, BusyIsRunning, RunsToRoot
<1>13. WorkerState'
  BY <1>7, <1>11 DEF WorkerState
<1>14. NotQueued'
  BY <1>1, <1>7, <1>11 DEF IInv, NotQueued, RunsToRoot
<1>15. QED BY <1>5, <1>6, <1>8, <1>12, <1>13, <1>14 DEF IInv

\* The runner starts over, with empty channels, while workers go on.
LEMMA RestartStep ==
  ASSUME IInv, RunnerError \/ Crash PROVE IInv'
<1>1. /\ at' = [j \in Job |-> Nowhere] /\ obj' = [j \in Job |-> NoJob]
      /\ turn' = 0 /\ runNow' = 0 /\ pc' = "init" /\ cur' = NoJob
      /\ wire' = {} /\ notifies' = {} /\ clock' = clock /\ Fault
  BY DEF RunnerError, Crash, ForgetJobs
<1>2. pauseUntil' \in [Channel -> Nat]
  BY DEF RunnerError, Crash, IInv, TypeOK, ChTypeOK
<1>3. ChTypeOK'
  BY <1>1, <1>2, NowherePlaced, OrderFacts DEF ChTypeOK, Line
<1>4. faults' \in 0..MaxFaults
  BY <1>1, TypeFacts, FaultType
<1>5. /\ row' \in [Job -> RowType]
      /\ call' \in [Call -> CallState \cup {Free}]
      /\ \/ row' = row /\ call' = call
         \/ call' = [k \in Call |-> Free]
  <2>1. CASE RunnerError
    BY <2>1, TypeFacts DEF RunnerError
  <2>2. CASE Crash
    <3>1. call' = [k \in Call |-> Free]
      BY <2>2 DEF Crash
    <3>2. PICK reset \in BOOLEAN :
            row' = [j \in Job |-> IF reset /\ Busy(j)
                                  THEN [row[j] EXCEPT !.state = "pending"]
                                  ELSE row[j]]
      BY <2>2 DEF Crash
    <3>3. row' \in [Job -> RowType]
      BY <3>2, TypeFacts DEF RowType, State
    <3>4. QED BY <3>1, <3>3
  <2>3. QED BY <2>1, <2>2
<1>6. TypeOK'
  BY <1>1, <1>3, <1>4, <1>5, TypeFacts DEF TypeOK, RowType
<1>7. PlacedOnce' /\ ChannelKnown' /\ StartsEmpty' /\ CurRuns'
  BY <1>1, NowherePlaced DEF PlacedOnce, ChannelKnown, StartsEmpty, CurRuns
<1>8. BusyIsRunning' /\ NotQueued'
  BY <1>1 DEF BusyIsRunning, NotQueued
<1>9. OneWorkerPerJob' /\ WorkerState'
  <2>1. CASE row' = row /\ call' = call
    <3>1. \A j : Performing(j)' = Performing(j)
      BY <2>1, SameCalls
    <3>2. QED BY <2>1, <3>1 DEF IInv, OneWorkerPerJob, WorkerState
  <2>2. CASE call' = [k \in Call |-> Free]
    <3>1. \A j : Performing(j)' = {}
      BY <2>2 DEF Performing, IsFree, Free
    <3>2. QED BY <3>1 DEF OneWorkerPerJob, WorkerState
  <2>3. QED BY <1>5, <2>1, <2>2
<1>10. QED BY <1>6, <1>7, <1>8, <1>9 DEF IInv

\* A job that runs to the root, or is nowhere, waits in no queue.
LEMMA NoQueue ==
  ASSUME IInv, NEW j \in Job, RunsToRoot(j) \/ at[j] = Nowhere, NEW c \in Channel
  PROVE  at[j][c] \cap {"queue", "eta"} = {}
<1>1. at[j][c] # {} => obj[j] # NoJob /\ c \in Up[obj[j].chan]
  BY JobFacts DEF Placed
<1>2. at[j][c] # {} => c \in Up[ChannelOf[j]]
  BY <1>1, JobFacts
<1>3. CASE RunsToRoot(j)
  BY <1>2, <1>3 DEF RunsToRoot
<1>4. CASE at[j] = Nowhere
  BY <1>4 DEF Nowhere
<1>5. QED BY <1>3, <1>4

\* Jobs that are busy, performed or done are left alone by get_jobs_to_run.
LEMMA AdvanceStep == ASSUME IInv, Advance PROVE IInv'
<1>1. /\ pc = "run" /\ pc' \in {"run", "wait", "enqueue"}
      /\ UNCHANGED <<row, wire, notifies, call, clock, faults>>
  BY DEF Advance
<1>2. PICK c \in Channel : /\ RunStep(c)
                           /\ \/ pc' # "enqueue" /\ cur' = cur
                              \/ c = Root /\ pc' = "enqueue" /\ cur' \in Job
                                 /\ Yield(Root, cur')
  <2>1. CASE \E c \in Channel \ {Root} : RunStep(c) /\ UNCHANGED <<pc, cur>>
    BY <2>1, <1>1
  <2>2. CASE (LeavePaused(Root) \/ LeaveFull(Root) \/ LeaveEmpty(Root))
             /\ pc' = "wait" /\ UNCHANGED cur
    BY <2>2, PrioFacts DEF RunStep
  <2>3. ASSUME NEW j \in Job, Yield(Root, j), pc' = "enqueue", cur' = j
        PROVE  RunStep(Root) /\ cur' \in Job /\ Yield(Root, cur')
    BY <2>3 DEF RunStep
  <2>4. QED BY <2>1, <2>2, <2>3, PrioFacts DEF Advance
<1>3. ChInv'
  BY <1>2, InvChannels, RunStepInv
<1>4. TypeOK'
  BY <1>1, <1>2, <1>3 DEF ChInv, IInv, TypeOK, CallState, Free
<1>5. ChannelKnown'
  BY <1>2, InvChannels, RunStepChan DEF IInv, ChannelKnown
<1>6. StartsEmpty'
  BY <1>1 DEF StartsEmpty
<1>7. ASSUME NEW j \in Job, RunsToRoot(j) \/ at[j] = Nowhere
      PROVE  at'[j] = at[j] /\ ~(pc' = "enqueue" /\ cur' = j)
  <2>1. \A d \in Channel : at[j][d] \cap {"queue", "eta"} = {}
    BY <1>7, NoQueue
  <2>2. at'[j] = at[j]
    BY <2>1, <1>2, InvChannels, RunStepKeeps
  <2>3. ASSUME pc' = "enqueue", cur' = j PROVE FALSE
    <3>1. Yield(Root, j)
      BY <1>2, <2>3
    <3>2. QED BY <2>1, <3>1, InvChannels, YieldRuns, PrioFacts
  <2>4. QED BY <2>2, <2>3
<1>8. CurRuns'
  <2>1. SUFFICES ASSUME pc' = "enqueue"
                 PROVE  cur' \in Job /\ RunsToRoot(cur)'
    BY <1>1 DEF CurRuns
  <2>2. PICK j \in Job : j = cur' /\ Yield(Root, j)
    BY <1>2, <2>1
  <2>3. at'[j][Root] = {"running"}
    BY <2>2, InvChannels, YieldRuns, PrioFacts
  <2>4. /\ at'[j] \in Line /\ Placed(at'[j], obj'[j])
        /\ obj'[j] \in ChannelJob \cup {NoJob}
    BY <1>3 DEF ChInv, ChTypeOK, PlacedOnce, Line
  <2>5. obj'[j] # NoJob
    BY <2>3, <2>4, PrioFacts DEF Placed
  <2>6. obj'[j].chan = ChannelOf[j]
    BY <1>5, <2>5 DEF ChannelKnown
  <2>7. \A d \in Up[ChannelOf[j]] : at'[j][d] = {"running"}
    BY <2>3, <2>4, <2>5, <2>6, RootRuns
  <2>8. QED BY <2>2, <2>7 DEF RunsToRoot
<1>9. BusyIsRunning'
  <2>1. SUFFICES ASSUME NEW j \in Job, Busy(j)'
                 PROVE  /\ RunsToRoot(j)'
                        /\ ~(pc' = "enqueue" /\ cur' = j)
    BY DEF BusyIsRunning, RunsToRoot
  <2>2. Busy(j)
    BY <1>1, <2>1 DEF Busy
  <2>3. RunsToRoot(j)
    BY <1>1, <2>2 DEF IInv, BusyIsRunning, RunsToRoot
  <2>4. QED BY <1>7, <2>3 DEF RunsToRoot
<1>10. \A j : Performing(j)' = Performing(j)
  BY <1>1, SameCalls
<1>11. OneWorkerPerJob' /\ WorkerState'
  BY <1>1, <1>10 DEF IInv, OneWorkerPerJob, WorkerState
<1>12. NotQueued'
  <2>1. SUFFICES ASSUME NEW j \in Job, Performing(j)' # {} \/ Finished(j)'
                 PROVE  /\ RunsToRoot(j)' \/ at'[j] = Nowhere
                        /\ ~(pc' = "enqueue" /\ cur' = j)
    BY DEF NotQueued
  <2>2. Performing(j) # {} \/ Finished(j)
    BY <1>1, <1>10, <2>1 DEF Finished
  <2>3. RunsToRoot(j) \/ at[j] = Nowhere
    BY <1>1, <2>2 DEF IInv, NotQueued
  <2>4. QED BY <1>7, <2>3 DEF RunsToRoot
<1>13. PlacedOnce'
  BY <1>3 DEF ChInv
<1>14. QED BY <1>4, <1>5, <1>6, <1>8, <1>9, <1>11, <1>12, <1>13 DEF IInv

\* What a runner that has read the row of j has made of it.
LEMMA ReadRow ==
  ASSUME IInv, NEW j \in Job, NEW a,
         a = Notified(at[j], obj[j], RowOf(j), row[j].state),
         at[j] = Nowhere \/ pc \notin {"init", "select"}
  PROVE  /\ a \in Line /\ Placed(a, RowOf(j))
         /\ Busy(j) => \A c \in Up[ChannelOf[j]] : a[c] = {"running"}
         /\ Performing(j) # {} \/ Finished(j) =>
              a = Nowhere \/ \A c \in Up[ChannelOf[j]] : a[c] = {"running"}
<1>1. a \in Line /\ Placed(a, RowOf(j))
  BY JobFacts, NotifiedPlaced
<1>2. ASSUME Busy(j)
      PROVE  \A c \in Up[ChannelOf[j]] : a[c] = {"running"}
  <2>1. at[j] = Nowhere \/ \A c \in Up[ChannelOf[j]] : at[j][c] = {"running"}
    BY <1>2 DEF IInv, BusyIsRunning
  <2>2. row[j].state \in {"enqueued", "started"}
    BY <1>2 DEF Busy
  <2>3. QED BY <2>1, <2>2, JobFacts, NotifiedBusy
<1>3. ASSUME Performing(j) # {} \/ Finished(j), ~Busy(j)
      PROVE  a = Nowhere
  <2>1. row[j].state = "done"
    BY <1>3 DEF IInv, WorkerState, Finished, Busy
  <2>2. QED BY <2>1, JobFacts, NotifiedDone
<1>4. QED BY <1>1, <1>2, <1>3

LEMMA SelectStep == ASSUME IInv, SelectNotDone PROVE IInv'
<1> DEFINE n(j) == Notified(at[j], obj[j], RowOf(j), row[j].state)
<1>1. /\ pc = "select" /\ pc' = "notify"
      /\ wire' = {} /\ notifies' = notifies \cup wire \cup {}
      /\ UNCHANGED <<pauseUntil, runNow, turn, row, cur, call, clock, faults>>
  BY DEF SelectNotDone, ReadWire
<1>2. /\ at' = [j \in Job |-> IF row[j].state \in NotDone THEN n(j) ELSE at[j]]
      /\ obj' = [j \in Job |-> IF row[j].state \in NotDone THEN RowOf(j) ELSE obj[j]]
  BY DEF SelectNotDone
<1>3. ASSUME NEW j \in Job
      PROVE  /\ at[j] = Nowhere /\ obj[j] = NoJob
             /\ n(j) \in Line /\ Placed(n(j), RowOf(j))
             /\ Busy(j) => \A c \in Up[ChannelOf[j]] : n(j)[c] = {"running"}
             /\ Performing(j) # {} \/ Finished(j) =>
                  n(j) = Nowhere \/ \A c \in Up[ChannelOf[j]] : n(j)[c] = {"running"}
  <2>1. at[j] = Nowhere /\ obj[j] = NoJob
    BY <1>1 DEF IInv, StartsEmpty
  <2>2. QED BY <2>1, ReadRow
<1> HIDE DEF n
<1>4. ASSUME NEW j \in Job
      PROVE  /\ at'[j] \in Line /\ obj'[j] \in ChannelJob \cup {NoJob}
             /\ Placed(at'[j], obj'[j])
             /\ obj'[j] # NoJob => obj'[j].chan = ChannelOf[j]
             /\ Busy(j) => \A c \in Up[ChannelOf[j]] : at'[j][c] = {"running"}
             /\ Performing(j) # {} \/ Finished(j) =>
                  at'[j] = Nowhere \/ \A c \in Up[ChannelOf[j]] : at'[j][c] = {"running"}
  <2>1. CASE row[j].state \in NotDone
    <3>1. at'[j] = n(j) /\ obj'[j] = RowOf(j)
      BY <1>2, <2>1
    <3>2. QED BY <3>1, <1>3, JobFacts
  <2>2. CASE row[j].state \notin NotDone
    <3>1. at'[j] = Nowhere /\ obj'[j] = NoJob
      BY <1>2, <1>3, <2>2
    <3>2. ~Busy(j)
      BY <2>2 DEF Busy, NotDone
    <3>3. QED BY <3>1, <3>2, NowherePlaced
  <2>3. QED BY <2>1, <2>2
<1>5. ChTypeOK' /\ PlacedOnce' /\ ChannelKnown'
  <2>1. at' \in [Job -> Line] /\ obj' \in [Job -> ChannelJob \cup {NoJob}]
    BY <1>2, <1>4
  <2>2. QED BY <1>1, <1>4, <2>1
            DEF IInv, TypeOK, ChTypeOK, Line, PlacedOnce, ChannelKnown
<1>6. TypeOK'
  BY <1>1, <1>5, TypeFacts DEF IInv, TypeOK, CallState, Free
<1>7. StartsEmpty' /\ CurRuns'
  BY <1>1 DEF StartsEmpty, CurRuns
<1>8. \A j : Performing(j)' = Performing(j)
  BY <1>1, SameCalls
<1>9. BusyIsRunning'
  BY <1>1, <1>4 DEF BusyIsRunning, Busy
<1>10. OneWorkerPerJob' /\ WorkerState'
  BY <1>1, <1>8 DEF IInv, OneWorkerPerJob, WorkerState
<1>11. NotQueued'
  BY <1>1, <1>4, <1>8 DEF NotQueued, Finished, RunsToRoot
<1>12. QED BY <1>5, <1>6, <1>7, <1>9, <1>10, <1>11 DEF IInv

LEMMA NotificationStep ==
  ASSUME IInv, NEW j \in Job, ProcessNotification(j) PROVE IInv'
<1>1. /\ pc = "notify" /\ wire' = {} /\ notifies' = (notifies \ {j}) \cup wire
      /\ UNCHANGED <<row, pc, cur, call, clock, faults>>
  BY DEF ProcessNotification
<1>2. IF Exists(row, j) THEN Notify(j, RowOf(j), row[j].state) ELSE RemoveJob(j)
  BY DEF ProcessNotification
<1>3. ChInv'
  BY <1>2, InvChannels, JobFacts, NotifyInv, RemoveJobInv
<1>4. TypeOK'
  BY <1>1, <1>3, TypeFacts DEF ChInv, IInv, TypeOK, CallState, Free
<1>5. ASSUME NEW i \in Job, i # j
      PROVE  at'[i] = at[i] /\ obj'[i] = obj[i]
  BY <1>2, <1>5, JobFacts DEF Notify, RemoveJob, IInv, TypeOK, ChTypeOK
<1>6. /\ obj'[j] # NoJob => obj'[j].chan = ChannelOf[j]
      /\ Busy(j) => \A c \in Up[ChannelOf[j]] : at'[j][c] = {"running"}
      /\ Performing(j) # {} \/ Finished(j) =>
           at'[j] = Nowhere \/ \A c \in Up[ChannelOf[j]] : at'[j][c] = {"running"}
  <2>1. CASE Exists(row, j)
    <3>1. /\ at'[j] = Notified(at[j], obj[j], RowOf(j), row[j].state)
          /\ obj'[j] = RowOf(j)
      BY <1>2, <2>1 DEF Notify, IInv, TypeOK, ChTypeOK
    <3>2. QED BY <1>1, <3>1, JobFacts, ReadRow
  <2>2. CASE ~Exists(row, j)
    <3>1. RemoveJob(j) /\ row[j].state \in NoRow
      BY <1>2, <2>2 DEF Exists
    <3>2. obj'[j] = NoJob
      BY <3>1 DEF RemoveJob, IInv, TypeOK, ChTypeOK
    <3>3. ~Busy(j) /\ ~Finished(j) /\ Performing(j) = {}
      BY <3>1, NotPerformed DEF NoRow, Busy, Finished
    <3>4. QED BY <3>2, <3>3
  <2>3. QED BY <2>1, <2>2
<1>7. ChannelKnown'
  BY <1>5, <1>6 DEF IInv, ChannelKnown
<1>8. StartsEmpty' /\ CurRuns'
  BY <1>1 DEF StartsEmpty, CurRuns
<1>9. \A i : Performing(i)' = Performing(i)
  BY <1>1, SameCalls
<1>10. BusyIsRunning'
  <2>1. SUFFICES ASSUME NEW i \in Job, Busy(i)
                 PROVE  \A c \in Up[ChannelOf[i]] : at'[i][c] = {"running"}
    BY <1>1 DEF BusyIsRunning, Busy
  <2>2. CASE i = j
    BY <1>6, <2>1, <2>2
  <2>3. CASE i # j
    BY <1>1, <1>5, <2>1, <2>3 DEF IInv, BusyIsRunning
  <2>4. QED BY <2>2, <2>3
<1>11. OneWorkerPerJob' /\ WorkerState'
  BY <1>1, <1>9 DEF IInv, OneWorkerPerJob, WorkerState
<1>12. NotQueued'
  <2>1. SUFFICES ASSUME NEW i \in Job, Performing(i) # {} \/ Finished(i)
                 PROVE  RunsToRoot(i)' \/ at'[i] = Nowhere
    BY <1>1, <1>9 DEF NotQueued, Finished
  <2>2. CASE i = j
    BY <1>6, <2>1, <2>2 DEF RunsToRoot
  <2>3. CASE i # j
    BY <1>1, <1>5, <2>1, <2>3 DEF IInv, NotQueued, RunsToRoot
  <2>4. QED BY <2>2, <2>3
<1>13. QED BY <1>3, <1>4, <1>7, <1>8, <1>10, <1>11, <1>12 DEF IInv, ChInv

-----------------------------------------------------------------------------
(* The theorems                                                            *)

\* Users requeue neither jobs that run, whose worker goes on, nor done ones.
SpareStarted == Requeued \cap {"started", "done"} = {}

LEMMA UserRequeueStep ==
  ASSUME IInv, SpareStarted, NEW j \in Job, UserRequeue(j)
  PROVE  TypeOK' /\ TableChange
<1>1. row[j].state \notin {"started", "done"} /\ Requeue(j)
  BY DEF UserRequeue, SpareStarted
<1>2. Performing(j) = {} /\ ~Finished(j)
  BY <1>1, NotPerformed DEF Finished
<1>3. QED BY <1>1, <1>2, RequeueStep

LEMMA StutterStep == ASSUME IInv, UNCHANGED vars PROVE TypeOK' /\ TableChange
<1>1. UNCHANGED <<chvars, notifies, pc, cur>> /\ UNCHANGED <<chvars, pc, cur>>
      /\ row' = row /\ wire' = wire /\ call' = call
      /\ clock' = clock /\ faults' = faults
  BY DEF vars
<1>2. \A i : Performing(i)' = Performing(i)
  BY <1>1, SameCalls
<1>3. QED BY <1>1, <1>2, Effect, TypeNext, TypeFacts

\* Every step is one of the runner, a restart, or a change of the table.
AnyRunnerStep == \/ Runner \/ SelectTimeout \/ RunnerError \/ Crash

LEMMA RunnerStepInv == ASSUME IInv, AnyRunnerStep PROVE IInv'
BY ListenStep, SelectStep, RunJobsStep, AdvanceStep, EnqueuedStep, HttpStep,
   WaitStep, NotificationStep, RestartStep DEF AnyRunnerStep, Runner

LEMMA TableStep ==
  ASSUME IInv, SpareStarted, [Next]_vars, ~AnyRunnerStep
  PROVE  TypeOK' /\ TableChange
<1>1. CASE Tick
  BY <1>1, TickStep
<1>2. CASE User
  BY <1>2, UserRequeueStep, UserDoneStep, CancelStep, AutovacuumStep DEF User
<1>3. CASE \E g \in Graph : Delay(g)
  BY <1>3, DelayStep
<1>4. ASSUME NEW k \in Call,
             \/ ClientEnd(k) \/ ClientReply(k) \/ Begin(k)
             \/ Perform(k) \/ EnqueueDependentJobsFails(k)
      PROVE  TypeOK' /\ TableChange
  BY <1>4, ClientEndStep, ClientReplyStep, BeginStep, PerformDoneStep,
     PerformFailsStep, PostponeStep, ReleaseStep, ReleaseFailsStep DEF Perform
<1>5. CASE \E j \in Job : RequeueStuckJobs(j)
  BY <1>5, RequeueStuckStep
<1>6. CASE UNCHANGED vars
  BY <1>6, StutterStep
<1>7. QED BY <1>1, <1>2, <1>3, <1>4, <1>5, <1>6 DEF Next, AnyRunnerStep

LEMMA InitInv == Init => IInv
<1> SUFFICES ASSUME Init PROVE IInv
  OBVIOUS
<1>1. ChTypeOK /\ PlacedOnce /\ ChannelKnown /\ StartsEmpty
  BY NowherePlaced, OrderFacts
     DEF Init, ChInit, ChTypeOK, Line, PlacedOnce, ChannelKnown, StartsEmpty
<1>2. row \in [Job -> RowType] /\ \A j \in Job : row[j].state = "none"
  BY RunnerAssumption DEF Init, RowType, NoRow
<1>3. \A j : Performing(j) = {}
  BY DEF Init, Performing, IsFree, Free
<1>4. TypeOK
  BY <1>1, <1>2, ConstantFacts DEF Init, TypeOK, RowType
<1>5. CurRuns /\ BusyIsRunning /\ OneWorkerPerJob /\ WorkerState /\ NotQueued
  BY <1>3 DEF Init, CurRuns, BusyIsRunning, OneWorkerPerJob, WorkerState, NotQueued
<1>6. QED BY <1>1, <1>4, <1>5 DEF IInv

LEMMA StepInv == SpareStarted /\ IInv /\ [Next]_vars => IInv'
<1> SUFFICES ASSUME SpareStarted, IInv, [Next]_vars PROVE IInv'
  OBVIOUS
<1>1. CASE AnyRunnerStep
  BY <1>1, RunnerStepInv
<1>2. CASE ~AnyRunnerStep
  BY <1>2, TableStep, TableInv
<1>3. QED BY <1>1, <1>2

\* The inductive invariant holds.
LEMMA Invariance == ASSUME SpareStarted PROVE Spec => []IInv
<1>1. IInv /\ [Next]_vars => IInv'
  BY StepInv
<1>2. QED BY InitInv, <1>1, PTL DEF Spec

\* The variables of the runner, the table and the calls keep their types.
THEOREM TypeCorrect == ASSUME SpareStarted PROVE Spec => []TypeOK
<1>1. IInv => TypeOK
  BY DEF IInv
<1>2. QED BY Invariance, <1>1, PTL

\* However late requests are read, and whatever crashes, timeouts and users
\* do meanwhile, two workers never perform one job at the same time.
THEOREM OneWorker == ASSUME SpareStarted PROVE Spec => []OneWorkerPerJob
<1>1. IInv => OneWorkerPerJob
  BY DEF IInv
<1>2. QED BY Invariance, <1>1, PTL

\* An enqueued or started job runs in all channels of the runner up to the
\* root, so that it is not sent again.
THEOREM BusyRuns == ASSUME SpareStarted PROVE Spec => []BusyIsRunning
<1>1. IInv => BusyIsRunning
  BY DEF IInv
<1>2. QED BY Invariance, <1>1, PTL

\* A job is in one collection of a channel at most, in the runner too.
THEOREM JobsPlacedOnce == ASSUME SpareStarted PROVE Spec => []PlacedOnce
<1>1. IInv => PlacedOnce
  BY DEF IInv
<1>2. QED BY Invariance, <1>1, PTL

\* Users who requeue, finish, cancel and delete jobs while these are sent and
\* performed make no job run twice, hold two places or be sent again.
THEOREM UsersAreHarmless == ASSUME SpareStarted PROVE Spec => []UsersHarmNothing
<1>1. IInv => UsersHarmNothing
  BY DEF IInv, UsersHarmNothing
<1>2. QED BY Invariance, <1>1, PTL

\* No step takes a done job out of its state but its deletion.
LEMMA DoneStep ==
  ASSUME SpareStarted, "done" \notin UserOps, IInv, [Next]_vars,
         NEW j \in Job, row[j].state = "done"
  PROVE  row'[j].state \in {"done", "deleted"}
<1>1. Finished(j) /\ ~Busy(j)
  BY DEF Finished, Busy
<1>2. CASE ~AnyRunnerStep
  BY <1>1, <1>2, TableStep DEF TableChange
<1>3. CASE SetJobEnqueued
  <2>1. pc = "enqueue" /\ row' \in {row, Set(cur, "enqueued")}
    BY <1>3 DEF SetJobEnqueued
  <2>2. cur # j /\ cur \in Job
    BY <1>1, <2>1 DEF IInv, NotQueued, CurRuns
  <2>3. row'[j] = row[j]
    BY <2>1, <2>2, TypeFacts, SetRow DEF State
  <2>4. QED BY <2>3
<1>4. CASE Crash
  BY <1>1, <1>4 DEF Crash
<1>5. CASE AnyRunnerStep /\ ~SetJobEnqueued /\ ~Crash
  <2>1. row' = row
    BY <1>5 DEF AnyRunnerStep, Runner, Listen, SelectNotDone, RunJobs, Advance,
                AsyncHttpGet, WaitNotification, SelectTimeout, RunnerError,
                ProcessNotification
  <2>2. QED BY <2>1
<1>6. QED BY <1>2, <1>3, <1>4, <1>5

\* A done job stays done, unless users set jobs to done themselves.
THEOREM DoneStaysDone ==
  ASSUME SpareStarted, "done" \notin UserOps PROVE Spec => DoneIsFinal
<1>1. IInv /\ [Next]_vars =>
        [\A j \in Job : row[j].state = "done"
           => row'[j].state \in {"done", "deleted"}]_vars
  BY DoneStep
<1>2. QED BY Invariance, <1>1, PTL DEF Spec, DoneIsFinal

-----------------------------------------------------------------------------
(* The channels follow the table: as many jobs are performed as the        *)
(* channels allow, and a runner with nothing left to read sees every row   *)
(* as it is: theorems CapacityKept and TableFollowed.                      *)

-----------------------------------------------------------------------------
(* Capacity                                                                *)

AtMost(S, n) == IsFiniteSet(S) /\ Cardinality(S) <= n

LEMMA FewerFit ==
  ASSUME NEW S, NEW T \in SUBSET S, NEW n \in Nat, AtMost(S, n) PROVE AtMost(T, n)
<1>1. IsFiniteSet(T) /\ Cardinality(T) <= Cardinality(S)
  BY FS_Subset DEF AtMost
<1>2. Cardinality(T) \in Nat /\ Cardinality(S) \in Nat
  BY <1>1, FS_CardinalityType DEF AtMost
<1>3. QED BY <1>1, <1>2 DEF AtMost

LEMMA OneMoreFits ==
  ASSUME NEW S, NEW x, NEW n \in Nat, IsFiniteSet(S), Cardinality(S) < n
  PROVE  AtMost(S \cup {x}, n)
<1>1. /\ IsFiniteSet(S \cup {x})
      /\ Cardinality(S \cup {x}) = IF x \in S THEN Cardinality(S) ELSE Cardinality(S) + 1
  BY FS_AddElement
<1>2. Cardinality(S) \in Nat
  BY FS_CardinalityType
<1>3. QED BY <1>1, <1>2 DEF AtMost

BusyIn(c) == {j \in Job : Busy(j) /\ c \in Up[ChannelOf[j]]}

\* The jobs the runner has running in a channel fit, and so do those the table
\* shows as busy: they are what a new runner starts with, regardless of the
\* capacity.
CapInv ==
  \A c \in Channel : Capacity[c] > 0 =>
    /\ AtMost(BusyIn(c), Capacity[c])
    /\ pc \notin {"init", "select"} => AtMost(In(c, "running"), Capacity[c])

LEMMA CapacityType == \A c \in Channel : Capacity[c] \in Nat
BY TreeAssumption

\* Busy jobs run, as far as the runner has looked at the table.
LEMMA BusyAmongRunning ==
  ASSUME IInv, pc \notin {"init", "select"}, NEW c \in Channel
  PROVE  BusyIn(c) \subseteq In(c, "running")
BY DEF IInv, BusyIsRunning, BusyIn, In

\* Only rows that are busy make a job run when they are read.
LEMMA NotifiedRuns ==
  ASSUME NEW a \in Line, NEW old \in ChannelJob \cup {NoJob}, NEW r \in ChannelJob,
         NEW s \in State, s \notin {"enqueued", "started"}, NEW c \in Channel,
         "running" \in Notified(a, old, r, s)[c]
  PROVE  "running" \in a[c]
<1> DEFINE a0 == IF old # NoJob /\ old # r THEN RemoveFrom(a, old.chan) ELSE a
<1>1. a0 \in Line /\ ("running" \in a0[c] => "running" \in a[c])
  BY DEF RemoveFrom, Line
<1>2. Notified(a, old, r, s) = Moved(a0, r, s)
  BY DEF Notified
<1> HIDE DEF a0
<1>3. "running" \in Moved(a0, r, s)[c] => "running" \in a0[c]
  BY <1>1 DEF Moved, SetDone, SetPending, SetFailed, RemoveFrom, Line, State
<1>4. QED BY <1>1, <1>2, <1>3

\* A run makes a job run in a channel that has capacity for it.
LEMMA RunFits ==
  ASSUME IInv, CapInv, NEW d \in Channel, RunStep(d), pc = "run",
         NEW c \in Channel, Capacity[c] > 0
  PROVE  AtMost(In(c, "running")', Capacity[c])
<1>0. /\ AtMost(In(c, "running"), Capacity[c]) /\ Capacity[c] \in Nat
      /\ at \in [Job -> [Channel -> SUBSET Place]]
  BY CapacityType DEF CapInv, IInv, TypeOK, ChTypeOK
<1>1. \A j \in Job : "running" \in WithDue(d)[j][c] => "running" \in at[j][c]
  BY <1>0 DEF WithDue
<1>2. CASE LeavePaused(d) \/ LeaveFull(d) \/ LeaveEmpty(d)
  <2>1. at' = at \/ at' = WithDue(d)
    BY <1>2 DEF LeavePaused, LeaveFull, LeaveEmpty
  <2>2. In(c, "running")' \subseteq In(c, "running")
    BY <1>1, <2>1 DEF In
  <2>3. QED BY <1>0, <2>2, FewerFit
<1>3. ASSUME NEW j \in Job, Yield(d, j) PROVE AtMost(In(c, "running")', Capacity[c])
  <2>1. at' = [WithDue(d) EXCEPT
                 ![j] = [e \in Channel |->
                          IF e = d THEN {"running"}
                          ELSE IF e \in Parents(d) THEN at[j][e] \cup {"queue"}
                          ELSE at[j][e]]]
    BY <1>3 DEF Yield
  <2>2. /\ at'[j] = [e \in Channel |->
                       IF e = d THEN {"running"}
                       ELSE IF e \in Parents(d) THEN at[j][e] \cup {"queue"}
                       ELSE at[j][e]]
        /\ \A i \in Job : i # j => at'[i] = WithDue(d)[i]
    BY <2>1 DEF WithDue
  <2>3. CASE c = d
    <3>1. IsFiniteSet(In(c, "running")) /\ Cardinality(In(c, "running")) < Capacity[c]
      BY <1>0, <1>3, <2>3 DEF Yield, HasCapacity, AtMost
    <3>2. In(c, "running")' \subseteq In(c, "running") \cup {j}
      BY <1>1, <2>2 DEF In
    <3>3. AtMost(In(c, "running") \cup {j}, Capacity[c])
      BY <1>0, <3>1, OneMoreFits
    <3>4. QED BY <1>0, <3>2, <3>3, FewerFit
  <2>4. CASE c # d
    <3>1. "running" \in at'[j][c] => "running" \in at[j][c]
      BY <2>2, <2>4
    <3>2. In(c, "running")' \subseteq In(c, "running")
      BY <1>1, <2>2, <3>1 DEF In
    <3>3. QED BY <1>0, <3>2, FewerFit
  <2>5. QED BY <2>3, <2>4
<1>4. QED BY <1>2, <1>3 DEF RunStep

\* The other steps of the runner, and those of the table, add no running job.
LEMMA NoNewRunning ==
  ASSUME IInv, [Next]_vars, pc \notin {"init", "select"}, ~Advance,
         pc' \notin {"init", "select"}, NEW c \in Channel
  PROVE  In(c, "running")' \subseteq In(c, "running")
<1>1. CASE \E j \in Job : ProcessNotification(j)
  <2>1. PICK j \in Job : ProcessNotification(j)
    BY <1>1
  <2>2. IInv'
    BY <2>1, NotificationStep
  <2>3. /\ at \in [Job -> [Channel -> SUBSET Place]]
        /\ obj \in [Job -> ChannelJob \cup {NoJob}]
        /\ UNCHANGED <<row, pc>>
    BY <2>1 DEF IInv, TypeOK, ChTypeOK, ProcessNotification
  <2>4. \A i \in Job : i # j => at'[i] = at[i]
    BY <2>1, <2>3 DEF ProcessNotification, Notify, RemoveJob
  <2>5. ASSUME "running" \in at'[j][c] PROVE "running" \in at[j][c]
    <3>1. CASE Busy(j)
      <4>1. /\ \A e \in Up[ChannelOf[j]] : at[j][e] = {"running"}
            /\ Busy(j)'
        BY <2>3, <3>1 DEF IInv, BusyIsRunning, Busy
      <4>2. CASE c \in Up[ChannelOf[j]]
        BY <4>1, <4>2
      <4>3. CASE c \notin Up[ChannelOf[j]]
        <5>1. obj'[j].chan = ChannelOf[j] /\ at'[j][c] = {}
          BY <2>2, <2>5, <4>3 DEF IInv, PlacedOnce, Placed, ChannelKnown
        <5>2. QED BY <2>5, <5>1
      <4>4. QED BY <4>2, <4>3
    <3>2. CASE ~Busy(j) /\ Exists(row, j)
      <4>1. at'[j] = Notified(at[j], obj[j], RowOf(j), row[j].state)
        BY <2>1, <2>3, <3>2 DEF ProcessNotification, Notify
      <4>2. row[j].state \in State \ {"enqueued", "started"}
        BY <3>2 DEF Busy, Exists, IInv, TypeOK
      <4>3. RowOf(j) \in ChannelJob /\ at[j] \in Line
        BY <2>3, RowOfType DEF IInv, Line
      <4>4. QED BY <2>3, <2>5, <4>1, <4>2, <4>3, NotifiedRuns
    <3>3. CASE ~Exists(row, j)
      BY <2>1, <2>3, <2>5, <3>3 DEF ProcessNotification, RemoveJob, RemoveFrom
    <3>4. QED BY <3>1, <3>2, <3>3
  <2>6. QED BY <2>4, <2>5 DEF In
<1>2. CASE ~(\E j \in Job : ProcessNotification(j))
  <2>1. at' = at
    BY <1>2 DEF Next, vars, chvars, Runner, SelectTimeout, RunnerError, Crash,
         Tick, User, Delay, ClientEnd, ClientReply, Begin, Perform, PerformDone,
         PerformFails, Postpone, EnqueueDependentJobs, EnqueueDependentJobsFails,
         RequeueStuckJobs, UserRequeue, UserDone, UserCancel, Autovacuum,
         Requeue, Listen, SelectNotDone, RunJobs, SetJobEnqueued, AsyncHttpGet,
         WaitNotification, ForgetJobs, StartRun
  <2>2. QED BY <2>1 DEF In
<1>3. QED BY <1>1, <1>2

\* A runner that starts finds the busy jobs only.
LEMMA FirstRead ==
  ASSUME IInv, SelectNotDone, NEW c \in Channel
  PROVE  In(c, "running")' \subseteq BusyIn(c)
<1>1. IInv' /\ pc = "select" /\ UNCHANGED row
  BY SelectStep DEF SelectNotDone
<1>2. SUFFICES ASSUME NEW j \in Job, "running" \in at'[j][c]
               PROVE  j \in BusyIn(c)
  BY DEF In
<1>3. /\ at[j] = Nowhere /\ obj[j] = NoJob
      /\ at'[j] = IF row[j].state \in NotDone
                  THEN Notified(at[j], obj[j], RowOf(j), row[j].state) ELSE at[j]
  BY <1>1 DEF IInv, StartsEmpty, SelectNotDone
<1>4. Busy(j)
  <2>1. row[j].state \in NotDone
    BY <1>2, <1>3 DEF Nowhere
  <2>2. RowOf(j) \in ChannelJob /\ Nowhere \in Line
    BY RowOfType, NowherePlaced DEF IInv, Nowhere, Line
  <2>3. row[j].state \in State
    BY <2>1 DEF NotDone, State
  <2>4. ASSUME row[j].state \notin {"enqueued", "started"}
        PROVE  "running" \in Nowhere[c]
    BY <1>2, <1>3, <2>1, <2>2, <2>3, <2>4, NotifiedRuns
  <2>5. QED BY <2>4 DEF Nowhere, Busy
<1>5. c \in Up[ChannelOf[j]]
  <2>1. at'[j][c] # {} /\ Placed(at'[j], obj'[j]) /\ obj'[j] # NoJob
    BY <1>1, <1>2 DEF IInv, PlacedOnce, Placed
  <2>2. QED BY <1>1, <2>1 DEF IInv, Placed, ChannelKnown
<1>6. QED BY <1>4, <1>5 DEF BusyIn

LEMMA BusyShrinks ==
  ASSUME IInv, SpareStarted, [Next]_vars, ~SetJobEnqueued, NEW j \in Job, Busy(j)'
  PROVE  Busy(j)
<1>1. CASE ~AnyRunnerStep
  BY <1>1, TableStep DEF TableChange
<1>2. CASE Crash
  BY <1>2 DEF Crash, Busy
<1>3. CASE AnyRunnerStep /\ ~Crash
  <2>1. row' = row
    BY <1>3 DEF AnyRunnerStep, Runner, Listen, SelectNotDone, RunJobs, Advance,
         AsyncHttpGet, WaitNotification, SelectTimeout, RunnerError,
         ProcessNotification
  <2>2. QED BY <2>1 DEF Busy
<1>4. QED BY <1>1, <1>2, <1>3

LEMMA CapStep ==
  ASSUME IInv, SpareStarted, CapInv, [Next]_vars PROVE CapInv'
<1>1. IInv'
  BY StepInv
<1>2. SUFFICES ASSUME NEW c \in Channel, Capacity[c] > 0
               PROVE  /\ AtMost(BusyIn(c)', Capacity[c])
                      /\ pc' \notin {"init", "select"} =>
                           AtMost(In(c, "running")', Capacity[c])
  BY DEF CapInv
<1>3. Capacity[c] \in Nat /\ AtMost(BusyIn(c), Capacity[c])
  BY <1>2, CapacityType DEF CapInv
<1>4. CASE pc' \notin {"init", "select"}
  <2>1. AtMost(In(c, "running")', Capacity[c])
    <3>1. CASE SelectNotDone
      BY <1>3, <3>1, FirstRead, FewerFit
    <3>2. CASE pc \in {"init", "select"} /\ ~SelectNotDone
      <4>1. UNCHANGED pc \/ pc' \in {"init", "select"}
        BY <3>2 DEF Next, vars, Runner, SelectTimeout, RunnerError, Crash,
             Tick, User, Delay, ClientEnd, ClientReply, Begin, Perform, PerformDone,
             PerformFails, Postpone, EnqueueDependentJobs,
             EnqueueDependentJobsFails, RequeueStuckJobs, UserRequeue, UserDone,
             UserCancel, Autovacuum, Requeue, Listen, RunJobs, SetJobEnqueued,
             AsyncHttpGet, WaitNotification, ForgetJobs, ProcessNotification, Advance
      <4>2. QED BY <1>4, <3>2, <4>1
    <3>3. CASE pc \notin {"init", "select"} /\ Advance
      <4>1. PICK d \in Channel : RunStep(d)
        BY <3>3, PrioFacts DEF Advance, RunStep
      <4>2. pc = "run"
        BY <3>3 DEF Advance
      <4>3. QED BY <1>2, <4>1, <4>2, RunFits
    <3>4. CASE pc \notin {"init", "select"} /\ ~Advance
      <4>1. AtMost(In(c, "running"), Capacity[c])
        BY <1>2, <3>4 DEF CapInv
      <4>2. QED BY <1>3, <1>4, <3>4, <4>1, NoNewRunning, FewerFit
    <3>5. QED BY <3>1, <3>2, <3>3, <3>4
  <2>2. BusyIn(c)' \subseteq In(c, "running")'
    BY <1>1, <1>4 DEF IInv, BusyIsRunning, BusyIn, In
  <2>3. QED BY <1>3, <2>1, <2>2, FewerFit
<1>5. CASE pc' \in {"init", "select"}
  <2>1. ~SetJobEnqueued
    BY <1>5 DEF SetJobEnqueued
  <2>2. BusyIn(c)' \subseteq BusyIn(c)
    BY <2>1, BusyShrinks DEF BusyIn
  <2>3. QED BY <1>3, <1>5, <2>2, FewerFit
<1>6. QED BY <1>4, <1>5

LEMMA CapInit == Init => CapInv
<1> SUFFICES ASSUME Init, NEW c \in Channel PROVE AtMost(BusyIn(c), Capacity[c])
  BY DEF CapInv, Init
<1>1. BusyIn(c) = {}
  BY DEF Init, BusyIn, Busy
<1>2. QED BY <1>1, CapacityType, FS_EmptySet DEF AtMost

\* The workers never perform more jobs of a channel than its capacity, however
\* often requests time out, the runner starts over and the server dies, as
\* long as users neither requeue running jobs nor set them to done.
THEOREM CapacityKept ==
  ASSUME SpareStarted, "done" \notin UserOps PROVE Spec => []WithinCapacity
<1>1. IInv /\ CapInv /\ [Next]_vars => CapInv'
  BY CapStep
<1>2. ASSUME IInv, CapInv PROVE WithinCapacity
  <2>1. SUFFICES ASSUME NEW c \in Channel, Capacity[c] > 0
                 PROVE  AtMost({j \in Job : Performing(j) # {}
                                            /\ c \in Up[ChannelOf[j]]}, Capacity[c])
    BY DEF WithinCapacity, AtMost
  <2>2. {j \in Job : Performing(j) # {} /\ c \in Up[ChannelOf[j]]} \subseteq BusyIn(c)
    BY <1>2 DEF IInv, WorkerState, BusyIn, Busy
  <2>3. AtMost(BusyIn(c), Capacity[c]) /\ Capacity[c] \in Nat
    BY <1>2, <2>1, CapacityType DEF CapInv
  <2>4. QED BY <2>2, <2>3, FewerFit
<1>3. QED BY Invariance, CapInit, <1>1, <1>2, PTL DEF Spec

-----------------------------------------------------------------------------
(* The runner's view of the table.  Users requeue failed jobs; no job      *)
(* depends on another, and none is cancelled: of those the runner would    *)
(* not leave its channels.                                                 *)

Plain == /\ SpareStarted /\ UserOps \cap {"done", "cancel"} = {}
         /\ \A j \in Job : DependsOn[j] = {}

Calm == \A j \in Job : row[j].state \notin {"wait_dependencies", "cancelled"}

\* Between Advance and SetJobEnqueued the job runs, and its row is pending.
Shown(j) == InView(j) \/ (pc = "enqueue" /\ cur = j /\ row[j].state = "pending")

\* What the runner has not been told, it will read.
Told(j) == j \in wire \cup notifies \/ Shown(j)

FreshInv == Calm /\ (pc \notin {"init", "select"} => \A j \in Job : Told(j))

\* The changes of the table, by whoever makes them, notify the rows changed;
\* only the deletion of a done job is not told.
Announced ==
  /\ UNCHANGED <<at, pc, cur, notifies>>
  /\ pc # "init" => wire \subseteq wire'
  /\ \A j \in Job : /\ row'[j].state \notin {"wait_dependencies", "cancelled"}
                    /\ \/ row'[j].state = row[j].state
                       \/ pc # "init" => j \in wire'
                       \/ row[j].state = "done" /\ row'[j].state = "deleted"

LEMMA NothingWaits ==
  ASSUME Plain, NEW r, NEW j \in Job
  PROVE  PendingState(r, j) = "pending" /\ Released(r, j) = {}
BY DEF Plain, PendingState, ParentsDone, Released

\* A change of one row, committed.
LEMMA OneTold ==
  ASSUME Calm, NEW j \in Job, NEW r, Commit(r, {j}),
         UNCHANGED <<at, pc, cur, notifies>>,
         \A i \in Job : i # j => r[i] = row[i],
         r[j].state \notin {"wait_dependencies", "cancelled"}
  PROVE  Announced
BY DEF Announced, Commit, Calm

\* Nothing is changed but calls, the clock and the faults to come.
LEMMA NoneTold ==
  ASSUME Calm, UNCHANGED <<at, pc, cur, notifies, row, wire>> PROVE Announced
BY DEF Announced, Calm

LEMMA RequeueTold ==
  ASSUME IInv, Plain, Calm, NEW j \in Job, Requeue(j) PROVE Announced
<1> DEFINE r == [row EXCEPT ![j].state = PendingState(row, j), ![j].retry = 0]
<1>1. Commit(r, {j}) /\ UNCHANGED <<at, pc, cur, notifies>>
  BY DEF Requeue, chvars
<1>2. PendingState(row, j) = "pending" /\ row \in [Job -> RowType]
  BY NothingWaits, TypeFacts
<1>3. /\ \A i \in Job : i # j => r[i] = row[i]
      /\ r[j].state = "pending"
  BY <1>2 DEF RowType
<1> HIDE DEF r
<1>4. QED BY <1>1, <1>3, OneTold

LEMMA SetTold ==
  ASSUME IInv, Calm, NEW j \in Job, NEW s \in State, Commit(Set(j, s), {j}),
         UNCHANGED <<at, pc, cur, notifies>>, s \notin {"wait_dependencies", "cancelled"}
  PROVE  Announced
BY TypeFacts, SetRow, OneTold

LEMMA ReleaseTold ==
  ASSUME IInv, Plain, Calm, NEW j \in Job,
         Commit(EnqueueWaiting(row, j), Released(row, j)),
         UNCHANGED <<at, pc, cur, notifies>>
  PROVE  Announced
<1>1. row \in [Job -> RowType] /\ Released(row, j) = {}
  BY TypeFacts, NothingWaits
<1>2. EnqueueWaiting(row, j) = row
  BY <1>1 DEF EnqueueWaiting
<1>3. QED BY <1>1, <1>2, NoneTold DEF Commit, Announced, Calm

LEMMA TableTold ==
  ASSUME IInv, Plain, Calm, [Next]_vars, ~AnyRunnerStep PROVE Announced
<1>0. row \in [Job -> RowType]
  BY TypeFacts
<1>1. ASSUME NEW g \in Graph, Delay(g) PROVE Announced
  <2> DEFINE r == [j \in Job |->
                    IF j \in g THEN [row[j] EXCEPT !.state =
                      IF DependsOn[j] = {} THEN "pending" ELSE "wait_dependencies"]
                    ELSE row[j]]
  <2>1. Commit(r, g) /\ UNCHANGED <<at, pc, cur, notifies>>
    BY <1>1 DEF Delay, chvars
  <2>2. \A j \in Job : IF j \in g THEN r[j].state = "pending" ELSE r[j] = row[j]
    BY <1>0 DEF Plain, RowType
  <2> HIDE DEF r
  <2>3. QED BY <2>1, <2>2 DEF Commit, Announced, Calm
<1>2. ASSUME NEW k \in Call,
             \/ ClientEnd(k) \/ ClientReply(k) \/ Begin(k)
             \/ Perform(k) \/ EnqueueDependentJobsFails(k)
      PROVE  Announced
  <2> DEFINE j == call[k].job
  <2>1. j \in Job
    <3>1. ~IsFree(k)
      BY <1>2 DEF ClientEnd, ClientReply, Begin, Perform, PerformDone, PerformFails,
           Postpone, EnqueueDependentJobs, EnqueueDependentJobsFails
    <3>2. QED BY <3>1, TypeFacts, CallInProgress
  <2>2. UNCHANGED <<at, pc, cur, notifies>>
    BY <1>2 DEF ClientEnd, ClientReply, Begin, Perform, PerformDone, PerformFails,
         Postpone, EnqueueDependentJobs, EnqueueDependentJobsFails, chvars
  <2>3. CASE ClientReply(k) \/ EnqueueDependentJobsFails(k)
    BY <2>2, <2>3, NoneTold DEF ClientReply, EnqueueDependentJobsFails
  <2>4. CASE ClientEnd(k)
    <3>1. Commit(Set(j, "pending"), {j}) \/ UNCHANGED <<row, wire>>
      BY <2>4 DEF ClientEnd
    <3>2. QED BY <2>1, <2>2, <3>1, SetTold, NoneTold DEF State
  <2>5. CASE Begin(k)
    <3>1. Commit(Set(j, "started"), {j}) \/ UNCHANGED <<row, wire>>
      BY <2>5 DEF Begin
    <3>2. QED BY <2>1, <2>2, <3>1, SetTold, NoneTold DEF State
  <2>6. ASSUME NEW s \in {"done", "failed"},
               Commit([row EXCEPT ![j].state = s,
                                  ![j].retry = Tried(row[j].retry)], {j})
        PROVE  Announced
    <3> DEFINE r == [row EXCEPT ![j].state = s, ![j].retry = Tried(row[j].retry)]
    <3>1. (\A i \in Job : i # j => r[i] = row[i]) /\ r[j].state = s
      BY <1>0, <2>1 DEF RowType
    <3>2. Commit(r, {j})
      BY <2>6
    <3> HIDE DEF r, j
    <3>3. QED BY <2>1, <2>2, <3>1, <3>2, OneTold
  <2>7. CASE PerformDone(k) \/ PerformFails(k)
    BY <2>6, <2>7 DEF PerformDone, PerformFails
  <2>8. CASE Postpone(k)
    <3> DEFINE r == [row EXCEPT ![j] = [state |-> PendingState(row, j),
                                        eta |-> Postponed,
                                        retry |-> Tried(row[j].retry)]]
    <3>1. Commit(r, {j})
      BY <2>8 DEF Postpone
    <3>2. (\A i \in Job : i # j => r[i] = row[i]) /\ r[j].state = "pending"
      BY <1>0, <2>1, NothingWaits
    <3> HIDE DEF r, j
    <3>3. QED BY <2>1, <2>2, <3>1, <3>2, OneTold
  <2>9. CASE EnqueueDependentJobs(k)
    BY <2>1, <2>2, <2>9, ReleaseTold DEF EnqueueDependentJobs
  <2>10. QED BY <1>2, <2>3, <2>4, <2>5, <2>7, <2>8, <2>9 DEF Perform
<1>3. CASE User
  <2>1. PICK j \in Job : UserRequeue(j) \/ Autovacuum(j)
    BY <1>3 DEF User, UserDone, UserCancel, Plain
  <2>2. CASE UserRequeue(j)
    BY <2>2, RequeueTold DEF UserRequeue
  <2>3. CASE Autovacuum(j)
    <3>1. row[j].state = "done"
      BY <2>3 DEF Autovacuum, Calm
    <3>2. /\ \A i \in Job : i # j => Set(j, "deleted")[i] = row[i]
          /\ Set(j, "deleted")[j].state = "deleted"
      BY <1>0, SetRow DEF NoRow
    <3>3. Commit(Set(j, "deleted"), {}) /\ UNCHANGED <<at, pc, cur, notifies>>
      BY <2>3, <3>1 DEF Autovacuum, chvars
    <3>4. QED BY <3>1, <3>2, <3>3 DEF Announced, Commit, Calm
  <2>4. QED BY <2>1, <2>2, <2>3
<1>4. CASE \E j \in Job : RequeueStuckJobs(j)
  BY <1>4, RequeueTold DEF RequeueStuckJobs
<1>5. CASE Tick \/ UNCHANGED vars
  BY <1>5, NoneTold DEF Tick, vars, chvars
<1>6. QED BY <1>1, <1>2, <1>3, <1>4, <1>5 DEF Next, AnyRunnerStep

LEMMA AnnouncedFresh ==
  ASSUME IInv, FreshInv, Announced PROVE FreshInv'
<1>1. Calm'
  BY DEF Announced, Calm
<1>2. SUFFICES ASSUME pc \notin {"init", "select"}, NEW j \in Job PROVE Told(j)'
  BY <1>1 DEF FreshInv, Announced
<1>3. Told(j) /\ wire \subseteq wire' /\ UNCHANGED <<at, pc, cur, notifies>>
  BY <1>2 DEF FreshInv, Announced
<1>4. CASE j \in wire \cup notifies
  BY <1>3, <1>4 DEF Told
<1>5. CASE Shown(j) /\ row'[j].state = row[j].state
  <2>1. Shown(j)'
    BY <1>3, <1>5 DEF Shown, InView, Busy
  <2>2. QED BY <2>1 DEF Told
<1>6. CASE Shown(j) /\ row[j].state = "done" /\ row'[j].state = "deleted"
  <2>1. InView(j)'
    BY <1>3, <1>6 DEF Shown, InView, Busy
  <2>2. QED BY <2>1 DEF Told, Shown
<1>7. CASE j \in wire'
  BY <1>7 DEF Told
<1>8. QED BY <1>2, <1>3, <1>4, <1>5, <1>6, <1>7 DEF Told, Announced

\* Busy jobs are shown as such (BusyIsRunning).
LEMMA BusyShown ==
  ASSUME IInv, pc \notin {"init", "select"}, NEW j \in Job, Busy(j)
  PROVE  InView(j)
<1>1. at[j][Root] = {"running"}
  BY JobFacts, TreeAssumption DEF IInv, BusyIsRunning
<1>2. QED BY <1>1 DEF InView, Busy

LEMMA BusyStaysShown ==
  ASSUME IInv, IInv', pc' \notin {"init", "select"}, NEW j \in Job,
         Busy(j), UNCHANGED row
  PROVE  InView(j)'
<1>1. Busy(j)' /\ BusyIsRunning' /\ Root \in Up[ChannelOf[j]]
  BY JobFacts, TreeAssumption DEF IInv, Busy
<1>2. at'[j][Root] = {"running"}
  BY <1>1 DEF BusyIsRunning
<1>3. QED BY <1>1, <1>2 DEF InView, Busy

\* A job that is in no collection of its channel is in none.
LEMMA OwnEmpty ==
  ASSUME IInv, NEW j \in Job,
         at[j][ChannelOf[j]] \subseteq {"failed"}
  PROVE  /\ \A c \in Channel : at[j][c] \cap {"queue", "eta"} = {}
         /\ "running" \notin at[j][Root]
<1>1. SUFFICES ASSUME NEW c \in Channel, at[j][c] # {}
               PROVE  at[j][c] \cap {"queue", "eta", "running"} = {}
  BY PrioFacts
<1>2. obj[j] # NoJob /\ obj[j].chan = ChannelOf[j] /\ c \in Up[ChannelOf[j]]
  BY <1>1, JobFacts DEF Placed
<1>3. ChannelOf[j] \in Channel /\ ChannelOf[j] \in Up[ChannelOf[j]]
  BY JobFacts, TreeAssumption
<1>4. c = ChannelOf[j]
  <2>1. c \in Above(ChannelOf[j]) => at[j][ChannelOf[j]] = {"running"}
    BY <1>1, <1>2, <1>3, JobFacts DEF Placed
  <2>2. QED BY <1>2, <2>1 DEF Above
<1>5. QED BY <1>4

\* A job in a collection of its own channel but "running" is not in the root's.
LEMMA OwnWaits ==
  ASSUME IInv, NEW j \in Job, NEW a \in Line, Placed(a, RowOf(j)),
         NEW p \in {"eta", "queue", "failed"}, p \in a[ChannelOf[j]]
  PROVE  a[ChannelOf[j]] = {p} /\ "running" \notin a[Root]
<1> DEFINE ch == ChannelOf[j]
<1>1. ch \in Channel /\ Root \in Channel /\ ch \in Up[ch] /\ Root \in Up[ch]
      /\ RowOf(j).chan = ch
  BY JobFacts, TreeAssumption
<1>2. a[ch] = {p}
  BY <1>1 DEF Placed
<1>3. a[Root] # {} /\ Root # ch => a[ch] = {"running"}
  BY <1>1 DEF Placed, Above
<1>4. QED BY <1>2, <1>3

\* What a row that is read again becomes, in channels that were legal.
LEMMA ReadShown ==
  ASSUME IInv, NEW j \in Job, ~Busy(j), NEW a,
         row[j].state \notin {"wait_dependencies", "cancelled"},
         row[j].state \in State,
         a = Notified(at[j], obj[j], RowOf(j), row[j].state)
  PROVE  LET own == a[ChannelOf[j]]
         IN  CASE row[j].state = "pending" -> /\ own # {} /\ own # {"failed"}
                                              /\ "running" \notin a[Root]
               [] row[j].state = "failed"  -> own = {"failed"}
               [] OTHER                    -> own = {}
<1> DEFINE ch == ChannelOf[j]
           a0 == IF obj[j] # NoJob /\ obj[j] # RowOf(j)
                 THEN RemoveFrom(at[j], obj[j].chan) ELSE at[j]
<1>1. /\ ch \in Channel /\ RowOf(j).chan = ch /\ at[j] \in Line
      /\ a \in Line /\ Placed(a, RowOf(j)) /\ RowOf(j).eta \in Nat
  BY JobFacts, NotifiedPlaced
<1>2. a = Moved(a0, RowOf(j), row[j].state) /\ a0 \in Line
  BY <1>1 DEF Notified, RemoveFrom, Line
<1> HIDE DEF a0
<1>3. CASE row[j].state = "pending"
  <2>1. a = SetPending(a0, ch, RowOf(j).eta)
    BY <1>1, <1>2, <1>3 DEF Moved
  <2>2. \E p \in {"eta", "queue"} : p \in a[ch]
    BY <1>1, <1>2, <2>1 DEF SetPending, Line
  <2>3. PICK p \in {"eta", "queue"} : p \in a[ch]
    BY <2>2
  <2>4. a[ch] = {p} /\ "running" \notin a[Root]
    BY <1>1, <2>3, OwnWaits
  <2>5. QED BY <1>3, <2>4
<1>4. CASE row[j].state = "failed"
  <2>1. a = SetFailed(a0, ch)
    BY <1>1, <1>2, <1>4 DEF Moved
  <2>2. "failed" \in a[ch]
    BY <1>1, <1>2, <2>1 DEF SetFailed, Line
  <2>3. a[ch] = {"failed"}
    BY <1>1, <2>2, OwnWaits
  <2>4. QED BY <1>4, <2>3
<1>5. CASE row[j].state = "done"
  <2>1. a = Nowhere
    BY <1>5, JobFacts, NotifiedDone
  <2>2. QED BY <1>1, <1>5, <2>1 DEF Nowhere
<1>6. QED BY <1>3, <1>4, <1>5 DEF State, Busy

LEMMA NotificationFresh ==
  ASSUME IInv, FreshInv, NEW j \in Job, ProcessNotification(j) PROVE FreshInv'
<1>1. /\ pc = "notify" /\ wire' = {} /\ notifies' = (notifies \ {j}) \cup wire
      /\ UNCHANGED <<row, pc, cur>>
      /\ at \in [Job -> [Channel -> SUBSET Place]]
      /\ obj \in [Job -> ChannelJob \cup {NoJob}]
  BY DEF ProcessNotification, IInv, TypeOK, ChTypeOK
<1>2. IInv'
  BY NotificationStep
<1>3. SUFFICES ASSUME NEW i \in Job PROVE Told(i)'
  BY <1>1 DEF FreshInv, Calm
<1>4. CASE i # j
  <2>1. at'[i] = at[i]
    BY <1>1, <1>4 DEF ProcessNotification, Notify, RemoveJob
  <2>2. Told(i)
    BY <1>1 DEF FreshInv
  <2>3. QED BY <1>1, <1>4, <2>1, <2>2 DEF Told, Shown, InView, Busy
<1>5. CASE i = j /\ Busy(j)
  BY <1>1, <1>2, <1>5, BusyStaysShown DEF Told, Shown
<1>6. CASE i = j /\ ~Busy(j) /\ Exists(row, j)
  <2>1. at'[j] = Notified(at[j], obj[j], RowOf(j), row[j].state)
    BY <1>1, <1>6 DEF ProcessNotification, Notify
  <2>2. /\ row[j].state \in State
        /\ row[j].state \notin {"wait_dependencies", "cancelled"}
    BY <1>6, TypeFacts DEF Exists, RowType, FreshInv, Calm
  <2>3. InView(j)'
    BY <1>1, <1>6, <2>1, <2>2, ReadShown DEF InView, Busy
  <2>4. QED BY <1>6, <2>3 DEF Told, Shown
<1>7. CASE i = j /\ ~Exists(row, j)
  <2>1. RemoveJob(j)
    BY <1>1, <1>7 DEF ProcessNotification
  <2>2. obj'[j] = NoJob /\ Placed(at'[j], obj'[j]) /\ ChannelOf[j] \in Channel
    BY <1>1, <1>2, <2>1, JobFacts DEF RemoveJob, IInv, PlacedOnce
  <2>3. at'[j][ChannelOf[j]] = {}
    BY <2>2 DEF Placed
  <2>4. InView(j)'
    BY <1>1, <1>7, <2>3 DEF InView, Busy, Exists, NoRow
  <2>5. QED BY <1>7, <2>4 DEF Told, Shown
<1>8. QED BY <1>4, <1>5, <1>6, <1>7

LEMMA SelectFresh ==
  ASSUME IInv, FreshInv, SelectNotDone PROVE FreshInv'
<1>1. pc = "select" /\ pc' = "notify" /\ UNCHANGED row /\ IInv'
  BY SelectStep DEF SelectNotDone
<1>2. SUFFICES ASSUME NEW j \in Job PROVE InView(j)'
  BY <1>1 DEF FreshInv, Calm, Told, Shown
<1>3. /\ at[j] = Nowhere /\ obj[j] = NoJob /\ ChannelOf[j] \in Channel
      /\ at'[j] = IF row[j].state \in NotDone
                  THEN Notified(at[j], obj[j], RowOf(j), row[j].state) ELSE at[j]
  BY <1>1, JobFacts DEF IInv, StartsEmpty, SelectNotDone
<1>4. CASE Busy(j)
  BY <1>1, <1>4, BusyStaysShown
<1>5. CASE ~Busy(j) /\ row[j].state \in NotDone
  <2>1. /\ row[j].state \in State
        /\ row[j].state \notin {"wait_dependencies", "cancelled"}
    BY <1>5 DEF NotDone, State, FreshInv, Calm
  <2>2. QED BY <1>1, <1>3, <1>5, <2>1, ReadShown DEF InView, Busy
<1>6. CASE row[j].state \notin NotDone
  BY <1>1, <1>3, <1>6 DEF InView, Busy, NotDone, Nowhere
<1>7. QED BY <1>4, <1>5, <1>6 DEF Busy, NotDone

\* A run moves pending jobs that wait in their channels, and no other.
LEMMA AdvanceFresh ==
  ASSUME IInv, FreshInv, Advance PROVE FreshInv'
<1>1. /\ pc = "run" /\ pc' \in {"run", "wait", "enqueue"}
      /\ UNCHANGED <<row, wire, notifies>>
      /\ \E c \in Channel : /\ RunStep(c)
                            /\ \A j \in Job : Yield(c, j) /\ c = Root =>
                                 pc' = "enqueue" /\ cur' = j
  <2>1. CASE \E c \in Channel \ {Root} : RunStep(c) /\ UNCHANGED <<pc, cur>>
    BY <2>1 DEF Advance
  <2>2. CASE /\ LeavePaused(Root) \/ LeaveFull(Root) \/ LeaveEmpty(Root)
             /\ pc' = "wait" /\ UNCHANGED cur
    <3>1. \A j \in Job : ~Yield(Root, j)
      BY <2>2 DEF LeavePaused, LeaveFull, LeaveEmpty, Yield, IsFirstReady
    <3>2. QED BY <2>2, <3>1, PrioFacts DEF Advance, RunStep
  <2>3. ASSUME NEW i \in Job, Yield(Root, i), pc' = "enqueue", cur' = i
        PROVE  \A j \in Job : Yield(Root, j) => j = i
    <3>1. SUFFICES ASSUME NEW j \in Job, Yield(Root, j), j # i PROVE FALSE
      OBVIOUS
    <3>2. /\ Before(i, j) /\ Before(j, i)
          /\ i \in Ready(Root) /\ j \in Ready(Root)
      BY <2>3, <3>1 DEF Yield, IsFirstReady
    <3>3. obj[i] \in ChannelJob /\ obj[j] \in ChannelJob
      <4>1. at[i][Root] # {} /\ at[j][Root] # {}
        BY <3>2 DEF Ready, Due, In
      <4>2. QED BY <4>1, JobFacts, PrioFacts DEF Placed
    <3>4. obj[i].prio \in Nat /\ obj[j].prio \in Nat /\ i \in Nat /\ j \in Nat
      BY <3>3, TreeAssumption
    <3>5. QED BY <3>2, <3>4 DEF Before
  <2>4. QED BY <2>1, <2>2, <2>3, PrioFacts DEF Advance, RunStep
<1>2. PICK c \in Channel : /\ RunStep(c)
                           /\ \A j \in Job : Yield(c, j) /\ c = Root =>
                                pc' = "enqueue" /\ cur' = j
  BY <1>1
<1>3. IInv' /\ ChInv
  BY AdvanceStep, InvChannels
<1>4. SUFFICES ASSUME NEW j \in Job, Shown(j) PROVE Shown(j)'
  BY <1>1 DEF FreshInv, Calm, Told
<1>5. InView(j)
  BY <1>1, <1>4 DEF Shown
<1>6. CASE Busy(j)
  BY <1>1, <1>3, <1>6, BusyStaysShown DEF Shown
<1>7. CASE ~Busy(j) /\ row[j].state # "pending"
  <2>1. at[j][ChannelOf[j]] \subseteq {"failed"}
    BY <1>5, <1>7 DEF InView
  <2>2. at'[j] = at[j]
    BY <1>2, <1>3, <2>1, OwnEmpty, RunStepKeeps
  <2>3. QED BY <1>1, <1>5, <2>2 DEF Shown, InView, Busy
<1>8. CASE row[j].state = "pending"
  <2> DEFINE ch == ChannelOf[j]
  <2>1. /\ at[j][ch] # {} /\ at[j][ch] # {"failed"} /\ "running" \notin at[j][Root]
        /\ ch \in Channel /\ at[j] \in Line
    BY <1>5, <1>8, JobFacts DEF InView, Busy
  <2>2. "failed" \notin at[j][ch]
    BY <2>1, JobFacts DEF Placed
  <2>3. CASE \E i \in Job : Yield(c, i)
    <3>1. PICK i \in Job : Yield(c, i)
      BY <2>3
    <3>2. at'[j] = WithDue(c)[j]
          \/ /\ i = j
             /\ \A d \in Channel : at'[j][d] = IF d = c THEN {"running"}
                                               ELSE IF d \in Parents(c)
                                               THEN at[j][d] \cup {"queue"}
                                               ELSE at[j][d]
      <4>1. DOMAIN WithDue(c) = Job
        BY DEF WithDue
      <4>2. QED BY <3>1, <4>1 DEF Yield
    <3>3. CASE at'[j] = WithDue(c)[j]
      BY <1>1, <1>8, <2>1, <2>2, <3>3, PrioFacts DEF WithDue, Line, Shown, InView, Busy
    <3>4. CASE /\ i = j
               /\ \A d \in Channel : at'[j][d] = IF d = c THEN {"running"}
                                                 ELSE IF d \in Parents(c)
                                                 THEN at[j][d] \cup {"queue"}
                                                 ELSE at[j][d]
      <4>1. CASE c = Root
        BY <1>1, <1>2, <1>8, <3>1, <3>4, <4>1 DEF Shown
      <4>2. CASE c # Root
        <5>1. "running" \notin at'[j][Root]
          BY <2>1, <3>4, <4>2, PrioFacts
        <5>2. at'[j][ch] # {} /\ at'[j][ch] # {"failed"}
          BY <2>1, <2>2, <3>4
        <5>3. QED BY <1>1, <1>8, <5>1, <5>2 DEF Shown, InView, Busy
      <4>3. QED BY <4>1, <4>2
    <3>5. QED BY <3>2, <3>3, <3>4
  <2>4. CASE LeavePaused(c) \/ LeaveFull(c) \/ LeaveEmpty(c)
    <3>1. at'[j] = at[j] \/ at'[j] = WithDue(c)[j]
      BY <2>4 DEF LeavePaused, LeaveFull, LeaveEmpty
    <3>2. QED BY <1>1, <1>8, <2>1, <2>2, <3>1, PrioFacts
              DEF WithDue, Line, Shown, InView, Busy
  <2>5. QED BY <1>2, <2>3, <2>4 DEF RunStep
<1>9. QED BY <1>6, <1>7, <1>8 DEF Busy

LEMMA EnqueuedFresh ==
  ASSUME IInv, FreshInv, SetJobEnqueued PROVE FreshInv'
<1>1. /\ pc = "enqueue" /\ pc' = "http" /\ UNCHANGED <<at, cur>>
      /\ notifies \cup wire \subseteq notifies'
      /\ IF Exists(row, cur) THEN row' = Set(cur, "enqueued") ELSE row' = row
  BY DEF SetJobEnqueued, ReadWire, chvars
<1>2. cur \in Job /\ RunsToRoot(cur) /\ row \in [Job -> RowType]
  BY <1>1, TypeFacts DEF IInv, CurRuns
<1>3. Calm'
  <2>1. \A j \in Job : row'[j] = row[j] \/ row'[j].state = "enqueued"
    BY <1>1, <1>2, SetRow DEF State
  <2>2. QED BY <2>1 DEF FreshInv, Calm
<1>4. SUFFICES ASSUME NEW j \in Job PROVE Told(j)'
  BY <1>3 DEF FreshInv
<1>5. Told(j)
  BY <1>1 DEF FreshInv
<1>6. CASE j \in wire \cup notifies
  BY <1>1, <1>6 DEF Told
<1>7. CASE Shown(j) /\ j # cur
  <2>1. row'[j] = row[j]
    BY <1>1, <1>2, <1>7, SetRow DEF State
  <2>2. QED BY <1>1, <1>7, <2>1 DEF Told, Shown, InView, Busy
<1>8. CASE Shown(j) /\ j = cur /\ Exists(row, cur)
  <2>1. Root \in Up[ChannelOf[j]] /\ at'[j][Root] = {"running"}
    BY <1>1, <1>2, <1>8, JobFacts, TreeAssumption DEF RunsToRoot
  <2>2. row'[j].state = "enqueued"
    BY <1>1, <1>2, <1>8, SetRow DEF State
  <2>3. QED BY <2>1, <2>2 DEF Told, Shown, InView, Busy
<1>9. CASE Shown(j) /\ j = cur /\ ~Exists(row, cur)
  <2>1. row[j].state \in NoRow /\ InView(j)
    BY <1>9 DEF Exists, NoRow, Shown
  <2>2. at[j][ChannelOf[j]] = {}
    BY <2>1 DEF InView, Busy, NoRow
  <2>3. at[j][ChannelOf[j]] = {"running"}
    BY <1>2, <1>9, JobFacts, TreeAssumption DEF RunsToRoot
  <2>4. QED BY <2>2, <2>3
<1>10. QED BY <1>5, <1>6, <1>7, <1>8, <1>9 DEF Told

\* The runner goes on, reads its connection or starts over.
LEMMA OtherFresh ==
  ASSUME IInv, FreshInv,
         \/ Listen \/ RunJobs \/ AsyncHttpGet \/ WaitNotification
         \/ SelectTimeout \/ RunnerError \/ Crash
  PROVE  FreshInv'
<1>1. CASE Listen \/ RunnerError \/ Crash
  <2>1. pc' \in {"init", "select"}
    BY <1>1 DEF Listen, RunnerError, Crash, ForgetJobs
  <2>2. \A j \in Job : row'[j].state \in {row[j].state, "pending"}
    <3>1. CASE Listen \/ RunnerError
      BY <3>1 DEF Listen, RunnerError
    <3>2. CASE Crash
      <4>1. PICK reset \in BOOLEAN :
              row' = [j \in Job |-> IF reset /\ Busy(j)
                                    THEN [row[j] EXCEPT !.state = "pending"]
                                    ELSE row[j]]
        BY <3>2 DEF Crash
      <4>2. row \in [Job -> RowType]
        BY TypeFacts
      <4>3. QED BY <4>1, <4>2 DEF RowType
    <3>3. QED BY <1>1, <3>1, <3>2
  <2>3. Calm'
    BY <2>2 DEF FreshInv, Calm
  <2>4. QED BY <2>1, <2>3 DEF FreshInv
<1>2. CASE RunJobs \/ AsyncHttpGet \/ WaitNotification \/ SelectTimeout
  <2>1. /\ UNCHANGED <<at, row>> /\ wire \cup notifies \subseteq wire' \cup notifies'
        /\ pc \notin {"init", "select", "enqueue"}
    BY <1>2 DEF RunJobs, AsyncHttpGet, WaitNotification, SelectTimeout, ReadWire,
         StartRun, chvars
  <2>2. QED BY <2>1 DEF FreshInv, Calm, Told, Shown, InView, Busy
<1>3. QED BY <1>1, <1>2

LEMMA FreshStep ==
  ASSUME IInv, Plain, FreshInv, [Next]_vars PROVE FreshInv'
<1>1. CASE ~AnyRunnerStep
  BY <1>1, TableTold, AnnouncedFresh DEF FreshInv
<1>2. CASE AnyRunnerStep
  BY <1>2, NotificationFresh, SelectFresh, AdvanceFresh, EnqueuedFresh, OtherFresh
     DEF AnyRunnerStep, Runner
<1>3. QED BY <1>1, <1>2

LEMMA FreshInit == Init => FreshInv
<1> SUFFICES ASSUME Init PROVE FreshInv
  OBVIOUS
<1>1. \A j \in Job : row[j].state = "none"
  BY DEF Init
<1>2. QED BY <1>1 DEF Init, FreshInv, Calm

\* The channels follow the table: no more jobs are performed than they allow,
\* and a runner that sleeps with nothing left to read sees every row as it is,
\* with any timeouts, errors of the runner and crashes, as long as users do no
\* more than requeue failed jobs and jobs do not depend on each other.
THEOREM TableFollowed == ASSUME Plain PROVE Spec => []TableIsFollowed
<1>1. SpareStarted /\ "done" \notin UserOps
  BY DEF Plain
<1>2. IInv /\ FreshInv /\ [Next]_vars => FreshInv'
  BY FreshStep
<1>3. FreshInv => ViewIsCurrent
  BY DEF FreshInv, ViewIsCurrent, Settled, Told, Shown
<1>4. Spec => []ViewIsCurrent
  BY <1>1, <1>2, <1>3, Invariance, FreshInit, PTL DEF Spec
<1>5. Spec => []WithinCapacity
  BY <1>1, CapacityKept
<1>6. WithinCapacity /\ ViewIsCurrent => TableIsFollowed
  BY DEF TableIsFollowed
<1>7. QED BY <1>4, <1>5, <1>6, PTL
=============================================================================
