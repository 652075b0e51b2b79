------------------------------ MODULE Channels ------------------------------
(***************************************************************************)
(* The tree of job channels kept in memory by the job runner               *)
(* (queue_job/jobrunner/channels.py, classes ChannelJob, ChannelQueue,     *)
(* Channel and ChannelManager).  Jobs enter the channel they belong to,    *)
(* and flow towards the root as capacity allows: running in a channel      *)
(* means queued, or running, in its parent.  This module holds the state   *)
(* and the operations; ChannelManager and JobRunner are two processes that *)
(* call them.                                                              *)
(***************************************************************************)
EXTENDS Integers, FiniteSets, Sequences

CONSTANTS
  Job,         \* job ids: a smaller id was created earlier (date_created, seq)
  Channel,     \* the channels of the configured tree
  Root,        \* the root channel
  Up,          \* Up[c]: c and the channels between it and the root, included
  Order,       \* the channels as get_jobs_to_run visits them, children first
  Capacity,    \* Capacity[c]; 0 when unlimited
  Sequential,  \* the sequential channels
  Throttle,    \* Throttle[c]: seconds between two jobs; 0 when not throttled
  Prio,        \* the job priorities
  NoJob        \* absence of a ChannelJob

ASSUME TreeAssumption ==
  /\ Root \in Channel /\ Job \subseteq Nat /\ Prio \subseteq Nat
  /\ Up \in [Channel -> SUBSET Channel]
  /\ \A c \in Channel : c \in Up[c] /\ Root \in Up[c]
  /\ \A c \in Channel : \A d \in Up[c] : Up[d] \subseteq Up[c]
  /\ \A c, d \in Channel : c \in Up[d] /\ d \in Up[c] => c = d
  /\ \A c \in Channel : \A d, e \in Up[c] : d \in Up[e] \/ e \in Up[d]
  /\ Order \in Seq(Channel)
  /\ Capacity \in [Channel -> Nat] /\ Throttle \in [Channel -> Nat]
  /\ \A c \in Sequential : Capacity[c] = 1     \* enforced by configure()
  /\ NoJob \notin [chan : Channel, prio : Prio, eta : Nat]

\* get_jobs_to_run visits every channel
ASSUME OrderAssumption == \A c \in Channel : \E i \in DOMAIN Order : Order[i] = c

\* and none before its children, or twice.
ASSUME ChildrenFirst ==
  \A i, k \in DOMAIN Order : Order[k] \in Up[Order[i]] => i <= k

VARIABLES
  at,         \* at[j][c]: the collections of channel c that hold job j
  obj,        \* obj[j]: the ChannelJob of j in _jobs_by_uuid, or NoJob
  pauseUntil, \* pauseUntil[c]: end of the throttle pause; 0 when not paused
  runNow,     \* the "now" given to get_jobs_to_run
  turn        \* index in Order of the channel get_jobs_to_run is in; 0: none

chvars == <<at, obj, pauseUntil, runNow, turn>>

\* The four collections of a channel: the two heaps of its ChannelQueue
\* (_eta_queue, _queue), _running and _failed.
Place == {"eta", "queue", "running", "failed"}

\* eta 0 stands for None: the code tests it for truth.
ChannelJob == [chan : Channel, prio : Prio, eta : Nat]

Above(c) == Up[c] \ {c}
Parents(c) == {d \in Above(c) : \A e \in Above(c) : e \in Up[d]}

In(c, p) == {j \in Job : p \in at[j][c]}

Nowhere == [c \in Channel |-> {}]

ChInit ==
  /\ at = [j \in Job |-> Nowhere]
  /\ obj = [j \in Job |-> NoJob]
  /\ pauseUntil = [c \in Channel |-> 0]
  /\ runNow = 0 /\ turn = 0

-----------------------------------------------------------------------------
(* The operations on one job: "a" is its line of "at", and the job belongs *)
(* to channel ch.                                                          *)

\* Channel.remove, which goes on to the root
RemoveFrom(a, ch) == [c \in Channel |-> IF c \in Up[ch] THEN {} ELSE a[c]]

SetDone(a, ch) == RemoveFrom(a, ch)

SetPending(a, ch, eta) ==
  IF a[ch] \cap {"eta", "queue"} # {} THEN a
  ELSE [c \in Channel |->
         IF c = ch THEN IF eta > 0 THEN {"eta"} ELSE {"queue"}
         ELSE IF c \in Above(ch) THEN {} ELSE a[c]]

\* set_running stops at the first channel where the job already runs
SetRunning(a, ch) ==
  LET reached(c) == \A d \in Up[ch] : c \in Up[d] => "running" \notin a[d]
  IN  [c \in Channel |-> IF c \in Up[ch] /\ reached(c) THEN {"running"}
                         ELSE a[c]]

SetFailed(a, ch) ==
  IF "failed" \in a[ch] THEN a
  ELSE [c \in Channel |-> IF c = ch THEN {"failed"}
                          ELSE IF c \in Above(ch) THEN {} ELSE a[c]]

\* ChannelManager.notify: a job whose ChannelJob differs from the row is
\* removed and created again, then moved according to the row's state.
\* A job that waits for its dependencies, and a cancelled one (an "unexpected
\* state"), stay where they are.
Moved(a, row, state) ==
  CASE state = "done"                   -> SetDone(a, row.chan)
    [] state = "pending"                -> SetPending(a, row.chan, row.eta)
    [] state \in {"enqueued", "started"} -> SetRunning(a, row.chan)
    [] state = "failed"                 -> SetFailed(a, row.chan)
    [] OTHER                            -> a

\* Mutant of Notified: a changed job is not removed from its old channel.
Notified_KeepOld(a, old, row, state) == Moved(a, row, state)

Notified(a, old, row, state) ==
  LET a0 == IF old # NoJob /\ old # row THEN RemoveFrom(a, old.chan) ELSE a
  IN  Moved(a0, row, state)

Notify(j, row, state) ==
  /\ at' = [at EXCEPT ![j] = Notified(at[j], obj[j], row, state)]
  /\ obj' = [obj EXCEPT ![j] = row]
  /\ UNCHANGED <<pauseUntil, runNow, turn>>

RemoveJob(j) ==
  /\ at' = IF obj[j] = NoJob THEN at
           ELSE [at EXCEPT ![j] = RemoveFrom(at[j], obj[j].chan)]
  /\ obj' = [obj EXCEPT ![j] = NoJob]
  /\ UNCHANGED <<pauseUntil, runNow, turn>>

\* remove_db: every known job leaves its channels; pauses are kept.
RemoveDb ==
  /\ at' = [j \in Job |-> IF obj[j] = NoJob THEN at[j]
                          ELSE RemoveFrom(at[j], obj[j].chan)]
  /\ obj' = [j \in Job |-> NoJob]
  /\ UNCHANGED <<pauseUntil, runNow, turn>>

-----------------------------------------------------------------------------
(* get_jobs_to_run: a generator over the tree.  Each job a channel yields  *)
(* is a step, and so is leaving a channel.                                 *)

HasCapacity(c) ==
  /\ ~(c \in Sequential /\ In(c, "failed") # {})
  /\ Capacity[c] = 0 \/ Cardinality(In(c, "running")) < Capacity[c]

\* sorting_key_ignoring_eta, and sorting_key for two jobs with an eta
Before(i, j) == \/ obj[i].prio < obj[j].prio
                \/ obj[i].prio = obj[j].prio /\ i < j
EtaBefore(i, j) == \/ obj[i].eta < obj[j].eta
                   \/ obj[i].eta = obj[j].eta /\ Before(i, j)

Due(c) == {j \in In(c, "eta") : obj[j].eta <= runNow}
Ready(c) == In(c, "queue") \cup Due(c)
Later(c) == In(c, "eta") \ Due(c)

IsFirstReady(c, j) == j \in Ready(c) /\ \A i \in Ready(c) \ {j} : Before(j, i)
IsNextEta(c, j) == j \in Later(c) /\ \A i \in Later(c) \ {j} : EtaBefore(j, i)

\* ChannelQueue.pop: in a sequential channel the first ready job waits for
\* the job with the next eta if that one sorts before it.
Blocked(c) ==
  /\ c \in Sequential
  /\ \E i, j \in Job : IsNextEta(c, i) /\ IsFirstReady(c, j) /\ Before(i, j)

\* What pop does to the eta queue before it looks for a job to return.
WithDue(c) ==
  [j \in Job |-> IF j \in Due(c) THEN [at[j] EXCEPT ![c] = {"queue"}]
                 ELSE at[j]]
EtaCleared(c) ==
  [j \in Job |-> IF j \in Due(c) THEN [obj[j] EXCEPT !.eta = 0] ELSE obj[j]]

Here(c) == turn \in DOMAIN Order /\ c = Order[turn]

\* Mutant of Paused: the pause ends a second early.
Paused_Early(c) == Throttle[c] > 0 /\ pauseUntil[c] > runNow + 1

Paused(c) == Throttle[c] > 0 /\ pauseUntil[c] > runNow

\* Mutant of Leave: the traversal does not end at the root.
Leave_Beyond == turn' = turn + 1

Leave == turn' = IF turn = Len(Order) THEN 0 ELSE turn + 1

StartRun(now) ==
  /\ turn = 0
  /\ turn' = 1
  /\ runNow' = now
  /\ UNCHANGED <<at, obj, pauseUntil>>

\* Channel c yields job j: j runs in c, and is queued in the parent of c.
Yield(c, j) ==
  /\ Here(c) /\ ~Paused(c) /\ HasCapacity(c) /\ ~Blocked(c)
  /\ IsFirstReady(c, j)
  /\ at' = [WithDue(c) EXCEPT
             ![j] = [d \in Channel |->
                      IF d = c THEN {"running"}
                      ELSE IF d \in Parents(c) THEN at[j][d] \cup {"queue"}
                      ELSE at[j][d]]]
  /\ obj' = EtaCleared(c)
  /\ pauseUntil' =
       IF Throttle[c] > 0 THEN [pauseUntil EXCEPT ![c] = runNow + Throttle[c]]
       ELSE pauseUntil
  /\ IF Throttle[c] > 0 THEN Leave ELSE UNCHANGED turn
  /\ UNCHANGED runNow

LeavePaused(c) ==
  /\ Here(c) /\ Paused(c)
  /\ Leave
  /\ UNCHANGED <<at, obj, pauseUntil, runNow>>

\* A throttled channel that is not paused forgets its past pause.
Unpaused(c) ==
  IF Throttle[c] > 0 THEN [pauseUntil EXCEPT ![c] = 0] ELSE pauseUntil

LeaveFull(c) ==
  /\ Here(c) /\ ~Paused(c) /\ ~HasCapacity(c)
  /\ pauseUntil' = Unpaused(c)
  /\ Leave
  /\ UNCHANGED <<at, obj, runNow>>

LeaveEmpty(c) ==
  /\ Here(c) /\ ~Paused(c) /\ HasCapacity(c)
  /\ Blocked(c) \/ Ready(c) = {}
  /\ at' = WithDue(c) /\ obj' = EtaCleared(c)
  /\ pauseUntil' = Unpaused(c)
  /\ Leave
  /\ UNCHANGED runNow

RunStep(c) ==
  LeavePaused(c) \/ LeaveFull(c) \/ LeaveEmpty(c) \/ \E j \in Job : Yield(c, j)

-----------------------------------------------------------------------------
(* get_wakeup_time visits a channel when all the channels below it towards *)
(* the root have capacity and are not paused.                              *)

Visited(c) == \A d \in Above(c) : HasCapacity(d) /\ pauseUntil[d] = 0

\* Mutant of WakeupTimes: paused channels are not looked at.
WakeupTimes_NoPause ==
  UNION {IF ~Visited(c) \/ ~HasCapacity(c) \/ pauseUntil[c] > 0 THEN {}
         ELSE {obj[j].eta : j \in In(c, "eta")} : c \in Channel}

WakeupTimes ==
  UNION {IF ~Visited(c) \/ ~HasCapacity(c) THEN {}
         ELSE IF pauseUntil[c] > 0 THEN {pauseUntil[c]}
         ELSE {obj[j].eta : j \in In(c, "eta")} : c \in Channel}

IsWakeupTime(t) ==    \* t is what get_wakeup_time returns; 0 when none
  IF WakeupTimes = {} THEN t = 0
  ELSE t \in WakeupTimes /\ \A u \in WakeupTimes : t <= u

-----------------------------------------------------------------------------
ChTypeOK ==
  /\ at \in [Job -> [Channel -> SUBSET Place]]
  /\ obj \in [Job -> ChannelJob \cup {NoJob}]
  /\ pauseUntil \in [Channel -> Nat]
  /\ runNow \in Nat
  /\ turn \in 0..Len(Order)

\* A job is in one collection of a channel at most, only in the channels
\* between its own and the root, and only where it runs in every channel on
\* the way there.  It sits in an eta queue exactly while its eta is ahead.
Placed(a, o) ==
  \A c \in Channel : a[c] # {} =>
    /\ o # NoJob /\ c \in Up[o.chan]
    /\ \E p \in Place : a[c] = {p}
    /\ \A d \in Up[o.chan] : c \in Above(d) => a[d] = {"running"}
    /\ "eta" \in a[c] => o.eta > 0
    /\ "queue" \in a[c] => o.eta = 0

PlacedOnce == \A j \in Job : Placed(at[j], obj[j])
=============================================================================
