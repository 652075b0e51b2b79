------------------------ MODULE ChannelManager_proofs ------------------------
(***************************************************************************)
(* Theorems about the channels under any notifications, for every channel  *)
(* tree, every number of jobs and every clock.                             *)
(***************************************************************************)
EXTENDS ChannelManager, Channels_proofs

USE ClockAssumption DEF ChannelJob, Place

\* The inductive invariant: the type of the variables, and PlacedOnce.  It
\* is PlacedOnce that makes the removals complete: a job is removed from the
\* channels above the one its ChannelJob names, and is in no other.
IInv == TypeOK /\ PlacedOnce

LEMMA InitInv == Init => IInv
<1> SUFFICES ASSUME Init PROVE IInv
  OBVIOUS
<1>1. ChTypeOK
  BY NowherePlaced, OrderFacts DEF Init, ChInit, ChTypeOK, Line
<1>2. PlacedOnce
  BY NowherePlaced DEF Init, ChInit, PlacedOnce
<1>3. TypeOK
  BY <1>1 DEF Init, TypeOK
<1>4. QED BY <1>2, <1>3 DEF IInv

LEMMA StepInv == IInv /\ [Next]_vars => IInv'
<1> SUFFICES ASSUME IInv, [Next]_vars PROVE IInv'
  OBVIOUS
<1>0. ChInv /\ TypeOK
  BY DEF IInv, ChInv, TypeOK
<1>1. CASE ProcessNotification
  <2>1. PICK j \in Job : \/ \E row \in Row, s \in State : Notify(j, row, s)
                         \/ RemoveJob(j)
    BY <1>1 DEF ProcessNotification
  <2>2. ASSUME NEW row \in Row, NEW s \in State, Notify(j, row, s)
        PROVE  ChInv'
    <3>1. row \in ChannelJob
      BY DEF Row
    <3>2. QED BY <1>0, <2>2, <3>1, NotifyInv
  <2>3. ASSUME RemoveJob(j) PROVE ChInv'
    BY <1>0, <2>3, RemoveJobInv
  <2>4. ChInv'
    BY <2>1, <2>2, <2>3
  <2>5. QED BY <1>0, <1>1, <2>4 DEF ProcessNotification, IInv, ChInv, TypeOK
<1>2. CASE CloseDatabases
  <2>1. ChInv'
    BY <1>0, <1>2, RemoveDbInv DEF CloseDatabases
  <2>2. QED BY <1>0, <1>2, <2>1 DEF CloseDatabases, IInv, ChInv, TypeOK
<1>3. CASE RunJobs
  <2>1. ChInv'
    BY <1>0, <1>3, StartRunInv DEF RunJobs, TypeOK
  <2>2. QED BY <1>0, <1>3, <2>1 DEF RunJobs, IInv, ChInv, TypeOK
<1>4. CASE Run
  <2>1. PICK c \in Channel :
          \/ /\ \E j \in Job : Yield(c, j)
             /\ lastYield' = [lastYield EXCEPT ![c] = runNow]
          \/ /\ LeavePaused(c) \/ LeaveFull(c) \/ LeaveEmpty(c)
             /\ UNCHANGED lastYield
    BY <1>4 DEF Run
  <2>2. RunStep(c)
    BY <2>1 DEF RunStep
  <2>3. ChInv'
    BY <1>0, <2>2, RunStepInv
  <2>4. lastYield' \in [Channel -> Nat]
    BY <1>0, <2>1 DEF TypeOK, ChTypeOK
  <2>5. phase' \in {"notify", "run", "sleep"} /\ UNCHANGED <<clock, armed, quiet>>
    BY <1>4 DEF Run
  <2>6. QED BY <1>0, <2>3, <2>4, <2>5 DEF IInv, ChInv, TypeOK
<1>5. CASE WaitNotification
  <2>1. UNCHANGED <<at, obj, pauseUntil, runNow, turn, clock, lastYield>>
    BY <1>5 DEF WaitNotification, chvars
  <2>2. ASSUME NEW c \in Channel PROVE pauseUntil[c] \in Nat
    BY <1>0 DEF ChInv, ChTypeOK
  <2>3. ASSUME NEW c \in Channel, NEW j \in In(c, "eta")
        PROVE  obj[j].eta \in Nat
    <3>1. Placed(at[j], obj[j]) /\ at[j][c] # {} /\ obj[j] \in ChannelJob \cup {NoJob}
      BY <1>0, <2>3 DEF ChInv, ChTypeOK, PlacedOnce, In
    <3>2. obj[j] # NoJob
      BY <3>1 DEF Placed
    <3>3. QED BY <3>1, <3>2
  <2>4. WakeupTimes \subseteq Nat
    BY <2>2, <2>3 DEF WakeupTimes
  <2>5. armed' \in Nat
    BY <1>5, <2>4 DEF WaitNotification
  <2>6. phase' = "notify" /\ quiet' = TRUE
    BY <1>5 DEF WaitNotification
  <2>7. QED BY <1>0, <2>1, <2>5, <2>6
            DEF IInv, ChInv, TypeOK, ChTypeOK, PlacedOnce
<1>6. CASE Tick
  <2>1. clock' \in Nat /\ UNCHANGED <<at, obj, pauseUntil, runNow, turn,
                                      phase, armed, quiet, lastYield>>
    BY <1>6 DEF Tick, chvars
  <2>2. QED BY <1>0, <2>1 DEF IInv, ChInv, TypeOK, ChTypeOK, PlacedOnce
<1>7. CASE UNCHANGED vars
  BY <1>0, <1>7 DEF vars, chvars, IInv, ChInv, TypeOK, ChTypeOK, PlacedOnce
<1>8. QED BY <1>1, <1>2, <1>3, <1>4, <1>5, <1>6, <1>7 DEF Next

\* The variables keep their types under every call of ChannelManager.
THEOREM TypeCorrect == Spec => []TypeOK
<1>1. IInv => TypeOK
  BY DEF IInv
<1>2. QED BY InitInv, StepInv, <1>1, PTL DEF Spec

\* Whatever is notified, removed and run, and in whatever order, a job is in
\* one collection of a channel at most, in none outside the path from its
\* own channel to the root, and runs in every channel below the one it waits
\* in; a job with an eta is never in the heap of jobs ready to run.
THEOREM JobsPlacedOnce == Spec => []PlacedOnce
<1>1. IInv => PlacedOnce
  BY DEF IInv
<1>2. QED BY InitInv, StepInv, <1>1, PTL DEF Spec

\* What the throttle rests on: a channel that yielded a job is paused for
\* Throttle seconds, and forgets the pause only in a run that comes after
\* them; later runs are not earlier, since the clock does not go back.
Spaced ==
  /\ runNow <= clock
  /\ \A c \in Channel : Throttle[c] > 0 /\ lastYield[c] > 0 =>
       \/ lastYield[c] + Throttle[c] <= pauseUntil[c]
       \/ lastYield[c] + Throttle[c] <= runNow

LEMMA SpacedInit == Init => Spaced
BY DEF Init, ChInit, Spaced

\* The step of one channel in a run.
LEMMA SpacedRun ==
  ASSUME TypeOK, Spaced, NEW c \in Channel,
         \/ /\ \E j \in Job : Yield(c, j)
            /\ lastYield' = [lastYield EXCEPT ![c] = runNow]
         \/ /\ LeavePaused(c) \/ LeaveFull(c) \/ LeaveEmpty(c)
            /\ UNCHANGED lastYield,
         UNCHANGED clock
  PROVE  Spaced'
<1>1. /\ runNow \in Nat /\ Throttle[c] \in Nat
      /\ pauseUntil \in [Channel -> Nat] /\ lastYield \in [Channel -> Nat]
  BY TreeAssumption DEF TypeOK, ChTypeOK
<1>2. CASE (\E j \in Job : Yield(c, j)) /\ lastYield' = [lastYield EXCEPT ![c] = runNow]
  <2>1. /\ UNCHANGED runNow
        /\ pauseUntil' = IF Throttle[c] > 0
                         THEN [pauseUntil EXCEPT ![c] = runNow + Throttle[c]]
                         ELSE pauseUntil
    BY <1>2 DEF Yield
  <2>2. QED BY <1>1, <1>2, <2>1 DEF Spaced
<1>3. CASE LeavePaused(c) /\ UNCHANGED lastYield
  BY <1>3 DEF LeavePaused, Spaced
<1>4. CASE (LeaveFull(c) \/ LeaveEmpty(c)) /\ UNCHANGED lastYield
  <2>1. UNCHANGED runNow /\ ~Paused(c) /\ pauseUntil' = Unpaused(c)
    BY <1>4 DEF LeaveFull, LeaveEmpty
  <2>2. QED BY <1>1, <1>4, <2>1 DEF Paused, Unpaused, Spaced
<1>5. QED BY <1>2, <1>3, <1>4

LEMMA SpacedStep == IInv /\ Spaced /\ [Next]_vars => Spaced'
<1> SUFFICES ASSUME IInv, Spaced, [Next]_vars PROVE Spaced'
  OBVIOUS
<1>0. TypeOK
  BY DEF IInv
<1>1. CASE ProcessNotification \/ CloseDatabases
  BY <1>1 DEF ProcessNotification, CloseDatabases, Notify, RemoveJob, RemoveDb, Spaced
<1>2. CASE RunJobs
  <2>1. runNow' = clock /\ UNCHANGED <<clock, pauseUntil, lastYield>>
    BY <1>2 DEF RunJobs, StartRun
  <2>2. ASSUME NEW c \in Channel
        PROVE  /\ runNow \in Nat /\ clock \in Nat /\ Throttle[c] \in Nat
               /\ lastYield[c] \in Nat /\ pauseUntil[c] \in Nat
    BY <1>0, TreeAssumption DEF TypeOK, ChTypeOK
  <2>3. clock \in Nat
    BY <1>0 DEF TypeOK
  <2>4. QED BY <2>1, <2>2, <2>3 DEF Spaced
<1>3. CASE Run
  BY <1>0, <1>3, SpacedRun DEF Run
<1>4. CASE WaitNotification
  BY <1>4 DEF WaitNotification, chvars, Spaced
<1>5. CASE Tick
  <2>1. clock' = clock + 1 /\ UNCHANGED <<runNow, pauseUntil, lastYield>>
    BY <1>5 DEF Tick, chvars
  <2>2. runNow \in Nat /\ clock \in Nat
    BY <1>0 DEF TypeOK, ChTypeOK
  <2>3. QED BY <2>1, <2>2 DEF Spaced
<1>6. CASE UNCHANGED vars
  BY <1>6 DEF vars, chvars, Spaced
<1>7. QED BY <1>1, <1>2, <1>3, <1>4, <1>5, <1>6 DEF Next

\* Only the channel whose turn it is lets a job run that did not run in it.
LEMMA YieldsInTurn ==
  ASSUME TypeOK, NEW c \in Channel, NEW d \in Channel, Yields(d),
         \/ \E j \in Job : Yield(c, j)
         \/ LeavePaused(c) \/ LeaveFull(c) \/ LeaveEmpty(c)
  PROVE  c = d /\ ~Paused(c) /\ \E j \in Job : Yield(c, j)
<1>1. PICK i \in Job : "running" \notin at[i][d] /\ "running" \in at'[i][d]
  BY DEF Yields
<1>2. at \in [Job -> [Channel -> SUBSET Place]]
  BY DEF TypeOK, ChTypeOK
<1>3. "running" \notin WithDue(c)[i][d]
  BY <1>1, <1>2 DEF WithDue
<1>4. PICK j \in Job : Yield(c, j)
  BY <1>1, <1>3 DEF LeavePaused, LeaveFull, LeaveEmpty
<1>5. ~Paused(c)
  BY <1>4 DEF Yield
<1>6. at' = [WithDue(c) EXCEPT
             ![j] = [e \in Channel |->
                      IF e = c THEN {"running"}
                      ELSE IF e \in Parents(c) THEN at[j][e] \cup {"queue"}
                      ELSE at[j][e]]]
  BY <1>4 DEF Yield
<1>7. WithDue(c) \in [Job -> [Channel -> SUBSET Place]]
  BY <1>2 DEF WithDue
<1>8. c = d
  <2>1. CASE i = j
    BY <1>1, <1>2, <1>6, <1>7, <2>1
  <2>2. CASE i # j
    BY <1>1, <1>3, <1>6, <1>7, <2>2
  <2>3. QED BY <2>1, <2>2
<1>9. QED BY <1>4, <1>5, <1>8

\* Two jobs of a throttled channel are yielded at least Throttle seconds
\* apart, for any tree and clock, whatever is notified, removed or reset
\* between them: a full or an empty channel forgets its pause, but not early.
THEOREM JobsAreSpaced == Spec => ThrottleSpacing
<1> DEFINE Apart == \A c \in Channel : Yields(c) /\ Throttle[c] > 0 /\ lastYield[c] > 0
                      => runNow >= lastYield[c] + Throttle[c]
<1>1. IInv /\ Spaced /\ [Next]_vars => [Apart]_vars
  <2> SUFFICES ASSUME IInv, Spaced, [Next]_vars, NEW d \in Channel, Yields(d),
                      Throttle[d] > 0, lastYield[d] > 0
               PROVE  runNow >= lastYield[d] + Throttle[d]
    OBVIOUS
  <2>0. TypeOK
    BY DEF IInv
  <2>1. at' # at /\ phase = "run"
    BY DEF Yields
  <2>2. Run
    BY <2>1 DEF Next, vars, chvars, ProcessNotification, CloseDatabases, RunJobs, StartRun,
                WaitNotification, Tick
  <2>3. PICK c \in Channel : \/ \E j \in Job : Yield(c, j)
                             \/ LeavePaused(c) \/ LeaveFull(c) \/ LeaveEmpty(c)
    BY <2>2 DEF Run
  <2>4. ~Paused(d)
    BY <2>0, <2>3, YieldsInTurn
  <2>5. /\ runNow \in Nat /\ Throttle[d] \in Nat
        /\ lastYield[d] \in Nat /\ pauseUntil[d] \in Nat
    BY <2>0, TreeAssumption DEF TypeOK, ChTypeOK
  <2>6. QED BY <2>4, <2>5 DEF Paused, Spaced
<1>2. QED BY InitInv, StepInv, SpacedInit, SpacedStep, <1>1, PTL DEF Spec, ThrottleSpacing

-----------------------------------------------------------------------------
(* The runner sleeps until the time get_wakeup_time returns.  For every    *)
(* tree of channels and every clock that time is neither late nor past:    *)
(* theorem SleepIsRight.                                                   *)

HIDE ClockAssumption

-----------------------------------------------------------------------------
(* What makes a channel yield nothing                                      *)

\* Of the jobs without an eta there is none, or the first of them waits for
\* the job with the next eta: Blocked, if that eta is ahead.
Waits(c) ==
  \/ In(c, "queue") = {}
  \/ /\ c \in Sequential
     /\ \E i \in In(c, "eta"), j \in In(c, "queue") :
          /\ \A k \in In(c, "eta") \ {i} : EtaBefore(i, k)
          /\ \A k \in In(c, "queue") \ {j} : Before(j, k)
          /\ Before(i, j)

\* Why the traversal left the channel, and would leave it again at runNow.
Settled(c) ==
  \/ ~HasCapacity(c)
  \/ pauseUntil[c] > runNow
  \/ /\ pauseUntil[c] = 0 /\ Waits(c)
     /\ \A j \in In(c, "eta") : obj[j].eta > runNow

\* It yields nothing before the armed time, either.
Closed(c) ==
  \/ ~HasCapacity(c)
  \/ pauseUntil[c] > 0 /\ armed > 0 /\ armed <= pauseUntil[c]
  \/ /\ pauseUntil[c] = 0 /\ Waits(c)
     /\ \A j \in In(c, "eta") : armed > 0 /\ armed <= obj[j].eta

BeforeArmed == armed = 0 \/ runNow < armed

\* The inductive invariant of this module, besides IInv and Spaced.  A channel
\* that get_wakeup_time does not visit may yield jobs to one that is full or
\* paused; those it visits are closed.
WInv ==
  /\ \A c \in Channel : pauseUntil[c] > 0 => Throttle[c] > 0
  /\ phase = "run" => turn > 0
  /\ phase = "run" => \A i \in DOMAIN Order : i < turn => Settled(Order[i])
  /\ phase = "sleep" => \A c \in Channel : Settled(c)
  /\ quiet /\ BeforeArmed => \A c \in Channel : Visited(c) => Closed(c)

LEMMA Types ==
  ASSUME TypeOK, PlacedOnce
  PROVE  /\ runNow \in Nat /\ armed \in Nat /\ clock \in Nat
         /\ \A c \in Channel : pauseUntil[c] \in Nat /\ Throttle[c] \in Nat
         /\ \A c \in Channel : \A j \in In(c, "eta") : j \in Job /\ obj[j].eta \in Nat
<1>1. /\ runNow \in Nat /\ armed \in Nat /\ clock \in Nat
      /\ \A c \in Channel : pauseUntil[c] \in Nat /\ Throttle[c] \in Nat
  BY TreeAssumption DEF TypeOK, ChTypeOK
<1>2. ASSUME NEW c \in Channel, NEW j \in In(c, "eta")
      PROVE  j \in Job /\ obj[j].eta \in Nat
  <2>1. Placed(at[j], obj[j]) /\ at[j][c] # {} /\ obj[j] \in ChannelJob \cup {NoJob}
    BY <1>2 DEF TypeOK, ChTypeOK, PlacedOnce, In
  <2>2. obj[j] # NoJob
    BY <2>1 DEF Placed
  <2>3. QED BY <2>1, <2>2 DEF In
<1>3. QED BY <1>1, <1>2

\* A channel that waits, with all etas ahead, has nothing to yield.
LEMMA WaitsIsBlocked ==
  ASSUME NEW c \in Channel, Waits(c), Due(c) = {}
  PROVE  Blocked(c) \/ Ready(c) = {}
BY DEF Waits, Blocked, Ready, Later, IsFirstReady, IsNextEta, In

-----------------------------------------------------------------------------
(* One step of the traversal, in channel d, seen from another channel      *)

\* A job that waits in one channel waits in no other.
LEMMA OneQueue ==
  ASSUME PlacedOnce, TypeOK, NEW j \in Job, NEW c \in Channel, NEW d \in Channel,
         at[j][c] \cap {"eta", "queue"} # {}, at[j][d] \cap {"eta", "queue"} # {}
  PROVE  c = d
<1>1. at[j] \in Line /\ obj[j] \in ChannelJob \cup {NoJob} /\ Placed(at[j], obj[j])
  BY DEF PlacedOnce, TypeOK, ChTypeOK, Line
<1>2. obj[j] \in ChannelJob
  BY <1>1 DEF Placed
<1>3. c \in Up[obj[j].chan] /\ d \in Up[obj[j].chan]
  BY <1>1, <1>2 DEF Placed
<1>4. c \in Up[d] \/ d \in Up[c]
  BY <1>2, <1>3, UpFacts
<1>5. QED BY <1>1, <1>2, <1>3, <1>4 DEF Placed, Above

LEMMA Frame ==
  ASSUME TypeOK, PlacedOnce, NEW d \in Channel, RunStep(d),
         NEW c \in Channel, c # d
  PROVE  /\ HasCapacity(c)' = HasCapacity(c)
         /\ pauseUntil'[c] = pauseUntil[c]
         /\ In(c, "eta")' = In(c, "eta")
         /\ \/ In(c, "queue")' = In(c, "queue")
            \/ c \in Parents(d) /\ \E j \in Job : Yield(d, j)
         /\ \A j \in In(c, "eta") \cup In(c, "queue") : obj'[j] = obj[j]
<1>0. at \in [Job -> [Channel -> SUBSET Place]]
  BY DEF TypeOK, ChTypeOK
<1>1. \A j \in Job : WithDue(d)[j][c] = at[j][c] /\ WithDue(d)[j] \in [Channel -> SUBSET Place]
  BY <1>0 DEF WithDue
<1>2. \/ at' = at
      \/ at' = WithDue(d)
      \/ \E j \in Job : /\ Yield(d, j)
                        /\ at' = [WithDue(d) EXCEPT
                             ![j] = [e \in Channel |->
                                      IF e = d THEN {"running"}
                                      ELSE IF e \in Parents(d) THEN at[j][e] \cup {"queue"}
                                      ELSE at[j][e]]]
  BY Zenon DEF RunStep, LeavePaused, LeaveFull, LeaveEmpty, Yield
<1>3. \A j \in Job : \/ at'[j][c] = at[j][c]
                     \/ /\ c \in Parents(d) /\ Yield(d, j)
                        /\ at'[j][c] = at[j][c] \cup {"queue"}
  <2>1. CASE at' = at
    BY <2>1
  <2>2. CASE at' = WithDue(d)
    BY <1>1, <2>2
  <2>3. ASSUME NEW k \in Job, Yield(d, k),
               at' = [WithDue(d) EXCEPT
                        ![k] = [e \in Channel |->
                                 IF e = d THEN {"running"}
                                 ELSE IF e \in Parents(d) THEN at[k][e] \cup {"queue"}
                                 ELSE at[k][e]]],
               NEW j \in Job
        PROVE  \/ at'[j][c] = at[j][c]
               \/ /\ c \in Parents(d) /\ Yield(d, j)
                  /\ at'[j][c] = at[j][c] \cup {"queue"}
    <3>0. DOMAIN WithDue(d) = Job
      BY DEF WithDue
    <3>1. CASE j = k
      <4>1. at'[j] = [e \in Channel |->
                        IF e = d THEN {"running"}
                        ELSE IF e \in Parents(d) THEN at[j][e] \cup {"queue"}
                        ELSE at[j][e]]
        BY <2>3, <3>0, <3>1
      <4>2. at'[j][c] = IF c \in Parents(d) THEN at[j][c] \cup {"queue"} ELSE at[j][c]
        BY <4>1
      <4>3. QED BY <2>3, <3>1, <4>2
    <3>2. CASE j # k
      BY <1>1, <2>3, <3>0, <3>2
    <3>3. QED BY <3>1, <3>2
  <2>4. QED BY <1>2, <2>1, <2>2, <2>3
<1>4. /\ In(c, "running")' = In(c, "running")
      /\ In(c, "failed")' = In(c, "failed")
      /\ In(c, "eta")' = In(c, "eta")
  BY <1>3 DEF In
<1>5. \/ In(c, "queue")' = In(c, "queue")
      \/ c \in Parents(d) /\ \E j \in Job : Yield(d, j)
  BY <1>3 DEF In
<1>6. pauseUntil'[c] = pauseUntil[c]
  BY DEF RunStep, LeavePaused, LeaveFull, LeaveEmpty, Yield, Unpaused, TypeOK, ChTypeOK
<1>7. ASSUME NEW j \in In(c, "eta") \cup In(c, "queue") PROVE obj'[j] = obj[j]
  <2>1. j \in Job /\ at[j][c] \cap {"eta", "queue"} # {}
    BY <1>7 DEF In
  <2>2. j \notin Due(d)
    BY <2>1, OneQueue DEF Due, In
  <2>3. obj' = obj \/ obj' = EtaCleared(d)
    BY DEF RunStep, LeavePaused, LeaveFull, LeaveEmpty, Yield
  <2>4. QED BY <2>1, <2>2, <2>3 DEF EtaCleared
<1>8. QED BY <1>4, <1>5, <1>6, <1>7 DEF HasCapacity

LEMMA SameWaits ==
  ASSUME TypeOK, PlacedOnce, NEW d \in Channel, RunStep(d),
         NEW c \in Channel, c # d, In(c, "queue")' = In(c, "queue")
  PROVE  /\ Waits(c) => Waits(c)'
         /\ \A j \in In(c, "eta")' : obj'[j] = obj[j]
<1>1. /\ In(c, "eta")' = In(c, "eta")
      /\ \A j \in In(c, "eta") \cup In(c, "queue") : obj'[j] = obj[j]
  BY Frame
<1>2. \A j \in In(c, "eta")' : obj'[j] = obj[j]
  BY <1>1
<1>3. ASSUME Waits(c) PROVE Waits(c)'
  BY <1>1, <1>3 DEF Waits, Before, EtaBefore
<1>4. QED BY <1>2, <1>3

-----------------------------------------------------------------------------
(* The channel of the step                                                 *)

\* A channel with nothing to yield keeps its jobs where they are.
LEMMA NothingDue ==
  ASSUME TypeOK, NEW d \in Channel, Due(d) = {}
  PROVE  WithDue(d) = at /\ EtaCleared(d) = obj
BY DEF TypeOK, ChTypeOK, WithDue, EtaCleared

\* pop() has put what is due among the jobs without an eta; the rest waits.
LEMMA EmptyWaits ==
  ASSUME TypeOK, PlacedOnce, NEW d \in Channel, LeaveEmpty(d)
  PROVE  /\ Waits(d)'
         /\ \A j \in In(d, "eta")' : obj'[j].eta > runNow
         /\ HasCapacity(d)
<1>0. /\ at \in [Job -> [Channel -> SUBSET Place]] /\ runNow \in Nat
      /\ \A j \in In(d, "eta") : obj[j].eta \in Nat
  BY Types DEF TypeOK, ChTypeOK
<1>1. at' = WithDue(d) /\ obj' = EtaCleared(d) /\ (Blocked(d) \/ Ready(d) = {}) /\ HasCapacity(d)
  BY DEF LeaveEmpty
<1>2. \A j \in Job : at'[j][d] = IF j \in Due(d) THEN {"queue"} ELSE at[j][d]
  BY <1>0, <1>1 DEF WithDue
<1>3. In(d, "eta")' = Later(d)
  BY <1>2 DEF In, Later, Due
<1>4. In(d, "queue")' = Ready(d)
  BY <1>2 DEF In, Ready, Due
<1>5. \A j \in Later(d) : obj'[j] = obj[j] /\ obj[j].eta > runNow
  BY <1>0, <1>1 DEF EtaCleared, Later, Due, In
<1>6. \A j \in Ready(d) : obj'[j].prio = obj[j].prio
  <2> SUFFICES ASSUME NEW j \in Ready(d) PROVE obj'[j].prio = obj[j].prio
    OBVIOUS
  <2>1. CASE j \in Due(d)
    <3>1. j \in In(d, "eta")
      BY <2>1 DEF Due
    <3>2. obj[j] \in ChannelJob \cup {NoJob} /\ Placed(at[j], obj[j]) /\ j \in Job
      BY <3>1 DEF In, TypeOK, ChTypeOK, PlacedOnce
    <3>3. obj[j] \in ChannelJob
      BY <3>1, <3>2 DEF In, Placed
    <3>4. obj'[j] = [obj[j] EXCEPT !.eta = 0]
      BY <1>1, <2>1, <3>2 DEF EtaCleared
    <3>5. QED BY <3>3, <3>4
  <2>2. CASE j \notin Due(d)
    BY <1>1, <2>2 DEF EtaCleared, Ready, In
  <2>3. QED BY <2>1, <2>2
<1>7. CASE Ready(d) = {}
  BY <1>1, <1>3, <1>4, <1>5, <1>7 DEF Waits
<1>8. CASE Blocked(d)
  <2>1. PICK i \in Job, j \in Job : IsNextEta(d, i) /\ IsFirstReady(d, j) /\ Before(i, j)
    BY <1>8 DEF Blocked
  <2>2. d \in Sequential /\ i \in Later(d) /\ j \in Ready(d)
    BY <1>8, <2>1 DEF Blocked, IsNextEta, IsFirstReady
  <2>3. \A k \in Later(d) \ {i} : EtaBefore(i, k)'
    BY <1>5, <2>1, <2>2 DEF IsNextEta, EtaBefore, Before
  <2>4. \A k \in Ready(d) \ {j} : Before(j, k)'
    BY <1>6, <2>1, <2>2 DEF IsFirstReady, Before
  <2>5. Before(i, j)'
    BY <1>5, <1>6, <2>1, <2>2 DEF Before
  <2>6. Waits(d)'
    BY <1>3, <1>4, <2>2, <2>3, <2>4, <2>5 DEF Waits
  <2>7. QED BY <1>1, <1>3, <1>5, <2>6
<1>9. QED BY <1>1, <1>7, <1>8

\* A channel that the traversal leaves is settled.
LEMMA LeftSettled ==
  ASSUME TypeOK, PlacedOnce, NEW d \in Channel,
         pauseUntil[d] > 0 => Throttle[d] > 0,
         RunStep(d), turn' # turn
  PROVE  Settled(d)'
<1>0. /\ runNow \in Nat /\ pauseUntil[d] \in Nat /\ Throttle[d] \in Nat
      /\ pauseUntil \in [Channel -> Nat]
  BY Types DEF TypeOK, ChTypeOK
<1>1. CASE LeavePaused(d)
  BY <1>1 DEF LeavePaused, Paused, Settled
<1>2. CASE LeaveFull(d)
  BY <1>2 DEF LeaveFull, HasCapacity, In, Settled
<1>3. CASE LeaveEmpty(d)
  <2>1. pauseUntil'[d] = 0 /\ runNow' = runNow
    BY <1>0, <1>3 DEF LeaveEmpty, Unpaused
  <2>2. QED BY <1>3, <2>1, EmptyWaits DEF Settled
<1>4. ASSUME NEW j \in Job, Yield(d, j) PROVE Settled(d)'
  <2>1. Throttle[d] > 0 /\ runNow' = runNow
    BY <1>4 DEF Yield
  <2>2. pauseUntil'[d] = runNow + Throttle[d]
    BY <1>0, <1>4, <2>1 DEF Yield
  <2>3. QED BY <1>0, <2>1, <2>2 DEF Settled
<1>5. QED BY <1>1, <1>2, <1>3, <1>4 DEF RunStep

\* Before the armed time a closed channel yields nothing: it is left, and
\* what it holds does not change.
LEMMA ClosedStays ==
  ASSUME TypeOK, PlacedOnce, NEW d \in Channel,
         pauseUntil[d] > 0 => Throttle[d] > 0,
         RunStep(d), Closed(d), BeforeArmed, armed' = armed
  PROVE  /\ \A j \in Job : ~Yield(d, j)
         /\ HasCapacity(d)' = HasCapacity(d)
         /\ HasCapacity(d) => pauseUntil'[d] = pauseUntil[d]
         /\ Closed(d)'
<1>0. /\ runNow \in Nat /\ armed \in Nat /\ pauseUntil[d] \in Nat
      /\ pauseUntil \in [Channel -> Nat]
      /\ \A j \in In(d, "eta") : obj[j].eta \in Nat
  BY Types DEF TypeOK, ChTypeOK
<1>1. CASE ~HasCapacity(d)
  <2>1. LeavePaused(d) \/ LeaveFull(d)
    BY <1>1 DEF RunStep, LeaveEmpty, Yield
  <2>2. at' = at
    BY <2>1 DEF LeavePaused, LeaveFull
  <2>3. HasCapacity(d)' = HasCapacity(d)
    BY <2>2 DEF HasCapacity, In
  <2>4. QED BY <1>1, <2>3 DEF Yield, Closed
<1>2. CASE HasCapacity(d) /\ pauseUntil[d] > 0
  <2>1. Paused(d)
    BY <1>0, <1>2 DEF Closed, BeforeArmed, Paused
  <2>2. LeavePaused(d)
    BY <2>1 DEF RunStep, LeaveFull, LeaveEmpty, Yield
  <2>3. at' = at /\ obj' = obj /\ pauseUntil' = pauseUntil
    BY <2>2 DEF LeavePaused
  <2>4. HasCapacity(d)' = HasCapacity(d)
    BY <2>3 DEF HasCapacity, In
  <2>5. QED BY <1>0, <1>2, <2>1, <2>3, <2>4 DEF Closed, Yield
<1>3. CASE HasCapacity(d) /\ pauseUntil[d] = 0
  <2>1. Waits(d) /\ \A j \in In(d, "eta") : armed > 0 /\ armed <= obj[j].eta
    BY <1>0, <1>3 DEF Closed
  <2>2. Due(d) = {}
    BY <1>0, <2>1 DEF Due, BeforeArmed
  <2>3. Blocked(d) \/ Ready(d) = {}
    BY <2>1, <2>2, WaitsIsBlocked
  <2>4. \A j \in Job : ~Yield(d, j)
    BY <2>3 DEF Yield, IsFirstReady
  <2>5. LeaveEmpty(d)
    BY <1>0, <1>3, <2>4 DEF RunStep, LeavePaused, LeaveFull, Paused
  <2>6. at' = at /\ obj' = obj
    BY <2>2, <2>5, NothingDue DEF LeaveEmpty
  <2>7. pauseUntil'[d] = 0
    BY <1>0, <1>3, <2>5 DEF LeaveEmpty, Unpaused
  <2>8. HasCapacity(d)' = HasCapacity(d) /\ In(d, "eta")' = In(d, "eta")
    BY <2>6 DEF HasCapacity, In
  <2>9. Waits(d)'
    BY <2>1, <2>6 DEF Waits, In, Before, EtaBefore
  <2>10. QED BY <1>3, <2>1, <2>4, <2>6, <2>7, <2>8, <2>9 DEF Closed
<1>4. QED BY <1>0, <1>1, <1>2, <1>3

-----------------------------------------------------------------------------
(* The whole tree                                                          *)

\* A step visits no channel anew before the armed time: what shuts a branch
\* off is a channel that is full or paused, and both stay so.
LEMMA NoneOpened ==
  ASSUME TypeOK, PlacedOnce, NEW d \in Channel, RunStep(d), BeforeArmed, armed' = armed,
         \A c \in Channel : pauseUntil[c] > 0 => Throttle[c] > 0,
         \A c \in Channel : Visited(c) => Closed(c),
         NEW c \in Channel, Visited(c)'
  PROVE  Visited(c)
<1>1. Above(c) \subseteq Channel
  BY UpFacts DEF Above
<1>2. \A e \in Above(c) : e # d => HasCapacity(e) /\ pauseUntil[e] = 0
  BY <1>1, Frame DEF Visited
<1>3. CASE d \notin Above(c)
  BY <1>2, <1>3 DEF Visited
<1>4. CASE d \in Above(c)
  <2>1. Above(d) \subseteq Above(c) \ {d}
    BY <1>4, UpFacts DEF Above
  <2>2. Visited(d)
    BY <1>2, <2>1 DEF Visited
  <2>3. HasCapacity(d)' /\ pauseUntil'[d] = 0
    BY <1>4 DEF Visited
  <2>4. HasCapacity(d)' = HasCapacity(d) /\ (HasCapacity(d) => pauseUntil'[d] = pauseUntil[d])
    BY <2>2, ClosedStays
  <2>5. QED BY <1>2, <2>3, <2>4 DEF Visited
<1>5. QED BY <1>3, <1>4

LEMMA AllStayClosed ==
  ASSUME TypeOK, PlacedOnce, NEW d \in Channel, RunStep(d), BeforeArmed, armed' = armed,
         \A c \in Channel : pauseUntil[c] > 0 => Throttle[c] > 0,
         \A c \in Channel : Visited(c) => Closed(c)
  PROVE  \A c \in Channel : Visited(c)' => Closed(c)'
<1> SUFFICES ASSUME NEW c \in Channel, Visited(c)' PROVE Closed(c)'
  OBVIOUS
<1>0. Visited(c) /\ Closed(c)
  BY NoneOpened
<1>1. CASE c = d
  BY <1>0, <1>1, ClosedStays
<1>2. CASE c # d
  <2>1. /\ HasCapacity(c)' = HasCapacity(c)
        /\ pauseUntil'[c] = pauseUntil[c]
        /\ \/ In(c, "queue")' = In(c, "queue")
           \/ c \in Parents(d) /\ \E j \in Job : Yield(d, j)
    BY <1>2, Frame
  <2>2. CASE ~HasCapacity(c) \/ (pauseUntil[c] > 0 /\ armed > 0 /\ armed <= pauseUntil[c])
    BY <2>1, <2>2 DEF Closed
  <2>3. CASE /\ HasCapacity(c) /\ pauseUntil[c] = 0 /\ Waits(c)
             /\ \A j \in In(c, "eta") : armed > 0 /\ armed <= obj[j].eta
    <3>1. In(c, "queue")' = In(c, "queue")
      <4> SUFFICES ASSUME c \in Parents(d), \E j \in Job : Yield(d, j) PROVE FALSE
        BY <2>1
      <4>1. Above(d) \subseteq Above(c) \cup {c}
        BY DEF Parents, Above
      <4>2. Visited(d)
        BY <1>0, <2>3, <4>1 DEF Visited
      <4>3. QED BY <4>2, ClosedStays
    <3>2. Waits(c)' /\ \A j \in In(c, "eta")' : obj'[j] = obj[j]
      BY <1>2, <2>3, <3>1, SameWaits
    <3>3. In(c, "eta")' = In(c, "eta")
      BY <1>2, Frame
    <3>4. QED BY <2>1, <2>3, <3>2, <3>3 DEF Closed
  <2>4. QED BY <1>0, <2>2, <2>3 DEF Closed
<1>3. QED BY <1>1, <1>2

\* A settled channel stays settled in the rest of the run: only the channels
\* below it put jobs in its queue, and they come first.
LEMMA StaysSettled ==
  ASSUME TypeOK, PlacedOnce, NEW d \in Channel, RunStep(d), Here(d),
         NEW i \in DOMAIN Order, i < turn, Settled(Order[i])
  PROVE  Settled(Order[i])'
<1> DEFINE c == Order[i]
<1>0. /\ c \in Channel /\ turn \in DOMAIN Order /\ d = Order[turn]
      /\ i \in Nat /\ turn \in Nat
  BY OrderFacts DEF Here
<1>1. c \notin Parents(d) /\ c # d
  <2>1. c \notin Up[d]
    BY <1>0, ChildrenFirst
  <2>2. QED BY <2>1, UpFacts DEF Parents, Above
<1> HIDE DEF c
<1>2. /\ HasCapacity(c)' = HasCapacity(c)
      /\ pauseUntil'[c] = pauseUntil[c]
      /\ In(c, "eta")' = In(c, "eta")
      /\ In(c, "queue")' = In(c, "queue")
  BY <1>0, <1>1, Frame
<1>3. /\ Waits(c) => Waits(c)'
      /\ \A j \in In(c, "eta")' : obj'[j] = obj[j]
  BY <1>0, <1>1, <1>2, SameWaits
<1>4. runNow' = runNow
  BY DEF RunStep, LeavePaused, LeaveFull, LeaveEmpty, Yield
<1>5. Settled(c) => Settled(c)'
  BY <1>2, <1>3, <1>4 DEF Settled
<1>6. QED BY <1>5 DEF c

-----------------------------------------------------------------------------
(* The invariant                                                           *)

LEMMA WInit == Init => WInv
BY DEF Init, ChInit, WInv

\* Settled channels are closed by the time get_wakeup_time computes from them,
\* and that time is ahead of the run.
LEMMA WakeupCloses ==
  ASSUME TypeOK, PlacedOnce, \A c \in Channel : Settled(c), WaitNotification
  PROVE  \A c \in Channel : Visited(c)' => Closed(c)'
<1>1. PICK t \in WakeupTimes \cup {0} : IsWakeupTime(t) /\ armed' = t
  BY DEF WaitNotification
<1>2. UNCHANGED <<at, obj, pauseUntil, runNow>>
  BY DEF WaitNotification, chvars
<1>3. WakeupTimes \subseteq Nat \ {0} /\ runNow \in Nat
  <2> SUFFICES ASSUME NEW c \in Channel, Visited(c), HasCapacity(c)
               PROVE  /\ pauseUntil[c] > 0 => pauseUntil[c] \in Nat \ {0}
                      /\ ~(pauseUntil[c] > 0) => \A j \in In(c, "eta") : obj[j].eta \in Nat \ {0}
    BY Types DEF WakeupTimes
  <2>1. runNow \in Nat /\ pauseUntil[c] \in Nat /\ \A j \in In(c, "eta") : obj[j].eta \in Nat
    BY Types
  <2>2. Settled(c)
    OBVIOUS
  <2>3. QED BY <2>1, <2>2 DEF Settled
<1>4. SUFFICES ASSUME NEW c \in Channel, Visited(c), HasCapacity(c) PROVE Closed(c)'
  BY <1>2 DEF Visited, HasCapacity, In, Closed
<1>5. Settled(c) /\ pauseUntil[c] \in Nat /\ \A j \in In(c, "eta") : obj[j].eta \in Nat
  BY Types
<1>6. CASE pauseUntil[c] > 0
  <2>1. pauseUntil[c] \in WakeupTimes
    BY <1>4, <1>6 DEF WakeupTimes
  <2>2. t \in WakeupTimes /\ t <= pauseUntil[c]
    BY <1>1, <2>1 DEF IsWakeupTime
  <2>3. QED BY <1>1, <1>2, <1>3, <1>6, <2>2 DEF Closed
<1>7. CASE ~(pauseUntil[c] > 0)
  <2>1. pauseUntil[c] = 0 /\ Waits(c)
    BY <1>3, <1>4, <1>5, <1>7 DEF Settled
  <2>2. \A j \in In(c, "eta") : obj[j].eta \in WakeupTimes
    BY <1>4, <1>7 DEF WakeupTimes
  <2>3. \A j \in In(c, "eta") : t > 0 /\ t <= obj[j].eta
    BY <1>1, <1>3, <2>2 DEF IsWakeupTime
  <2>4. Waits(c)'
    BY <1>2, <2>1 DEF Waits, In, Before, EtaBefore
  <2>5. QED BY <1>1, <1>2, <2>1, <2>3, <2>4 DEF Closed, In
<1>8. QED BY <1>6, <1>7

\* One step of the traversal.
LEMMA WRun ==
  ASSUME TypeOK, PlacedOnce, WInv, phase = "run", NEW d \in Channel, RunStep(d),
         phase' = (IF turn' = 0 THEN "sleep" ELSE "run"), UNCHANGED <<armed, quiet>>
  PROVE  WInv'
<1>0. /\ \A c \in Channel : pauseUntil[c] > 0 => Throttle[c] > 0
      /\ turn > 0 /\ \A i \in DOMAIN Order : i < turn => Settled(Order[i])
      /\ quiet /\ BeforeArmed => \A c \in Channel : Visited(c) => Closed(c)
  BY DEF WInv
<1>1. \A c \in Channel : pauseUntil'[c] > 0 => Throttle[c] > 0
  BY <1>0 DEF RunStep, LeavePaused, LeaveFull, LeaveEmpty, Yield, Unpaused, TypeOK, ChTypeOK
<1>2. Here(d) /\ runNow' = runNow /\ (turn' = turn \/ Leave)
  BY Zenon DEF RunStep, LeavePaused, LeaveFull, LeaveEmpty, Yield
<1>3. turn \in DOMAIN Order /\ d = Order[turn] /\ Len(Order) \in Nat /\ turn \in 1..Len(Order)
  BY <1>2, OrderFacts DEF Here
<1>4. \A i \in DOMAIN Order : i < turn => Settled(Order[i])'
  BY <1>0, <1>2, StaysSettled
<1>5. turn' # turn => Settled(d)'
  BY <1>0, LeftSettled
<1>6. ASSUME turn' # 0 PROVE turn' > 0 /\ \A i \in DOMAIN Order : i < turn' => Settled(Order[i])'
  <2>1. CASE turn' = turn
    BY <1>3, <1>4, <2>1
  <2>2. CASE turn' = turn + 1
    <3>1. ASSUME NEW i \in DOMAIN Order, i < turn' PROVE Settled(Order[i])'
      <4>1. i \in Nat /\ (i < turn \/ i = turn)
        BY <1>3, <2>2, <3>1, OrderFacts
      <4>2. CASE i < turn
        BY <1>4, <4>2
      <4>3. CASE i = turn
        BY <1>3, <1>5, <2>2, <4>3
      <4>4. QED BY <4>1, <4>2, <4>3
    <3>2. QED BY <1>3, <2>2, <3>1
  <2>3. QED BY <1>2, <1>6, <2>1, <2>2 DEF Leave
<1>7. ASSUME turn' = 0, NEW c \in Channel PROVE Settled(c)'
  <2>1. turn = Len(Order)
    BY <1>2, <1>3, <1>7 DEF Leave
  <2>2. PICK i \in DOMAIN Order : Order[i] = c
    BY OrderAssumption
  <2>3. i \in Nat /\ (i < turn \/ i = turn)
    BY <2>1, <2>2, <1>3, OrderFacts
  <2>4. CASE i < turn
    BY <1>4, <2>2, <2>4
  <2>5. CASE i = turn
    BY <1>3, <1>5, <1>7, <2>2, <2>5
  <2>6. QED BY <2>3, <2>4, <2>5
<1>8. quiet' /\ BeforeArmed' => \A c \in Channel : Visited(c)' => Closed(c)'
  <2>1. BeforeArmed' = BeforeArmed /\ quiet' = quiet /\ armed' = armed
    BY <1>2 DEF BeforeArmed
  <2>2. QED BY <1>0, <2>1, AllStayClosed
<1>9. QED BY <1>1, <1>6, <1>7, <1>8 DEF WInv

LEMMA WStep == IInv /\ Spaced /\ WInv /\ [Next]_vars => WInv'
<1> SUFFICES ASSUME IInv, Spaced, WInv, [Next]_vars PROVE WInv'
  OBVIOUS
<1>0. TypeOK /\ PlacedOnce /\ runNow \in Nat /\ clock \in Nat /\ armed \in Nat
  BY Types DEF IInv
<1>1. CASE ProcessNotification \/ CloseDatabases
  <2>1. pauseUntil' = pauseUntil /\ phase' = "notify" /\ quiet' = FALSE
    BY <1>1 DEF ProcessNotification, CloseDatabases, Notify, RemoveJob, RemoveDb
  <2>2. QED BY <2>1 DEF WInv
<1>2. CASE RunJobs
  <2>1. /\ turn' = 1 /\ runNow' = clock /\ phase' = "run"
        /\ UNCHANGED <<at, obj, pauseUntil, armed, quiet>>
    BY <1>2 DEF RunJobs, StartRun
  <2>2. BeforeArmed' => BeforeArmed
    BY <1>0, <2>1 DEF BeforeArmed, Spaced
  <2>3. ASSUME NEW c \in Channel PROVE Visited(c)' = Visited(c) /\ Closed(c)' = Closed(c)
    BY <2>1 DEF Visited, Closed, HasCapacity, In, Waits, EtaBefore, Before
  <2>4. \A i \in DOMAIN Order : ~(i < turn')
    BY <2>1, OrderFacts
  <2>5. QED BY <2>1, <2>2, <2>3, <2>4 DEF WInv
<1>3. CASE Run
  <2>1. PICK d \in Channel : RunStep(d)
    BY <1>3 DEF Run, RunStep
  <2>2. phase = "run" /\ phase' = (IF turn' = 0 THEN "sleep" ELSE "run")
        /\ UNCHANGED <<armed, quiet>>
    BY <1>3 DEF Run
  <2>3. QED BY <1>0, <2>1, <2>2, WRun
<1>4. CASE WaitNotification
  <2>1. phase = "sleep" /\ phase' = "notify" /\ UNCHANGED pauseUntil
    BY <1>4 DEF WaitNotification, chvars
  <2>2. \A c \in Channel : Settled(c)
    BY <2>1 DEF WInv
  <2>3. \A c \in Channel : Visited(c)' => Closed(c)'
    BY <1>0, <1>4, <2>2, WakeupCloses
  <2>4. QED BY <2>1, <2>3 DEF WInv
<1>5. CASE Tick \/ UNCHANGED vars
  <2>1. UNCHANGED <<at, obj, pauseUntil, runNow, turn, phase, armed, quiet>>
    BY <1>5 DEF Tick, vars, chvars
  <2>2. ASSUME NEW c \in Channel
        PROVE  /\ Visited(c)' = Visited(c) /\ Closed(c)' = Closed(c)
               /\ Settled(c)' = Settled(c)
    BY <2>1 DEF Visited, Closed, Settled, HasCapacity, In, Waits, EtaBefore, Before
  <2>3. \A i \in DOMAIN Order : Settled(Order[i])' = Settled(Order[i])
    BY <2>2, OrderFacts
  <2>4. BeforeArmed' = BeforeArmed
    BY <2>1 DEF BeforeArmed
  <2>5. QED BY <2>1, <2>2, <2>3, <2>4 DEF WInv
<1>6. QED BY <1>1, <1>2, <1>3, <1>4, <1>5 DEF Next

\* The runner sleeps exactly as long as it may, for any tree of channels: a
\* run before the time that get_wakeup_time gave yields no job unless rows
\* were notified, so sleeping until then delays none; and that time is ahead
\* of the run it follows, so the runner does not spin.
THEOREM SleepIsRight == Spec => WakeupIsRight
<1> DEFINE NotLate == quiet /\ Yields(Root) => armed > 0 /\ armed <= runNow
<1>1. IInv /\ WInv /\ [Next]_vars => [NotLate]_vars
  <2> SUFFICES ASSUME IInv, WInv, [Next]_vars, quiet, Yields(Root)
               PROVE  armed > 0 /\ armed <= runNow
    OBVIOUS
  <2>0. TypeOK /\ PlacedOnce /\ armed \in Nat /\ runNow \in Nat /\ Root \in Channel
    BY Types, TreeAssumption DEF IInv
  <2>1. at' # at /\ phase = "run"
    BY DEF Yields
  <2>2. Run
    BY <2>1 DEF Next, vars, chvars, ProcessNotification, CloseDatabases, RunJobs, StartRun,
                WaitNotification, Tick
  <2>3. PICK c \in Channel : RunStep(c)
    BY <2>2 DEF Run, RunStep
  <2>4. c = Root
    BY <2>0, <2>3, YieldsInTurn DEF RunStep
  <2>5. \E j \in Job : Yield(Root, j)
    BY <2>0, <2>3, <2>4, YieldsInTurn DEF RunStep
  <2>6. Visited(Root)
    <3>1. Above(Root) = {}
      BY TreeAssumption DEF Above
    <3>2. QED BY <3>1 DEF Visited
  <2>7. armed' = armed /\ (pauseUntil[Root] > 0 => Throttle[Root] > 0)
    BY <2>0, <2>2 DEF Run, WInv
  <2>8. ASSUME BeforeArmed PROVE FALSE
    <3>1. Closed(Root)
      BY <2>0, <2>6, <2>8 DEF WInv
    <3>2. QED BY <2>0, <2>3, <2>4, <2>5, <2>7, <2>8, <3>1, ClosedStays
  <2>9. QED BY <2>0, <2>8 DEF BeforeArmed
<1>2. IInv /\ WInv => NoBusyWait
  <2> SUFFICES ASSUME IInv, WInv, phase = "sleep", NEW c \in Channel, Visited(c), HasCapacity(c)
               PROVE  /\ pauseUntil[c] > 0 => pauseUntil[c] > runNow
                      /\ ~(pauseUntil[c] > 0) => \A j \in In(c, "eta") : obj[j].eta > runNow
    BY DEF NoBusyWait, WakeupTimes
  <2>1. runNow \in Nat /\ pauseUntil[c] \in Nat
    BY Types DEF IInv
  <2>2. Settled(c)
    BY DEF WInv
  <2>3. QED BY <2>1, <2>2 DEF Settled
<1>3. QED
  BY InitInv, StepInv, SpacedInit, SpacedStep, WInit, WStep, <1>1, <1>2, PTL
     DEF Spec, WakeupIsRight, WakeupNotLate
=============================================================================
