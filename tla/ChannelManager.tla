--------------------------- MODULE ChannelManager ---------------------------
(***************************************************************************)
(* The channels of queue_job driven as the job runner drives them: rows of *)
(* any content are notified in any order, then get_jobs_to_run is drained, *)
(* then the wakeup time is asked for and the runner sleeps.                *)
(***************************************************************************)
EXTENDS Channels

CONSTANTS Clock,    \* the instants of the model, an interval from 1
          Etas,     \* the etas of the notified rows, 0 for none
          Config    \* the channels rows may name

\* Rows name channels of the tree: get_channel_by_name creates the missing
\* ones with the defaults of a new channel, the model has them from the start.
ASSUME ClockAssumption ==
  /\ Clock \subseteq Nat \ {0} /\ Etas \subseteq Nat
  /\ Config \subseteq Channel

State == {"wait_dependencies", "pending", "enqueued", "started", "done",
          "cancelled", "failed"}

VARIABLES
  phase,      \* "notify", "run", "sleep": the three calls of run()'s loop
  clock,      \* the current time
  armed,      \* what get_wakeup_time returned when the runner went to sleep
  quiet,      \* history: no notification since the runner went to sleep
  lastYield   \* history: when each channel last yielded a job; 0 if never

vars == <<chvars, phase, clock, armed, quiet, lastYield>>

Init ==
  /\ ChInit
  /\ phase = "notify" /\ clock = 1 /\ armed = 0
  /\ quiet = FALSE
  /\ lastYield = [c \in Channel |-> 0]

Row == [chan : Config, prio : Prio, eta : Etas]

ProcessNotification ==
  /\ phase = "notify"
  /\ \E j \in Job :
       \/ \E row \in Row, s \in State : Notify(j, row, s)
       \/ RemoveJob(j)
  /\ quiet' = FALSE
  /\ UNCHANGED <<phase, clock, armed, lastYield>>

CloseDatabases ==   \* error recovery of the runner
  /\ phase = "notify"
  /\ RemoveDb
  /\ quiet' = FALSE
  /\ UNCHANGED <<phase, clock, armed, lastYield>>

RunJobs ==
  /\ phase = "notify" /\ phase' = "run"
  /\ StartRun(clock)
  /\ UNCHANGED <<clock, armed, quiet, lastYield>>

Run ==
  /\ phase = "run" /\ turn > 0
  /\ \E c \in Channel :
       \/ /\ \E j \in Job : Yield(c, j)
          /\ lastYield' = [lastYield EXCEPT ![c] = runNow]
       \/ /\ LeavePaused(c) \/ LeaveFull(c) \/ LeaveEmpty(c)
          /\ UNCHANGED lastYield
  /\ phase' = IF turn' = 0 THEN "sleep" ELSE "run"
  /\ UNCHANGED <<clock, armed, quiet>>

WaitNotification ==
  /\ phase = "sleep" /\ phase' = "notify"
  /\ \E t \in WakeupTimes \cup {0} : IsWakeupTime(t) /\ armed' = t
  /\ quiet' = TRUE
  /\ UNCHANGED <<chvars, clock, lastYield>>

Tick ==
  /\ clock + 1 \in Clock
  /\ clock' = clock + 1
  /\ UNCHANGED <<chvars, phase, armed, quiet, lastYield>>

Next == \/ ProcessNotification \/ CloseDatabases \/ RunJobs \/ Run
        \/ WaitNotification \/ Tick

Spec == Init /\ [][Next]_vars

-----------------------------------------------------------------------------
TypeOK ==
  /\ ChTypeOK
  /\ phase \in {"notify", "run", "sleep"}
  /\ clock \in Nat /\ armed \in Nat
  /\ quiet \in BOOLEAN
  /\ lastYield \in [Channel -> Nat]

Yields(c) == /\ phase = "run"
             /\ \E j \in Job : /\ "running" \notin at[j][c]
                              /\ "running" \in at'[j][c]

\* The wakeup time is never late: as long as no notification comes in, a
\* call of get_jobs_to_run before the armed wakeup time yields no job, so a
\* runner that sleeps until then (for ever when there is none) misses none.
WakeupNotLate ==
  [][quiet /\ Yields(Root) => armed > 0 /\ armed <= runNow]_vars

\* The wakeup time is never in the past of the run that has just finished,
\* or the runner would spin on select() with a zero timeout.
NoBusyWait ==
  phase = "sleep" => \A t \in WakeupTimes : t > runNow

\* Two jobs of a throttled channel are yielded at least Throttle seconds
\* apart, whatever is notified, removed or run in between.
ThrottleSpacing ==
  [][\A c \in Channel : Yields(c) /\ Throttle[c] > 0 /\ lastYield[c] > 0
       => runNow >= lastYield[c] + Throttle[c]]_vars


\* The runner wakes up when it has to, and not before.
WakeupIsRight == WakeupNotLate /\ []NoBusyWait
=============================================================================
