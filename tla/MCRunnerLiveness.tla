-------------------------- MODULE MCRunnerLiveness --------------------------
(* Liveness of the runner: with one database and its channels in full, and  *)
(* as a service of several databases that the server starts and stops.  One *)
(* of the two models moves, the other stays as it began.                    *)
EXTENDS MCJobRunner, RunnerService

CONSTANTS d1, d2, u1, u2
VARIABLE focus

allVars == <<focus, vars, serviceVars>>

MCNames == <<d1, d2>>

Rows(a, b) == (d1 :> (u1 :> a[1] @@ u2 :> a[2])) @@ (d2 :> (u1 :> b[1] @@ u2 :> b[2]))
NoRows == Rows(<<"none", "none">>, <<"none", "none">>)

\* A job in each database; jobs of one, the other is empty.
MCTables == {NoRows, Rows(<<"pending", "none">>, <<"none", "sent">>),
             Rows(<<"none", "none">>, <<"pending", "none">>)}

MCInit ==
    /\ focus \in {"jobs", "service"}
    /\ Init /\ ServiceInit
    /\ focus = "jobs" => table = NoRows /\ prefork

InJobs(A) == focus = "jobs" /\ A /\ UNCHANGED <<focus, serviceVars>>
InService(A) == focus = "service" /\ A /\ UNCHANGED <<focus, vars>>

MCNext == InJobs(Next) \/ InService(ServiceNext)

\* The fairness of both, for the one that moves.
MCFairness ==
    /\ WF_allVars(InJobs(Runner)) /\ WF_allVars(InJobs(Tick))
    /\ \A k \in Call :
           /\ WF_allVars(InJobs(ClientEnd(k) \/ ClientReply(k)))
           /\ WF_allVars(InJobs(Begin(k))) /\ WF_allVars(InJobs(Perform(k)))
    /\ \A j \in Job : WF_allVars(InJobs(RequeueStuckJobs(j)))
    /\ WF_allVars(InService(StartRunner)) /\ WF_allVars(InService(StopEnds))
    /\ WF_allVars(InService(StopTimeout)) /\ WF_allVars(InService(RunnerStep))

MCSpec == MCInit /\ [][MCNext]_allVars /\ MCFairness
=============================================================================
