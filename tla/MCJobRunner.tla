---------------------------- MODULE MCJobRunner ----------------------------
(***************************************************************************)
(* Small instances of JobRunner.                                           *)
(***************************************************************************)
EXTENDS JobRunner, TLC

OneJob == 1..1
TwoJobs == 1..2
ThreeJobs == 1..3
OnePrio == {1}

\* one channel, root:1
OneChannel == {"root"}
OneUp == [c \in OneChannel |-> OneChannel]
OneOrder == <<"root">>
OneCapacity == [c \in OneChannel |-> 1]
OneThrottle == [c \in OneChannel |-> 0]
InRoot == [j \in Job |-> "root"]

\* root:2 and a sequential child
TwoChannels == {"root", "seq"}
TwoUp == [c \in TwoChannels |-> {"root", c}]
TwoOrder == <<"seq", "root">>
TwoCapacity == [c \in TwoChannels |-> IF c = "root" THEN 2 ELSE 1]
TwoThrottle == [c \in TwoChannels |-> 0]
SeqOnly == {"seq"}
InSeq == [j \in Job |-> "seq"]

NoSequential == {}
RootSequential == {"root"}
SamePrio == [j \in Job |-> 1]
NoDepends == [j \in Job |-> {}]
Singles == {{j} : j \in Job}
\* job 3 depends on jobs 1 and 2
Join == [j \in Job |-> IF j = 3 THEN {1, 2} ELSE {}]
Whole == {Job}

NoEta == {0}
OneCall == {"k1"}
\* calls are slots, any of which may be taken
CallSymmetry == Permutations(Call)
NoOps == {}
RequeueOps == {"requeue"}
CancelOps == {"cancel"}
AllOps == {"requeue", "done", "cancel", "vacuum"}
NotStarted == State \ {"started", "done"}
NoStates == {}
FailedOnly == {"failed"}
=============================================================================
