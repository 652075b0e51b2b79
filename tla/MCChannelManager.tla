------------------------- MODULE MCChannelManager -------------------------
(***************************************************************************)
(* Small channel trees for ChannelManager.                                 *)
(***************************************************************************)
EXTENDS ChannelManager

\* a throttled root of capacity 1 and a sequential, throttled child; two jobs
MCJobs == 1..2
MCChannels == {"root", "sub"}
MCUp == [c \in MCChannels |-> IF c = "root" THEN {"root"} ELSE {"root", "sub"}]
MCOrder == <<"sub", "root">>
MCCapacity == [c \in MCChannels |-> 1]
MCThrottle == [c \in MCChannels |-> IF c = "root" THEN 2 ELSE 1]
MCSequential == {"sub"}
MCPrio == {1}
MCClock == 1..3
MCEtas == {0, 2}
=============================================================================
