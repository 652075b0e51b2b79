--------------------------- MODULE ChannelConfig ---------------------------
(* The tree of channels: built once from the configuration string of the    *)
(* runner, then grown by every lookup of a channel that jobs name and that  *)
(* does not exist.  A name, or a full name, is the sequence of its parts;   *)
(* paths leave the root out.                                                *)
EXTENDS Naturals, Sequences, FiniteSets, SequencesExt

CONSTANTS
    Entries,         \* the entries a configuration string may have
    MaxEntries,      \* how many it has at most
    JobNames         \* the channel names of jobs

VARIABLES
    config,          \* the entries of the string
    done,            \* how many of them have been applied
    channels,        \* _channels_by_name: path -> settings
    refused,         \* a ValueError has ended the configuration
    answer           \* what each name of a job was last resolved to

configVars == <<config, done, channels, refused, answer>>

-----------------------------------------------------------------------------
(* An entry "name:capacity:item:..." is a record [name, capacity, items]; the *)
(* capacity is a text that may be absent or no number, an item is a pair      *)
(* <<key, value>> whose value is "bare" if there is no "=", "two" if there    *)
(* are two.                                                                   *)

Unlimited == "None"
Root == <<>>
Default == [capacity |-> Unlimited, sequential |-> FALSE, throttle |-> "0"]
IsNumber(text) == text \in {"0", "1", "2", "3"}

ASSUME ChannelConfigAssumption ==
    /\ MaxEntries \in Nat
    /\ \A e \in Entries : e.capacity = "absent" => e.items = <<>>
    /\ \A n \in JobNames \cup {e.name : e \in Entries} : n \in Seq(Range(n))

Keys(e) == {e.items[i][1] : i \in DOMAIN e.items} \cup {"name", "capacity"}

\* parse_simple_config accepts the entry.  Without a capacity there is no item.
Parses(e) ==
    /\ e.name # <<>>
    /\ e.capacity = "absent" \/ IsNumber(e.capacity)
    /\ \A i \in DOMAIN e.items : e.items[i][2] # "two"
    /\ Cardinality(Keys(e)) = Len(e.items) + 2

Item(e, key, absent) ==
    IF \E i \in DOMAIN e.items : e.items[i][1] = key
    THEN (CHOOSE it \in Range(e.items) : it[1] = key)[2]
    ELSE absent

\* Mutant of Settings: a channel has no capacity unless it is given one.
Settings_NoDefault(e) ==
    [capacity   |-> e.capacity,
     sequential |-> Item(e, "sequential", "absent") # "absent",
     throttle   |-> LET t == Item(e, "throttle", "0") IN IF t = "bare" THEN "1" ELSE t]

\* Any text is true, "false" too; a bare throttle is one second.
Settings(e) ==
    [capacity   |-> IF e.capacity = "absent" THEN "1" ELSE e.capacity,
     sequential |-> Item(e, "sequential", "absent") # "absent",
     throttle   |-> LET t == Item(e, "throttle", "0") IN IF t = "bare" THEN "1" ELSE t]

-----------------------------------------------------------------------------
(* Lookups *)

Path(name) == IF name # <<>> /\ Head(name) = "root" THEN Tail(name) ELSE name

Proper(p) == Prefixes(p) \ {p, Root}

\* Mutant of Base: the first ancestor from the root on.
Base_Top(p) ==
    LET known == Proper(p) \cap DOMAIN channels IN
    IF known = {} THEN Root
    ELSE CHOOSE b \in known : \A k \in known : Len(b) <= Len(k)

\* The nearest known ancestor, where a job's channel is created.
Base(p) ==
    LET known == Proper(p) \cap DOMAIN channels IN
    IF known = {} THEN Root
    ELSE CHOOSE b \in known : \A k \in known : Len(k) <= Len(b)

\* All the parts of the name are created below the base, those the base
\* already has too: below root.sub, root.sub.x becomes root.sub.sub.x.
ChannelOf(p, fallback) ==
    IF p \in DOMAIN channels THEN p
    ELSE IF fallback THEN Base(p) \o p ELSE p

Created(p, fallback) == Prefixes(ChannelOf(p, fallback))

\* get_channel_by_name
WithChannel(p, fallback) ==
    [q \in DOMAIN channels \cup Created(p, fallback) |->
        IF q \in DOMAIN channels THEN channels[q] ELSE Default]

-----------------------------------------------------------------------------
ConfigInit ==
    /\ config \in BoundedSeq(Entries, MaxEntries)
    /\ done = 0 /\ refused = FALSE /\ answer = <<>>
    /\ channels = [p \in {Root} |-> [Default EXCEPT !.capacity = "1"]]

Parsed == \A i \in DOMAIN config : Parses(config[i])

\* Nothing is configured if any entry of the string is wrong.
ParseFails ==
    /\ ~Parsed /\ ~refused /\ refused' = TRUE
    /\ UNCHANGED <<config, done, channels, answer>>

\* configure(): the throttle is set last.
Configure(old, new) ==
    [new EXCEPT !.throttle = IF IsNumber(@) THEN @ ELSE old.throttle]

\* get_channel_from_config; the error comes when the fields are set.
ConfigureNext ==
    LET e == config[done + 1]
        p == Path(e.name)
    IN
    /\ Parsed /\ ~refused /\ done < Len(config)
    /\ done' = done + 1
    /\ LET s == Settings(e) IN
       /\ refused' = (~IsNumber(s.throttle) \/ (s.sequential /\ s.capacity # "1"))
       /\ channels' = [WithChannel(p, FALSE) EXCEPT ![p] = Configure(@, s)]
    /\ UNCHANGED <<config, answer>>

Ready == done = Len(config) /\ ~refused

\* notify() of a job
Resolve(name) ==
    /\ Ready
    /\ channels' = WithChannel(Path(name), TRUE)
    /\ answer' = [n \in DOMAIN answer \cup {name} |->
                      IF n = name THEN ChannelOf(Path(name), TRUE) ELSE answer[n]]
    /\ UNCHANGED <<config, done, refused>>

ConfigNext ==
    \/ ParseFails
    \/ ConfigureNext
    \/ \E name \in JobNames : Resolve(name)

ConfigSpec == ConfigInit /\ [][ConfigNext]_configVars

-----------------------------------------------------------------------------
(* Properties *)

Paths == {Path(e.name) : e \in Entries}
Configured == {Path(config[i].name) : i \in DOMAIN config}

ConfigTypeOK ==
    /\ config \in BoundedSeq(Entries, MaxEntries)
    /\ done \in 0..Len(config)
    /\ refused \in BOOLEAN
    /\ Root \in DOMAIN channels
    /\ \A p \in DOMAIN channels :
        /\ Prefixes(p) \subseteq DOMAIN channels
        /\ channels[p] \in [capacity: {Unlimited, "0", "1", "2", "3"},
                            sequential: BOOLEAN, throttle: {"0", "1", "2", "3"}]
    /\ DOMAIN answer \subseteq JobNames
    /\ \A name \in DOMAIN answer : answer[name] \in DOMAIN channels

\* Once the string has been applied, each channel has what its last entry
\* asks for, whatever the order of entries for parents and children, and all
\* others are unlimited; no lookup of jobs changes that (configure,
\* get_channel_by_name).
AsConfigured ==
    Ready =>
        \A p \in DOMAIN channels :
            channels[p] =
                IF p \in Configured
                THEN LET last == CHOOSE i \in DOMAIN config :
                             /\ Path(config[i].name) = p
                             /\ \A k \in DOMAIN config : Path(config[k].name) = p => k <= i
                     IN Settings(config[last])
                ELSE IF p = Root THEN [Default EXCEPT !.capacity = "1"] ELSE Default

\* A job never escapes a limit: every configured channel above the name the
\* job gives is above the channel it gets, however the jobs before it have
\* grown the tree (the fallback of get_channel_by_name).
LimitsHold ==
    \A name \in DOMAIN answer : \A p \in Configured :
        p \in Prefixes(Path(name)) => p \in Prefixes(answer[name])

\* A name without a repeated part is resolved to the same channel for ever, so
\* that notify does not move its jobs about.  It fails for root.a.a.b when
\* root.a is configured: the channels made for the first job are found as
\* ancestors for the second.
KeepsAnswers ==
    \A name \in DOMAIN answer : IsInjective(Path(name)) => answer'[name] = answer[name]
SameChannel == [][KeepsAnswers]_configVars

\* A job is kept in the channels it was configured for: at first, and however
\* many names are looked up after it.
JobsKeepChannels == [][AsConfigured' /\ LimitsHold']_configVars /\ SameChannel
=============================================================================
