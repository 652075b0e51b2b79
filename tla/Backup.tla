------------------------------ MODULE Backup ------------------------------
(* Automatic database backups (auto_database_backup): records that say what *)
(* to dump, where to store it and when to remove it, the users who activate *)
(* them, and the crons, one per frequency, that back up their records one   *)
(* after the other in a single database transaction.  Files outlive that    *)
(* transaction, whatever becomes of it.                                     *)
EXTENDS Integers, Sequences

CONSTANTS
    Records,     \* configuration records: positive integers, backed up in this order
    Crons,       \* frequencies, each with a cron of its own
    Folders,     \* places to store files
    Confs,       \* the configurations of all records a run begins with
    NewDests,    \* destinations a user may change to
    MaxAge,      \* ages of files are counted in half days up to this bound
    MaxFaults    \* how often a dump, a service or the server may fail, or a
                 \* user change a destination

VARIABLES
    conf,        \* the configuration of each record
    active,      \* records the crons back up
    hideActive,  \* records whose field active may be toggled by hand
    token,       \* token[r]: the services r has tokens of
    edited,      \* records whose destination was changed after the start
    folder,      \* the files in each folder
    ever,        \* folders that held a backup that can be restored
    half,        \* the half of the day
    due,         \* crons whose time has come
    cron,        \* where each cron is
    told,        \* the last mail about the present or last turn of a record
    faults

vars == <<conf, active, hideActive, token, edited, folder, ever, half, due,
          cron, told, faults>>
settings == <<conf, active, hideActive, token, edited>>

-----------------------------------------------------------------------------
OAuth == {"google_drive", "onedrive", "dropbox"}
Destinations == OAuth \cup {"local", "ftp", "sftp", "next_cloud", "amazon_s3"}

Conf == [dest: Destinations, freq: Crons, folder: Folders,
         format: {"zip", "dump"}, auto: BOOLEAN, days: Nat, notify: BOOLEAN,
         keys: BOOLEAN,     \* access data that next_cloud and amazon_s3 need
         plain: BOOLEAN]    \* no underscore in the name of the database

NoRecord == 0               \* the owner of a folder's marker in amazon_s3
File == [by: Records \cup {NoRecord}, age: 0..MaxAge, good: BOOLEAN]

Idle == [pc |-> "idle", todo |-> {}, rec |-> NoRecord, at |-> 0,
         tmp |-> FALSE, expired |-> {}]

ASSUME BackupAssumption ==
    /\ Records \subseteq Nat \ {NoRecord}
    /\ MaxAge \in Nat /\ MaxFaults \in Nat
    /\ Confs \subseteq [Records -> Conf] /\ NewDests \subseteq Destinations

-----------------------------------------------------------------------------
(* What a turn does, by destination. *)

\* Mutant of FtpProgram: old files go before the new one is stored.
FtpProgram_RotateFirst == <<"connect", "dump", "rotate", "store", "mail">>

LocalProgram      == <<"connect", "dump", "rotate", "mail">>
FtpProgram        == <<"connect", "dump", "store", "rotate", "mail">>
SftpProgram       == <<"connect", "dump", "store", "rotate", "mail">>
GoogleProgram     == <<"connect", "dump", "store", "rotate", "mail">>
DropboxProgram    == <<"dump", "connect", "store", "rotate", "mail">>
OnedriveProgram   == <<"connect", "dump", "store", "rotate", "mail">>
NextCloudProgram  == <<"connect", "rotate", "mail", "dump", "store">>
AmazonProgram     == <<"connect", "rotate", "mark", "dump", "store", "mail">>

Program(d) ==
    CASE d = "local"        -> LocalProgram
      [] d = "ftp"          -> FtpProgram
      [] d = "sftp"         -> SftpProgram
      [] d = "google_drive" -> GoogleProgram
      [] d = "dropbox"      -> DropboxProgram
      [] d = "onedrive"     -> OnedriveProgram
      [] d = "next_cloud"   -> NextCloudProgram
      [] d = "amazon_s3"    -> AmazonProgram

\* Mutant of Aborts: a failed removal of next_cloud is not caught either.
Aborts_Removal(d, s) ==
    \/ d \in {"google_drive", "onedrive"} /\ s \in {"connect", "dump"}
    \/ d = "dropbox" /\ s = "dump"
    \/ d = "next_cloud"

\* An exception that leaves the loop ends the cron's transaction and leaves
\* the records after this one without a backup.
Aborts(d, s) ==
    \/ d \in {"google_drive", "onedrive"} /\ s \in {"connect", "dump"}
    \/ d = "dropbox" /\ s = "dump"
    \/ d = "next_cloud" /\ s \in {"connect", "dump", "store"}

\* ... and some of these are told by a mail before.
MailsAbort(d, s) ==
    d = "google_drive" \/ (d = "next_cloud" /\ s = "connect")

\* Upload whose failing answers are not looked at.
Unheard == {"google_drive", "onedrive"}

\* What a step that fails may leave behind: an unfinished file, or nothing.
Leftovers(r, s) ==
    LET d == conf[r].dest
        partial == [by |-> r, age |-> 0, good |-> FALSE]
    IN  IF (d = "local" /\ s = "dump") \/ (d \in {"ftp", "sftp"} /\ s = "store")
        THEN {{}, {partial}} ELSE {{}}

\* The age in days the removal counts: full days, or midnights passed.
DaysOld(d, x) ==
    IF d \in {"next_cloud", "amazon_s3"} THEN (x.age + 1 - half) \div 2
                                         ELSE x.age \div 2

\* Deleting a file another cron has deleted is an error for these.
NeedsFile(d) == d \in {"local", "ftp", "sftp", "dropbox", "next_cloud"}

-----------------------------------------------------------------------------
TypeOK ==
    /\ conf \in [Records -> Conf]
    /\ active \subseteq Records /\ hideActive \subseteq Records
    /\ token \in [Records -> SUBSET OAuth]
    /\ edited \subseteq Records
    /\ folder \in [Folders -> SUBSET File]
    /\ ever \subseteq Folders
    /\ half \in {0, 1}
    /\ due \subseteq Crons
    /\ cron \in [Crons -> [pc: {"idle", "next", "turn", "delete"},
                           todo: SUBSET Records,
                           rec: Records \cup {NoRecord}, at: 0..6,
                           tmp: BOOLEAN, expired: SUBSET File]]
    /\ \A c \in Crons : cron[c].pc \in {"turn", "delete"} =>
           /\ cron[c].rec \in Records
           /\ cron[c].at \in DOMAIN Program(conf[cron[c].rec].dest)
    /\ told \in [Records -> {"nothing", "success", "failed"}]
    /\ faults \in 0..MaxFaults

Init ==
    /\ conf \in Confs
    /\ active = {} /\ edited = {}
    /\ hideActive = {r \in Records : conf[r].dest = "local"}
    /\ token = [r \in Records |-> {}]
    /\ folder = [f \in Folders |-> {}] /\ ever = {}
    /\ half = 0 /\ due = {}
    /\ cron = [c \in Crons |-> Idle]
    /\ told = [r \in Records |-> "nothing"]
    /\ faults = 0

-----------------------------------------------------------------------------
(* Users.  A record of a running cron is locked by its transaction. *)

Quiet == \A c \in Crons : cron[c].pc = "idle"

\* The test of a connection activates the record.  A failed one deactivates
\* it with amazon_s3 and next_cloud ...
TestCloud(r) ==
    /\ Quiet
    /\ conf[r].dest \in {"next_cloud", "amazon_s3"} /\ conf[r].keys
    /\ \/ active' = active \cup {r} /\ hideActive' = hideActive \cup {r}
       \/ active' = active \ {r} /\ hideActive' = hideActive \ {r}
    /\ UNCHANGED <<conf, token, edited, folder, ever, half, due, cron, told, faults>>

\* ... and raises an error that leaves the record as it is with servers.
TestServer(r) ==
    /\ Quiet
    /\ conf[r].dest \in {"ftp", "sftp"}
    /\ active' = active \cup {r} /\ hideActive' = hideActive \cup {r}
    /\ UNCHANGED <<conf, token, edited, folder, ever, half, due, cron, told, faults>>

\* The code is exchanged for tokens; an exchange that fails raises an error.
GetTokens(r) == token' = [token EXCEPT ![r] = @ \cup {conf[r].dest}]

\* The user comes back from the service with a code.
Authorize(r) ==
    /\ Quiet
    /\ conf[r].dest \in OAuth
    /\ GetTokens(r)
    /\ active' = active \cup {r} /\ hideActive' = hideActive \cup {r}
    /\ UNCHANGED <<conf, edited, folder, ever, half, due, cron, told, faults>>

\* The toggle of the form, writable once hide_active is set.
ToggleActive(r) ==
    /\ Quiet
    /\ r \in hideActive
    /\ active' = IF r \in active THEN active \ {r} ELSE active \cup {r}
    /\ UNCHANGED <<conf, hideActive, token, edited, folder, ever, half, due,
                   cron, told, faults>>

\* Another destination: active and hide_active stay as they are, and local
\* sets hide_active.
EditDestination(r, d) ==
    /\ Quiet
    /\ faults < MaxFaults /\ faults' = faults + 1
    /\ d # conf[r].dest
    /\ conf' = [conf EXCEPT ![r].dest = d]
    /\ edited' = edited \cup {r}
    /\ hideActive' = IF d = "local" THEN hideActive \cup {r} ELSE hideActive
    /\ UNCHANGED <<active, token, folder, ever, half, due, cron, told>>

-----------------------------------------------------------------------------
(* The crons.  A record is searched once, at the start; a turn is the body   *)
(* of the loop for one record.                                               *)

Conf_(c) == conf[cron[c].rec]
Folder_(c) == Conf_(c).folder
InTurn(c, s) ==
    cron[c].pc = "turn" /\ Program(Conf_(c).dest)[cron[c].at] = s

FirstOf(S) == CHOOSE r \in S : \A q \in S : r <= q

TurnOver(c) ==
    [Idle EXCEPT !.pc = "next", !.todo = cron[c].todo, !.rec = cron[c].rec]

\* Mutant of Advance: the last step is not noticed.
Advance_Beyond(c, tmp) ==
    cron' = [cron EXCEPT ![c] =
        IF @.at > Len(Program(Conf_(c).dest)) THEN TurnOver(c)
        ELSE [@ EXCEPT !.pc = "turn", !.at = cron[c].at + 1, !.tmp = tmp,
                         !.expired = {}]]

\* The cron goes on to its next step, or to the next record after the last.
Advance(c, tmp) ==
    cron' = [cron EXCEPT ![c] =
        IF @.at = Len(Program(Conf_(c).dest)) THEN TurnOver(c)
        ELSE [@ EXCEPT !.pc = "turn", !.at = cron[c].at + 1, !.tmp = tmp,
                         !.expired = {}]]

Tell(c, mail) ==
    told' = IF Conf_(c).notify THEN [told EXCEPT ![cron[c].rec] = mail] ELSE told

Begin(c) ==
    /\ c \in due /\ cron[c].pc = "idle"
    /\ cron' = [cron EXCEPT ![c] = [Idle EXCEPT !.pc = "next",
                   !.todo = {r \in active : conf[r].freq = c}]]
    /\ UNCHANGED <<settings, folder, ever, half, due, told, faults>>

NextRecord(c) ==
    /\ cron[c].pc = "next" /\ cron[c].todo # {}
    /\ LET r == FirstOf(cron[c].todo) IN
       /\ cron' = [cron EXCEPT ![c] =
              [Idle EXCEPT !.pc = "turn", !.todo = cron[c].todo \ {r}, !.rec = r,
                           !.at = 1]]
       /\ told' = [told EXCEPT ![r] = "nothing"]
    /\ UNCHANGED <<settings, folder, ever, half, due, faults>>

Finish(c) ==
    /\ cron[c].pc = "next" /\ cron[c].todo = {}
    /\ cron' = [cron EXCEPT ![c] = Idle]
    /\ due' = due \ {c}
    /\ UNCHANGED <<settings, folder, ever, half, told, faults>>

\* An exception in step s.  next_cloud goes on to the dump when the removal
\* fails; the others end the turn, or the run.
Raise(c, s) ==
    LET d == Conf_(c).dest IN
    IF Aborts(d, s)
    THEN /\ cron' = [cron EXCEPT ![c] = Idle]
         /\ due' = due \ {c}
         /\ IF MailsAbort(d, s) THEN Tell(c, "failed") ELSE UNCHANGED told
    ELSE /\ Tell(c, "failed")
         /\ UNCHANGED due
         /\ IF d = "next_cloud"
            THEN cron' = [cron EXCEPT ![c] = [@ EXCEPT !.pc = "turn", !.at = 4,
                                                       !.expired = {}]]
            ELSE cron' = [cron EXCEPT ![c] = TurnOver(c)]

\* A service, the disk or pg_dump fails.
StepFails(c) ==
    /\ cron[c].pc \in {"turn", "delete"} /\ ~InTurn(c, "mail")
    /\ faults < MaxFaults /\ faults' = faults + 1
    /\ LET s == Program(Conf_(c).dest)[cron[c].at]
       IN  /\ Raise(c, s)
           /\ \E L \in Leftovers(cron[c].rec, s) :
                  folder' = [folder EXCEPT ![Folder_(c)] = @ \cup L]
    /\ UNCHANGED <<settings, ever, half>>

\* A token is needed, and refreshed when it has expired.  Without access data
\* next_cloud and amazon_s3 do nothing at all, and tell nobody.
NoToken(c) == Conf_(c).dest \in OAuth \ token[cron[c].rec]
NoKeys(c) == Conf_(c).dest \in {"next_cloud", "amazon_s3"} /\ ~Conf_(c).keys

Connect(c) ==
    /\ InTurn(c, "connect")
    /\ \/ NoToken(c) /\ Raise(c, "connect")
       \/ /\ NoKeys(c)
          /\ cron' = [cron EXCEPT ![c] = TurnOver(c)]
          /\ UNCHANGED <<due, told>>
       \/ /\ ~NoToken(c) /\ ~NoKeys(c)
          /\ Advance(c, cron[c].tmp) /\ UNCHANGED <<due, told>>
    /\ UNCHANGED <<settings, folder, ever, half, faults>>

Put(f, x) ==
    /\ folder' = [folder EXCEPT ![f] = @ \cup {x}]
    /\ ever' = IF x.good THEN ever \cup {f} ELSE ever

\* Mutant of Dump: the exit code of pg_dump is never looked at.
Dump_Unchecked(c) ==
    /\ InTurn(c, "dump")
    /\ \E good \in BOOLEAN :
       /\ \/ good /\ UNCHANGED faults
          \/ ~good /\ faults < MaxFaults /\ faults' = faults + 1
       /\ Advance(c, good)
       /\ IF Conf_(c).dest = "local"
          THEN Put(Folder_(c), [by |-> cron[c].rec, age |-> 0, good |-> good])
          ELSE UNCHANGED <<folder, ever>>
    /\ UNCHANGED <<settings, half, due, told>>

\* pg_dump writes to the file in the folder (local) or to a temporary one.
\* Only the format zip looks at its exit code.
Dump(c) ==
    /\ InTurn(c, "dump")
    /\ \E good \in BOOLEAN :
       /\ \/ good /\ UNCHANGED faults
          \/ ~good /\ Conf_(c).format = "dump"
             /\ faults < MaxFaults /\ faults' = faults + 1
       /\ Advance(c, good)
       /\ IF Conf_(c).dest = "local"
          THEN Put(Folder_(c), [by |-> cron[c].rec, age |-> 0, good |-> good])
          ELSE UNCHANGED <<folder, ever>>
    /\ UNCHANGED <<settings, half, due, told>>

\* google_drive and onedrive do not notice that the service refused the file.
Store(c) ==
    /\ InTurn(c, "store")
    /\ \/ /\ Put(Folder_(c), [by |-> cron[c].rec, age |-> 0, good |-> cron[c].tmp])
          /\ UNCHANGED faults
       \/ /\ Conf_(c).dest \in Unheard
          /\ faults < MaxFaults /\ faults' = faults + 1
          /\ UNCHANGED <<folder, ever>>
    /\ Advance(c, FALSE)
    /\ UNCHANGED <<settings, half, due, told>>

\* The folder of amazon_s3 is an object of its own, written anew each time.
Mark(c) ==
    /\ InTurn(c, "mark")
    /\ folder' = [folder EXCEPT ![Folder_(c)] =
           {x \in @ : x.by # NoRecord}
             \cup {[by |-> NoRecord, age |-> 0, good |-> FALSE]}]
    /\ Advance(c, FALSE)
    /\ UNCHANGED <<settings, ever, half, due, told, faults>>

\* Removing old backups begins with a list of all files of the folder,
\* whoever stored them.  amazon_s3 has no list of an empty bucket,
\* next_cloud none of a folder that does not exist yet, and reads the date
\* from the second part of the file name.
ListFails(c) ==
    LET d == Conf_(c).dest  files == folder[Folder_(c)] IN
    \/ d \in {"amazon_s3", "next_cloud"} /\ files = {}
    \/ d = "next_cloud" /\ files # {} /\ ~Conf_(c).plain

ListWorks(c) ==
    \/ ~ListFails(c)
    \/ Conf_(c).dest = "next_cloud" /\ folder[Folder_(c)] = {}

Expired(c) ==
    {x \in folder[Folder_(c)] : DaysOld(Conf_(c).dest, x) >= Conf_(c).days}

Rotate(c) ==
    /\ InTurn(c, "rotate")
    /\ \/ ~Conf_(c).auto /\ Advance(c, cron[c].tmp) /\ UNCHANGED <<due, told>>
       \/ Conf_(c).auto /\ ListFails(c) /\ Raise(c, "rotate")
       \/ /\ Conf_(c).auto /\ ListWorks(c)
          /\ cron' = [cron EXCEPT ![c].pc = "delete", ![c].expired = Expired(c)]
          /\ UNCHANGED <<due, told>>
    /\ UNCHANGED <<settings, folder, ever, half, faults>>

Delete(c) ==
    /\ cron[c].pc = "delete"
    /\ \/ /\ cron[c].expired = {}
          /\ Advance(c, cron[c].tmp)
          /\ UNCHANGED <<folder, due, told>>
       \/ \E x \in cron[c].expired :
             IF x \notin folder[Folder_(c)] /\ NeedsFile(Conf_(c).dest)
             THEN Raise(c, "rotate") /\ UNCHANGED folder
             ELSE /\ folder' = [folder EXCEPT ![Folder_(c)] = @ \ {x}]
                  /\ cron' = [cron EXCEPT ![c].expired = @ \ {x}]
                  /\ UNCHANGED <<due, told>>
    /\ UNCHANGED <<settings, ever, half, faults>>

Mail(c) ==
    /\ InTurn(c, "mail")
    /\ Tell(c, "success")
    /\ Advance(c, cron[c].tmp)
    /\ UNCHANGED <<settings, folder, ever, half, due, faults>>

\* The server stops: the transaction is gone, the cron runs again.
Crash(c) ==
    /\ cron[c].pc # "idle"
    /\ faults < MaxFaults /\ faults' = faults + 1
    /\ cron' = [cron EXCEPT ![c] = Idle]
    /\ \E L \in IF cron[c].pc = "turn"
                 THEN Leftovers(cron[c].rec, Program(Conf_(c).dest)[cron[c].at])
                 ELSE {{}} :
           folder' = IF L = {} THEN folder
                     ELSE [folder EXCEPT ![Folder_(c)] = @ \cup L]
    /\ UNCHANGED <<settings, ever, half, due, told>>

\* Half a day passes.  Dumps and uploads may take long; removing old files
\* and sending a mail is over before.  Every cron whose interval is a day is
\* due at midnight, another one may be.
Short(c) == cron[c].pc = "delete" \/ InTurn(c, "rotate") \/ InTurn(c, "mail")

Tick ==
    /\ \A c \in Crons : ~Short(c)
    /\ half' = 1 - half
    /\ folder' = [f \in Folders |->
           {[x EXCEPT !.age = IF @ = MaxAge THEN @ ELSE @ + 1] : x \in folder[f]}]
    /\ \E C \in SUBSET Crons :
          /\ IF half = 1 THEN "daily" \in C ELSE C = {}
          /\ due' = due \cup (C \cap Crons)
    /\ UNCHANGED <<settings, ever, cron, told, faults>>

CronStep(c) ==
    \/ Begin(c) \/ NextRecord(c) \/ Finish(c) \/ Connect(c) \/ Dump(c)
    \/ Store(c) \/ Mark(c) \/ Rotate(c) \/ Delete(c) \/ Mail(c)

User == \E r \in Records :
    \/ TestCloud(r) \/ TestServer(r) \/ Authorize(r) \/ ToggleActive(r)
    \/ \E d \in NewDests : EditDestination(r, d)

Next ==
    \/ User
    \/ \E c \in Crons : CronStep(c) \/ StepFails(c) \/ Crash(c)
    \/ Tick

Fairness == WF_vars(Tick) /\ \A c \in Crons : WF_vars(CronStep(c))

Spec == Init /\ [][Next]_vars /\ Fairness

-----------------------------------------------------------------------------
(* Properties *)

Sharing(r) == {q \in Records : conf[q].folder = conf[r].folder}
Removes(q, n) == conf[q].auto /\ conf[q].days <= n

\* Destinations that store first and hear of failures, with a format whose
\* dump is checked, and files kept for a day at least.
Careful(r) ==
    /\ conf[r].dest \in {"local", "ftp", "sftp", "dropbox"}
    /\ conf[r].format = "zip"
    /\ ~Removes(r, 0)

\* A folder used by careful records alone is never without a backup that can
\* be restored once it held one: whatever fails, whoever removes old files of
\* whom, and however long no backup succeeds (_schedule_auto_backup).
NeverWithoutBackup ==
    \A f \in ever :
        (\A r \in Records : conf[r].folder = f => Careful(r) /\ r \notin edited)
            => \E x \in folder[f] : x.good

\* When a turn ends, the user to notify has been told the truth: success only
\* if the file is in the folder, and something whenever there was anything to
\* do.  Services whose answers are ignored, next_cloud, which tells of the
\* success before it stores, and folders someone empties at once are left out.
Honest(r) ==
    /\ conf[r].notify /\ conf[r].dest \notin Unheard \cup {"next_cloud"}
    /\ \A q \in Sharing(r) : ~Removes(q, 0)

Stored(r) ==
    \E x \in folder[conf[r].folder] :
        x.by = r /\ x.age <= 1 /\ (conf[r].format = "zip" => x.good)

TurnEnds(c) == cron[c].pc # "next" /\ cron'[c].pc = "next" /\ cron'[c].rec # NoRecord

OutcomeIsTold ==
    [][\A c \in Crons : LET r == cron[c].rec IN
           TurnEnds(c) /\ Honest(r) =>
               /\ told'[r] = "success" => Stored(r)'
               /\ told'[r] = "nothing" =>
                      conf[r].dest = "amazon_s3" /\ ~conf[r].keys]_vars

\* A record that was activated for its service has tokens of it, so only a
\* change of the destination makes a run fail for want of them (the tokens
\* are stored before active is set, or in the same transaction).
ActiveHasToken ==
    \A r \in active \ edited : conf[r].dest \in OAuth => conf[r].dest \in token[r]

\* A record the daily cron can serve: connected, not behind a record whose
\* exception ends every run, and not in amazon_s3 with removal, whose list of
\* an empty bucket fails before anything is stored.
Served(r) ==
    LET Ready(q) == conf[q].dest \in OAuth => conf[q].dest \in token[q] IN
    /\ r \in active /\ conf[r].freq = "daily" /\ Ready(r)
    /\ conf[r].dest \in {"next_cloud", "amazon_s3"} => conf[r].keys
    /\ ~(conf[r].dest = "amazon_s3" /\ conf[r].auto)
    /\ \A q \in active : q < r /\ conf[q].freq = "daily" /\ conf[q].dest # "dropbox"
           => Ready(q)

\* Such a record is backed up again and again once nothing fails any more,
\* whatever partial files, stale tokens and races earlier failures left.
BackupsGoOn ==
    \A r \in Records :
        <>[]Served(r) =>
            []<>(\E x \in folder[conf[r].folder] : x.by = r /\ x.good /\ x.age = 0)

\* ... and where it removes old files, none stays for ever; unless another
\* cron removes files there too, as the two may trip over each other daily.
OldRemoved ==
    \A r \in Records :
        <>[](/\ Served(r) /\ Removes(r, 1) /\ conf[r].plain
             /\ \A q \in Sharing(r) : conf[q].freq = conf[r].freq) =>
            []<>(\A x \in folder[conf[r].folder] : x.age < MaxAge)

\* Backups are made and removed as long as there is a way to.
KeepsServing == BackupsGoOn /\ OldRemoved /\ []ActiveHasToken
=============================================================================
