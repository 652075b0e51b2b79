SPECIFICATION Spec
CONSTANTS
    j1 = j1
    j2 = j2
    j3 = j3
    t1 = t1
    t2 = t2
    Jobs = {j1, j2, j3}
    Parents <- MCParents
    Slots = {t1, t2}
    MaxBegun = 1
    MaxBroken = 1
    Processes = {t1, t2}
    Names = {"root", "root.a", "root.b"}
    Patterns <- MCPatterns
    RetryInterval = 600
    MaxRetries = 3
    MaxWrites = 2
    Entries <- MCEntries
    MaxEntries = 2
    JobNames <- MCJobNames
    Users = {"ann", "bob"}
    Contexts <- MCContexts
    KeptKeys = {"lang"}
    JobChannels = {"root.a", "root.b"}
    DefaultMaxRetries = 2
    MaxTries = 2
    MaxEdits = 3
    NoKey = ""
    Delayed <- MCDelayed
    Requests = {t1, t2}
    MaxStored = 2
    Mails = {j1, j2}
    Recipients = {1, 2}
    Senders = {"cron", "user"}
    AutoCommit = {"cron"}
    RaiseException = {"user"}
    MaxRuns = 3
SYMMETRY Symmetry
CHECK_DEADLOCK FALSE
INVARIANTS
    TypeOK
    
    FreshConfig
    RowIsTrue
    TwiceOnlyByRace
    MailIsTold
PROPERTIES
    JobsKeepChannels
    OnlyOverVacuumed
