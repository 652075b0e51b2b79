SPECIFICATION Spec
CONSTANTS
    Records = {1, 2}
    Crons = {"daily", "weekly"}
    Folders = {"f", "g"}
    Confs <- MCConfs
    NewDests = {"onedrive"}
    MaxAge = 2
    MaxFaults = 1
INVARIANTS
    TypeOK
    NeverWithoutBackup

    
    
