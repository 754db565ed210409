SPECIFICATION FairSpec
CONSTANTS
    Procs = {"tle_web", "tle_grader"}
    Supervised = {"tle_web", "tle_grader"}
    Databases <- MCDatabases
    MaxCrashes = 1
INVARIANTS
    TypeOK
    VersionImpliesSchema
PROPERTY EveryProcessStarts
CHECK_DEADLOCK FALSE
