SPECIFICATION Spec
CONSTANTS
    Dirs = {"a", "b"}
    Pks = {1, 2}
    Manifests <- MCManifests
    MaxGroups = 2
    Procs = {"web", "check"}
    MaxEdits = 1
    MaxCrashes = 1
INVARIANTS
    TypeOK
    GroupsArePrefix
    SyncedWhenQuiet
