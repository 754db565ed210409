SPECIFICATION Spec
CONSTANTS
    u1 = u1
    u2 = u2
    t1 = t1
    t2 = t2
    Users = {u1, u2}
    Nobody = Nobody
    Tasks = {t1, t2}
    NoTask = NoTask
    NoVerdict = "NULL"
    Old <- MCOld
    MaxSubmissions = 3
    MaxToggles = 1
    MaxRejudges = 1
    Filters <- MCFilters
    Counts <- MCCounts
    DefaultCount = 1
    Pdf = {t2}
    Unreadable = {t2}
CHECK_DEADLOCK FALSE
INVARIANTS
    TypeOK
    PagingShowsAll
    NumbersAgree
    LinksWork
PROPERTIES
    LostOnlyByRejudge
