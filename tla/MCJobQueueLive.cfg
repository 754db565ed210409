\* The deployed configuration: one grader.  MaxAttempts exceeds the claims that
\* MaxRejudges and MaxFaults allow, so it never stops a claim.
SPECIFICATION FairSpec
CONSTANTS
    MaxSubmission = 2
    Graders = {g1}
    Services = {g1}
    Pids = {p1, p2, p3}
    NoPid = NoPid
    NoToken = NoToken
    JuryMissing = {}
    MaxAttempts = 6
    MaxRejudges = 2
    MaxFaults = 2
CHECK_DEADLOCK FALSE
PROPERTY EverySubmissionFinishes
