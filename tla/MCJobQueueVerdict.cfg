\* One grader, one rejudge.
SPECIFICATION Spec
CONSTANTS
    MaxSubmission = 1
    Graders = {g1}
    Services = {g1}
    Pids = {p1, p2, p3}
    NoPid = NoPid
    NoToken = NoToken
    JuryMissing = {}
    MaxAttempts = 2
    MaxRejudges = 1
    MaxFaults = 0
CHECK_DEADLOCK FALSE
INVARIANT FinishedHasVerdict
