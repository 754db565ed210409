\* Two graders started by hand or by a supervisor, and room for a forked one.
SPECIFICATION Spec
CONSTANTS
    MaxSubmission = 2
    Graders = {g1, g2, c1}
    Services = {g1, g2}
    Pids = {p1, p2, p3}
    NoPid = NoPid
    NoToken = NoToken
    JuryMissing = {2}
    MaxAttempts = 3
    MaxRejudges = 1
    MaxFaults = 1
SYMMETRY Symmetry
CHECK_DEADLOCK FALSE
INVARIANTS RowConsistent OwnerIsLatest FinishedByLatest SubtasksMatchVerdict
PROPERTIES DecidedInOrder ImplementsLedger
