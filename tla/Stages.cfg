SPECIFICATION StagesFairSpec
CONSTANTS
    Scripts = {"judge", "compile", "run", "check", "score"}
    Blocking = {"isolate", "g++", "jury"}
    MaxPolls = 3
    PipeSize = 2
    JuryOutput = 3
    MayHang = {"judge", "compile", "run", "check", "score", "isolate"}
INVARIANTS
    StagesTypeOK
    AnswerIsOwn
PROPERTY AlwaysReturns
CHECK_DEADLOCK FALSE
