SPECIFICATION Spec
CONSTANTS
    NCase = 3
    MaxScore = 6
    Layouts <- MCLayouts
    Checkers = {"compare", "jury", "script"}
    Runs <- MCRuns
    AnswersMissing = {2}
INVARIANTS
    TypeOK
    ScoreMatchesMarks
    ResultIsFirstFailure
    AcceptedMarkIsRight
    MarksHaveCauses
