SPECIFICATION Spec
CONSTANTS
    b1 = b1
    b2 = b2
    Browsers = {b1, b2}
    Limit <- MCLimit
    OldUsers <- MCOldUsers
    Forms <- MCForms
    Logins <- MCLogins
    Admin <- MCAdmin
    MaxSessions = 2
    MaxUsers = 2
    MaxFaults = 1
SYMMETRY Symmetry
CHECK_DEADLOCK FALSE
INVARIANTS
    TypeOK
    FormIsWhole
    RegistersWhatWasPosted
    PasswordsStand
    FiledUnderSender
    PagesKeepWorking
