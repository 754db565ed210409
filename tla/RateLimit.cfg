\* Five addresses for three entries: the table fills and entry 0 is contended.
SPECIFICATION Spec
CONSTANTS
    Addresses = {a1, a2, a3, a4, a5}
    NoAddress = NoAddress
    Slots = 3
    Window = 2
    MaxTime = 8
CHECK_DEADLOCK FALSE
INVARIANTS OneEntryPerAddress NobodyLockedOut
PROPERTY Spacing
