SPECIFICATION Spec
CONSTANTS
    a = a
    b = b
    NLockers = 3
    Object = {a, b}
    NoObject = NoObject
    MaxHeld = 2
    Wants <- MCWants
    Early = {1}
    MaxRef = 2
    Detect = TRUE
INVARIANTS
    TypeOK
    HoldersCompatible
    NoMissedGrant
    WokenExactly
    DdObjsExact
PROPERTY
    RequestsEnd
