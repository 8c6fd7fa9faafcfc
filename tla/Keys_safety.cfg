CONSTANTS
    Accounts = {a, b}
    ValidFor = 2
    Year = 3
    LastTime = 7
    MaxOut = 4
SPECIFICATION Spec
SYMMETRY Symmetry
INVARIANTS
    TypeOK
    OneKeyAtATime
    KeysAreEarned
    FreshKeyWorks
CHECK_DEADLOCK FALSE
