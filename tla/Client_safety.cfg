CONSTANTS
    MaxAsked = 2
    Cap = 2
    SendMaxes <- MCSendMaxes
SPECIFICATION Spec
INVARIANTS
    SignedIsAsked
    PinsHold
    HonestIsServed
CHECK_DEADLOCK FALSE
