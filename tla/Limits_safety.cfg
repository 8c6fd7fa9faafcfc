CONSTANTS
    Hosts = {"six", "four", "proxy"}
    Gateway = "proxy"
    AddressesOf <- MCAddressesOf
    KeyIds = {"integrator"}
    Minute = 4
    AnonPerMinute = 1
    KeyedPerMinute = 2
    GlobalPerMinute = 2
    LastTick = 7
SPECIFICATION LimitsSpec
INVARIANTS
    LimitsTypeOK
    MinuteBound
    DenialIsEarned
    CapacityIsReal
CHECK_DEADLOCK FALSE
