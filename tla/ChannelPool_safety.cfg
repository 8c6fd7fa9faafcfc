CONSTANTS
    NumLanes = 2
    Quote = {q1, q2, q3}
    Ttl = 2
    NoLease = NoLease
    NoQuote = NoQuote
    MaxClock = 3
    MaxSeq = 1
SPECIFICATION Spec
SYMMETRY QuoteSymmetry
INVARIANTS
    TypeOK
    OneHolderPerLane
    BusyMeansLeased
    CheckedLaneStaysFree
PROPERTY ImplementsLaneLease
