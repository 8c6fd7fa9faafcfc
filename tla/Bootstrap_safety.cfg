CONSTANTS
    Lane = {l1}
    Quote = {q1, q2}
    Submit = {s1, s2}
    NoQuote = NoQuote
    NoLease = NoLease
    Ttl = 1
    Validity = 0
    MaxClock = 1
    MaxLedger = 1
    MaxSeq = 2
SPECIFICATION Spec
SYMMETRY RequestSymmetry
INVARIANTS
    TypeOK
    SpentLaneFreed
    LaneKept
    NoHopelessTransaction
