CONSTANTS
    Lane = {l1}
    Quote = {q1, q2, q3}
    Submit = {s1}
    NoQuote = NoQuote
    NoLease = NoLease
    Ttl = 1
    Validity = 0
    MaxClock = 1
    MaxLedger = 1
    MaxSeq = 1
SPECIFICATION Spec
SYMMETRY RequestSymmetry
INVARIANT NumbersNotShared
