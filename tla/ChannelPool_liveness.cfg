CONSTANTS
    NumLanes = 2
    Quote = {q1, q2}
    Ttl = 1
    NoLease = NoLease
    NoQuote = NoQuote
    MaxClock = 1
    MaxSeq = 1
SPECIFICATION FairSpec
PROPERTY CallsAnswered
