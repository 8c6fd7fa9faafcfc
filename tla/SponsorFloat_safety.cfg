CONSTANTS
    Quote = {q1, q2}
    Submit = {s1, s2}
    User = {user}
    Lane = {sponsor, lane}
    Sponsor = sponsor
    NoQuote = NoQuote
    BaseFees = {1, 2}
    BaseReserve = 5
    Units = 2
    Opening = 5
    Moving = 2
    Float = 20
    MaxNumber = 2
    MarginBps = 2000
    SlippageBps = 100
    MinCharge = 1
    Reference = 10
SPECIFICATION Spec
SYMMETRY Alike
INVARIANTS
    TypeOK
    ShortOnlyByOthers
    LossesAreCounted
PROPERTIES
    ImplementsSettlement
    OnlyRises
