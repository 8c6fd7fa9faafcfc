CONSTANTS
    a = a
    b = b
    c = c
    k1 = k1
    k2 = k2
    i = i
    j = j
    Account = {a, b, c}
    QuoteKey = {k1, k2}
    IssuerKey = {i, j}
    Token = {"native", "USDC", "fake"}
    Environment <- Environments
    Unset = Unset
    Blank = Blank
    Bad = Bad
    MaxQuotes = 1
    MaxKeys = 1
    MaxSent = 1
SPECIFICATION Spec
INVARIANTS
    FeeTokenWasChosen
    IssuedIsAccepted
    SignedAsQuoted
