SPECIFICATION FairSpec
CONSTANTS
    c1 = c1
    c2 = c2
    c3 = c3
    h1 = h1
    h2 = h2
    NoCaller = NoCaller
    NoBlock = NoBlock
    Callers <- MCCallers
    Hashes <- MCHashes
    Cap = 0
    MayQuit = FALSE
INVARIANT TypeOK
PROPERTY CallsReturn
