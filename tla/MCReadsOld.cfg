SPECIFICATION Spec
CONSTANTS
    g = g
    r = r
    w = w
    d = d
    d2 = d2
    x = x
    old = old
    p1 = p1
    k1 = k1
    k2 = k2
    NoEntry = NoEntry
    NotNamed = NotNamed
    Genesis = g
    MaxTreeSize = 3
    Entry <- OldEntry
    Statement <- MCStatement
    GenesisKeys <- MCGenesisKeys
    Submission <- OldSubmission
    Ask <- OldAsk
INVARIANT
    ListNeverRefuses
