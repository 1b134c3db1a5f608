SPECIFICATION Spec
CONSTANTS
    g = g
    m1 = m1
    m2 = m2
    m3 = m3
    add2 = add2
    retire1 = retire1
    old = old
    moved = moved
    stray = stray
    bare = bare
    bareKey = bareKey
    data = data
    p1 = p1
    p2 = p2
    outsider = outsider
    k1 = k1
    k2 = k2
    NoEntry = NoEntry
    Genesis = g
    MaxLength = 5
    Entry <- MCEntry
    Statement <- MCStatement
    GenesisKeys <- MCGenesisKeys
INVARIANTS
    WalkMatchesAccount
    OutsidersEstablishNothing
PROPERTY
    EstablishedStaysEstablished
CHECK_DEADLOCK FALSE
