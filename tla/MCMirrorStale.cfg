SPECIFICATION Spec
CONSTANTS
    g = g
    r = r
    w = w
    d = d
    x = x
    p1 = p1
    k1 = k1
    k2 = k2
    NoEntry = NoEntry
    NotNamed = NotNamed
    Genesis = g
    MaxTreeSize = 3
    Request = {a, b}
    Entry <- RotationEntry
    Statement <- MCStatement
    GenesisKeys <- MCGenesisKeys
    Submission <- StaleSubmission
SYMMETRY Slots
INVARIANT
    MembersVerifyUnderTheirVersion
