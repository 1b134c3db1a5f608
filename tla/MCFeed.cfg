SPECIFICATION Spec
CONSTANTS
    g = g
    r = r
    d = d
    x = x
    p1 = p1
    k1 = k1
    k2 = k2
    NoEntry = NoEntry
    NotNamed = NotNamed
    Genesis = g
    MaxTreeSize = 3
    Entry = {g, r, d, x}
    Statement <- MCStatement
    GenesisKeys <- MCGenesisKeys
    Submission <- MCSubmission
    Log <- MCLog
    Own <- MCOwn
    Others <- MCOthers
INVARIANTS
    OnlyTheMissingRefuses
    NoServerFault
    GrantedAgain
PROPERTIES
    ImplementsReplica
    ImplementsAtomicMirror
