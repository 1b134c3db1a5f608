SPECIFICATION Spec
CONSTANTS
    g = g
    r = r
    w = w
    d = d
    d2 = d2
    x = x
    old = old
    p1 = p1
    k1 = k1
    k2 = k2
    NoEntry = NoEntry
    NotNamed = NotNamed
    Genesis = g
    MaxTreeSize = 3
    Entry <- BothEntry
    Statement <- MCStatement
    GenesisKeys <- MCGenesisKeys
    Submission <- BothSubmission
    Ask <- BothAsk
CONSTRAINT OneStory
INVARIANTS
    TypeOK
    AnsweredAsTheSizeStood
    NothingPastAKnownDivergence
    AnswersRestOnHeldLeaves
    RangeIsTheLog
    ServedRotationIsGenuine
    RetrievedIsEvidenced
PROPERTIES
    StandingOnlyRises
    ItubOnlyTightens
    EveryRequestEnds
