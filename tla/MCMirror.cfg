SPECIFICATION Spec
CONSTANTS
    g = g
    r = r
    w = w
    d = d
    x = x
    p1 = p1
    k1 = k1
    k2 = k2
    NoEntry = NoEntry
    NotNamed = NotNamed
    Genesis = g
    MaxTreeSize = 3
    Request = {a, b}
    Entry <- BothEntry
    Statement <- MCStatement
    GenesisKeys <- MCGenesisKeys
    Submission <- BothSubmission
SYMMETRY Slots
CONSTRAINT OneStory
INVARIANTS
    TypeOK
    EntriesSound
    EveryEntryEvidenced
    HonestLogMirrored
    AnsweredBatchesHeld
    CompleteAdmissionsJudgedByTheLog
    InFlightSound
    ServedAnchorIsEarliest
PROPERTIES
    NothingRewritten
    ImplementsAtomicMirror
