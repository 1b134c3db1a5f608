SPECIFICATION FairSpec
CONSTANTS
    MaxEntries = 13
    BackfillBatch = 3
INVARIANTS
    RowsAreTheLogs
    OpenedComplete
    ProofsRightOrRefused
    RangesRightOrRefused
    OnlyTheWindowVerifies
PROPERTIES
    PromotionIsWhole
    OpeningEnds
