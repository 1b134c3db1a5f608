SPECIFICATION TextSpec
CONSTANTS
    MaxWord = 4095
    FractionDigits = 2
    SecondsPerMinute = 6
    SecondsPerHour = 12
    SecondsPerDay = 24
    Numbers <- MCNumbers
    Letters = {"P", "T", "Y", "D", "W", "H", "M", "S", ".", "-", ":", "Z"}
    MaxEdits = 1
    EpochYear = 1970
    LastYear = 1972
    LastInstant = 37000
    YearStart <- MCYearStart
    MonthStart <- MCMonthStart
    Landmarks <- MCLandmarks
INVARIANTS
    AcceptsTheGrammar
    AcceptsTheRendering
    OrderedAsText
CHECK_DEADLOCK FALSE
