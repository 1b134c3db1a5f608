SPECIFICATION Spec
CONSTANTS
    MaxWord = 4095
    FractionDigits = 2
    SecondsPerMinute = 6
    SecondsPerHour = 12
    SecondsPerDay = 24
    Numbers <- MCNumbers
    Letters = {"P", "T", "Y", "D", "W", "H", "M", "S", ".", "+"}
    MaxEdits = 1
    EpochYear = 1970
    LastYear = 1972
    LastInstant = 37000
    YearStart <- MCYearStart
    MonthStart <- MCMonthStart
    Landmarks <- MCLandmarks
INVARIANT AcceptedIsWellFormed
CHECK_DEADLOCK FALSE
