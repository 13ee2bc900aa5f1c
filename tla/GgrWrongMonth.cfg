SPECIFICATION ChartSpec
CONSTANTS
    HourLen = 2
    DayHours = 2
    WeekDays = 3
    YearLen = 12
    MonthStarts = {0, 4, 12, 16}
    MonthCount = 2
    HourlyUpTo = 8
    DailyUpTo = 11
    MaxRange = 15
    Opening = 14
    Closing = 19
    MaxBets = 2
    Moments = {1, 4, 11, 14}
INVARIANT MonthsAreLocal
CHECK_DEADLOCK FALSE
