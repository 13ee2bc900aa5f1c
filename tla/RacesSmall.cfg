SPECIFICATION FairSpec
CONSTANTS
    Races = {r1, r2}
    Admins = {a1}
    Cron = cron
    Viewer = viewer
    Horizon = 2
    Windows <- NowOrLater
    SerialModes = {TRUE, FALSE}
INVARIANT RanksAreFinal
INVARIANT StaleOnlyUntilSwept
INVARIANT NoOverlap
PROPERTY EndedStaysEnded
PROPERTY ExpiredRaceEnds
CHECK_DEADLOCK FALSE
