SPECIFICATION Spec
CONSTANTS
    Races = {r1, r2}
    Admins = {a1}
    Cron = cron
    Viewer = viewer
    Horizon = 2
    Windows <- NowOrLater
    SerialModes = {FALSE}
PROPERTY EndedStaysEndedAlways
CHECK_DEADLOCK FALSE
