SPECIFICATION ModeSpec
CONSTANTS
    Admins = {a1, a2}
    ReadMayFail = FALSE
PROPERTY PauseHoldsUntilResume
