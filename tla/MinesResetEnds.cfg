SPECIFICATION FairSpec
CONSTANTS
    u1 = u1
    u2 = u2
    g1 = g1
    g2 = g2
    NoGame = NoGame
    Users = {u1}
    Games = {g1, g2}
    Admins = {}
    ReadMayFail = FALSE
    Owner <- OwnerOfAll
    MaxReveals = 1
    Payout <- FairPayout
    Resets = {r1, r2}
    Concurrency = 1
    Faults = {"crash"}
    StrictPause = FALSE
    SerialResets = TRUE
CHECK_DEADLOCK FALSE
PROPERTY ResetEnds
INVARIANT NoStrandedRound
PROPERTY NoForeignPointerDeleted
