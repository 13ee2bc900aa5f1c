SPECIFICATION Spec
CONSTANTS
    u1 = u1
    u2 = u2
    g1 = g1
    g2 = g2
    NoGame = NoGame
    Users = {u1, u2}
    Games = {g1, g2}
    Admins = {}
    ReadMayFail = FALSE
    Owner <- OwnerOfEach
    MaxReveals = 1
    Payout <- FairPayout
    Resets = {r1, r2}
    Concurrency = 2
    Faults = {"crash", "db"}
    StrictPause = TRUE
    SerialResets = TRUE
CHECK_DEADLOCK FALSE
INVARIANT NoDoublePayout
INVARIANT ProfitMatchesCredit
PROPERTY FairRefund
PROPERTY ResetClosesEveryRound
