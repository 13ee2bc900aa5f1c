SPECIFICATION Spec
CONSTANTS
    u1 = u1
    u2 = u2
    g1 = g1
    g2 = g2
    NoGame = NoGame
    Users = {u1}
    Games = {g1}
    Admins = {a1}
    ReadMayFail = TRUE
    Owner <- OwnerOfAll
    MaxReveals = 1
    Payout <- FairPayout
    Resets = {r1, r2}
    Concurrency = 1
    Faults = {"crash", "expire", "lost reply", "redis", "db"}
    StrictPause = FALSE
    SerialResets = FALSE
INVARIANT CreditAtMostOnce
INVARIANT BetsCancelledWithHistory
PROPERTY ImplementsRefundOnce
SYMMETRY ResetSymmetry
CHECK_DEADLOCK FALSE
