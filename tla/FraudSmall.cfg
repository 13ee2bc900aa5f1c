SPECIFICATION FairSpec
CONSTANTS
    e1 = e1
    e2 = e2
    p = p
    q = q
    Payouts = {e1, e2}
    Players = {p, q}
    Humans <- OneMatchOneBot
    Drains = {d1, d2}
    Staff = {s1}
    Suspects = {p}
    MaxFailures = 2
    Regimes = {"alone", "turns"}
INVARIANT AppliedOnce
INVARIANT AckedIsCounted
PROPERTY ManualStands
PROPERTY EveryPayoutAcked
CHECK_DEADLOCK FALSE
