CONSTANTS
    e1 = e1
    e2 = e2
    p1 = p1
    p2 = p2
    w1 = w1
    w2 = w2
    a1 = a1
    a2 = a2
    r1 = r1
    r2 = r2
    Events = {e1}
    Pays = {p1, p2}
    EventOf <- OneEvent
    Net <- OddNets
    HeldBps = 5000
    Amount <- Withdraw2
    Limit = 100
    LockLapses = FALSE
    Withdrawals = {w1, w2}
    Admins = {a1, a2}
    Runs = {r1}
SPECIFICATION Spec
SYMMETRY Symmetry
INVARIANT NeverOverdrawn
INVARIANT MoneyConserved
INVARIANT CreditMatchesPayment
PROPERTY ImplementsWalletPromise
CHECK_DEADLOCK FALSE
