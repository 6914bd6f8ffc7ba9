CONSTANTS
    p1 = p1
    p2 = p2
    b1 = b1
    b2 = b2
    h1 = h1
    s1 = s1
    Pays = {p1, p2}
    Buyers = {b1, b2}
    Sweepers = {s1}
    Provider <- TwoProviders
    Buyer <- OneBuyer
    Handlers = {h1}
    Purpose <- OnlyTickets
    Stock = 1
    MaxPerPerson = 2
SPECIFICATION Spec
INVARIANT CreditedExactlyOnce
INVARIANT NoCreditWithoutMoney
INVARIANT GoodsFollowPayment
INVARIANT NeverOversold
INVARIANT FedapayPromptIsTraceable
PROPERTY ImplementsPromise
CHECK_DEADLOCK FALSE
