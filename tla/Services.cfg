SPECIFICATION ServicesSpec
CONSTANTS
    FirstSet = {a1, a2}
    SecondSet = {b1, b2}
    ThirdSet = {c1, c2}
    MaxCodes = 2
    MaxAttempts = 2
    Senders = {a1, a2}
    Checkers = {k1, k2}
    Logins = {a1, a2, l3}
    MaxLoginAttempts = 2
    CountBound = 5
    Devices = {browser}
    Tabs = {a1, a2}
    DeviceOf <- OneDevice
    MaxSessions = 3
    AccRequests = {a1, a2}
    MaxOrgs = 2
    MaxInvites = 1
    PubRequests = {a1, a2}
    Terms = {b1, b2}
    Rates = {c1, c2}
    MaxContracts = 2
    MaxSent = 1
    RepRequests = {a1, a2}
    Keys = {k1, k2}
    RepVotes = {v1, v2}
    NoVote = none
    MaxSends = 2
    Designs = {d1, d2}
    Fields = {f1}
    HistoryLimit = 3
    NoDesign = none
    MaxPayments = 2
    Polls = {a1, a2}
    MaxPollErrors = 2
    MaxRounds = 3
    Numbers = {n1, n2}
    NoNumber = none
    Cooldown = 2
    MaxTime = 5
    Withdrawals = {a1, a2}
    Candidates = {m1}
    Ballots = {a1, a2}
    Deletions = {k1}
    Nobody = none
    Members = {v1, v2}
    Operators = {b1, b2}
    NoMember = none
INVARIANTS
    ServicesTypeOK
    AcceptedOnce
    AttemptsSpentLocked
    ChainNeverForks
    SignedOutEverywhere
    OneOwnAccount
    CodeSpentBySignature
    PublishedAsSigned
    ReuseExplained
    OneDebitPerVote
    HistoryReachesLoaded
    CleanIsSaved
    NeverSilent
    ShownIsTracked
    FrozenNumberRested
    MoneyKeepsItsVote
    NobodyAbandoned
PROPERTIES
    ClosedInvitationAdmitsNobody
    ImplementsEventLife
SYMMETRY Interchangeable
CHECK_DEADLOCK FALSE
