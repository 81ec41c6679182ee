SPECIFICATION Spec
CONSTANTS
    r1 = r1
    r2 = r2
    c1 = c1
    c2 = c2
    c3 = c3
    p1 = p1
    p2 = p2
    Requests = {r1, r2}
    Checkouts = {c1, c2}
    NoCheckout = NoCheckout
    Orders = {o1, o2}
    NoOrder = NoOrder
    Platforms = {p1}
    MayExpire = {c1}
    QueueCap = 1
    MaxAttempts = 2
    Mutates <- OwnSessions
    Reads <- FirstReadsAll
    Inputs <- TwoInputs
    MayDisconnect = {r1}
INVARIANTS
    TypeOK
    CompletedIsWellFormed
    OneOrderPerSession
    OrderHasItsSession
    NotifiedOrderIsStored
PROPERTIES
    TerminalIsFinal
    NegotiationIsKept
CHECK_DEADLOCK FALSE
