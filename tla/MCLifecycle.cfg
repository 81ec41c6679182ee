SPECIFICATION FairSpec
CONSTANTS
    r1 = r1
    r2 = r2
    c1 = c1
    c2 = c2
    c3 = c3
    p1 = p1
    p2 = p2
    Requests = {r1, r2}
    Checkouts = {c1, c2}
    NoCheckout = NoCheckout
    Orders = {o1, o2}
    NoOrder = NoOrder
    Platforms = {}
    MayExpire = {c1}
    QueueCap = 1
    MaxAttempts = 2
    Mutates <- OwnSessions
    Reads <- NoSessions
    Inputs <- TwoInputs
    MayDisconnect = {}
PROPERTIES
    ImplementsLifecycle
    CompletedOrderIsStored
    RequestsAreAnswered
CHECK_DEADLOCK FALSE
