SPECIFICATION Spec
CONSTANTS
    r1 = r1
    r2 = r2
    c1 = c1
    c2 = c2
    c3 = c3
    p1 = p1
    p2 = p2
    Requests = {r1, r2}
    Checkouts = {c1}
    NoCheckout = NoCheckout
    Orders = {o1, o2}
    NoOrder = NoOrder
    Platforms = {p1}
    MayExpire = {}
    QueueCap = 2
    MaxAttempts = 2
    Mutates <- EverySession
    Reads <- EverySession
    Inputs <- TwoInputs
    MayDisconnect = {}
INVARIANT
    OneOrderPerSession
