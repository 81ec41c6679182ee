SPECIFICATION Spec
CONSTANTS
    mine = mine
    theirs = theirs
    o1 = o1
    o2 = o2
    never = never
    Own = {mine}
    Foreign = {theirs}
    Checkouts = {mine, theirs}
    NoCheckout = NoCheckout
    Orders = {o1, o2}
    NoOrder = NoOrder
    Inputs <- MCInputs
    Ttl = 1
    Hour = 1
    CartDeadlines = {0, 2, never}
    NoDeadline = never
    NoCart = NoCart
    NoEntry = NoEntry
    NoOverlay = NoOverlay
    MaxClock = 3
    MaxAdoptions = 2
    MaxCopies = 1
INVARIANTS
    TypeOK
    OneOrderPerAdoption
    
CHECK_DEADLOCK FALSE
SYMMETRY OrderSymmetry
