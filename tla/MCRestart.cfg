SPECIFICATION Spec
CONSTANTS
    mine = mine
    theirs = theirs
    o1 = o1
    o2 = o2
    never = never
    Own = {mine}
    Foreign = {theirs}
    Checkouts = {mine, theirs}
    NoCheckout = NoCheckout
    Orders = {o1, o2}
    NoOrder = NoOrder
    Inputs <- MCInputs
    Ttl = 1
    Hour = 1
    CartDeadlines = {never}
    NoDeadline = never
    NoCart = NoCart
    NoEntry = NoEntry
    NoOverlay = NoOverlay
    MaxClock = 1
    MaxAdoptions = 2
    MaxCopies = 1
CHECK_DEADLOCK FALSE
SYMMETRY OrderSymmetry
INVARIANT CopiedSurvives
