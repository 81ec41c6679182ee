SPECIFICATION Spec
CONSTANTS
    r1 = r1
    r2 = r2
    p1 = p1
    checkout = checkout
    ap2 = ap2
    fulfillment = fulfillment
    order = order
    s1 = s1
    other = other
    plain = plain
    shipped = shipped
    Capabilities = {checkout, ap2, fulfillment, order}
    Checkout = checkout
    Ap2 = ap2
    Parent <- ParentOfEach
    NoParent = NoParent
    Business = {checkout, ap2, fulfillment, order}
    BusinessVersion = 2
    Keys = {1, 2, 3}
    Loadable = {1, 2}
    Platforms = {p1}
    NoPlatform = NoPlatform
    Publications <- FourProfiles
    Requests = {r1, r2}
    RequireAgent = FALSE
    RequireSignature = FALSE
    NotCached = NotCached
    Checkouts = {s1}
    OtherCheckout = other
    Marks = {plain, shipped}
    Uses <- UsesOfEach
    NoMark = NoMark
    NoMandate = NoMandate
    NoSession = NoSession
    StaticAuthorization = FALSE
    SigningKey = TRUE
    ConfiguredAuthorization = ConfiguredAuthorization
    NoAuthorization = NoAuthorization
INVARIANTS
    AnswersVerify
