SPECIFICATION Spec
CONSTANTS
    k1 = k1
    k2 = k2
    c1 = c1
    a1 = a1
    a2 = a2
    q1 = q1
    v1 = v1
    web = web
    app = app
    none = none
    chk = chk
    other = other
    blank = blank
    pay = pay
    more = more
    Clients = {k1, k2}
    Codes = {c1}
    Tokens = {a1, a2}
    Uris = {web, none}
    Blank = none
    AllowedUris = {web, none}
    Scopes = {pay, more}
    OwnScopes = {pay}
    NoUri = NoUri
    NoCode = NoCode
    NoToken = NoToken
    VaultTokens = {v1}
    Credentials = {pay}
    VaultCheckouts = {chk, blank}
    BlankCheckout = blank
    Identities = {a1}
    NoIdentity = NoIdentity
    SingleUse = TRUE
    MaxRedemptions = 2
    NoEntry = NoEntry
    Callers = {q1}
    ApiKeys = {app}
    OtherKeys = {other}
    Unsigned = Unsigned
    RequireAuth = TRUE
INVARIANTS
    TypeOK
    TokenKeepsItsGrant
    OnlyUnderItsBinding
PROPERTIES
    CodesAreOneShot
    RefusalsSpendNothing
    VaultIsOneShot
    RevokedStaysOut
CHECK_DEADLOCK FALSE
SYMMETRY ClientSymmetry
