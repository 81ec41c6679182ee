SPECIFICATION Spec
CONSTANTS
    r1 = r1
    r2 = r2
    h1 = h1
    h2 = h2
    m1 = m1
    m2 = m2
    a1 = a1
    n1 = n1
    n2 = n2
    n3 = n3
    a = a
    b = b
    i = i
    j = j
    Requests = {r1, r2}
    Keys = {h1, h2, m1, m2, a1}
    CacheOf <- CacheOfEach
    Payloads = {a, b}
    Ids = {i}
    Runs = {n1, n2, n3}
    KeysOf <- OwnKeys
    MayExpire = {h2, m2, a1}
    MayDisconnect = {r2}
    Oversized = {r2}
    NoRecord = NoRecord
SYMMETRY RunSymmetry
INVARIANTS
    TypeOK
    OneRunPerKey
    ReplaysMatch
PROPERTY
    FreshRecordsStay
