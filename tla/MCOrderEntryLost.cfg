SPECIFICATION Spec
CONSTANTS
    o1 = o1
    o2 = o2
    i1 = i1
    i2 = i2
    i3 = i3
    r1 = r1
    r2 = r2
    e1 = e1
    e2 = e2
    e3 = e3
    Orders = {o1}
    Items = {i1, i2, i3}
    Bought <- BoughtOfEach
    Shadowed = {i3}
    Requests = {r1, r2}
    Changes <- ChangesOfEach
    Entries = {e1, e2}
    Quantities = {1}
    MaxInt = 7
    NoOrder = NoOrder
SYMMETRY EntrySymmetry
PROPERTIES
    NoEntryIsLost
