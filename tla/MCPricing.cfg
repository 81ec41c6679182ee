SPECIFICATION Spec
CONSTANTS
    s1 = s1
    s2 = s2
    mug = mug
    card = card
    hat = hat
    blank = blank
    usd = usd
    eur = eur
    Sessions = {s1}
    Names <- MCNames
    Codes <- MCCodes
    Items = {mug, card}
    Catalogs <- MCCatalogs
    Currency = usd
    LineLists <- MCLineLists
    Currencies = {usd, eur}
    CodeLists <- MCCodeLists
    FulfillmentInputs <- MCFulfillments
    Blank = blank
    EngineAnswers <- MCEngineAnswers
    TaxBps = 875
    Absent = Absent
    NoQuote = NoQuote
    NoCodes = NoCodes
INVARIANTS
    TypeOK
    PriceIsOfInputs
    DiscountsAreAllocated
    TotalsAddUp
    EchoKeepsPrice
CHECK_DEADLOCK FALSE
