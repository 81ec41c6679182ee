------------------------------- MODULE Pricing -------------------------------
(***************************************************************************)
(* What a checkout session costs: create_checkout and update_checkout of   *)
(* src/service.rs build the lines from the catalog (src/catalog.rs), the   *)
(* fulfillment from what was asked for and what the engine offers, apply   *)
(* the discounts and add up the totals; a completed session keeps the      *)
(* price it was last given.  Buyer and payment, on which completion waits, *)
(* are in CheckoutSession: here an open session may be completed any time. *)
(***************************************************************************)
EXTENDS Discounts, SequencesExt

CONSTANTS
    Sessions,       \* identifiers of sessions: a bound of the model
    Names,          \* what items and fulfillment options may be called
    Codes,          \* discount codes in their normalized form
    Items,          \* what the catalog knows
    Catalogs,       \* price and stock of each item, as the merchant sets them
    Currency,       \* the catalog's currency
    LineLists, Currencies, CodeLists, FulfillmentInputs,  \* what requests hold
    Blank,          \* what is left of a code of only white space
    EngineAnswers,  \* what the engine says of promotions, tax and shipping
    TaxBps,         \* the configuration's tax rate, in basis points
    Absent, NoQuote,
    NoCodes         \* a discounts object that holds no list of codes

(* What requests and the engine write down.  Nobody checks the amount that *)
(* a fulfillment option comes with, a promotion gives and does not take.   *)
Line == [item : Names, quantity : Int]
Option == [id : Names, cost : Int]
Group == [options : Seq(Option) \cup {Absent}, selected : Names \cup {Absent}]
Answer == [promotion : [items : Nat, order : Nat] \cup {Absent}, tax : Int,
           rates : Seq(Option)]

ASSUME PricingAssumption ==
    /\ TaxBps \in Nat
    /\ \A c \in Catalogs : c.price \in [Items -> Nat] /\ c.stock \in [Items -> Nat]

ASSUME InputAssumption ==
    /\ LineLists \subseteq Seq(Line)
    /\ CodeLists \subseteq Seq(Codes) \cup {NoCodes}
    /\ FulfillmentInputs \subseteq Seq(Group)
    /\ EngineAnswers \subseteq Answer
    /\ {"ship_standard", "ship_express"} \subseteq Names

ASSUME AbsenceAssumption ==
    /\ Absent \notin Seq(Codes) \cup {NoCodes} /\ NoCodes \notin Seq(Codes)
    /\ Absent \notin Seq(Group) /\ Absent \notin Seq(Option) /\ Absent \notin Names

VARIABLES
    catalog,  \* the member of Catalogs in force
    quotes,   \* the priced session under each identifier
    asked     \* the codes and the fulfillment each session was last given

vars == <<catalog, quotes, asked>>

Init == /\ catalog \in Catalogs
        /\ quotes = [s \in Sessions |-> NoQuote]
        /\ asked = [s \in Sessions |-> [codes |-> Absent, fulfillment |-> Absent]]

Given(part, existing) == IF part = Absent THEN existing ELSE part

-----------------------------------------------------------------------------

(* ProductCatalog::check_inventory and get. *)
InStock(line) == line.quantity <= catalog.stock[line.item]
PriceOf(item) == catalog.price[item]

(* build_line_items refuses a quantity below one, an item that is unknown, *)
(* short in stock, or priced in another currency; each line by itself.     *)
Buildable(lines, currency) ==
    \A i \in DOMAIN lines :
        /\ lines[i].quantity > 0
        /\ lines[i].item \in Items
        /\ InStock(lines[i])
        /\ currency = Currency

Subtotals(lines) ==
    [i \in DOMAIN lines |-> PriceOf(lines[i].item) * lines[i].quantity]

DefaultOptions == <<[id |-> "ship_standard", cost |-> 500], [id |-> "ship_express", cost |-> 1500]>>

(* get_fulfillment_options: only a session that has an id can have rates.  *)
Offered(rates) == IF rates = <<>> THEN DefaultOptions ELSE rates

(* A bug to detect: options are offered anew whatever the group holds. *)
SettledAnew(group, rates) ==
    [options |-> Offered(rates),
     selected |-> IF group.selected # Absent THEN group.selected ELSE Offered(rates)[1].id]

(* One group of build_fulfillment: options that are there stay, and the    *)
(* first one is selected when none is.                                     *)
Settled(group, rates) ==
    LET options == Given(group.options, Offered(rates))
    IN  [options |-> options,
         selected |-> IF group.selected # Absent \/ options = <<>> THEN group.selected
                      ELSE options[1].id]

BuiltFulfillment(groups, rates) ==
    IF groups = Absent THEN Absent
    ELSE [g \in DOMAIN groups |-> Settled(groups[g], rates)]

(* selected_fulfillment_cost: a selection no option answers to counts as   *)
(* the first option.                                                       *)
GroupCost(group) ==
    LET chosen == SelectInSeq(group.options, LAMBDA option : option.id = group.selected)
    IN  IF group.options = <<>> THEN 0
        ELSE group.options[IF chosen = 0 THEN 1 ELSE chosen].cost

FulfillmentCost(fulfillment) ==
    IF fulfillment = Absent THEN 0
    ELSE Total([g \in DOMAIN fulfillment |-> GroupCost(fulfillment[g])])

(* The codes that are not blank, in their order. *)
WithoutBlanks(codes) ==
    LET kept[n \in 0..Len(codes)] ==
            IF n = 0 THEN <<>>
            ELSE IF codes[n] = Blank THEN kept[n - 1] ELSE Append(kept[n - 1], codes[n])
    IN  kept[Len(codes)]

Normalized(codes) ==
    IF codes \in {Absent, NoCodes} THEN <<>> ELSE WithoutBlanks(codes)

(* try_icommerce_promotions: a promotion of the engine stands in for every *)
(* code; how it splits over lines is the engine's business, here the first *)
(* line takes it all.                                                      *)
Promoted(promotion, subtotals) ==
    [lines |-> [i \in DOMAIN subtotals |-> IF i = 1 THEN promotion.items ELSE 0],
     items |-> promotion.items,
     order |-> promotion.order,
     applied |-> <<[code |-> Absent, amount |-> promotion.items + promotion.order,
                    allocations |-> Absent]>>]

(* apply_discounts *)
Discounted(codes, subtotals, cost, promotion) ==
    LET legacy == LegacyDiscounts(Normalized(codes), subtotals, cost)
    IN  IF promotion # Absent /\ Normalized(codes) # <<>> THEN Promoted(promotion, subtotals)
        ELSE [lines |-> legacy.lines, items |-> Total(legacy.lines),
              order |-> legacy.order, applied |-> legacy.applied]

(* A bug to detect: discounts make the amount negative. *)
TaxableOrLess(subtotal, items, cost, order) == subtotal - items + cost - order

Taxable(subtotal, items, cost, order) == AtLeastZero(subtotal - items + cost - order)

(* calculate_tax: a tax the engine finds counts, else the fixed rate. *)
TaxOn(taxable, tax) == IF tax > 0 THEN tax ELSE (taxable * TaxBps) \div 10000

(* A bug to detect: only the codes that took something are kept. *)
CodesThatTook(codes, applied) ==
    IF codes \in {Absent, NoCodes} THEN Absent
    ELSE SelectSeq(Normalized(codes), LAMBDA code : \E i \in DOMAIN applied : applied[i].code = code)

CodesKept(codes, applied) == IF codes \in {Absent, NoCodes} THEN Absent ELSE Normalized(codes)

(* The priced session; an entry of the totals that is not positive is not  *)
(* listed, here 0.                                                         *)
Quote(lines, currency, codes, groups, answer) ==
    LET subtotals == Subtotals(lines)
        fulfillment == BuiltFulfillment(groups, answer.rates)
        cost == FulfillmentCost(fulfillment)
        discounts == Discounted(codes, subtotals, cost, answer.promotion)
        taxable == Taxable(Total(subtotals), discounts.items, cost, discounts.order)
        tax == TaxOn(taxable, answer.tax)
    IN  [status |-> "open", currency |-> currency, lines |-> lines,
         subtotals |-> subtotals, off |-> discounts.lines,
         codes |-> CodesKept(codes, discounts.applied), applied |-> discounts.applied,
         fulfillment |-> fulfillment,
         totals |-> [subtotal |-> Total(subtotals), items_discount |-> discounts.items,
                     fulfillment |-> AtLeastZero(cost), discount |-> discounts.order,
                     tax |-> tax, total |-> taxable + tax]]

-----------------------------------------------------------------------------

(* create_checkout: at least one line, and no rates for it yet. *)
Create(s) ==
    /\ quotes[s] = NoQuote
    /\ \E lines \in LineLists \ {<<>>}, currency \in Currencies :
          /\ Buildable(lines, currency)
          /\ \E answer \in EngineAnswers, codes \in CodeLists \cup {Absent},
                groups \in FulfillmentInputs \cup {Absent} :
                /\ quotes' = [quotes EXCEPT ![s] =
                       Quote(lines, currency, codes, groups, [answer EXCEPT !.rates = <<>>])]
                /\ asked' = [asked EXCEPT ![s] = [codes |-> codes, fulfillment |-> groups]]
    /\ UNCHANGED catalog

Open(s) == quotes[s] # NoQuote /\ quotes[s].status = "open"

(* update_checkout: the lines are those of the request, which may be none; *)
(* codes and fulfillment it leaves out are those of the session.           *)
Update(s) ==
    /\ Open(s)
    /\ \E lines \in LineLists, currency \in Currencies :
          /\ Buildable(lines, currency)
          /\ \E answer \in EngineAnswers, codes \in CodeLists \cup {Absent},
                groups \in FulfillmentInputs \cup {Absent} :
                /\ quotes' = [quotes EXCEPT ![s] =
                       Quote(lines, currency, Given(codes, @.codes), Given(groups, @.fulfillment), answer)]
                /\ asked' = [asked EXCEPT ![s] = [codes |-> Given(codes, @.codes),
                                                  fulfillment |-> Given(groups, @.fulfillment)]]
    /\ UNCHANGED catalog

(* complete_checkout and cancel_checkout: nothing is priced or counted     *)
(* again.                                                                  *)
Settle(s) == /\ Open(s)
             /\ \E status \in {"completed", "canceled"} :
                    quotes' = [quotes EXCEPT ![s].status = status]
             /\ UNCHANGED <<catalog, asked>>

(* The merchant changes a price or the stock in the engine. *)
Restock == /\ catalog' \in Catalogs \ {catalog}
           /\ UNCHANGED <<quotes, asked>>

Next == Restock \/ \E s \in Sessions : Create(s) \/ Update(s) \/ Settle(s)

Spec == Init /\ [][Next]_vars

-----------------------------------------------------------------------------

Quoted == [status : {"open", "completed", "canceled"}, currency : Currencies,
           lines : LineLists, subtotals : Seq(Nat), off : Seq(Nat),
           codes : Seq(Codes \ {Blank}) \cup {Absent},
           applied : Seq([code : Codes \cup {Absent}, amount : Nat,
                          allocations : Seq(Nat) \cup {Absent}]),
           fulfillment : Seq([options : Seq(Option), selected : Names \cup {Absent}])
                         \cup {Absent},
           totals : [subtotal : Nat, items_discount : Nat, fulfillment : Nat, discount : Nat,
                     tax : Nat, total : Nat]]

Priced == {s \in Sessions : quotes[s] # NoQuote}

(* Every quote has its shape: one subtotal and one discount for each line, *)
(* amounts that are not negative, and a list of codes without blanks.      *)
TypeOK ==
    /\ catalog \in Catalogs
    /\ DOMAIN quotes = Sessions
    /\ \A s \in Priced : /\ quotes[s] \in Quoted
                          /\ Len(quotes[s].subtotals) = Len(quotes[s].lines)
                          /\ Len(quotes[s].off) = Len(quotes[s].lines)
    /\ asked \in [Sessions -> [codes : CodeLists \cup {Absent},
                               fulfillment : FulfillmentInputs \cup {Absent}]]

PricedByCodes == {s \in Priced : \A i \in DOMAIN quotes[s].applied :
                                     quotes[s].applied[i].allocations # Absent}

(* SAVE5, then SAVE10: the order in which a tenth of the full price is     *)
(* taken from lines that may have nothing left.                            *)
TenthComesLate(codes) ==
    \E i, j \in DOMAIN codes : i < j /\ codes[i] = "SAVE5" /\ codes[j] = "SAVE10"
                               /\ \A k \in 1..i : codes[k] # "SAVE10"

(* What the codes are worth, by their description and not by the loop.     *)
TenthWorth(codes, subtotals) ==
    IF Contains(codes, "SAVE10") THEN [i \in DOMAIN subtotals |-> subtotals[i] \div 10]
    ELSE Nothing(subtotals)

FiveWorth(codes, subtotals) ==
    LET before == IF TenthComesLate(codes) THEN Nothing(subtotals)
                  ELSE TenthWorth(codes, subtotals)
        left == Total(subtotals) - Total(before)
    IN  IF ~Contains(codes, "SAVE5") THEN 0 ELSE Lesser(FiveDollars, left)

(* The groups are those asked for, and what was selected still is. *)
KeepsSelection(fulfillment, groups) ==
    IF groups = Absent THEN fulfillment = Absent
    ELSE /\ DOMAIN fulfillment = DOMAIN groups
         /\ \A g \in DOMAIN groups : groups[g].selected \in {Absent, fulfillment[g].selected}

IsPriceOf(q, inputs) ==
    LET codes == Normalized(inputs.codes)
    IN  /\ q.totals.items_discount = Total(TenthWorth(codes, q.subtotals))
                                     + FiveWorth(codes, q.subtotals)
        /\ q.totals.discount = IF Contains(codes, "SHIPFREE") THEN q.totals.fulfillment ELSE 0
        /\ KeepsSelection(q.fulfillment, inputs.fulfillment)

(* A session priced by codes of its own costs what the codes and the       *)
(* fulfillment last asked for say, however many updates came before: each  *)
(* code counts once, a code that found nothing to take counts as soon as   *)
(* there is something, and nothing an earlier price took is taken again.   *)
PriceIsOfInputs == \A s \in PricedByCodes : IsPriceOf(quotes[s], asked[s])

AllocatesItsDiscounts(q) ==
    /\ \A i \in DOMAIN q.lines :
          q.off[i] = Total([a \in DOMAIN q.applied |-> q.applied[a].allocations[i]])
    /\ q.totals.items_discount + q.totals.discount
          = Total([a \in DOMAIN q.applied |-> q.applied[a].amount])

(* The discount of a line is the sum of what the applied codes say they    *)
(* took from it, and the discounts of the totals are the sum of what the   *)
(* codes say they took: the three accounts of one discount agree.          *)
DiscountsAreAllocated == \A s \in PricedByCodes : AllocatesItsDiscounts(quotes[s])

AddsUp(q) ==
    LET t == q.totals
    IN  \/ TenthComesLate(Normalized(q.codes))
        \/ /\ \A i \in DOMAIN q.lines : q.off[i] \in 0..q.subtotals[i]
           /\ \/ FulfillmentCost(q.fulfillment) < 0
              \/ t.total = t.subtotal - t.items_discount + t.fulfillment - t.discount + t.tax

(* The total is the sum of the entries above it, discounts subtracted, and *)
(* no line gives more than it costs.  The exceptions: SAVE10 after SAVE5,  *)
(* which takes from lines that may have nothing left, and a fulfillment    *)
(* that costs less than nothing, which counts and is not listed.           *)
TotalsAddUp == \A s \in PricedByCodes : AddsUp(quotes[s])

EchoesToItself(q) ==
    LET cost == FulfillmentCost(BuiltFulfillment(q.fulfillment, <<>>))
        again == LegacyDiscounts(Normalized(q.codes), q.subtotals, cost)
    IN  /\ AtLeastZero(cost) = q.totals.fulfillment
        /\ again.lines = q.off
        /\ again.order = q.totals.discount

(* A platform that sends back what it was answered, with nothing changed,  *)
(* is asked for the same: what the code fills in for an incomplete request *)
(* (options, a selection, upper-case codes) means what the gaps meant.     *)
EchoKeepsPrice == \A s \in PricedByCodes : EchoesToItself(quotes[s])

(* The units of an item in completed sessions are units the merchant has.  *)
StockCoversOrders ==
    \A item \in Items :
        LET ordered(s) == IF s \in Priced /\ quotes[s].status = "completed"
                          THEN Total([i \in DOMAIN quotes[s].lines |->
                                        IF quotes[s].lines[i].item = item
                                        THEN quotes[s].lines[i].quantity ELSE 0])
                          ELSE 0
        IN  MapThenSumSet(ordered, Sessions) <= catalog.stock[item]

=============================================================================
