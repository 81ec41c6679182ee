------------------------------ MODULE MCPricing ------------------------------
(***************************************************************************)
(* Instances of Pricing for model checking: prices that do not divide      *)
(* evenly, five dollars above and below a subtotal, every order of the     *)
(* codes that matters, and fulfillment in each degree of completeness.     *)
(***************************************************************************)
EXTENDS Pricing, TLC

CONSTANTS s1, s2, mug, card, hat, blank, usd, eur

Cheap == [price |-> [i \in {mug, card} |-> IF i = mug THEN 333 ELSE 7],
          stock |-> [i \in {mug, card} |-> 1]]
Dear == [price |-> [i \in {mug, card} |-> IF i = mug THEN 1299 ELSE 205],
         stock |-> [i \in {mug, card} |-> 2]]

MCNames == {mug, card, hat, "ship_standard", "ship_express", "teleport", "free", "van", "boat"}
MCCodes == {blank, "SAVE10", "SAVE5", "SHIPFREE", "OTHER"}

Asking(item, quantity) == [item |-> item, quantity |-> quantity]

MCCatalogs == {Cheap, Dear}
OneCatalog == {Cheap}

MCLineLists == {<<>>, <<Asking(mug, 1)>>, <<Asking(mug, 2), Asking(card, 1)>>,
                <<Asking(card, 1), Asking(card, 1), Asking(card, 1)>>,
                <<Asking(mug, 0)>>, <<Asking(hat, 1)>>}
FewLineLists == {<<Asking(mug, 1)>>, <<Asking(mug, 1), Asking(mug, 1)>>, <<Asking(mug, 2)>>}

MCCodeLists == {NoCodes, <<blank>>, <<"SAVE10">>, <<"SAVE5", "SAVE5">>,
                <<"SAVE10", "SAVE5", "SHIPFREE">>, <<"SAVE5", "SAVE10">>,
                <<"SAVE5", blank, "OTHER", "SAVE10", "SHIPFREE", "SAVE5">>}

Express == [options |-> Absent, selected |-> "ship_express"]
Unselected == [options |-> Absent, selected |-> Absent]
Pickup == [options |-> <<[id |-> "free", cost |-> 0], [id |-> "van", cost |-> 20]>>,
           selected |-> "van"]
Unknown == [options |-> Absent, selected |-> "teleport"]
Credit == [options |-> <<[id |-> "free", cost |-> -30]>>, selected |-> "teleport"]
NoOptions == [options |-> <<>>, selected |-> Absent]

MCFulfillments == {<<Unselected, NoOptions>>, <<Express, Pickup>>, <<Unknown>>, <<Credit>>}

Quiet == [promotion |-> Absent, tax |-> 0, rates |-> <<>>]
Promoting == [Quiet EXCEPT !.promotion = [items |-> 100, order |-> 50]]
Rating == [Quiet EXCEPT !.tax = 40, !.rates = <<[id |-> "ship_express", cost |-> 900],
                                                [id |-> "boat", cost |-> 90]>>]

MCEngineAnswers == {Quiet, Promoting, Rating}
OnlyQuiet == {Quiet}

=============================================================================
