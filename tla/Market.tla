------------------------------- MODULE Market -------------------------------
(***************************************************************************)
(* The exchange of src/v2/persistent-market.ts: accounts, offers and bids  *)
(* with everything they promise held in escrow, and the trades that        *)
(* matching makes of them.  This module is what callers may rely on; how   *)
(* a mutation gets to the disk is the matter of DurableMarket.             *)
(*                                                                         *)
(* An operation is a function from the books to the books.  One that       *)
(* throws yields books with ok = FALSE, which the store never adopts.  The *)
(* journal is kept as the two totals the code reads from it.  A trade is   *)
(* known by its offer and its bid, which never meet twice.                 *)
(***************************************************************************)
EXTENDS Naturals, FiniteSets, FiniteSetsExt, SequencesExt

CONSTANTS
    Account,        \* the accounts of agents and providers
    Goods,          \* the resources that are traded for credits
    Quantity,       \* bound: the amounts callers ask for
    Price,          \* bound: the prices callers ask for
    Order,          \* ids of offers and of bids, in the order of their strings
    Time,           \* the instants at which orders expire or are matched
    Reservation,    \* reservation ids
    MaxSafe,        \* Number.MAX_SAFE_INTEGER
    MaxMinted       \* bound: what is minted of one resource

ASSUME MarketAssumption ==
    /\ IsFiniteSet(Account)
    /\ "credits" \notin Goods
    /\ Quantity \subseteq Nat \ {0}
    /\ Price \subseteq Nat \ {0}
    /\ Order \subseteq Nat
    /\ Time \subseteq Nat
    /\ MaxSafe \in Nat
    /\ MaxMinted \in Nat

Resource == Goods \cup {"credits"}

\* "@reservation:id", "@offer:id", "@bid:id", "@trade-resource:id" and
\* "@trade-credit:id".
ReservationAccount(id) == <<"reservation", id>>
OfferEscrow(o) == <<"offer", o>>
BidEscrow(b) == <<"bid", b>>
ResourceEscrow(t) == <<"traderesource", t>>
CreditEscrow(t) == <<"tradecredit", t>>

OwnAccount(a) == <<"own", a>>
Own == {OwnAccount(a) : a \in Account}

Trade == Order \X Order

Holder ==
    Own \cup {ReservationAccount(r) : r \in Reservation}
        \cup {OfferEscrow(o) : o \in Order} \cup {BidEscrow(b) : b \in Order}
        \cup {ResourceEscrow(t) : t \in Trade} \cup {CreditEscrow(t) : t \in Trade}

MintAccount == <<"mint">>
BurnAccount == <<"burn">>

VARIABLE books

Empty ==
    [ok |-> TRUE,
     balance |-> [holding \in Holder \X Resource |-> 0],
     minted |-> [r \in Resource |-> 0],
     burned |-> [r \in Resource |-> 0],
     offers |-> [o \in {} |-> {}],
     bids |-> [b \in {} |-> {}],
     trades |-> [t \in {} |-> {}]]

Init == books = Empty

-----------------------------------------------------------------------------
(* Postings *)

\* #balance.
Balance(s, account, r) == s.balance[<<account, r>>]

Payable(s, debit, r, amount) == debit = MintAccount \/ Balance(s, debit, r) >= amount

\* #adjust of both accounts.
Moved(balance, debit, credit, r, amount) ==
    [holding \in Holder \X Resource |->
        IF holding = <<debit, r>> THEN balance[holding] - amount
        ELSE IF holding = <<credit, r>> THEN balance[holding] + amount
        ELSE balance[holding]]

\* A posting, or nothing and ok = FALSE when post throws.
Post(s, debit, credit, r, amount) ==
    IF s.ok /\ amount > 0 /\ debit # credit /\ Payable(s, debit, r, amount)
    THEN [s EXCEPT
            !.balance = Moved(@, debit, credit, r, amount),
            !.minted[r] = @ + (IF debit = MintAccount THEN amount ELSE 0),
            !.burned[r] = @ + (IF credit = BurnAccount THEN amount ELSE 0)]
    ELSE [s EXCEPT !.ok = FALSE]

\* The guarded posting of a whole balance: "if (remaining > 0) post".
Return(s, escrow, owner, r) ==
    IF Balance(s, escrow, r) = 0 THEN s
    ELSE Post(s, escrow, owner, r, Balance(s, escrow, r))

Require(s, condition) == [s EXCEPT !.ok = @ /\ condition]

\* A list of the state with one more element.
With(list, id, element) ==
    [i \in DOMAIN list \cup {id} |-> IF i = id THEN element ELSE list[i]]

multiplySafe(left, right) == left * right <= MaxSafe

\* What an order set to a final state looks like.
CloseOffer(s, o, final) ==
    LET offer == s.offers[o]
        returned == Return(s, OfferEscrow(o), OwnAccount(offer.seller), offer.resource)
    IN  [returned EXCEPT !.offers[o] = [@ EXCEPT !.remaining = 0, !.state = final]]

CloseBid(s, b, final) ==
    LET returned == Return(s, BidEscrow(b), OwnAccount(s.bids[b].buyer), "credits")
    IN  [returned EXCEPT !.bids[b] = [@ EXCEPT !.remaining = 0,
                                               !.reservedCredits = 0,
                                               !.state = final]]

-----------------------------------------------------------------------------
(* The operations, as the books they leave *)

settleReservation(s, id, beneficiary, owner, r, used) ==
    LET account == ReservationAccount(id)
        guarded == Require(s, used <= Balance(s, account, r))
    IN  Return(Post(guarded, account, OwnAccount(beneficiary), r, used),
               account, OwnAccount(owner), r)

refundReservation(s, id, owner, r) ==
    Return(s, ReservationAccount(id), OwnAccount(owner), r)

\* placeOffer and placeBid take the promised amount before the order exists.
placeOffer(s, o, offer) ==
    LET paid == Post(Require(s, offer.minimumFill <= offer.quantity),
                     OwnAccount(offer.seller), OfferEscrow(o), offer.resource,
                     offer.quantity)
    IN  [paid EXCEPT !.offers = With(@, o, offer)]

placeBid(s, b, bid) ==
    LET reserved == bid.quantity * bid.maxUnitPrice
        paid == Post(Require(s, multiplySafe(bid.quantity, bid.maxUnitPrice)),
                     OwnAccount(bid.buyer), BidEscrow(b), "credits", reserved)
    IN  [paid EXCEPT !.bids = With(@, b, bid)]

cancelOffer(s, o) ==
    CloseOffer(Require(s, s.offers[o].state = "open"), o, "cancelled")

cancelBid(s, b) ==
    CloseBid(Require(s, s.bids[b].state = "open"), b, "cancelled")

OpenOrders(orders) == {o \in DOMAIN orders : orders[o].state = "open"}

Live(orders, now) ==
    {o \in OpenOrders(orders) : orders[o].expiresAt > now /\ orders[o].remaining > 0}

Late(orders, now) == {o \in OpenOrders(orders) : orders[o].expiresAt <= now}

\* The books after each of the offers, or bids, that are late.
ExpireOffers(s, late) ==
    LET after[n \in 0 .. Len(late)] ==
            IF n = 0 THEN s ELSE CloseOffer(after[n - 1], late[n], "expired")
    IN  after[Len(late)]

ExpireBids(s, late) ==
    LET after[n \in 0 .. Len(late)] ==
            IF n = 0 THEN s ELSE CloseBid(after[n - 1], late[n], "expired")
    IN  after[Len(late)]

expire(s, now) ==
    ExpireBids(ExpireOffers(s, SetToSeq(Late(s.offers, now))), SetToSeq(Late(s.bids, now)))

FillQuantity(bid, offer) == Min({bid.remaining, offer.remaining})

\* Neither of the two loops of match skips the pair.
Meets(bid, offer) ==
    /\ bid.resource = offer.resource
    /\ bid.maxUnitPrice >= offer.unitPrice
    /\ FillQuantity(bid, offer) >= offer.minimumFill

PriceImprovement(bid, offer) ==
    FillQuantity(bid, offer) * (bid.maxUnitPrice - offer.unitPrice)

\* Fault: an order that is not used up keeps its quantity.
AfterFillOfAll(order, quantity) ==
    IF order.remaining = quantity
    THEN [order EXCEPT !.remaining = 0, !.state = "filled"] ELSE order

AfterFill(order, quantity) ==
    [order EXCEPT !.remaining = @ - quantity,
                  !.state = IF order.remaining = quantity THEN "filled" ELSE @]

\* The postings of a fill: goods and credits into the escrows of the trade, what
\* the price is better and what is left of a bid that is filled back to the buyer.
Exchange(s, b, o) ==
    LET bid == s.bids[b]
        offer == s.offers[o]
        quantity == FillQuantity(bid, offer)
        buyer == OwnAccount(bid.buyer)
        safe == Require(s, multiplySafe(quantity, bid.maxUnitPrice))
        delivered == Post(safe, OfferEscrow(o), ResourceEscrow(<<o, b>>), offer.resource, quantity)
        paid == Post(delivered, BidEscrow(b), CreditEscrow(<<o, b>>), "credits",
                     quantity * offer.unitPrice)
        improved == IF PriceImprovement(bid, offer) = 0 THEN paid
                    ELSE Post(paid, BidEscrow(b), buyer, "credits",
                              PriceImprovement(bid, offer))
    IN  IF bid.remaining = quantity THEN Return(improved, BidEscrow(b), buyer, "credits")
        ELSE improved

NewTrade(bid, offer) ==
    [quantity |-> FillQuantity(bid, offer),
     totalPrice |-> FillQuantity(bid, offer) * offer.unitPrice,
     state |-> "escrowed"]

\* What is left of the credits of a bid.
Reserved(bid, quantity) ==
    IF bid.remaining = quantity THEN 0
    ELSE bid.reservedCredits - quantity * bid.maxUnitPrice

BidAfterFill(bid, quantity) ==
    [AfterFill(bid, quantity) EXCEPT !.reservedCredits = Reserved(bid, quantity)]

\* The body of the two loops of match: bid b meets offer o.
Fill(s, b, o) ==
    LET bid == s.bids[b]
        offer == s.offers[o]
        quantity == FillQuantity(bid, offer)
    IN  IF ~ Meets(bid, offer) THEN s
        ELSE [Exchange(s, b, o) EXCEPT
                !.offers[o] = AfterFill(offer, quantity),
                !.bids[b] = BidAfterFill(bid, quantity),
                !.trades = With(@, <<o, b>>, NewTrade(bid, offer))]

\* The elements of a set as a strict order, a set of pairs, has them.
Sorted(set, order) ==
    CHOOSE list \in [1 .. Cardinality(set) -> set] :
        \A i, j \in 1 .. Cardinality(set) : i < j => <<list[i], list[j]>> \in order

\* Dearest bids first, cheapest offers first, then the order of the ids.
BidsFirst(bids) ==
    {pair \in (DOMAIN bids) \X (DOMAIN bids) :
        LET bid == bids[pair[1]]
            other == bids[pair[2]]
        IN  \/ bid.maxUnitPrice > other.maxUnitPrice
            \/ bid.maxUnitPrice = other.maxUnitPrice /\ pair[1] < pair[2]}

\* Fault: offers are met in the order of their ids.
OffersById(offers) ==
    {pair \in (DOMAIN offers) \X (DOMAIN offers) : pair[1] < pair[2]}

OffersFirst(offers) ==
    {pair \in (DOMAIN offers) \X (DOMAIN offers) :
        LET offer == offers[pair[1]]
            other == offers[pair[2]]
        IN  \/ offer.unitPrice < other.unitPrice
            \/ offer.unitPrice = other.unitPrice /\ pair[1] < pair[2]}

\* The two loops of match: the books after a bid has met the first offers, and
\* after the first bids have met them all.
MeetOffers(s, b, offers) ==
    LET after[n \in 0 .. Len(offers)] ==
            IF n = 0 THEN s ELSE Fill(after[n - 1], b, offers[n])
    IN  after[Len(offers)]

MeetBids(s, bids, offers) ==
    LET after[n \in 0 .. Len(bids)] ==
            IF n = 0 THEN s ELSE MeetOffers(after[n - 1], bids[n], offers)
    IN  after[Len(bids)]

\* Fault: a bid is tried on the cheapest offer only.
matchCheapest(s, now) ==
    LET offers == Sorted(Live(s.offers, now), OffersFirst(s.offers))
        bids == Sorted(Live(s.bids, now), BidsFirst(s.bids))
        cheapest == IF offers = <<>> THEN <<>> ELSE <<Head(offers)>>
    IN  MeetBids(s, bids, cheapest)

\* match: every bid that is live at the call, over every offer that is.
match(s, now) ==
    LET offers == Sorted(Live(s.offers, now), OffersFirst(s.offers))
        bids == Sorted(Live(s.bids, now), BidsFirst(s.bids))
    IN  MeetBids(s, bids, offers)

\* settleTrade and refundTrade: the escrows go across, or back.
CloseTrade(s, t, resourceTo, creditsTo, final) ==
    LET trade == s.trades[t]
        guarded == Require(s, trade.state = "escrowed")
        delivered == Post(guarded, ResourceEscrow(t), OwnAccount(resourceTo),
                          s.offers[t[1]].resource, trade.quantity)
        paid == Post(delivered, CreditEscrow(t), OwnAccount(creditsTo), "credits",
                     trade.totalPrice)
    IN  [paid EXCEPT !.trades[t].state = final]

Seller(s, t) == s.offers[t[1]].seller
Buyer(s, t) == s.bids[t[2]].buyer

settleTrade(s, t) == CloseTrade(s, t, Buyer(s, t), Seller(s, t), "settled")

\* Fault: the goods of a refunded trade go to the buyer.
refundTradeToBuyer(s, t) == CloseTrade(s, t, Buyer(s, t), Buyer(s, t), "refunded")

refundTrade(s, t) == CloseTrade(s, t, Seller(s, t), Buyer(s, t), "refunded")

-----------------------------------------------------------------------------
(* Every operation runs inside mutate: what it leaves becomes the state when it *)
(* did not throw and validateState accepts it.  (The sum over all accounts that *)
(* validateState also forms is what double entry gives; it is not repeated.)    *)

validateState(s) == \A holding \in Holder \X Resource : s.balance[holding] <= MaxSafe

mutate(result) == result.ok /\ validateState(result) /\ books' = result

mint ==
    \E a \in Account, r \in Resource, n \in Quantity :
        /\ books.minted[r] + n <= MaxMinted
        /\ mutate(Post(books, MintAccount, OwnAccount(a), r, n))

burn ==
    \E a \in Account, r \in Resource, n \in Quantity :
        mutate(Post(books, OwnAccount(a), BurnAccount, r, n))

transfer ==
    \E a, c \in Account, r \in Resource, n \in Quantity :
        mutate(Post(books, OwnAccount(a), OwnAccount(c), r, n))

Reserve ==
    \E a \in Account, id \in Reservation, r \in Resource, n \in Quantity :
        mutate(Post(books, OwnAccount(a), ReservationAccount(id), r, n))

CloseReservation ==
    \E id \in Reservation, owner \in Account, r \in Resource :
        \/ mutate(refundReservation(books, id, owner, r))
        \/ \E beneficiary \in Account, n \in Quantity :
              mutate(settleReservation(books, id, beneficiary, owner, r, n))

\* validateOrder: the order is not late at the instant it is placed.
NotExpired(expiresAt) == \E now \in Time : expiresAt > now

\* randomUUID gives an order a new id, anywhere in the order of the old ones.
PlaceOffer ==
    \E o \in Order \ DOMAIN books.offers, a \in Account, r \in Goods,
       n, least \in Quantity, price \in Price, expiresAt \in Time :
        /\ NotExpired(expiresAt)
        /\ mutate(placeOffer(books, o, [seller |-> a, resource |-> r, quantity |-> n,
                                 remaining |-> n, unitPrice |-> price,
                                 minimumFill |-> least, expiresAt |-> expiresAt,
                                 state |-> "open"]))

PlaceBid ==
    \E b \in Order \ DOMAIN books.bids, a \in Account, r \in Goods,
       n \in Quantity, price \in Price, expiresAt \in Time :
        /\ NotExpired(expiresAt)
        /\ mutate(placeBid(books, b, [buyer |-> a, resource |-> r, quantity |-> n,
                               remaining |-> n, maxUnitPrice |-> price,
                               reservedCredits |-> n * price,
                               expiresAt |-> expiresAt, state |-> "open"]))

Cancel ==
    \/ \E o \in DOMAIN books.offers : mutate(cancelOffer(books, o))
    \/ \E b \in DOMAIN books.bids : mutate(cancelBid(books, b))

Expire == \E now \in Time : mutate(expire(books, now))

Match(now) == mutate(match(books, now))

Settle == \E t \in DOMAIN books.trades : mutate(settleTrade(books, t))

Refund == \E t \in DOMAIN books.trades : mutate(refundTrade(books, t))

Next ==
    \/ mint \/ burn \/ transfer \/ Reserve \/ CloseReservation
    \/ PlaceOffer \/ PlaceBid \/ Cancel \/ Expire
    \/ \E now \in Time : Match(now)
    \/ Settle \/ Refund

Spec == Init /\ [][Next]_books

-----------------------------------------------------------------------------
(* Properties *)

\* Every promise is covered, to the unit, by an escrow of its own: an open
\* offer by the goods it still sells, an open bid by the most it may still
\* cost, a trade that is neither settled nor refunded by both its sides.  What
\* is closed holds nothing back.
EscrowExact ==
    /\ \A o \in DOMAIN books.offers :
         Balance(books, OfferEscrow(o), books.offers[o].resource) =
             books.offers[o].remaining
    /\ \A b \in DOMAIN books.bids :
         /\ books.bids[b].reservedCredits =
                books.bids[b].remaining * books.bids[b].maxUnitPrice
         /\ Balance(books, BidEscrow(b), "credits") = books.bids[b].reservedCredits
    /\ \A t \in DOMAIN books.trades :
         LET Held(n) == IF books.trades[t].state = "escrowed" THEN n ELSE 0
         IN  /\ Balance(books, ResourceEscrow(t), books.offers[t[1]].resource) =
                    Held(books.trades[t].quantity)
             /\ Balance(books, CreditEscrow(t), "credits") =
                    Held(books.trades[t].totalPrice)

\* Matching never throws, whatever orders are open: one that did would undo
\* every fill of its round, and of every later round.  And a round leaves no
\* two live orders that could still trade.  (Where more is minted of a resource
\* than is a safe number, what a round gives back may be too much for one
\* account, and validateState refuses it.)
MatchExhausts ==
    MaxMinted <= MaxSafe =>
        \A now \in Time :
            LET after == match(books, now)
            IN  /\ after.ok /\ validateState(after)
                /\ \A b \in Live(after.bids, now), o \in Live(after.offers, now) :
                    ~ Meets(after.bids[b], after.offers[o])

\* Price priority: where a round makes a bid and an offer trade, no cheaper
\* offer is left that would have taken the same quantity from the bid, and no
\* dearer bid that would have taken it from the offer.
PricePriority ==
    \A now \in Time :
        LET after == match(books, now)
            Left(order, n) == Min({order.remaining, n})
        IN  \A t \in DOMAIN after.trades \ DOMAIN books.trades :
                LET offer == after.offers[t[1]]
                    bid == after.bids[t[2]]
                    n == after.trades[t].quantity
                IN  /\ \A o \in Live(after.offers, now) :
                         LET other == after.offers[o]
                         IN  other.resource = offer.resource
                               /\ other.unitPrice < offer.unitPrice
                             => Left(other, n) < other.minimumFill
                    /\ \A b \in Live(after.bids, now) :
                         LET other == after.bids[b]
                         IN  other.resource = bid.resource
                               /\ other.maxUnitPrice > bid.maxUnitPrice
                             => Left(other, n) < offer.minimumFill

\* The accounts that hold what belongs to an agent: its own, and the escrows of
\* its orders and of its sides of trades.
Estate(s, a) ==
    {OwnAccount(a)}
      \cup {OfferEscrow(o) : o \in {p \in DOMAIN s.offers : s.offers[p].seller = a}}
      \cup {BidEscrow(b) : b \in {p \in DOMAIN s.bids : s.bids[p].buyer = a}}
      \cup {ResourceEscrow(t) : t \in {p \in DOMAIN s.trades : Seller(s, p) = a}}
      \cup {CreditEscrow(t) : t \in {p \in DOMAIN s.trades : Buyer(s, p) = a}}

Together(s, accounts, r) == MapThenSumSet(LAMBDA h : Balance(s, h, r), accounts)

\* What an agent can spend and what is held for it in its orders and in trades
\* that are not closed.
Holdings(s, a, r) == Together(s, Estate(s, a), r)

Orders == <<books.offers, books.bids, books.trades>>

Settled == {t \in DOMAIN books.trades : books.trades[t].state = "settled"}

\* Placing, matching, cancelling, expiring and refunding move nothing from one
\* account's holdings to another's: only the settlement of a trade does.
OnlySettlementTransfers ==
    [][Orders' # Orders /\ Settled' = Settled
       => \A a \in Account, r \in Resource : Holdings(books', a, r) = Holdings(books, a, r)]_books
=============================================================================
