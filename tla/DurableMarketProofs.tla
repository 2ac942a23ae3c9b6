------------------------- MODULE DurableMarketProofs -------------------------
(* The market, for every set of accounts, orders, quantities and prices:       *)
(*  - memory and the market file never come apart, and the file behaves as     *)
(*    the exchange does, after any number of failed writes and crashes;        *)
(*  - every promise of the exchange is covered by an escrow of its own;        *)
(*  - a round of matching never throws, leaves no two live orders that could   *)
(*    trade, and has price priority;                                           *)
(*  - accounts hold no more together than was minted, so that validateState    *)
(*    accepts what a round leads to;                                           *)
(*  - only settlement changes what an account, with its escrows, owns.         *)
EXTENDS DurableMarket, FiniteSetTheorems, WellFoundedInduction, TLAPS

(* The first of these needs nothing of the operations: whatever Next does to  *)
(* the books, the argument is about when they are written, put back and read  *)
(* again.  The inductive invariant: while a mutation is at work the file      *)
(* holds either the state before it or the state after it, and nothing is at  *)
(* work in a process that is down.                                            *)
WritingInv ==
    /\ writing \in BOOLEAN
    /\ writing => up /\ file \in {before, books}
    /\ MemoryMatchesFile

(* Nothing is at work before the first open. *)
LEMMA WritingInit == DurableInit => WritingInv
BY DEF DurableInit, WritingInv, MemoryMatchesFile

(* One step per action; a failed write puts back what the file still holds. *)
LEMMA WritingStep == WritingInv /\ [DurableNext]_durableVars => WritingInv'
<1> SUFFICES ASSUME WritingInv, [DurableNext]_durableVars
             PROVE  WritingInv'
    OBVIOUS
<1> USE DEF WritingInv, MemoryMatchesFile
<1>1. CASE Open
    BY <1>1 DEF Open
<1>2. CASE Mutate
    BY <1>2 DEF Mutate
<1>3. CASE Checkpoint
    BY <1>3 DEF Checkpoint
<1>4. CASE Rename
    BY <1>4 DEF Rename
<1>5. CASE Resolve
    BY <1>5 DEF Resolve
<1>6. CASE WriteFails
    BY <1>6 DEF WriteFails
<1>7. CASE Crash
    BY <1>7 DEF Crash
<1>8. CASE UNCHANGED durableVars
    BY <1>8 DEF durableVars
<1> QED
    BY <1>1, <1>2, <1>3, <1>4, <1>5, <1>6, <1>7, <1>8 DEF DurableNext

(* Whenever no mutation is at work, what readers see is what a restart finds: *)
(* a mutation that has resolved survives, one that has failed leaves nothing. *)
THEOREM MemoryIsDurable == DurableSpec => []MemoryMatchesFile
<1>1. DurableInit => WritingInv
    BY WritingInit
<1>2. WritingInv /\ [DurableNext]_durableVars => WritingInv'
    BY WritingStep
<1>3. WritingInv => MemoryMatchesFile
    BY DEF WritingInv
<1> QED
    BY <1>1, <1>2, <1>3, PTL DEF DurableSpec
-----------------------------------------------------------------------------
(* The file behaves as the exchange does.                                     *)

Becomes(result, t) == result.ok /\ validateState(result) /\ t = result

NewOffer(a, r, n, least, price, expiresAt) ==
    [seller |-> a, resource |-> r, quantity |-> n, remaining |-> n, unitPrice |-> price,
     minimumFill |-> least, expiresAt |-> expiresAt, state |-> "open"]

NewBid(a, r, n, price, expiresAt) ==
    [buyer |-> a, resource |-> r, quantity |-> n, remaining |-> n, maxUnitPrice |-> price,
     reservedCredits |-> n * price, expiresAt |-> expiresAt, state |-> "open"]

(* Next, as a relation between the books before and after. *)
Leads(s, t) ==
    \/ \E a \in Account, r \in Resource, n \in Quantity :
         s.minted[r] + n <= MaxMinted /\ Becomes(Post(s, MintAccount, OwnAccount(a), r, n), t)
    \/ \E a \in Account, r \in Resource, n \in Quantity :
         Becomes(Post(s, OwnAccount(a), BurnAccount, r, n), t)
    \/ \E a, c \in Account, r \in Resource, n \in Quantity :
         Becomes(Post(s, OwnAccount(a), OwnAccount(c), r, n), t)
    \/ \E a \in Account, id \in Reservation, r \in Resource, n \in Quantity :
         Becomes(Post(s, OwnAccount(a), ReservationAccount(id), r, n), t)
    \/ \E id \in Reservation, owner \in Account, r \in Resource :
         Becomes(refundReservation(s, id, owner, r), t)
    \/ \E id \in Reservation, owner, beneficiary \in Account, r \in Resource, n \in Quantity :
         Becomes(settleReservation(s, id, beneficiary, owner, r, n), t)
    \/ \E o \in Order \ DOMAIN s.offers, a \in Account, r \in Goods, n, least \in Quantity,
          price \in Price, expiresAt \in Time :
         /\ NotExpired(expiresAt)
         /\ Becomes(placeOffer(s, o, NewOffer(a, r, n, least, price, expiresAt)), t)
    \/ \E b \in Order \ DOMAIN s.bids, a \in Account, r \in Goods, n \in Quantity,
          price \in Price, expiresAt \in Time :
         /\ NotExpired(expiresAt)
         /\ Becomes(placeBid(s, b, NewBid(a, r, n, price, expiresAt)), t)
    \/ \E o \in DOMAIN s.offers : Becomes(cancelOffer(s, o), t)
    \/ \E b \in DOMAIN s.bids : Becomes(cancelBid(s, b), t)
    \/ \E now \in Time : Becomes(expire(s, now), t) \/ Becomes(match(s, now), t)
    \/ \E id \in DOMAIN s.trades : Becomes(settleTrade(s, id), t) \/ Becomes(refundTrade(s, id), t)

(* The actions of the exchange are that relation. *)
LEMMA NextLeads == Next <=> Leads(books, books')
BY DEF Next, Leads, Becomes, NewOffer, NewBid, mutate, mint, burn, transfer, Reserve,
       CloseReservation, PlaceOffer, PlaceBid, Cancel, Expire, Match, Settle, Refund

(* The operations are the same for the file. *)
LEMMA SavedNextLeads == Saved!Next <=> Leads(file, file')
<1>1. /\ Saved!MintAccount = MintAccount /\ Saved!BurnAccount = BurnAccount
      /\ \A a : Saved!OwnAccount(a) = OwnAccount(a)
      /\ \A a : Saved!ReservationAccount(a) = ReservationAccount(a)
      /\ \A a : Saved!OfferEscrow(a) = OfferEscrow(a)
      /\ \A a : Saved!BidEscrow(a) = BidEscrow(a)
      /\ \A a : Saved!ResourceEscrow(a) = ResourceEscrow(a)
      /\ \A a : Saved!CreditEscrow(a) = CreditEscrow(a)
      /\ Saved!Resource = Resource
  BY DEF MintAccount, Saved!MintAccount, BurnAccount, Saved!BurnAccount,
     Saved!Resource, Resource, Saved!OwnAccount, OwnAccount,
     Saved!OfferEscrow, OfferEscrow, Saved!BidEscrow, BidEscrow, Saved!ResourceEscrow, ResourceEscrow,
     Saved!CreditEscrow, CreditEscrow, Saved!ReservationAccount, ReservationAccount
<1>2. Saved!Holder = Holder
  BY <1>1 DEF Holder, Saved!Holder, Own, Saved!Own, Trade, Saved!Trade
<1>3. ASSUME NEW s, NEW d, NEW c, NEW r, NEW n
      PROVE  Saved!Post(s, d, c, r, n) = Post(s, d, c, r, n)
  <2>1. ASSUME NEW balance
        PROVE  Saved!Moved(balance, d, c, r, n) = Moved(balance, d, c, r, n)
    BY <1>1, <1>2 DEF Moved, Saved!Moved
  <2>2. Saved!Payable(s, d, r, n) <=> Payable(s, d, r, n)
    BY <1>1 DEF Payable, Saved!Payable, Balance, Saved!Balance
  <2> QED BY <1>1, <2>1, <2>2 DEF Post, Saved!Post
<1>4. \A s : Saved!validateState(s) <=> validateState(s)
  BY <1>1, <1>2 DEF validateState, Saved!validateState
<1>5. \A s, e, o, r : Saved!Return(s, e, o, r) = Return(s, e, o, r)
  BY <1>3 DEF Return, Saved!Return, Balance, Saved!Balance
<1>6. /\ \A s, c : Saved!Require(s, c) = Require(s, c)
      /\ \A l, i, e : Saved!With(l, i, e) = With(l, i, e)
      /\ \A x, y : Saved!multiplySafe(x, y) = multiplySafe(x, y)
  BY DEF Require, Saved!Require, With, Saved!With, multiplySafe, Saved!multiplySafe
<1>7. /\ \A s, o, f : Saved!CloseOffer(s, o, f) = CloseOffer(s, o, f)
      /\ \A s, b, f : Saved!CloseBid(s, b, f) = CloseBid(s, b, f)
  BY <1>1, <1>5 DEF CloseOffer, CloseBid, Saved!CloseOffer, Saved!CloseBid
<1>8. /\ \A s, id, c, o, r, n :
              Saved!settleReservation(s, id, c, o, r, n) = settleReservation(s, id, c, o, r, n)
      /\ \A s, id, o, r : Saved!refundReservation(s, id, o, r) = refundReservation(s, id, o, r)
      /\ \A s, o, offer : Saved!placeOffer(s, o, offer) = placeOffer(s, o, offer)
      /\ \A s, b, bid : Saved!placeBid(s, b, bid) = placeBid(s, b, bid)
  <2>1. ASSUME NEW s, NEW id, NEW c, NEW o, NEW r, NEW n
        PROVE  Saved!settleReservation(s, id, c, o, r, n) = settleReservation(s, id, c, o, r, n)
    BY <1>1, <1>3, <1>5, <1>6 DEF settleReservation, Saved!settleReservation, Balance, Saved!Balance
  <2>2. ASSUME NEW s, NEW id, NEW o, NEW r
        PROVE  Saved!refundReservation(s, id, o, r) = refundReservation(s, id, o, r)
    BY <1>1, <1>5 DEF refundReservation, Saved!refundReservation
  <2>3. ASSUME NEW s, NEW o, NEW offer
        PROVE  Saved!placeOffer(s, o, offer) = placeOffer(s, o, offer)
    BY <1>1, <1>3, <1>6 DEF placeOffer, Saved!placeOffer
  <2>4. ASSUME NEW s, NEW b, NEW bid
        PROVE  Saved!placeBid(s, b, bid) = placeBid(s, b, bid)
    BY <1>1, <1>3, <1>6 DEF placeBid, Saved!placeBid
  <2> QED BY <2>1, <2>2, <2>3, <2>4
<1>9. /\ \A s, o : Saved!cancelOffer(s, o) = cancelOffer(s, o)
      /\ \A s, b : Saved!cancelBid(s, b) = cancelBid(s, b)
  BY <1>6, <1>7 DEF cancelOffer, Saved!cancelOffer, cancelBid, Saved!cancelBid
<1>10. \A s, now : Saved!expire(s, now) = expire(s, now)
  <2>1. \A o, n : Saved!Late(o, n) = Late(o, n)
    BY DEF Late, Saved!Late, OpenOrders, Saved!OpenOrders
  <2>2. ASSUME NEW S PROVE Saved!SetToSeq(S) = SetToSeq(S)
    BY DEF Cardinality, Saved!Cardinality, SetToSeq, Saved!SetToSeq, IsInjective, Saved!IsInjective
  <2>3. ASSUME NEW s, NEW l PROVE Saved!ExpireOffers(s, l) = ExpireOffers(s, l)
    BY <1>7 DEF ExpireOffers, Saved!ExpireOffers
  <2>4. ASSUME NEW s, NEW l PROVE Saved!ExpireBids(s, l) = ExpireBids(s, l)
    BY <1>7 DEF ExpireBids, Saved!ExpireBids
  <2> QED BY <2>1, <2>2, <2>3, <2>4 DEF expire, Saved!expire
<1>11. \A s, now : Saved!match(s, now) = match(s, now)
  <2>1. \A o, n : Saved!Live(o, n) = Live(o, n)
    BY DEF Live, Saved!Live, OpenOrders, Saved!OpenOrders
  <2>2. ASSUME NEW S, NEW order PROVE Saved!Sorted(S, order) = Sorted(S, order)
    BY DEF Cardinality, Saved!Cardinality, Sorted, Saved!Sorted
  <2>3. /\ \A S : Saved!BidsFirst(S) = BidsFirst(S)
        /\ \A S : Saved!OffersFirst(S) = OffersFirst(S)
    BY DEF BidsFirst, Saved!BidsFirst, OffersFirst, Saved!OffersFirst
  <2>4. \A x, y : Saved!FillQuantity(x, y) = FillQuantity(x, y)
    BY DEF FillQuantity, Saved!FillQuantity, Min, Saved!Min
  <2>5. /\ \A x, y : Saved!Meets(x, y) <=> Meets(x, y)
        /\ \A x, y : Saved!PriceImprovement(x, y) = PriceImprovement(x, y)
        /\ \A x, y : Saved!AfterFill(x, y) = AfterFill(x, y)
    BY <2>4 DEF Meets, Saved!Meets, PriceImprovement, Saved!PriceImprovement, AfterFill, Saved!AfterFill
  <2>6. ASSUME NEW s, NEW b, NEW o PROVE Saved!Fill(s, b, o) = Fill(s, b, o)
    <3>1. Saved!Exchange(s, b, o) = Exchange(s, b, o)
      BY <1>1, <1>3, <1>5, <1>6, <2>4, <2>5 DEF Exchange, Saved!Exchange
    <3>2. /\ \A x, y : Saved!NewTrade(x, y) = NewTrade(x, y)
          /\ \A x, y : Saved!BidAfterFill(x, y) = BidAfterFill(x, y)
      BY <2>4, <2>5 DEF NewTrade, Saved!NewTrade, BidAfterFill, Saved!BidAfterFill,
         Reserved, Saved!Reserved
    <3> QED BY <1>6, <2>4, <2>5, <3>1, <3>2 DEF Fill, Saved!Fill
  <2>7. ASSUME NEW s, NEW b, NEW o PROVE Saved!MeetOffers(s, b, o) = MeetOffers(s, b, o)
    BY <2>6 DEF MeetOffers, Saved!MeetOffers
  <2>8. ASSUME NEW s, NEW b, NEW o PROVE Saved!MeetBids(s, b, o) = MeetBids(s, b, o)
    BY <2>7 DEF MeetBids, Saved!MeetBids
  <2> QED BY <2>1, <2>2, <2>3, <2>8 DEF match, Saved!match
<1>12. /\ \A s, t : Saved!settleTrade(s, t) = settleTrade(s, t)
       /\ \A s, t : Saved!refundTrade(s, t) = refundTrade(s, t)
  <2>1. ASSUME NEW s, NEW t, NEW x, NEW y, NEW f
        PROVE  Saved!CloseTrade(s, t, x, y, f) = CloseTrade(s, t, x, y, f)
    BY <1>1, <1>3, <1>6 DEF CloseTrade, Saved!CloseTrade
  <2>2. /\ \A s, t : Saved!Buyer(s, t) = Buyer(s, t)
        /\ \A s, t : Saved!Seller(s, t) = Seller(s, t)
    BY DEF Buyer, Saved!Buyer, Seller, Saved!Seller
  <2> QED BY <2>1, <2>2 DEF settleTrade, Saved!settleTrade, refundTrade, Saved!refundTrade
<1>13. \A t : Saved!NotExpired(t) <=> NotExpired(t)
  BY DEF NotExpired, Saved!NotExpired
<1>14. \A result : Saved!mutate(result) <=> Becomes(result, file')
  BY <1>4 DEF Saved!mutate, Becomes
<1> QED
  BY <1>1, <1>3, <1>8, <1>9, <1>10, <1>11, <1>12, <1>13, <1>14
  DEF Leads, NewOffer, NewBid, Saved!Next, Saved!mint, Saved!burn, Saved!transfer, Saved!Reserve,
      Saved!CloseReservation, Saved!PlaceOffer, Saved!PlaceBid, Saved!Cancel, Saved!Expire,
      Saved!Match, Saved!Settle, Saved!Refund

(* What has not come to the file yet is what one operation has made of it. *)
SavingInv ==
    /\ WritingInv
    /\ writing /\ file # books => file = before /\ Leads(before, books)

(* At the start nothing is being written. *)
LEMMA SavingInit == DurableInit => SavingInv
BY WritingInit DEF DurableInit, SavingInv

(* Only Mutate makes memory differ from the file, and by one operation. *)
LEMMA SavingStep == SavingInv /\ [DurableNext]_durableVars => SavingInv'
<1> SUFFICES ASSUME SavingInv, [DurableNext]_durableVars
             PROVE  SavingInv'
    OBVIOUS
<1>1. WritingInv'
    BY WritingStep DEF SavingInv
<1> SUFFICES (writing /\ file # books => file = before /\ Leads(before, books))'
    BY <1>1 DEF SavingInv
<1>2. CASE Mutate
    <2>1. books = file /\ before' = books /\ file' = file
        BY <1>2 DEF Mutate, SavingInv, WritingInv, MemoryMatchesFile
    <2>2. Leads(books, books')
        BY <1>2, NextLeads DEF Mutate
    <2> QED
        BY <2>1, <2>2
<1>3. CASE Checkpoint
    BY <1>3 DEF Checkpoint, SavingInv, WritingInv, MemoryMatchesFile
<1>4. CASE Open \/ Rename \/ Resolve \/ WriteFails \/ Crash
    BY <1>4 DEF Open, Rename, Resolve, WriteFails, Crash, SavingInv, WritingInv
<1>5. CASE UNCHANGED durableVars
    BY <1>5 DEF durableVars, SavingInv
<1> QED
    BY <1>2, <1>3, <1>4, <1>5 DEF DurableNext

(* The file only changes when Rename puts what one operation made in its place. *)
LEMMA SavedStep == SavingInv /\ [DurableNext]_durableVars => [Saved!Next]_file
<1> SUFFICES ASSUME SavingInv, DurableNext, file' # file
             PROVE  Saved!Next
    BY DEF durableVars
<1>1. Rename
    BY DEF DurableNext, Open, Mutate, Checkpoint, Resolve, WriteFails, Crash
<1>2. Leads(file, file')
    BY <1>1 DEF Rename, SavingInv
<1> QED
    BY <1>2, SavedNextLeads

(* A market without a file is the empty one. *)
LEMMA SavedInit == DurableInit => Saved!Init
BY DEF DurableInit, Init, Saved!Init, Empty, Saved!Empty, Resource, Saved!Resource, Holder,
   Saved!Holder, Own, Saved!Own, Trade, Saved!Trade, OwnAccount, Saved!OwnAccount,
   OfferEscrow, Saved!OfferEscrow, BidEscrow, Saved!BidEscrow, ResourceEscrow,
   Saved!ResourceEscrow, CreditEscrow, Saved!CreditEscrow, ReservationAccount,
   Saved!ReservationAccount

(* The file is only ever changed by whole operations on what it held: what is *)
(* found after a crash is a state of the exchange that its operations lead to. *)
THEOREM FileIsAMarket == DurableSpec => FileImplementsMarket
<1>1. DurableInit => SavingInv
    BY SavingInit
<1>2. SavingInv /\ [DurableNext]_durableVars => SavingInv'
    BY SavingStep
<1>3. SavingInv /\ [DurableNext]_durableVars => [Saved!Next]_file
    BY SavedStep
<1>4. DurableInit => Saved!Init
    BY SavedInit
<1> QED
    BY <1>1, <1>2, <1>3, <1>4, PTL DEF DurableSpec, FileImplementsMarket, Saved!Spec

-----------------------------------------------------------------------------
(* What every operation keeps: each escrow holds what is promised, and the    *)
(* escrow of an id that is not in use holds nothing.                          *)

OfferRecord ==
    [seller : Account, resource : Goods, quantity : Nat, remaining : Nat, unitPrice : Nat \ {0},
     minimumFill : Nat \ {0}, expiresAt : Nat, state : {"open", "filled", "cancelled", "expired"}]

BidRecord ==
    [buyer : Account, resource : Goods, quantity : Nat, remaining : Nat, maxUnitPrice : Nat \ {0},
     reservedCredits : Nat, expiresAt : Nat, state : {"open", "filled", "cancelled", "expired"}]

TradeRecord ==
    [quantity : Nat, totalPrice : Nat, state : {"escrowed", "settled", "refunded"}]

Balances == [Holder \X Resource -> Nat]

Shape(s) ==
    s = [ok |-> s.ok, balance |-> s.balance, minted |-> s.minted, burned |-> s.burned,
         offers |-> s.offers, bids |-> s.bids, trades |-> s.trades]

IsBooks(s) ==
    /\ Shape(s) /\ s.ok = TRUE
    /\ s.balance \in Balances /\ s.minted \in [Resource -> Nat] /\ s.burned \in [Resource -> Nat]
    /\ s.offers \in [DOMAIN s.offers -> OfferRecord]
    /\ s.bids \in [DOMAIN s.bids -> BidRecord]
    /\ s.trades \in [DOMAIN s.trades -> TradeRecord]
    /\ DOMAIN s.offers \subseteq Order /\ IsFiniteSet(DOMAIN s.offers)
    /\ DOMAIN s.bids \subseteq Order /\ IsFiniteSet(DOMAIN s.bids)
    /\ DOMAIN s.trades \subseteq (DOMAIN s.offers) \X (DOMAIN s.bids)

OfferKept(s, o) ==
    IF o \in DOMAIN s.offers
    THEN Balance(s, OfferEscrow(o), s.offers[o].resource) = s.offers[o].remaining
    ELSE \A r \in Resource : Balance(s, OfferEscrow(o), r) = 0

BidKept(s, b) ==
    IF b \in DOMAIN s.bids
    THEN /\ s.bids[b].reservedCredits = s.bids[b].remaining * s.bids[b].maxUnitPrice
         /\ Balance(s, BidEscrow(b), "credits") = s.bids[b].reservedCredits
         /\ s.bids[b].reservedCredits <= MaxSafe
    ELSE Balance(s, BidEscrow(b), "credits") = 0

(* An offer and a bid meet once, since one of them is used up then. *)
TradeKept(s, t) ==
    IF t \in DOMAIN s.trades
    THEN /\ s.offers[t[1]].remaining = 0 \/ s.bids[t[2]].remaining = 0
         /\ Balance(s, ResourceEscrow(t), s.offers[t[1]].resource) =
                IF s.trades[t].state = "escrowed" THEN s.trades[t].quantity ELSE 0
         /\ Balance(s, CreditEscrow(t), "credits") =
                IF s.trades[t].state = "escrowed" THEN s.trades[t].totalPrice ELSE 0
    ELSE /\ \A r \in Resource : Balance(s, ResourceEscrow(t), r) = 0
         /\ Balance(s, CreditEscrow(t), "credits") = 0

Kept(s) ==
    /\ IsBooks(s)
    /\ \A o \in Order : OfferKept(s, o)
    /\ \A b \in Order : BidKept(s, b)
    /\ \A t \in Trade : TradeKept(s, t)

(* What the operations keep is more than EscrowExact asks. *)
LEMMA KeptIsExact == Kept(books) => EscrowExact
<1> SUFFICES ASSUME Kept(books) PROVE EscrowExact
    OBVIOUS
<1>1. /\ DOMAIN books.offers \subseteq Order /\ DOMAIN books.bids \subseteq Order
      /\ DOMAIN books.trades \subseteq Trade
    BY DEF Kept, IsBooks, Trade
<1>2. \A o \in DOMAIN books.offers : OfferKept(books, o)
    BY <1>1 DEF Kept
<1>3. \A b \in DOMAIN books.bids : BidKept(books, b)
    BY <1>1 DEF Kept
<1>4. \A t \in DOMAIN books.trades : TradeKept(books, t)
    BY <1>1 DEF Kept
<1> QED
    BY <1>2, <1>3, <1>4 DEF OfferKept, BidKept, TradeKept, EscrowExact

-----------------------------------------------------------------------------
(* Accounts. *)

(* Every account has a name of its own. *)
LEMMA Names ==
    \A x, y :
        /\ OfferEscrow(x) = OfferEscrow(y) => x = y
        /\ BidEscrow(x) = BidEscrow(y) => x = y
        /\ ResourceEscrow(x) = ResourceEscrow(y) => x = y
        /\ CreditEscrow(x) = CreditEscrow(y) => x = y
        /\ OfferEscrow(x) \notin {BidEscrow(y), ResourceEscrow(y), CreditEscrow(y),
                                  OwnAccount(y), ReservationAccount(y), MintAccount, BurnAccount}
        /\ BidEscrow(x) \notin {ResourceEscrow(y), CreditEscrow(y),
                                OwnAccount(y), ReservationAccount(y), MintAccount, BurnAccount}
        /\ ResourceEscrow(x) \notin {CreditEscrow(y),
                                     OwnAccount(y), ReservationAccount(y), MintAccount, BurnAccount}
        /\ CreditEscrow(x) \notin {OwnAccount(y), ReservationAccount(y), MintAccount, BurnAccount}
BY DEF OfferEscrow, BidEscrow, ResourceEscrow, CreditEscrow, OwnAccount, ReservationAccount,
       MintAccount, BurnAccount

(* Which accounts there are.  The two that mint and burn have no balance. *)
LEMMA Holders ==
    /\ \A a \in Account : OwnAccount(a) \in Holder
    /\ \A r \in Reservation : ReservationAccount(r) \in Holder
    /\ \A o \in Order : OfferEscrow(o) \in Holder /\ BidEscrow(o) \in Holder
    /\ \A t \in Trade : ResourceEscrow(t) \in Holder /\ CreditEscrow(t) \in Holder
    /\ "credits" \in Resource /\ Goods \subseteq Resource
    /\ MintAccount \notin Holder /\ BurnAccount \notin Holder
<1>1. ASSUME NEW a \in Account PROVE OwnAccount(a) \in Holder
    BY DEF Holder, Own
<1>2. ASSUME NEW r \in Reservation PROVE ReservationAccount(r) \in Holder
    BY DEF Holder
<1>3. ASSUME NEW o \in Order PROVE OfferEscrow(o) \in Holder /\ BidEscrow(o) \in Holder
    BY DEF Holder
<1>4. ASSUME NEW t \in Trade PROVE ResourceEscrow(t) \in Holder /\ CreditEscrow(t) \in Holder
    BY DEF Holder
<1>5. MintAccount \notin Holder
    BY DEF Holder, MintAccount, Own, OwnAccount, OfferEscrow, BidEscrow,
           ResourceEscrow, CreditEscrow, ReservationAccount
<1>6. BurnAccount \notin Holder
    BY DEF Holder, BurnAccount, Own, OwnAccount, OfferEscrow, BidEscrow,
           ResourceEscrow, CreditEscrow, ReservationAccount
<1> QED
    BY <1>1, <1>2, <1>3, <1>4, <1>5, <1>6 DEF Resource

(* A posting that does not throw moves the amount, and nothing else. *)
LEMMA PostShape ==
    ASSUME NEW s, Shape(s), NEW d, NEW c, NEW r, NEW n
    PROVE  /\ Shape(Post(s, d, c, r, n))
           /\ Post(s, d, c, r, n).offers = s.offers
           /\ Post(s, d, c, r, n).bids = s.bids
           /\ Post(s, d, c, r, n).trades = s.trades
BY DEF Shape, Post

(* post does not throw only if it can take the amount. *)
LEMMA PostOk ==
    ASSUME NEW s, Shape(s), NEW d, NEW c, NEW r, NEW n, Post(s, d, c, r, n).ok
    PROVE  s.ok /\ n > 0 /\ d # c /\ Payable(s, d, r, n)
BY DEF Shape, Post

(* The books after it, account by account. *)
LEMMA Posted ==
    ASSUME NEW s, IsBooks(s), NEW d \in Holder \cup {MintAccount}, NEW c \in Holder \cup {BurnAccount},
           NEW r \in Resource, NEW n \in Nat, n > 0, d # c, Payable(s, d, r, n)
    PROVE  /\ IsBooks(Post(s, d, c, r, n))
           /\ Post(s, d, c, r, n).offers = s.offers
           /\ Post(s, d, c, r, n).bids = s.bids
           /\ Post(s, d, c, r, n).trades = s.trades
           /\ \A h \in Holder, x \in Resource :
                Balance(Post(s, d, c, r, n), h, x) =
                    IF h = d /\ x = r THEN Balance(s, h, x) - n
                    ELSE IF h = c /\ x = r THEN Balance(s, h, x) + n ELSE Balance(s, h, x)
<1> DEFINE t == Post(s, d, c, r, n)
           moved == Moved(s.balance, d, c, r, n)
<1>1. t = [s EXCEPT !.balance = moved,
                    !.minted[r] = @ + (IF d = MintAccount THEN n ELSE 0),
                    !.burned[r] = @ + (IF c = BurnAccount THEN n ELSE 0)]
    BY DEF Post, IsBooks, Moved
<1>2. ASSUME NEW h \in Holder, NEW x \in Resource
      PROVE  moved[<<h, x>>] = IF h = d /\ x = r THEN Balance(s, h, x) - n
                               ELSE IF h = c /\ x = r THEN Balance(s, h, x) + n
                               ELSE Balance(s, h, x)
    <2>1. <<h, x>> \in Holder \X Resource
        OBVIOUS
    <2>2. moved[<<h, x>>] = IF <<h, x>> = <<d, r>> THEN s.balance[<<h, x>>] - n
                            ELSE IF <<h, x>> = <<c, r>> THEN s.balance[<<h, x>>] + n
                            ELSE s.balance[<<h, x>>]
        BY <2>1 DEF Moved
    <2> HIDE DEF moved
    <2> QED BY <2>2 DEF Balance
<1>3. moved \in Balances
    <2> HIDE DEF moved
    <2>1. ASSUME NEW h \in Holder, NEW x \in Resource PROVE moved[<<h, x>>] \in Nat
        <3>1. s.balance[<<h, x>>] \in Nat
            BY DEF IsBooks, Balances
        <3>2. h = d /\ x = r => s.balance[<<h, x>>] >= n
            BY Holders DEF Payable, Balance
        <3> QED BY <1>2, <3>1, <3>2 DEF Balance
    <2>2. moved = [p \in Holder \X Resource |-> moved[p]]
        BY DEF moved, Moved
    <2>3. \A p \in Holder \X Resource : moved[p] \in Nat
        BY <2>1
    <2> QED BY <2>2, <2>3 DEF Balances
<1> HIDE DEF moved
<1>4. /\ t.balance = moved /\ t.offers = s.offers /\ t.bids = s.bids /\ t.trades = s.trades
      /\ t.ok = TRUE /\ Shape(t)
    BY <1>1 DEF IsBooks, Shape
<1>5. t.minted \in [Resource -> Nat] /\ t.burned \in [Resource -> Nat]
    BY <1>1 DEF IsBooks, Shape
<1> QED
    BY <1>2, <1>3, <1>4, <1>5 DEF IsBooks, Balance

(* A condition that holds leaves the books as they are; one that fails is a throw. *)
LEMMA Required ==
    ASSUME NEW s, Shape(s), NEW condition \in BOOLEAN
    PROVE  /\ Shape(Require(s, condition))
           /\ Require(s, condition).ok => s.ok /\ condition
           /\ IsBooks(s) /\ condition => Require(s, condition) = s
           /\ Require(s, condition).balance = s.balance
           /\ Require(s, condition).offers = s.offers
           /\ Require(s, condition).bids = s.bids
           /\ Require(s, condition).trades = s.trades
<1> DEFINE t == Require(s, condition)
           allowed == s.ok /\ condition
<1>1. t = [ok |-> allowed, balance |-> s.balance, minted |-> s.minted, burned |-> s.burned,
           offers |-> s.offers, bids |-> s.bids, trades |-> s.trades]
    BY DEF Require, Shape
<1> HIDE DEF t, allowed
<1>2. /\ Shape(t) /\ t.ok = allowed /\ t.balance = s.balance
      /\ t.offers = s.offers /\ t.bids = s.bids /\ t.trades = s.trades
    BY <1>1 DEF Shape
<1>3. t.ok => s.ok /\ condition
    BY <1>2 DEF allowed
<1>4. ASSUME IsBooks(s), condition PROVE t = s
    <2>1. allowed = TRUE
        BY <1>4 DEF allowed, IsBooks
    <2> QED BY <1>1, <1>4, <2>1 DEF IsBooks, Shape
<1> QED
    BY <1>2, <1>3, <1>4 DEF t

(* What has thrown stays thrown. *)
LEMMA ReturnShape ==
    ASSUME NEW s, Shape(s), NEW e, NEW w, NEW r
    PROVE  /\ Shape(Return(s, e, w, r))
           /\ Return(s, e, w, r).ok => s.ok
           /\ Return(s, e, w, r).offers = s.offers
           /\ Return(s, e, w, r).bids = s.bids
           /\ Return(s, e, w, r).trades = s.trades
BY PostShape, PostOk DEF Return

(* The whole of an escrow goes back to its owner. *)
LEMMA Returned ==
    ASSUME NEW s, IsBooks(s), NEW e \in Holder, NEW w \in Holder, e # w, NEW r \in Resource
    PROVE  /\ IsBooks(Return(s, e, w, r))
           /\ Return(s, e, w, r).offers = s.offers
           /\ Return(s, e, w, r).bids = s.bids
           /\ Return(s, e, w, r).trades = s.trades
           /\ Balance(Return(s, e, w, r), e, r) = 0
           /\ \A h \in Holder, x \in Resource :
                ~ (h \in {e, w} /\ x = r) => Balance(Return(s, e, w, r), h, x) = Balance(s, h, x)
<1> DEFINE n == Balance(s, e, r)
           t == Return(s, e, w, r)
<1>1. n \in Nat
    BY DEF IsBooks, Balances, Balance
<1>2. CASE n = 0
    BY <1>2 DEF Return
<1>3. CASE n # 0
    <2>1. n > 0 /\ Payable(s, e, r, n)
        BY <1>1, <1>3 DEF Payable
    <2>2. t = Post(s, e, w, r, n)
        BY <1>3 DEF Return
    <2> HIDE DEF n, t
    <2>3. /\ IsBooks(t) /\ t.offers = s.offers /\ t.bids = s.bids /\ t.trades = s.trades
          /\ \A h \in Holder, x \in Resource :
                Balance(t, h, x) = IF h = e /\ x = r THEN Balance(s, h, x) - n
                                   ELSE IF h = w /\ x = r THEN Balance(s, h, x) + n
                                   ELSE Balance(s, h, x)
        BY <1>1, <2>1, <2>2, Posted
    <2>4. Balance(t, e, r) = 0
        BY <1>1, <2>3 DEF n
    <2> QED BY <2>3, <2>4 DEF t
<1> QED
    BY <1>2, <1>3

-----------------------------------------------------------------------------
(* Closing an order. *)

Final == {"cancelled", "expired"}

(* cancelOffer and expire give the goods that are left back to the seller. *)
LEMMA OfferClosed ==
    ASSUME NEW s, Kept(s), NEW o \in DOMAIN s.offers, NEW final \in Final
    PROVE  /\ Kept(CloseOffer(s, o, final))
           /\ DOMAIN CloseOffer(s, o, final).offers = DOMAIN s.offers
           /\ CloseOffer(s, o, final).bids = s.bids
<1> DEFINE offer == s.offers[o]
           u == Return(s, OfferEscrow(o), OwnAccount(offer.seller), offer.resource)
           closed == [offer EXCEPT !.remaining = 0, !.state = final]
           t == CloseOffer(s, o, final)
<1>1. o \in Order /\ offer \in OfferRecord /\ offer.seller \in Account /\ offer.resource \in Resource
    BY DEF Kept, IsBooks, OfferRecord, Resource
<1>2. /\ OfferEscrow(o) \in Holder /\ OwnAccount(offer.seller) \in Holder
      /\ OfferEscrow(o) # OwnAccount(offer.seller)
    BY <1>1, Holders, Names
<1> HIDE DEF offer
<1>3. /\ IsBooks(u) /\ u.offers = s.offers /\ u.bids = s.bids /\ u.trades = s.trades
      /\ Balance(u, OfferEscrow(o), offer.resource) = 0
      /\ \A h \in Holder, x \in Resource :
            ~ (h \in {OfferEscrow(o), OwnAccount(offer.seller)} /\ x = offer.resource)
                => Balance(u, h, x) = Balance(s, h, x)
    BY <1>1, <1>2, Returned DEF Kept
<1>4. t = [u EXCEPT !.offers[o] = closed]
    BY <1>3 DEF CloseOffer, offer
<1> HIDE DEF u, t
<1>5. closed \in OfferRecord /\ closed.remaining = 0 /\ closed.resource = offer.resource
    BY <1>1 DEF OfferRecord, Final
<1> HIDE DEF closed
<1>6. /\ Shape(t) /\ t.ok = TRUE /\ t.balance = u.balance /\ t.minted = u.minted
      /\ t.burned = u.burned /\ t.bids = s.bids /\ t.trades = s.trades
      /\ t.offers = [s.offers EXCEPT ![o] = closed]
    BY <1>3, <1>4 DEF IsBooks, Shape
<1>7. /\ DOMAIN t.offers = DOMAIN s.offers /\ t.offers[o] = closed
      /\ \A p \in DOMAIN s.offers \ {o} : t.offers[p] = s.offers[p]
    BY <1>6 DEF Kept, IsBooks
<1>8. t.offers \in [DOMAIN t.offers -> OfferRecord]
    BY <1>5, <1>6, <1>7 DEF Kept, IsBooks
<1>9. IsBooks(t)
    BY <1>3, <1>6, <1>7, <1>8 DEF IsBooks, Kept
<1>10. \A h \in Holder, x \in Resource :
          h # OfferEscrow(o) /\ (\A a : h # OwnAccount(a)) => Balance(t, h, x) = Balance(s, h, x)
    BY <1>3, <1>6 DEF Balance
<1>11. ASSUME NEW p \in Order PROVE OfferKept(t, p)
    <2>1. CASE p = o
        BY <1>3, <1>5, <1>6, <1>7, <2>1 DEF OfferKept, Balance
    <2>2. CASE p # o
        <3>1. \A x \in Resource : Balance(t, OfferEscrow(p), x) = Balance(s, OfferEscrow(p), x)
            BY <1>10, <2>2, Names, Holders
        <3>2. OfferKept(s, p)
            BY DEF Kept
        <3>3. p \in DOMAIN s.offers => s.offers[p].resource \in Resource
            BY DEF Kept, IsBooks, OfferRecord, Resource
        <3> QED BY <1>7, <2>2, <3>1, <3>2, <3>3 DEF OfferKept
    <2> QED BY <2>1, <2>2
<1>12. ASSUME NEW b \in Order PROVE BidKept(t, b)
    <2>1. Balance(t, BidEscrow(b), "credits") = Balance(s, BidEscrow(b), "credits")
        BY <1>10, Names, Holders
    <2>2. BidKept(s, b)
        BY DEF Kept
    <2> QED BY <1>6, <2>1, <2>2 DEF BidKept
<1>13. ASSUME NEW id \in Trade PROVE TradeKept(t, id)
    <2>1. \A x \in Resource : /\ Balance(t, ResourceEscrow(id), x) = Balance(s, ResourceEscrow(id), x)
                              /\ Balance(t, CreditEscrow(id), x) = Balance(s, CreditEscrow(id), x)
        BY <1>10, Names, Holders
    <2>2. TradeKept(s, id)
        BY DEF Kept
    <2>3. CASE id \in DOMAIN s.trades
        <3>1. id[1] \in DOMAIN s.offers
            BY <2>3 DEF Kept, IsBooks
        <3>2. /\ t.offers[id[1]].resource = s.offers[id[1]].resource
              /\ t.offers[id[1]].resource \in Resource
              /\ s.offers[id[1]].remaining = 0 => t.offers[id[1]].remaining = 0
            BY <1>1, <1>5, <1>7, <3>1 DEF offer, Kept, IsBooks, OfferRecord, Resource
        <3> QED BY <1>6, <2>1, <2>2, <2>3, <3>2, Holders DEF TradeKept
    <2>4. CASE id \notin DOMAIN s.trades
        BY <1>6, <2>1, <2>2, <2>4, Holders DEF TradeKept
    <2> QED BY <2>3, <2>4
<1> QED
    BY <1>6, <1>7, <1>9, <1>11, <1>12, <1>13 DEF Kept, t

(* cancelBid and expire give the credits that are left back to the buyer. *)
LEMMA BidClosed ==
    ASSUME NEW s, Kept(s), NEW b \in DOMAIN s.bids, NEW final \in Final
    PROVE  /\ Kept(CloseBid(s, b, final))
           /\ DOMAIN CloseBid(s, b, final).bids = DOMAIN s.bids
           /\ CloseBid(s, b, final).offers = s.offers
<1> DEFINE bid == s.bids[b]
           u == Return(s, BidEscrow(b), OwnAccount(bid.buyer), "credits")
           closed == [bid EXCEPT !.remaining = 0, !.reservedCredits = 0, !.state = final]
           t == CloseBid(s, b, final)
<1>1. b \in Order /\ bid \in BidRecord /\ bid.buyer \in Account
    BY DEF Kept, IsBooks, BidRecord
<1>2. /\ BidEscrow(b) \in Holder /\ OwnAccount(bid.buyer) \in Holder
      /\ BidEscrow(b) # OwnAccount(bid.buyer) /\ "credits" \in Resource
    BY <1>1, Holders, Names
<1> HIDE DEF bid
<1>3. /\ IsBooks(u) /\ u.offers = s.offers /\ u.bids = s.bids /\ u.trades = s.trades
      /\ Balance(u, BidEscrow(b), "credits") = 0
      /\ \A h \in Holder, x \in Resource :
            ~ (h \in {BidEscrow(b), OwnAccount(bid.buyer)} /\ x = "credits")
                => Balance(u, h, x) = Balance(s, h, x)
    BY <1>1, <1>2, Returned DEF Kept
<1>4. t = [u EXCEPT !.bids[b] = closed]
    BY <1>3 DEF CloseBid, bid
<1> HIDE DEF u, t
<1>5. /\ closed \in BidRecord /\ closed.remaining = 0 /\ closed.reservedCredits = 0
      /\ closed.maxUnitPrice \in Nat
    BY <1>1 DEF BidRecord, Final
<1> HIDE DEF closed
<1>6. /\ Shape(t) /\ t.ok = TRUE /\ t.balance = u.balance /\ t.minted = u.minted
      /\ t.burned = u.burned /\ t.offers = s.offers /\ t.trades = s.trades
      /\ t.bids = [s.bids EXCEPT ![b] = closed]
    BY <1>3, <1>4 DEF IsBooks, Shape
<1>7. /\ DOMAIN t.bids = DOMAIN s.bids /\ t.bids[b] = closed
      /\ \A p \in DOMAIN s.bids \ {b} : t.bids[p] = s.bids[p]
    BY <1>6 DEF Kept, IsBooks
<1>8. t.bids \in [DOMAIN t.bids -> BidRecord]
    BY <1>5, <1>6, <1>7 DEF Kept, IsBooks
<1>9. IsBooks(t)
    BY <1>3, <1>6, <1>7, <1>8 DEF IsBooks, Kept
<1>10. \A h \in Holder, x \in Resource :
          h # BidEscrow(b) /\ (\A a : h # OwnAccount(a)) => Balance(t, h, x) = Balance(s, h, x)
    BY <1>3, <1>6 DEF Balance
<1>11. ASSUME NEW o \in Order PROVE OfferKept(t, o)
    <2>1. \A x \in Resource : Balance(t, OfferEscrow(o), x) = Balance(s, OfferEscrow(o), x)
        BY <1>10, Names, Holders
    <2>2. OfferKept(s, o)
        BY DEF Kept
    <2>3. o \in DOMAIN s.offers => s.offers[o].resource \in Resource
        BY DEF Kept, IsBooks, OfferRecord, Resource
    <2> QED BY <1>6, <2>1, <2>2, <2>3 DEF OfferKept
<1>12. ASSUME NEW p \in Order PROVE BidKept(t, p)
    <2>1. CASE p = b
        <3>1. Balance(t, BidEscrow(b), "credits") = 0
            BY <1>3, <1>6 DEF Balance
        <3>2. 0 = 0 * closed.maxUnitPrice /\ 0 <= MaxSafe
            BY <1>5, MarketAssumption
        <3> QED BY <1>5, <1>7, <2>1, <3>1, <3>2 DEF BidKept
    <2>2. CASE p # b
        <3>1. Balance(t, BidEscrow(p), "credits") = Balance(s, BidEscrow(p), "credits")
            BY <1>10, <2>2, Names, Holders
        <3>2. BidKept(s, p)
            BY DEF Kept
        <3> QED BY <1>7, <2>2, <3>1, <3>2 DEF BidKept
    <2> QED BY <2>1, <2>2
<1>13. ASSUME NEW id \in Trade PROVE TradeKept(t, id)
    <2>1. \A x \in Resource : /\ Balance(t, ResourceEscrow(id), x) = Balance(s, ResourceEscrow(id), x)
                              /\ Balance(t, CreditEscrow(id), x) = Balance(s, CreditEscrow(id), x)
        BY <1>10, Names, Holders
    <2>2. TradeKept(s, id)
        BY DEF Kept
    <2>3. CASE id \in DOMAIN s.trades
        <3>1. id[1] \in DOMAIN s.offers /\ id[2] \in DOMAIN s.bids
            BY <2>3 DEF Kept, IsBooks
        <3>2. /\ s.offers[id[1]].resource \in Resource
              /\ s.bids[id[2]].remaining = 0 => t.bids[id[2]].remaining = 0
            BY <1>5, <1>7, <3>1 DEF Kept, IsBooks, OfferRecord, Resource
        <3> QED BY <1>6, <2>1, <2>2, <2>3, <3>2, Holders DEF TradeKept
    <2>4. CASE id \notin DOMAIN s.trades
        BY <1>6, <2>1, <2>2, <2>4, Holders DEF TradeKept
    <2> QED BY <2>3, <2>4
<1> QED
    BY <1>6, <1>7, <1>9, <1>11, <1>12, <1>13 DEF Kept, t

-----------------------------------------------------------------------------
(* What is spent and reserved is no business of the escrows. *)

(* Books that differ in other accounts only keep the same promises. *)
LEMMA EscrowsUntouched ==
    ASSUME NEW s, Kept(s), NEW t, IsBooks(t),
           t.offers = s.offers, t.bids = s.bids, t.trades = s.trades,
           \A h \in Holder, x \in Resource :
              (\A a : h # OwnAccount(a) /\ h # ReservationAccount(a))
                 => Balance(t, h, x) = Balance(s, h, x)
    PROVE  Kept(t)
<1>1. ASSUME NEW o \in Order PROVE OfferKept(t, o)
    <2>1. \A x \in Resource : Balance(t, OfferEscrow(o), x) = Balance(s, OfferEscrow(o), x)
        BY Names, Holders
    <2>2. OfferKept(s, o)
        BY DEF Kept
    <2>3. o \in DOMAIN s.offers => s.offers[o].resource \in Resource
        BY DEF Kept, IsBooks, OfferRecord, Resource
    <2> QED BY <2>1, <2>2, <2>3 DEF OfferKept
<1>2. ASSUME NEW b \in Order PROVE BidKept(t, b)
    <2>1. Balance(t, BidEscrow(b), "credits") = Balance(s, BidEscrow(b), "credits")
        BY Names, Holders
    <2>2. BidKept(s, b)
        BY DEF Kept
    <2> QED BY <2>1, <2>2 DEF BidKept
<1>3. ASSUME NEW id \in Trade PROVE TradeKept(t, id)
    <2>1. \A x \in Resource : /\ Balance(t, ResourceEscrow(id), x) = Balance(s, ResourceEscrow(id), x)
                              /\ Balance(t, CreditEscrow(id), x) = Balance(s, CreditEscrow(id), x)
        BY Names, Holders
    <2>2. TradeKept(s, id)
        BY DEF Kept
    <2>3. id \in DOMAIN s.trades => s.offers[id[1]].resource \in Resource
        BY DEF Kept, IsBooks, OfferRecord, Resource
    <2> QED BY <2>1, <2>2, <2>3, Holders DEF TradeKept
<1> QED
    BY <1>1, <1>2, <1>3 DEF Kept

(* mint, burn, transfer and reserve. *)
LEMMA PlainPosting ==
    ASSUME NEW s, Kept(s), NEW d, NEW c, NEW r \in Resource, NEW n \in Nat, Post(s, d, c, r, n).ok,
           d = MintAccount \/ \E a \in Account : d = OwnAccount(a),
           \/ c = BurnAccount
           \/ \E a \in Account : c = OwnAccount(a)
           \/ \E id \in Reservation : c = ReservationAccount(id)
    PROVE  Kept(Post(s, d, c, r, n))
<1> DEFINE t == Post(s, d, c, r, n)
<1>1. d \in Holder \cup {MintAccount} /\ c \in Holder \cup {BurnAccount}
    BY Holders
<1>2. IsBooks(s) /\ Shape(s)
    BY DEF Kept, IsBooks
<1>3. n > 0 /\ d # c /\ Payable(s, d, r, n)
    BY <1>2, PostOk
<1> HIDE DEF t
<1>4. /\ IsBooks(t) /\ t.offers = s.offers /\ t.bids = s.bids /\ t.trades = s.trades
      /\ \A h \in Holder, x \in Resource :
            Balance(t, h, x) = IF h = d /\ x = r THEN Balance(s, h, x) - n
                               ELSE IF h = c /\ x = r THEN Balance(s, h, x) + n
                               ELSE Balance(s, h, x)
    BY <1>1, <1>2, <1>3, Posted DEF t
<1>5. ASSUME NEW h \in Holder, NEW x \in Resource,
             \A a : h # OwnAccount(a) /\ h # ReservationAccount(a)
      PROVE  Balance(t, h, x) = Balance(s, h, x)
    BY <1>4, <1>5, Holders
<1> QED
    BY <1>4, <1>5, EscrowsUntouched DEF t

(* refundReservation. *)
LEMMA ReservationReturned ==
    ASSUME NEW s, Kept(s), NEW id \in Reservation, NEW a \in Account, NEW r \in Resource
    PROVE  Kept(Return(s, ReservationAccount(id), OwnAccount(a), r))
<1> DEFINE e == ReservationAccount(id)
           w == OwnAccount(a)
           t == Return(s, e, w, r)
<1>1. e \in Holder /\ w \in Holder /\ e # w
    BY Holders DEF OwnAccount, ReservationAccount
<1> HIDE DEF t
<1>2. /\ IsBooks(t) /\ t.offers = s.offers /\ t.bids = s.bids /\ t.trades = s.trades
      /\ \A h \in Holder, x \in Resource :
            ~ (h \in {e, w} /\ x = r) => Balance(t, h, x) = Balance(s, h, x)
    BY <1>1, Returned DEF t, Kept
<1> QED
    BY <1>2, EscrowsUntouched DEF t

(* settleReservation. *)
LEMMA ReservationSettled ==
    ASSUME NEW s, Kept(s), NEW id \in Reservation, NEW a \in Account, NEW owner \in Account,
           NEW r \in Resource, NEW n \in Nat, settleReservation(s, id, a, owner, r, n).ok
    PROVE  Kept(settleReservation(s, id, a, owner, r, n))
<1> DEFINE account == ReservationAccount(id)
           covered == n <= Balance(s, account, r)
           guarded == Require(s, covered)
           t == Post(guarded, account, OwnAccount(a), r, n)
<1>1. IsBooks(s) /\ Shape(s) /\ covered \in BOOLEAN
    BY DEF Kept, IsBooks
<1>2. settleReservation(s, id, a, owner, r, n) = Return(t, account, OwnAccount(owner), r)
    BY DEF settleReservation
<1> HIDE DEF covered
<1>3. Shape(guarded) /\ Shape(t)
    BY <1>1, Required, PostShape
<1>4. t.ok
    BY <1>2, <1>3, ReturnShape
<1> HIDE DEF t
<1>5. guarded.ok /\ n > 0 /\ account # OwnAccount(a) /\ Payable(guarded, account, r, n)
    BY <1>3, <1>4, PostOk DEF t
<1>6. guarded = s
    BY <1>1, <1>5, Required
<1> HIDE DEF guarded
<1>7. account \in Holder /\ OwnAccount(a) \in Holder
    BY Holders
<1>8. /\ IsBooks(t) /\ t.offers = s.offers /\ t.bids = s.bids /\ t.trades = s.trades
      /\ \A h \in Holder, x \in Resource :
            Balance(t, h, x) = IF h = account /\ x = r THEN Balance(s, h, x) - n
                               ELSE IF h = OwnAccount(a) /\ x = r THEN Balance(s, h, x) + n
                               ELSE Balance(s, h, x)
    BY <1>1, <1>5, <1>6, <1>7, Posted DEF t
<1>9. Kept(t)
    BY <1>8, EscrowsUntouched
<1> QED
    BY <1>2, <1>9, ReservationReturned

-----------------------------------------------------------------------------
(* A new order promises what has just been put into its escrow. *)

(* placeOffer: the escrow of the new id was empty. *)
LEMMA OfferPlaced ==
    ASSUME NEW s, Kept(s), NEW o \in Order \ DOMAIN s.offers, NEW offer \in OfferRecord,
           offer.remaining = offer.quantity, placeOffer(s, o, offer).ok
    PROVE  Kept(placeOffer(s, o, offer))
<1> DEFINE allowed == offer.minimumFill <= offer.quantity
           guarded == Require(s, allowed)
           d == OwnAccount(offer.seller)
           n == offer.quantity
           r == offer.resource
           u == Post(guarded, d, OfferEscrow(o), r, n)
           offers == With(s.offers, o, offer)
           t == placeOffer(s, o, offer)
<1>1. /\ IsBooks(s) /\ Shape(s) /\ allowed \in BOOLEAN
      /\ n \in Nat /\ r \in Resource /\ offer.seller \in Account /\ o \in Order
    BY DEF Kept, IsBooks, OfferRecord, Resource
<1> HIDE DEF allowed
<1>2. Shape(guarded) /\ guarded.offers = s.offers
    BY <1>1, Required
<1> HIDE DEF guarded
<1>3. Shape(u) /\ u.offers = s.offers
    BY <1>2, PostShape
<1>4. t = [u EXCEPT !.offers = offers]
    BY <1>3 DEF placeOffer, guarded, allowed
<1> HIDE DEF u
<1>5. u.ok
    BY <1>3, <1>4 DEF Shape
<1>6. guarded.ok /\ n > 0 /\ d # OfferEscrow(o) /\ Payable(guarded, d, r, n)
    BY <1>2, <1>5, PostOk DEF u
<1>7. guarded = s
    BY <1>1, <1>6, Required DEF guarded
<1>8. d \in Holder /\ OfferEscrow(o) \in Holder
    BY <1>1, Holders
<1> HIDE DEF n, r, d
<1>9. /\ IsBooks(u) /\ u.bids = s.bids /\ u.trades = s.trades
      /\ \A h \in Holder, x \in Resource :
            Balance(u, h, x) = IF h = d /\ x = r THEN Balance(s, h, x) - n
                               ELSE IF h = OfferEscrow(o) /\ x = r THEN Balance(s, h, x) + n
                               ELSE Balance(s, h, x)
    BY <1>1, <1>6, <1>7, <1>8, Posted DEF u
<1> HIDE DEF t, offers
<1>10. /\ Shape(t) /\ t.ok = TRUE /\ t.balance = u.balance /\ t.minted = u.minted
       /\ t.burned = u.burned /\ t.bids = s.bids /\ t.trades = s.trades /\ t.offers = offers
    BY <1>4, <1>9 DEF IsBooks, Shape
<1>11. /\ DOMAIN offers = DOMAIN s.offers \cup {o} /\ offers[o] = offer
       /\ \A p \in DOMAIN s.offers : offers[p] = s.offers[p]
       /\ offers = [p \in DOMAIN offers |-> offers[p]]
    BY DEF offers, With
<1>12. t.offers \in [DOMAIN t.offers -> OfferRecord]
    BY <1>1, <1>10, <1>11 DEF IsBooks
<1>13. IsFiniteSet(DOMAIN t.offers)
    BY <1>1, <1>10, <1>11, FS_AddElement DEF IsBooks
<1>14. IsBooks(t)
    BY <1>1, <1>9, <1>10, <1>11, <1>12, <1>13 DEF IsBooks
<1>15. \A h \in Holder, x \in Resource :
          h # OfferEscrow(o) /\ (\A a : h # OwnAccount(a)) => Balance(t, h, x) = Balance(s, h, x)
    BY <1>9, <1>10 DEF Balance, d
<1>16. ASSUME NEW p \in Order PROVE OfferKept(t, p)
    <2>1. CASE p = o
        <3>1. Balance(s, OfferEscrow(o), r) = 0
            BY <1>1 DEF Kept, OfferKept
        <3>2. OfferEscrow(o) # d
            BY Names DEF d
        <3>3. Balance(t, OfferEscrow(o), r) = n
            BY <1>1, <1>8, <1>9, <1>10, <3>1, <3>2 DEF Balance
        <3> QED BY <1>10, <1>11, <2>1, <3>3 DEF OfferKept, r, n
    <2>2. CASE p # o
        <3>1. \A x \in Resource : Balance(t, OfferEscrow(p), x) = Balance(s, OfferEscrow(p), x)
            BY <1>15, <2>2, Names, Holders
        <3>2. OfferKept(s, p)
            BY DEF Kept
        <3>3. p \in DOMAIN s.offers => s.offers[p].resource \in Resource
            BY DEF Kept, IsBooks, OfferRecord, Resource
        <3> QED BY <1>10, <1>11, <2>2, <3>1, <3>2, <3>3 DEF OfferKept
    <2> QED BY <2>1, <2>2
<1>17. ASSUME NEW b \in Order PROVE BidKept(t, b)
    <2>1. Balance(t, BidEscrow(b), "credits") = Balance(s, BidEscrow(b), "credits")
        BY <1>15, Names, Holders
    <2>2. BidKept(s, b)
        BY DEF Kept
    <2> QED BY <1>10, <2>1, <2>2 DEF BidKept
<1>18. ASSUME NEW id \in Trade PROVE TradeKept(t, id)
    <2>1. \A x \in Resource : /\ Balance(t, ResourceEscrow(id), x) = Balance(s, ResourceEscrow(id), x)
                              /\ Balance(t, CreditEscrow(id), x) = Balance(s, CreditEscrow(id), x)
        BY <1>15, Names, Holders
    <2>2. TradeKept(s, id)
        BY DEF Kept
    <2>3. CASE id \in DOMAIN s.trades
        <3>1. id[1] \in DOMAIN s.offers
            BY <2>3 DEF Kept, IsBooks
        <3>2. t.offers[id[1]] = s.offers[id[1]] /\ s.offers[id[1]].resource \in Resource
            BY <1>10, <1>11, <3>1 DEF Kept, IsBooks, OfferRecord, Resource
        <3> QED BY <1>10, <2>1, <2>2, <2>3, <3>2, Holders DEF TradeKept
    <2>4. CASE id \notin DOMAIN s.trades
        BY <1>10, <2>1, <2>2, <2>4, Holders DEF TradeKept
    <2> QED BY <2>3, <2>4
<1> QED
    BY <1>14, <1>16, <1>17, <1>18 DEF Kept, t

(* placeBid: and what it reserves is a safe number. *)
LEMMA BidPlaced ==
    ASSUME NEW s, Kept(s), NEW b \in Order \ DOMAIN s.bids, NEW bid \in BidRecord,
           bid.remaining = bid.quantity,
           bid.reservedCredits = bid.quantity * bid.maxUnitPrice, placeBid(s, b, bid).ok
    PROVE  Kept(placeBid(s, b, bid))
<1> DEFINE allowed == multiplySafe(bid.quantity, bid.maxUnitPrice)
           guarded == Require(s, allowed)
           d == OwnAccount(bid.buyer)
           n == bid.quantity * bid.maxUnitPrice
           u == Post(guarded, d, BidEscrow(b), "credits", n)
           bids == With(s.bids, b, bid)
           t == placeBid(s, b, bid)
<1>1. /\ IsBooks(s) /\ Shape(s) /\ bid.buyer \in Account /\ b \in Order
      /\ bid.quantity \in Nat /\ bid.maxUnitPrice \in Nat /\ bid.reservedCredits \in Nat
    BY DEF Kept, IsBooks, BidRecord
<1>2. n \in Nat /\ allowed \in BOOLEAN /\ bid.reservedCredits = n /\ (allowed => n <= MaxSafe)
    BY <1>1 DEF multiplySafe
<1> HIDE DEF allowed, n
<1>3. Shape(guarded) /\ guarded.bids = s.bids
    BY <1>1, <1>2, Required
<1> HIDE DEF guarded
<1>4. Shape(u) /\ u.bids = s.bids
    BY <1>3, PostShape
<1>5. t = [u EXCEPT !.bids = bids]
    BY <1>4 DEF placeBid, guarded, allowed, n
<1> HIDE DEF u
<1>6. u.ok
    BY <1>4, <1>5 DEF Shape
<1>7. guarded.ok /\ n > 0 /\ d # BidEscrow(b) /\ Payable(guarded, d, "credits", n)
    BY <1>3, <1>6, PostOk DEF u
<1>8. guarded = s /\ allowed
    BY <1>1, <1>2, <1>7, Required DEF guarded
<1>9. d \in Holder /\ BidEscrow(b) \in Holder /\ "credits" \in Resource
    BY <1>1, Holders
<1> HIDE DEF d
<1>10. /\ IsBooks(u) /\ u.offers = s.offers /\ u.trades = s.trades
       /\ \A h \in Holder, x \in Resource :
            Balance(u, h, x) = IF h = d /\ x = "credits" THEN Balance(s, h, x) - n
                               ELSE IF h = BidEscrow(b) /\ x = "credits" THEN Balance(s, h, x) + n
                               ELSE Balance(s, h, x)
    BY <1>1, <1>2, <1>7, <1>8, <1>9, Posted DEF u
<1> HIDE DEF t, bids
<1>11. /\ Shape(t) /\ t.ok = TRUE /\ t.balance = u.balance /\ t.minted = u.minted
       /\ t.burned = u.burned /\ t.offers = s.offers /\ t.trades = s.trades /\ t.bids = bids
    BY <1>5, <1>10 DEF IsBooks, Shape
<1>12. /\ DOMAIN bids = DOMAIN s.bids \cup {b} /\ bids[b] = bid
       /\ \A p \in DOMAIN s.bids : bids[p] = s.bids[p]
       /\ bids = [p \in DOMAIN bids |-> bids[p]]
    BY DEF bids, With
<1>13. t.bids \in [DOMAIN t.bids -> BidRecord]
    BY <1>1, <1>11, <1>12 DEF IsBooks
<1>14. IsFiniteSet(DOMAIN t.bids)
    BY <1>1, <1>11, <1>12, FS_AddElement DEF IsBooks
<1>15. IsBooks(t)
    BY <1>1, <1>10, <1>11, <1>12, <1>13, <1>14 DEF IsBooks
<1>16. \A h \in Holder, x \in Resource :
          h # BidEscrow(b) /\ (\A a : h # OwnAccount(a)) => Balance(t, h, x) = Balance(s, h, x)
    BY <1>10, <1>11 DEF Balance, d
<1>17. ASSUME NEW o \in Order PROVE OfferKept(t, o)
    <2>1. \A x \in Resource : Balance(t, OfferEscrow(o), x) = Balance(s, OfferEscrow(o), x)
        BY <1>16, Names, Holders
    <2>2. OfferKept(s, o)
        BY DEF Kept
    <2>3. o \in DOMAIN s.offers => s.offers[o].resource \in Resource
        BY DEF Kept, IsBooks, OfferRecord, Resource
    <2> QED BY <1>11, <2>1, <2>2, <2>3 DEF OfferKept
<1>18. ASSUME NEW p \in Order PROVE BidKept(t, p)
    <2>1. CASE p = b
        <3>1. Balance(s, BidEscrow(b), "credits") = 0
            BY <1>1 DEF Kept, BidKept
        <3>2. BidEscrow(b) # d
            BY Names DEF d
        <3>3. Balance(t, BidEscrow(b), "credits") = n
            BY <1>2, <1>9, <1>10, <1>11, <3>1, <3>2 DEF Balance
        <3>4. bid.reservedCredits = bid.remaining * bid.maxUnitPrice
            OBVIOUS
        <3> QED BY <1>2, <1>8, <1>11, <1>12, <2>1, <3>3, <3>4 DEF BidKept
    <2>2. CASE p # b
        <3>1. Balance(t, BidEscrow(p), "credits") = Balance(s, BidEscrow(p), "credits")
            BY <1>16, <2>2, Names, Holders
        <3>2. BidKept(s, p)
            BY DEF Kept
        <3> QED BY <1>11, <1>12, <2>2, <3>1, <3>2 DEF BidKept
    <2> QED BY <2>1, <2>2
<1>19. ASSUME NEW id \in Trade PROVE TradeKept(t, id)
    <2>1. \A x \in Resource : /\ Balance(t, ResourceEscrow(id), x) = Balance(s, ResourceEscrow(id), x)
                              /\ Balance(t, CreditEscrow(id), x) = Balance(s, CreditEscrow(id), x)
        BY <1>16, Names, Holders
    <2>2. TradeKept(s, id)
        BY DEF Kept
    <2>3. CASE id \in DOMAIN s.trades
        <3>1. id[1] \in DOMAIN s.offers /\ id[2] \in DOMAIN s.bids
            BY <2>3 DEF Kept, IsBooks
        <3>2. t.bids[id[2]] = s.bids[id[2]] /\ s.offers[id[1]].resource \in Resource
            BY <1>11, <1>12, <3>1 DEF Kept, IsBooks, OfferRecord, Resource
        <3> QED BY <1>11, <2>1, <2>2, <2>3, <3>2, Holders DEF TradeKept
    <2>4. CASE id \notin DOMAIN s.trades
        BY <1>11, <2>1, <2>2, <2>4, Holders DEF TradeKept
    <2> QED BY <2>3, <2>4
<1> QED
    BY <1>15, <1>17, <1>18, <1>19 DEF Kept, t

-----------------------------------------------------------------------------
(* A trade that is closed empties both its escrows. *)

(* settleTrade and refundTrade, whoever gets what. *)
LEMMA TradeClosed ==
    ASSUME NEW s, Kept(s), NEW id \in DOMAIN s.trades, NEW resourceTo \in Account,
           NEW creditsTo \in Account, NEW final \in {"settled", "refunded"},
           CloseTrade(s, id, resourceTo, creditsTo, final).ok
    PROVE  /\ Kept(CloseTrade(s, id, resourceTo, creditsTo, final))
           /\ s.trades[id].state = "escrowed"
           /\ id \in DOMAIN CloseTrade(s, id, resourceTo, creditsTo, final).trades
           /\ CloseTrade(s, id, resourceTo, creditsTo, final).trades[id].state = final
<1> DEFINE trade == s.trades[id]
           r == s.offers[id[1]].resource
           open == trade.state = "escrowed"
           guarded == Require(s, open)
           u == Post(guarded, ResourceEscrow(id), OwnAccount(resourceTo), r, trade.quantity)
           v == Post(u, CreditEscrow(id), OwnAccount(creditsTo), "credits", trade.totalPrice)
           closed == [trade EXCEPT !.state = final]
           t == CloseTrade(s, id, resourceTo, creditsTo, final)
<1>1. /\ IsBooks(s) /\ Shape(s) /\ open \in BOOLEAN
      /\ trade \in TradeRecord /\ trade.quantity \in Nat /\ trade.totalPrice \in Nat
      /\ id[1] \in DOMAIN s.offers /\ id \in Trade
    BY DEF Kept, IsBooks, TradeRecord, Trade
<1>2. r \in Resource
    BY <1>1 DEF IsBooks, OfferRecord, Resource
<1> HIDE DEF open
<1>3. Shape(guarded) /\ guarded.trades = s.trades
    BY <1>1, Required
<1> HIDE DEF guarded
<1>4. Shape(u) /\ u.trades = s.trades
    BY <1>3, PostShape
<1> HIDE DEF u
<1>5. Shape(v) /\ v.trades = s.trades
    BY <1>4, PostShape
<1>6. t = [v EXCEPT !.trades[id] = closed]
    <2>1. t = [v EXCEPT !.trades[id].state = final]
        BY DEF CloseTrade, guarded, open, u
    <2> HIDE DEF v, t
    <2> QED BY <1>5, <2>1
<1> HIDE DEF v
<1>7. v.ok
    BY <1>5, <1>6 DEF Shape
<1>8. /\ u.ok /\ trade.totalPrice > 0 /\ CreditEscrow(id) # OwnAccount(creditsTo)
      /\ Payable(u, CreditEscrow(id), "credits", trade.totalPrice)
    BY <1>4, <1>7, PostOk DEF v
<1>9. /\ guarded.ok /\ trade.quantity > 0 /\ ResourceEscrow(id) # OwnAccount(resourceTo)
      /\ Payable(guarded, ResourceEscrow(id), r, trade.quantity)
    BY <1>3, <1>8, PostOk DEF u
<1>10. guarded = s /\ trade.state = "escrowed"
    BY <1>1, <1>9, Required DEF guarded, open
<1>11. /\ ResourceEscrow(id) \in Holder /\ CreditEscrow(id) \in Holder /\ "credits" \in Resource
       /\ OwnAccount(resourceTo) \in Holder /\ OwnAccount(creditsTo) \in Holder
    BY <1>1, Holders
<1> HIDE DEF r, trade
<1>12. /\ IsBooks(u) /\ u.offers = s.offers /\ u.bids = s.bids
       /\ \A h \in Holder, x \in Resource :
            Balance(u, h, x) = IF h = ResourceEscrow(id) /\ x = r THEN Balance(s, h, x) - trade.quantity
                               ELSE IF h = OwnAccount(resourceTo) /\ x = r
                               THEN Balance(s, h, x) + trade.quantity
                               ELSE Balance(s, h, x)
    BY <1>1, <1>2, <1>9, <1>10, <1>11, Posted DEF u
<1>13. /\ IsBooks(v) /\ v.offers = s.offers /\ v.bids = s.bids
       /\ \A h \in Holder, x \in Resource :
            Balance(v, h, x) = IF h = CreditEscrow(id) /\ x = "credits"
                               THEN Balance(u, h, x) - trade.totalPrice
                               ELSE IF h = OwnAccount(creditsTo) /\ x = "credits"
                               THEN Balance(u, h, x) + trade.totalPrice
                               ELSE Balance(u, h, x)
    BY <1>1, <1>8, <1>11, <1>12, Posted DEF v
<1> HIDE DEF t
<1>14. closed \in TradeRecord /\ closed.state # "escrowed" /\ closed.state = final
    BY <1>1 DEF TradeRecord
<1> HIDE DEF closed
<1>15. /\ Shape(t) /\ t.ok = TRUE /\ t.balance = v.balance /\ t.minted = v.minted
       /\ t.burned = v.burned /\ t.offers = s.offers /\ t.bids = s.bids
       /\ t.trades = [s.trades EXCEPT ![id] = closed]
    BY <1>5, <1>6, <1>13 DEF IsBooks, Shape
<1>16. /\ DOMAIN t.trades = DOMAIN s.trades /\ t.trades[id] = closed
       /\ \A p \in DOMAIN s.trades \ {id} : t.trades[p] = s.trades[p]
    BY <1>1, <1>15 DEF IsBooks
<1>17. t.trades \in [DOMAIN t.trades -> TradeRecord]
    BY <1>1, <1>14, <1>15, <1>16 DEF IsBooks
<1>18. IsBooks(t)
    BY <1>1, <1>13, <1>15, <1>16, <1>17 DEF IsBooks
<1>19. \A h \in Holder, x \in Resource :
          h # ResourceEscrow(id) /\ h # CreditEscrow(id) /\ (\A a : h # OwnAccount(a))
             => Balance(t, h, x) = Balance(s, h, x)
    BY <1>12, <1>13, <1>15 DEF Balance
<1>20. ASSUME NEW o \in Order PROVE OfferKept(t, o)
    <2>1. \A x \in Resource : Balance(t, OfferEscrow(o), x) = Balance(s, OfferEscrow(o), x)
        BY <1>19, Names, Holders
    <2>2. OfferKept(s, o)
        BY DEF Kept
    <2>3. o \in DOMAIN s.offers => s.offers[o].resource \in Resource
        BY DEF Kept, IsBooks, OfferRecord, Resource
    <2> QED BY <1>15, <2>1, <2>2, <2>3 DEF OfferKept
<1>21. ASSUME NEW b \in Order PROVE BidKept(t, b)
    <2>1. Balance(t, BidEscrow(b), "credits") = Balance(s, BidEscrow(b), "credits")
        BY <1>19, Names, Holders
    <2>2. BidKept(s, b)
        BY DEF Kept
    <2> QED BY <1>15, <2>1, <2>2 DEF BidKept
<1>22. ASSUME NEW p \in Trade PROVE TradeKept(t, p)
    <2>1. TradeKept(s, p)
        BY DEF Kept
    <2>2. CASE p = id
        <3>1. /\ Balance(s, ResourceEscrow(id), r) = trade.quantity
              /\ Balance(s, CreditEscrow(id), "credits") = trade.totalPrice
            BY <1>10, <2>1, <2>2 DEF TradeKept, r, trade
        <3>2. Balance(t, ResourceEscrow(id), r) = 0
            BY <1>1, <1>2, <1>11, <1>12, <1>13, <1>15, <3>1, Names DEF Balance
        <3>3. Balance(t, CreditEscrow(id), "credits") = 0
            BY <1>1, <1>11, <1>12, <1>13, <1>15, <3>1, Names DEF Balance
        <3> QED BY <1>14, <1>15, <1>16, <2>1, <2>2, <3>2, <3>3 DEF TradeKept, r
    <2>3. CASE p # id
        <3>1. \A x \in Resource : /\ Balance(t, ResourceEscrow(p), x) = Balance(s, ResourceEscrow(p), x)
                                  /\ Balance(t, CreditEscrow(p), x) = Balance(s, CreditEscrow(p), x)
            BY <1>19, <2>3, Names, Holders
        <3>2. p \in DOMAIN s.trades => s.offers[p[1]].resource \in Resource
            BY DEF Kept, IsBooks, OfferRecord, Resource
        <3> QED BY <1>15, <1>16, <2>1, <2>3, <3>1, <3>2, Holders DEF TradeKept
    <2> QED BY <2>2, <2>3
<1> QED
    BY <1>10, <1>14, <1>16, <1>18, <1>20, <1>21, <1>22 DEF Kept, t, trade

-----------------------------------------------------------------------------
(* A bid and an offer that meet. *)

(* The quantity of a fill is what one of the two orders has left. *)
LEMMA MinOfTwo ==
    ASSUME NEW m \in Nat, NEW n \in Nat
    PROVE  Min({m, n}) \in Nat /\ Min({m, n}) \in {m, n} /\ Min({m, n}) <= m /\ Min({m, n}) <= n
<1>1. \E x \in {m, n} : \A y \in {m, n} : x <= y
    <2>1. CASE m <= n
        BY <2>1
    <2>2. CASE n <= m
        BY <2>2
    <2> QED BY <2>1, <2>2
<1> QED
    BY <1>1 DEF Min

(* What the products of quantities and prices obey. *)
LEMMA Products ==
    ASSUME NEW q \in Nat, NEW n \in Nat, q <= n, NEW m \in Nat, NEW p \in Nat, p <= m
    PROVE  /\ q * m \in Nat /\ q * p \in Nat /\ q * (m - p) \in Nat /\ (n - q) * m \in Nat
           /\ q * m <= n * m /\ n * m - q * m = (n - q) * m
           /\ q * p + q * (m - p) = q * m
           /\ q > 0 /\ p > 0 => q * p > 0
<1>1. (n - q) * m \in Nat /\ q * (m - p) \in Nat /\ q * m \in Nat /\ q * p \in Nat /\ n * m \in Nat
    <2>1. n - q \in Nat /\ m - p \in Nat
        OBVIOUS
    <2>2. \A x, y \in Nat : x * y \in Nat
        OBVIOUS
    <2> QED BY <2>1, <2>2
<1>2. n * m - q * m = (n - q) * m
    OBVIOUS
<1>3. q * p + q * (m - p) = q * m
    OBVIOUS
<1>4. q > 0 /\ p > 0 => q * p > 0
    OBVIOUS
<1> QED
    BY <1>1, <1>2, <1>3, <1>4

(* What is known of two orders that are not skipped. *)
LEMMA Met ==
    ASSUME NEW s, Kept(s), NEW b \in DOMAIN s.bids, NEW o \in DOMAIN s.offers,
           Meets(s.bids[b], s.offers[o])
    PROVE  LET bid == s.bids[b]
               offer == s.offers[o]
               q == FillQuantity(bid, offer)
           IN  /\ b \in Order /\ o \in Order /\ bid \in BidRecord /\ offer \in OfferRecord
               /\ offer.resource \in Resource /\ bid.buyer \in Account
               /\ bid.maxUnitPrice \in Nat /\ offer.unitPrice \in Nat /\ offer.unitPrice > 0
               /\ offer.unitPrice <= bid.maxUnitPrice
               /\ q \in Nat /\ q > 0 /\ q <= bid.remaining /\ q <= offer.remaining
               /\ bid.remaining \in Nat /\ offer.remaining \in Nat
               /\ q \in {bid.remaining, offer.remaining}
               /\ Balance(s, OfferEscrow(o), offer.resource) = offer.remaining
               /\ Balance(s, BidEscrow(b), "credits") = bid.reservedCredits
               /\ bid.reservedCredits = bid.remaining * bid.maxUnitPrice
               /\ bid.reservedCredits <= MaxSafe
<1> DEFINE bid == s.bids[b]
           offer == s.offers[o]
           q == FillQuantity(bid, offer)
<1>1. /\ b \in Order /\ o \in Order /\ bid \in BidRecord /\ offer \in OfferRecord
      /\ offer.resource \in Resource /\ bid.buyer \in Account
      /\ bid.maxUnitPrice \in Nat /\ offer.unitPrice \in Nat /\ offer.unitPrice > 0
      /\ bid.remaining \in Nat /\ offer.remaining \in Nat /\ offer.minimumFill \in Nat \ {0}
    BY DEF Kept, IsBooks, BidRecord, OfferRecord, Resource
<1>2. OfferKept(s, o) /\ BidKept(s, b)
    BY <1>1 DEF Kept
<1>3. offer.unitPrice <= bid.maxUnitPrice /\ q >= offer.minimumFill
    BY <1>1 DEF Meets
<1>4. /\ q \in Nat /\ q <= bid.remaining /\ q <= offer.remaining
      /\ q \in {bid.remaining, offer.remaining}
    BY <1>1, MinOfTwo DEF FillQuantity
<1> HIDE DEF q
<1>5. q > 0
    BY <1>1, <1>3, <1>4
<1> QED
    BY <1>1, <1>2, <1>3, <1>4, <1>5 DEF OfferKept, BidKept, q

(* The postings of a fill succeed and leave in the escrows what the orders and *)
(* the trade will promise.                                                     *)
LEMMA Exchanged ==
    ASSUME NEW s, Kept(s), NEW b \in DOMAIN s.bids, NEW o \in DOMAIN s.offers,
           Meets(s.bids[b], s.offers[o])
    PROVE  LET bid == s.bids[b]
               offer == s.offers[o]
               q == FillQuantity(bid, offer)
               t == Exchange(s, b, o)
           IN  /\ IsBooks(t) /\ t.offers = s.offers /\ t.bids = s.bids /\ t.trades = s.trades
               /\ Balance(t, OfferEscrow(o), offer.resource) =
                     Balance(s, OfferEscrow(o), offer.resource) - q
               /\ Balance(t, BidEscrow(b), "credits") = Reserved(bid, q)
               /\ Balance(t, ResourceEscrow(<<o, b>>), offer.resource) =
                     Balance(s, ResourceEscrow(<<o, b>>), offer.resource) + q
               /\ Balance(t, CreditEscrow(<<o, b>>), "credits") =
                     Balance(s, CreditEscrow(<<o, b>>), "credits") + q * offer.unitPrice
               /\ \A h \in Holder, x \in Resource :
                    /\ h \notin {OfferEscrow(o), BidEscrow(b), ResourceEscrow(<<o, b>>),
                                 CreditEscrow(<<o, b>>)}
                    /\ \A a : h # OwnAccount(a)
                    => Balance(t, h, x) = Balance(s, h, x)
<1> DEFINE bid == s.bids[b]
           offer == s.offers[o]
           q == FillQuantity(bid, offer)
           r == offer.resource
           e == BidEscrow(b)
           oe == OfferEscrow(o)
           re == ResourceEscrow(<<o, b>>)
           ce == CreditEscrow(<<o, b>>)
           w == OwnAccount(bid.buyer)
           price == q * offer.unitPrice
           extra == PriceImprovement(bid, offer)
           safe == Require(s, multiplySafe(q, bid.maxUnitPrice))
           delivered == Post(safe, oe, re, r, q)
           paid == Post(delivered, e, ce, "credits", price)
           improved == IF extra = 0 THEN paid ELSE Post(paid, e, w, "credits", extra)
           t == Exchange(s, b, o)
<1>1. t = IF bid.remaining = q THEN Return(improved, e, w, "credits") ELSE improved
    BY DEF Exchange
<1>2. /\ b \in Order /\ o \in Order /\ r \in Resource /\ bid.buyer \in Account
      /\ bid.maxUnitPrice \in Nat /\ offer.unitPrice \in Nat /\ offer.unitPrice > 0
      /\ offer.unitPrice <= bid.maxUnitPrice
      /\ q \in Nat /\ q > 0 /\ q <= bid.remaining /\ q <= offer.remaining
      /\ bid.remaining \in Nat /\ offer.remaining \in Nat
      /\ Balance(s, oe, r) = offer.remaining
      /\ Balance(s, e, "credits") = bid.reservedCredits
      /\ bid.reservedCredits = bid.remaining * bid.maxUnitPrice
      /\ bid.reservedCredits <= MaxSafe
    BY Met
<1>3. extra = q * (bid.maxUnitPrice - offer.unitPrice)
    BY DEF PriceImprovement
<1> HIDE DEF bid, offer, q, r, extra
<1>4. /\ q * bid.maxUnitPrice \in Nat /\ price \in Nat /\ price > 0 /\ extra \in Nat
      /\ bid.reservedCredits \in Nat
      /\ price + extra = q * bid.maxUnitPrice
      /\ q * bid.maxUnitPrice <= bid.reservedCredits
    BY <1>2, <1>3, Products
<1>5. /\ oe \in Holder /\ e \in Holder /\ re \in Holder /\ ce \in Holder /\ w \in Holder
      /\ "credits" \in Resource
    BY <1>2, Holders DEF Trade
<1>6. /\ oe \notin {e, re, ce, w} /\ e \notin {re, ce, w} /\ re \notin {ce, w} /\ ce # w
      /\ \A a : OwnAccount(a) \notin {oe, e, re, ce}
    BY Names
<1>7. IsBooks(s) /\ Shape(s)
    BY DEF Kept, IsBooks
<1>8. safe = s
    <2>1. multiplySafe(q, bid.maxUnitPrice)
        BY <1>2, <1>4, MarketAssumption DEF multiplySafe
    <2>2. multiplySafe(q, bid.maxUnitPrice) \in BOOLEAN
        BY DEF multiplySafe
    <2> QED BY <1>7, <2>1, <2>2, Required
<1> HIDE DEF safe, oe, e, re, ce
<1>9. Payable(s, oe, r, q)
    BY <1>2 DEF Payable
<1>10. /\ IsBooks(delivered) /\ delivered.offers = s.offers /\ delivered.bids = s.bids
       /\ delivered.trades = s.trades
       /\ \A h \in Holder, x \in Resource :
            Balance(delivered, h, x) = IF h = oe /\ x = r THEN Balance(s, h, x) - q
                                       ELSE IF h = re /\ x = r THEN Balance(s, h, x) + q
                                       ELSE Balance(s, h, x)
    BY <1>2, <1>5, <1>6, <1>7, <1>8, <1>9, Posted
<1> HIDE DEF delivered
<1>11. Balance(delivered, e, "credits") = bid.reservedCredits
    BY <1>2, <1>5, <1>6, <1>10
<1>12. Payable(delivered, e, "credits", price)
    BY <1>4, <1>11 DEF Payable
<1> HIDE DEF price
<1>13. /\ IsBooks(paid) /\ paid.offers = s.offers /\ paid.bids = s.bids /\ paid.trades = s.trades
       /\ \A h \in Holder, x \in Resource :
            Balance(paid, h, x) = IF h = e /\ x = "credits" THEN Balance(delivered, h, x) - price
                                  ELSE IF h = ce /\ x = "credits" THEN Balance(delivered, h, x) + price
                                  ELSE Balance(delivered, h, x)
    BY <1>4, <1>5, <1>6, <1>10, <1>12, Posted
<1> HIDE DEF paid
<1>14. Balance(paid, e, "credits") = bid.reservedCredits - price
    BY <1>5, <1>11, <1>13
<1>15. /\ IsBooks(improved) /\ improved.offers = s.offers /\ improved.bids = s.bids
       /\ improved.trades = s.trades
       /\ Balance(improved, e, "credits") = bid.reservedCredits - q * bid.maxUnitPrice
       /\ \A h \in Holder, x \in Resource : h \notin {e, w} => Balance(improved, h, x) = Balance(paid, h, x)
    <2>1. CASE extra = 0
        BY <1>4, <1>13, <1>14, <2>1
    <2>2. CASE extra # 0
        <3>1. extra > 0 /\ Payable(paid, e, "credits", extra)
            BY <1>4, <1>14, <2>2 DEF Payable
        <3>2. improved = Post(paid, e, w, "credits", extra)
            BY <2>2
        <3> HIDE DEF improved, w
        <3>3. /\ IsBooks(improved) /\ improved.offers = s.offers /\ improved.bids = s.bids
              /\ improved.trades = s.trades
              /\ \A h \in Holder, x \in Resource :
                   Balance(improved, h, x) = IF h = e /\ x = "credits" THEN Balance(paid, h, x) - extra
                                             ELSE IF h = w /\ x = "credits" THEN Balance(paid, h, x) + extra
                                             ELSE Balance(paid, h, x)
            BY <1>4, <1>5, <1>6, <1>13, <3>1, <3>2, Posted
        <3>4. Balance(improved, e, "credits") = bid.reservedCredits - price - extra
            BY <1>5, <1>14, <3>3
        <3>5. bid.reservedCredits - price - extra = bid.reservedCredits - q * bid.maxUnitPrice
            BY <1>4
        <3> QED BY <3>3, <3>4, <3>5
    <2> QED BY <2>1, <2>2
<1> HIDE DEF improved
<1>16. /\ IsBooks(t) /\ t.offers = s.offers /\ t.bids = s.bids /\ t.trades = s.trades
       /\ Balance(t, e, "credits") = Reserved(bid, q)
       /\ \A h \in Holder, x \in Resource : h \notin {e, w} => Balance(t, h, x) = Balance(paid, h, x)
    <2> HIDE DEF t, w
    <2>1. CASE bid.remaining = q
        <3>1. t = Return(improved, e, w, "credits")
            BY <1>1, <2>1
        <3>2. /\ IsBooks(improved) /\ e \in Holder /\ w \in Holder /\ e # w
              /\ "credits" \in Resource
            BY <1>5, <1>6, <1>15
        <3>3. /\ IsBooks(t) /\ t.offers = improved.offers /\ t.bids = improved.bids
              /\ t.trades = improved.trades /\ Balance(t, e, "credits") = 0
              /\ \A h \in Holder, x \in Resource :
                    ~ (h \in {e, w} /\ x = "credits") => Balance(t, h, x) = Balance(improved, h, x)
            BY <3>1, <3>2, Returned
        <3> QED BY <1>15, <2>1, <3>3 DEF Reserved
    <2>2. CASE bid.remaining # q
        BY <1>1, <1>15, <2>2 DEF Reserved
    <2> QED BY <2>1, <2>2
<1> HIDE DEF t
<1>17. /\ Balance(t, oe, r) = Balance(s, oe, r) - q
       /\ Balance(t, re, r) = Balance(s, re, r) + q
       /\ Balance(t, ce, "credits") = Balance(s, ce, "credits") + price
    BY <1>2, <1>5, <1>6, <1>10, <1>13, <1>16
<1>18. \A h \in Holder, x \in Resource :
          h \notin {oe, e, re, ce} /\ (\A a : h # OwnAccount(a)) => Balance(t, h, x) = Balance(s, h, x)
    BY <1>10, <1>13, <1>16
<1> QED
    BY <1>16, <1>17, <1>18 DEF t, oe, e, re, ce, r, q, bid, offer, price

(* An offer after a fill. *)
LEMMA OfferSold ==
    ASSUME NEW offer \in OfferRecord, NEW q \in Nat, q <= offer.remaining
    PROVE  /\ AfterFill(offer, q) \in OfferRecord
           /\ AfterFill(offer, q).remaining = offer.remaining - q
           /\ AfterFill(offer, q).resource = offer.resource
           /\ AfterFill(offer, q).unitPrice = offer.unitPrice
           /\ AfterFill(offer, q).minimumFill = offer.minimumFill
           /\ AfterFill(offer, q).expiresAt = offer.expiresAt
           /\ AfterFill(offer, q).state = "open" => offer.state = "open"
<1> DEFINE state == IF offer.remaining = q THEN "filled" ELSE offer.state
<1>1. AfterFill(offer, q) = [offer EXCEPT !.remaining = offer.remaining - q, !.state = state]
    BY DEF AfterFill
<1>2. state \in {"open", "filled", "cancelled", "expired"}
    BY DEF OfferRecord
<1>3. offer.remaining - q \in Nat
    BY DEF OfferRecord
<1>4. state = "open" => offer.state = "open"
    OBVIOUS
<1> HIDE DEF state
<1> QED
    BY <1>1, <1>2, <1>3, <1>4 DEF OfferRecord

(* A bid after a fill. *)
LEMMA BidBought ==
    ASSUME NEW bid \in BidRecord, NEW q \in Nat, q <= bid.remaining
    PROVE  /\ AfterFill(bid, q) \in BidRecord
           /\ AfterFill(bid, q).remaining = bid.remaining - q
           /\ AfterFill(bid, q).resource = bid.resource
           /\ AfterFill(bid, q).maxUnitPrice = bid.maxUnitPrice
           /\ AfterFill(bid, q).expiresAt = bid.expiresAt
           /\ AfterFill(bid, q).state = "open" => bid.state = "open"
<1> DEFINE state == IF bid.remaining = q THEN "filled" ELSE bid.state
<1>1. AfterFill(bid, q) = [bid EXCEPT !.remaining = bid.remaining - q, !.state = state]
    BY DEF AfterFill
<1>2. state \in {"open", "filled", "cancelled", "expired"}
    BY DEF BidRecord
<1>3. bid.remaining - q \in Nat
    BY DEF BidRecord
<1>4. state = "open" => bid.state = "open"
    OBVIOUS
<1> HIDE DEF state
<1> QED
    BY <1>1, <1>2, <1>3, <1>4 DEF BidRecord

(* A fill neither throws nor leaves a promise uncovered. *)
LEMMA Filled ==
    ASSUME NEW s, Kept(s), NEW b \in DOMAIN s.bids, NEW o \in DOMAIN s.offers
    PROVE  /\ Kept(Fill(s, b, o))
           /\ DOMAIN Fill(s, b, o).offers = DOMAIN s.offers
           /\ DOMAIN Fill(s, b, o).bids = DOMAIN s.bids
<1> DEFINE bid == s.bids[b]
           offer == s.offers[o]
           q == FillQuantity(bid, offer)
           r == offer.resource
           id == <<o, b>>
           u == Exchange(s, b, o)
           sold == AfterFill(offer, q)
           bought == BidAfterFill(bid, q)
           made == NewTrade(bid, offer)
           trades == With(s.trades, id, made)
           t == Fill(s, b, o)
<1>1. CASE ~ Meets(bid, offer)
    BY <1>1 DEF Fill
<1>2. CASE Meets(bid, offer)
    <2>1. /\ b \in Order /\ o \in Order /\ bid \in BidRecord /\ offer \in OfferRecord
          /\ r \in Resource /\ bid.maxUnitPrice \in Nat /\ offer.unitPrice \in Nat
          /\ offer.unitPrice <= bid.maxUnitPrice
          /\ q \in Nat /\ q > 0 /\ q <= bid.remaining /\ q <= offer.remaining
          /\ bid.remaining \in Nat /\ offer.remaining \in Nat
          /\ q \in {bid.remaining, offer.remaining}
          /\ Balance(s, OfferEscrow(o), r) = offer.remaining
          /\ bid.reservedCredits = bid.remaining * bid.maxUnitPrice
          /\ bid.reservedCredits <= MaxSafe
        BY <1>2, Met
    <2>2. /\ IsBooks(u) /\ u.offers = s.offers /\ u.bids = s.bids /\ u.trades = s.trades
          /\ Balance(u, OfferEscrow(o), r) = Balance(s, OfferEscrow(o), r) - q
          /\ Balance(u, BidEscrow(b), "credits") = Reserved(bid, q)
          /\ Balance(u, ResourceEscrow(id), r) = Balance(s, ResourceEscrow(id), r) + q
          /\ Balance(u, CreditEscrow(id), "credits") =
                Balance(s, CreditEscrow(id), "credits") + q * offer.unitPrice
          /\ \A h \in Holder, x \in Resource :
                /\ h \notin {OfferEscrow(o), BidEscrow(b), ResourceEscrow(id), CreditEscrow(id)}
                /\ \A a : h # OwnAccount(a)
                => Balance(u, h, x) = Balance(s, h, x)
        BY <1>2, Exchanged
    <2>3. t = [u EXCEPT !.offers[o] = sold, !.bids[b] = bought, !.trades = trades]
        BY <1>2, <2>2 DEF Fill
    <2>4. /\ q * bid.maxUnitPrice \in Nat /\ q * offer.unitPrice \in Nat
          /\ q * bid.maxUnitPrice <= bid.remaining * bid.maxUnitPrice
          /\ bid.remaining * bid.maxUnitPrice - q * bid.maxUnitPrice =
                (bid.remaining - q) * bid.maxUnitPrice
          /\ (bid.remaining - q) * bid.maxUnitPrice \in Nat
        BY <2>1, Products
    <2> HIDE DEF u, t, q
    <2>5. /\ sold \in OfferRecord /\ sold.remaining = offer.remaining - q /\ sold.resource = r
        BY <2>1, OfferSold
    <2>6. /\ Reserved(bid, q) = (bid.remaining - q) * bid.maxUnitPrice
          /\ Reserved(bid, q) \in Nat /\ Reserved(bid, q) <= MaxSafe
        <3>1. CASE bid.remaining = q
            <4>1. bid.remaining - q = 0 /\ 0 * bid.maxUnitPrice = 0
                BY <2>1, <3>1
            <4> QED BY <3>1, <4>1, MarketAssumption DEF Reserved
        <3>2. CASE bid.remaining # q
            <4>1. Reserved(bid, q) = bid.reservedCredits - q * bid.maxUnitPrice
                BY <3>2 DEF Reserved
            <4> QED BY <2>1, <2>4, <4>1, MarketAssumption
        <3> QED BY <3>1, <3>2
    <2>7. /\ bought \in BidRecord /\ bought.remaining = bid.remaining - q
          /\ bought.maxUnitPrice = bid.maxUnitPrice /\ bought.reservedCredits = Reserved(bid, q)
        <3> DEFINE filled == AfterFill(bid, q)
        <3>1. /\ filled \in BidRecord /\ filled.remaining = bid.remaining - q
              /\ filled.maxUnitPrice = bid.maxUnitPrice
            BY <2>1, BidBought
        <3>2. bought = [filled EXCEPT !.reservedCredits = Reserved(bid, q)]
            BY DEF BidAfterFill
        <3> HIDE DEF filled
        <3> QED BY <2>6, <3>1, <3>2 DEF BidRecord
    <2>8. made \in TradeRecord /\ made.quantity = q /\ made.totalPrice = q * offer.unitPrice
          /\ made.state = "escrowed"
        BY <2>1, <2>4 DEF NewTrade, TradeRecord, q
    <2> HIDE DEF sold, bought, made
    <2>9. id \in Trade /\ id \in (DOMAIN s.offers) \X (DOMAIN s.bids)
        BY <2>1 DEF Trade
    <2>10. id \notin DOMAIN s.trades
        <3>1. TradeKept(s, id)
            BY <2>9 DEF Kept
        <3> QED BY <2>1, <3>1 DEF TradeKept
    <2>11. /\ DOMAIN trades = DOMAIN s.trades \cup {id} /\ trades[id] = made
           /\ \A p \in DOMAIN s.trades : trades[p] = s.trades[p]
           /\ trades = [p \in DOMAIN trades |-> trades[p]]
        BY <2>10 DEF With
    <2> HIDE DEF trades
    <2>12. /\ Shape(t) /\ t.ok = TRUE /\ t.balance = u.balance /\ t.minted = u.minted
           /\ t.burned = u.burned /\ t.offers = [s.offers EXCEPT ![o] = sold]
           /\ t.bids = [s.bids EXCEPT ![b] = bought] /\ t.trades = trades
        BY <2>2, <2>3 DEF IsBooks, Shape
    <2>13. /\ DOMAIN t.offers = DOMAIN s.offers /\ t.offers[o] = sold
           /\ \A p \in DOMAIN s.offers \ {o} : t.offers[p] = s.offers[p]
           /\ DOMAIN t.bids = DOMAIN s.bids /\ t.bids[b] = bought
           /\ \A p \in DOMAIN s.bids \ {b} : t.bids[p] = s.bids[p]
        BY <2>12 DEF Kept, IsBooks
    <2>14. t.offers \in [DOMAIN t.offers -> OfferRecord]
        BY <2>5, <2>12, <2>13 DEF Kept, IsBooks
    <2>15. t.bids \in [DOMAIN t.bids -> BidRecord]
        BY <2>7, <2>12, <2>13 DEF Kept, IsBooks
    <2>16. t.trades \in [DOMAIN t.trades -> TradeRecord]
        BY <2>8, <2>11, <2>12 DEF Kept, IsBooks
    <2>17. IsBooks(t)
        BY <2>2, <2>9, <2>11, <2>12, <2>13, <2>14, <2>15, <2>16 DEF Kept, IsBooks
    <2>18. \A h \in Holder, x \in Resource :
              /\ h \notin {OfferEscrow(o), BidEscrow(b), ResourceEscrow(id), CreditEscrow(id)}
              /\ \A a : h # OwnAccount(a)
              => Balance(t, h, x) = Balance(s, h, x)
        BY <2>2, <2>12 DEF Balance
    <2>19. ASSUME NEW p \in Order PROVE OfferKept(t, p)
        <3>1. CASE p = o
            <4>1. Balance(t, OfferEscrow(o), r) = offer.remaining - q
                BY <2>1, <2>2, <2>12 DEF Balance
            <4> QED BY <2>5, <2>13, <3>1, <4>1 DEF OfferKept
        <3>2. CASE p # o
            <4>1. \A x \in Resource : Balance(t, OfferEscrow(p), x) = Balance(s, OfferEscrow(p), x)
                BY <2>18, <3>2, Names, Holders
            <4>2. OfferKept(s, p)
                BY DEF Kept
            <4>3. p \in DOMAIN s.offers => s.offers[p].resource \in Resource
                BY DEF Kept, IsBooks, OfferRecord, Resource
            <4> QED BY <2>13, <3>2, <4>1, <4>2, <4>3 DEF OfferKept
        <3> QED BY <3>1, <3>2
    <2>20. ASSUME NEW p \in Order PROVE BidKept(t, p)
        <3>1. CASE p = b
            <4>1. Balance(t, BidEscrow(b), "credits") = Reserved(bid, q)
                BY <2>2, <2>12 DEF Balance
            <4> QED BY <2>6, <2>7, <2>13, <3>1, <4>1 DEF BidKept
        <3>2. CASE p # b
            <4>1. Balance(t, BidEscrow(p), "credits") = Balance(s, BidEscrow(p), "credits")
                BY <2>18, <3>2, Names, Holders
            <4>2. BidKept(s, p)
                BY DEF Kept
            <4> QED BY <2>13, <3>2, <4>1, <4>2 DEF BidKept
        <3> QED BY <3>1, <3>2
    <2>21. ASSUME NEW p \in Trade PROVE TradeKept(t, p)
        <3>1. CASE p = id
            <4>1. sold.remaining = 0 \/ bought.remaining = 0
                BY <2>1, <2>5, <2>7
            <4>2. /\ Balance(s, ResourceEscrow(id), r) = 0
                  /\ Balance(s, CreditEscrow(id), "credits") = 0
                BY <2>1, <2>9, <2>10 DEF Kept, TradeKept
            <4>3. /\ Balance(t, ResourceEscrow(id), r) = q
                  /\ Balance(t, CreditEscrow(id), "credits") = q * offer.unitPrice
                BY <2>1, <2>2, <2>4, <2>12, <4>2 DEF Balance
            <4>4. id[1] = o /\ id[2] = b
                OBVIOUS
            <4> HIDE DEF id
            <4> QED BY <2>5, <2>8, <2>11, <2>12, <2>13, <3>1, <4>1, <4>3, <4>4 DEF TradeKept
        <3>2. CASE p # id
            <4>1. \A x \in Resource : /\ Balance(t, ResourceEscrow(p), x) = Balance(s, ResourceEscrow(p), x)
                                      /\ Balance(t, CreditEscrow(p), x) = Balance(s, CreditEscrow(p), x)
                BY <2>18, <3>2, Names, Holders
            <4>2. TradeKept(s, p)
                BY DEF Kept
            <4>3. CASE p \in DOMAIN s.trades
                <5>1. p[1] \in DOMAIN s.offers /\ p[2] \in DOMAIN s.bids
                    BY <4>3 DEF Kept, IsBooks
                <5>2. /\ t.offers[p[1]].resource = s.offers[p[1]].resource
                      /\ s.offers[p[1]].resource \in Resource
                    BY <2>5, <2>13, <5>1 DEF Kept, IsBooks, OfferRecord, Resource
                <5>3. t.offers[p[1]].remaining = 0 \/ t.bids[p[2]].remaining = 0
                    <6>1. CASE s.offers[p[1]].remaining = 0
                        BY <2>1, <2>13, <5>1, <6>1
                    <6>2. CASE s.bids[p[2]].remaining = 0
                        BY <2>1, <2>13, <5>1, <6>2
                    <6> QED BY <4>2, <4>3, <6>1, <6>2 DEF TradeKept
                <5>4. p \in DOMAIN t.trades /\ t.trades[p] = s.trades[p]
                    BY <2>11, <2>12, <4>3
                <5> QED BY <4>1, <4>2, <4>3, <5>2, <5>3, <5>4, Holders DEF TradeKept
            <4>4. CASE p \notin DOMAIN s.trades
                BY <2>11, <2>12, <3>2, <4>1, <4>2, <4>4, Holders DEF TradeKept
            <4> QED BY <4>3, <4>4
        <3> QED BY <3>1, <3>2
    <2> QED
        BY <2>13, <2>17, <2>19, <2>20, <2>21 DEF Kept, t
<1> QED
    BY <1>1, <1>2

-----------------------------------------------------------------------------
(* Lists of the elements of a finite set, in an order or in none. *)

(* Induction over the naturals, for the members of a set. *)
LEMMA NatSetInduction ==
    ASSUME NEW S, 0 \in S, \A n \in Nat : n \in S => n + 1 \in S
    PROVE  Nat \subseteq S
<1> DEFINE outside == {n \in Nat : n \notin S}
           less == OpToRel(<, Nat)
<1>1. IsWellFoundedOn(less, Nat)
    BY NatLessThanWellFounded
<1>2. \A x, y \in Nat : y < x => <<y, x>> \in less
    BY DEF OpToRel
<1> SUFFICES ASSUME outside # {} PROVE FALSE
    OBVIOUS
<1>3. \E x \in outside : \A y \in outside : ~ (<<y, x>> \in less)
    <2>1. outside \subseteq Nat
        OBVIOUS
    <2> HIDE DEF outside, less
    <2> QED BY <1>1, <2>1, WFMin
<1>4. PICK x \in outside : \A y \in outside : ~ (<<y, x>> \in less)
    BY <1>3
<1> HIDE DEF less
<1>5. x # 0 /\ x - 1 \in Nat /\ x - 1 < x /\ (x - 1) + 1 = x
    OBVIOUS
<1>6. x - 1 \in outside
    BY <1>5
<1> QED BY <1>2, <1>4, <1>5, <1>6

(* A strict total order of the set. *)
Ordered(S, order) ==
    /\ \A x, y \in S : x # y => <<x, y>> \in order \/ <<y, x>> \in order
    /\ \A x, y, z \in S : <<x, y>> \in order /\ <<y, z>> \in order => <<x, z>> \in order
    /\ \A x \in S : <<x, x>> \notin order

InOrder(list, n, order) ==
    \A i, j \in 1 .. n : i < j => <<list[i], list[j]>> \in order

(* A finite set that is not empty has a last element. *)
LEMMA LastElement ==
    ASSUME NEW S, IsFiniteSet(S), S # {}, NEW order, Ordered(S, order)
    PROVE  \E m \in S : \A y \in S \ {m} : <<y, m>> \in order
<1> DEFINE HasLast(T) == \E m \in T : \A y \in T \ {m} : <<y, m>> \in order
           sizes == {n \in Nat : \A T \in SUBSET S :
                        IsFiniteSet(T) /\ Cardinality(T) = n /\ T # {} => HasLast(T)}
<1>1. 0 \in sizes
    BY FS_EmptySet
<1>2. ASSUME NEW n \in Nat, n \in sizes PROVE n + 1 \in sizes
    <2> SUFFICES ASSUME NEW T \in SUBSET S, IsFiniteSet(T), Cardinality(T) = n + 1, T # {}
                 PROVE  HasLast(T)
        OBVIOUS
    <2>1. PICK x \in T : TRUE
        OBVIOUS
    <2>2. IsFiniteSet(T \ {x}) /\ Cardinality(T \ {x}) = n
        <3>1. IsFiniteSet(T \ {x}) /\ Cardinality(T \ {x}) = Cardinality(T) - 1
            BY FS_RemoveElement
        <3> QED BY <3>1
    <2>3. CASE T \ {x} = {}
        BY <2>1, <2>3
    <2>4. CASE T \ {x} # {}
        <3>1. HasLast(T \ {x})
            BY <1>2, <2>2, <2>4
        <3>2. PICK m \in T \ {x} : \A y \in (T \ {x}) \ {m} : <<y, m>> \in order
            BY <3>1
        <3>3. CASE <<x, m>> \in order
            BY <3>2, <3>3
        <3>4. CASE <<m, x>> \in order
            <4>1. \A y \in T \ {x} : <<y, x>> \in order
                BY <3>2, <3>4 DEF Ordered
            <4> QED BY <4>1
        <3> QED BY <3>2, <3>3, <3>4 DEF Ordered
    <2> QED BY <2>3, <2>4
<1> HIDE DEF sizes
<1>3. Nat \subseteq sizes
    BY <1>1, <1>2, NatSetInduction
<1> QED
    BY <1>3, FS_CardinalityType DEF sizes

(* A finite set can be listed in order. *)
LEMMA SortedExists ==
    ASSUME NEW S, IsFiniteSet(S), NEW order, Ordered(S, order)
    PROVE  \E list \in [1 .. Cardinality(S) -> S] : InOrder(list, Cardinality(S), order)
<1> DEFINE Has(T, n) == \E list \in [1 .. n -> T] : InOrder(list, n, order)
           sizes == {n \in Nat : \A T \in SUBSET S :
                        IsFiniteSet(T) /\ Cardinality(T) = n => Has(T, n)}
<1>1. 0 \in sizes
    <2> SUFFICES ASSUME NEW T \in SUBSET S PROVE Has(T, 0)
        OBVIOUS
    <2> DEFINE list == [i \in 1 .. 0 |-> i]
    <2>1. list \in [1 .. 0 -> T] /\ InOrder(list, 0, order)
        BY DEF InOrder
    <2> QED BY <2>1
<1>2. ASSUME NEW n \in Nat, n \in sizes PROVE n + 1 \in sizes
    <2> SUFFICES ASSUME NEW T \in SUBSET S, IsFiniteSet(T), Cardinality(T) = n + 1
                 PROVE  Has(T, n + 1)
        OBVIOUS
    <2>1. T # {}
        BY FS_EmptySet
    <2>2. Ordered(T, order)
        BY DEF Ordered
    <2>3. PICK m \in T : \A y \in T \ {m} : <<y, m>> \in order
        BY <2>1, <2>2, LastElement
    <2>4. IsFiniteSet(T \ {m}) /\ Cardinality(T \ {m}) = n
        <3>1. IsFiniteSet(T \ {m}) /\ Cardinality(T \ {m}) = Cardinality(T) - 1
            BY FS_RemoveElement
        <3> QED BY <3>1
    <2>5. Has(T \ {m}, n)
        BY <1>2, <2>4
    <2>6. PICK list \in [1 .. n -> T \ {m}] : InOrder(list, n, order)
        BY <2>5
    <2> DEFINE longer == [i \in 1 .. n + 1 |-> IF i = n + 1 THEN m ELSE list[i]]
    <2>7. \A i \in 1 .. n : longer[i] = list[i] /\ list[i] \in T \ {m}
        OBVIOUS
    <2>8. longer[n + 1] = m
        OBVIOUS
    <2>9. longer \in [1 .. n + 1 -> T]
        BY <2>7
    <2> HIDE DEF longer
    <2>10. ASSUME NEW i \in 1 .. n + 1, NEW j \in 1 .. n + 1, i < j
           PROVE  <<longer[i], longer[j]>> \in order
        <3>1. i \in 1 .. n
            BY <2>10
        <3>2. CASE j = n + 1
            BY <2>3, <2>7, <2>8, <3>1, <3>2
        <3>3. CASE j # n + 1
            <4>1. j \in 1 .. n
                BY <3>3
            <4> QED BY <2>6, <2>7, <2>10, <3>1, <4>1 DEF InOrder
        <3> QED BY <3>2, <3>3
    <2>11. InOrder(longer, n + 1, order)
        BY <2>10 DEF InOrder
    <2> QED BY <2>9, <2>11
<1> HIDE DEF sizes
<1>3. Nat \subseteq sizes
    BY <1>1, <1>2, NatSetInduction
<1> QED
    BY <1>3, FS_CardinalityType DEF sizes

(* Sorted lists every element, in order. *)
LEMMA SortedList ==
    ASSUME NEW S, IsFiniteSet(S), NEW order, Ordered(S, order)
    PROVE  /\ Len(Sorted(S, order)) \in Nat
           /\ Sorted(S, order) \in [1 .. Len(Sorted(S, order)) -> S]
           /\ InOrder(Sorted(S, order), Len(Sorted(S, order)), order)
           /\ \A x \in S : \E i \in 1 .. Len(Sorted(S, order)) : Sorted(S, order)[i] = x
<1> DEFINE list == Sorted(S, order)
           n == Cardinality(S)
<1>1. n \in Nat
    BY FS_CardinalityType
<1>2. list \in [1 .. n -> S] /\ InOrder(list, n, order)
    BY SortedExists DEF Sorted, InOrder
<1> HIDE DEF list
<1>3. list \in Seq(S) /\ Len(list) = n
    <2>1. list \in Seq(S)
        BY <1>1, <1>2
    <2>2. DOMAIN list = 1 .. n
        BY <1>2
    <2> QED BY <1>1, <2>1, <2>2
<1>4. IsInjective(list)
    <2>1. ASSUME NEW i \in 1 .. n, NEW j \in 1 .. n, i < j PROVE list[i] # list[j]
        BY <1>2, <2>1 DEF InOrder, Ordered
    <2>2. ASSUME NEW i \in 1 .. n, NEW j \in 1 .. n, list[i] = list[j] PROVE i = j
        BY <1>1, <2>1, <2>2
    <2> QED BY <1>2, <2>2 DEF IsInjective
<1>5. list \in Surjection(1 .. n, S)
    <2>1. list \in Injection(1 .. n, S)
        BY <1>2, <1>4 DEF Injection
    <2>2. Cardinality(1 .. n) = n
        BY <1>1, FS_Interval
    <2> QED BY <2>1, <2>2, FS_Injection
<1>6. \A x \in S : \E i \in 1 .. n : list[i] = x
    BY <1>5 DEF Surjection
<1> QED
    BY <1>1, <1>2, <1>3, <1>6 DEF list

(* The list that expire goes through holds elements of the set. *)
LEMMA UnorderedList ==
    ASSUME NEW S, IsFiniteSet(S)
    PROVE  Len(SetToSeq(S)) \in Nat /\ SetToSeq(S) \in [1 .. Len(SetToSeq(S)) -> S]
<1> DEFINE list == SetToSeq(S)
           n == Cardinality(S)
<1>1. n \in Nat /\ ExistsBijection(1 .. n, S)
    BY FS_CardinalityType
<1>2. \E f \in [1 .. n -> S] : IsInjective(f)
    BY <1>1 DEF ExistsBijection, Bijection, Injection, Surjection, IsInjective
<1>3. list \in [1 .. n -> S]
    BY <1>2 DEF SetToSeq
<1> HIDE DEF list
<1>4. list \in Seq(S) /\ DOMAIN list = 1 .. n
    BY <1>1, <1>3
<1>5. Len(list) = n
    BY <1>1, <1>4
<1> QED
    BY <1>1, <1>3, <1>5 DEF list

-----------------------------------------------------------------------------
(* The loops, unfolded: the books before the first pass and after each. *)

(* Written out for each loop: a lemma with the body as a parameter could not be used. *)
LEMMA ExpireOffersUnfolds ==
    ASSUME NEW s, NEW list, Len(list) \in Nat
    PROVE  \E g : /\ g[0] = s
                  /\ \A n \in 1 .. Len(list) : g[n] = CloseOffer(g[n - 1], list[n], "expired")
                  /\ ExpireOffers(s, list) = g[Len(list)]
<1> DEFINE Loop(g, m) ==
               g = [n \in 0 .. m |-> IF n = 0 THEN s ELSE CloseOffer(g[n - 1], list[n], "expired")]
           defined == {m \in Nat : \E g : Loop(g, m)}
           last == Len(list)
<1>1. 0 \in defined
    <2> DEFINE g == [n \in 0 .. 0 |-> s]
    <2>1. g = [n \in 0 .. 0 |-> IF n = 0 THEN s ELSE CloseOffer(g[n - 1], list[n], "expired")]
        OBVIOUS
    <2> QED BY <2>1
<1>2. ASSUME NEW m \in Nat, m \in defined PROVE m + 1 \in defined
    <2>1. PICK g : Loop(g, m)
        BY <1>2
    <2> DEFINE h == [n \in 0 .. m + 1 |-> IF n = m + 1 THEN CloseOffer(g[m], list[m + 1], "expired") ELSE g[n]]
    <2>2. \A n \in 0 .. m : h[n] = g[n]
        OBVIOUS
    <2>3. h[m + 1] = CloseOffer(g[m], list[m + 1], "expired")
        OBVIOUS
    <2>4. h = [n \in 0 .. m + 1 |-> h[n]]
        OBVIOUS
    <2> HIDE DEF h
    <2>5. ASSUME NEW n \in 0 .. m + 1
          PROVE  h[n] = IF n = 0 THEN s ELSE CloseOffer(h[n - 1], list[n], "expired")
        <3>1. CASE n = 0
            BY <2>1, <2>2, <3>1
        <3>2. CASE n # 0
            <4>1. n - 1 \in 0 .. m /\ h[n - 1] = g[n - 1]
                BY <2>2, <3>2
            <4>2. CASE n = m + 1
                <5>1. n - 1 = m
                    BY <4>2
                <5> QED BY <2>3, <3>2, <4>1, <4>2, <5>1
            <4>3. CASE n # m + 1
                BY <2>1, <2>2, <3>2, <4>1, <4>3
            <4> QED BY <4>2, <4>3
        <3> QED BY <3>1, <3>2
    <2>6. Loop(h, m + 1)
        BY <2>4, <2>5
    <2> QED BY <2>6
<1> HIDE DEF defined
<1>3. \E g : Loop(g, last)
    <2>1. Nat \subseteq defined
        BY <1>1, <1>2, NatSetInduction
    <2> QED BY <2>1 DEF defined
<1> DEFINE after == CHOOSE g : Loop(g, last)
<1>4. Loop(after, last)
    <2> HIDE DEF Loop
    <2> QED BY <1>3
<1>5. ExpireOffers(s, list) = after[last]
    BY DEF ExpireOffers
<1> HIDE DEF after
<1>6. after[0] = s /\ \A n \in 1 .. last : after[n] = CloseOffer(after[n - 1], list[n], "expired")
    BY <1>4
<1> QED
    BY <1>5, <1>6

(* The same for the late bids. *)
LEMMA ExpireBidsUnfolds ==
    ASSUME NEW s, NEW list, Len(list) \in Nat
    PROVE  \E g : /\ g[0] = s
                  /\ \A n \in 1 .. Len(list) : g[n] = CloseBid(g[n - 1], list[n], "expired")
                  /\ ExpireBids(s, list) = g[Len(list)]
<1> DEFINE Loop(g, m) ==
               g = [n \in 0 .. m |-> IF n = 0 THEN s ELSE CloseBid(g[n - 1], list[n], "expired")]
           defined == {m \in Nat : \E g : Loop(g, m)}
           last == Len(list)
<1>1. 0 \in defined
    <2> DEFINE g == [n \in 0 .. 0 |-> s]
    <2>1. g = [n \in 0 .. 0 |-> IF n = 0 THEN s ELSE CloseBid(g[n - 1], list[n], "expired")]
        OBVIOUS
    <2> QED BY <2>1
<1>2. ASSUME NEW m \in Nat, m \in defined PROVE m + 1 \in defined
    <2>1. PICK g : Loop(g, m)
        BY <1>2
    <2> DEFINE h == [n \in 0 .. m + 1 |-> IF n = m + 1 THEN CloseBid(g[m], list[m + 1], "expired") ELSE g[n]]
    <2>2. \A n \in 0 .. m : h[n] = g[n]
        OBVIOUS
    <2>3. h[m + 1] = CloseBid(g[m], list[m + 1], "expired")
        OBVIOUS
    <2>4. h = [n \in 0 .. m + 1 |-> h[n]]
        OBVIOUS
    <2> HIDE DEF h
    <2>5. ASSUME NEW n \in 0 .. m + 1
          PROVE  h[n] = IF n = 0 THEN s ELSE CloseBid(h[n - 1], list[n], "expired")
        <3>1. CASE n = 0
            BY <2>1, <2>2, <3>1
        <3>2. CASE n # 0
            <4>1. n - 1 \in 0 .. m /\ h[n - 1] = g[n - 1]
                BY <2>2, <3>2
            <4>2. CASE n = m + 1
                <5>1. n - 1 = m
                    BY <4>2
                <5> QED BY <2>3, <3>2, <4>1, <4>2, <5>1
            <4>3. CASE n # m + 1
                BY <2>1, <2>2, <3>2, <4>1, <4>3
            <4> QED BY <4>2, <4>3
        <3> QED BY <3>1, <3>2
    <2>6. Loop(h, m + 1)
        BY <2>4, <2>5
    <2> QED BY <2>6
<1> HIDE DEF defined
<1>3. \E g : Loop(g, last)
    <2>1. Nat \subseteq defined
        BY <1>1, <1>2, NatSetInduction
    <2> QED BY <2>1 DEF defined
<1> DEFINE after == CHOOSE g : Loop(g, last)
<1>4. Loop(after, last)
    <2> HIDE DEF Loop
    <2> QED BY <1>3
<1>5. ExpireBids(s, list) = after[last]
    BY DEF ExpireBids
<1> HIDE DEF after
<1>6. after[0] = s /\ \A n \in 1 .. last : after[n] = CloseBid(after[n - 1], list[n], "expired")
    BY <1>4
<1> QED
    BY <1>5, <1>6

(* The same for the inner loop of match. *)
LEMMA MeetOffersUnfolds ==
    ASSUME NEW s, NEW b, NEW list, Len(list) \in Nat
    PROVE  \E g : /\ g[0] = s
                  /\ \A n \in 1 .. Len(list) : g[n] = Fill(g[n - 1], b, list[n])
                  /\ MeetOffers(s, b, list) = g[Len(list)]
<1> DEFINE Loop(g, m) ==
               g = [n \in 0 .. m |-> IF n = 0 THEN s ELSE Fill(g[n - 1], b, list[n])]
           defined == {m \in Nat : \E g : Loop(g, m)}
           last == Len(list)
<1>1. 0 \in defined
    <2> DEFINE g == [n \in 0 .. 0 |-> s]
    <2>1. g = [n \in 0 .. 0 |-> IF n = 0 THEN s ELSE Fill(g[n - 1], b, list[n])]
        OBVIOUS
    <2> QED BY <2>1
<1>2. ASSUME NEW m \in Nat, m \in defined PROVE m + 1 \in defined
    <2>1. PICK g : Loop(g, m)
        BY <1>2
    <2> DEFINE h == [n \in 0 .. m + 1 |-> IF n = m + 1 THEN Fill(g[m], b, list[m + 1]) ELSE g[n]]
    <2>2. \A n \in 0 .. m : h[n] = g[n]
        OBVIOUS
    <2>3. h[m + 1] = Fill(g[m], b, list[m + 1])
        OBVIOUS
    <2>4. h = [n \in 0 .. m + 1 |-> h[n]]
        OBVIOUS
    <2> HIDE DEF h
    <2>5. ASSUME NEW n \in 0 .. m + 1
          PROVE  h[n] = IF n = 0 THEN s ELSE Fill(h[n - 1], b, list[n])
        <3>1. CASE n = 0
            BY <2>1, <2>2, <3>1
        <3>2. CASE n # 0
            <4>1. n - 1 \in 0 .. m /\ h[n - 1] = g[n - 1]
                BY <2>2, <3>2
            <4>2. CASE n = m + 1
                <5>1. n - 1 = m
                    BY <4>2
                <5> QED BY <2>3, <3>2, <4>1, <4>2, <5>1
            <4>3. CASE n # m + 1
                BY <2>1, <2>2, <3>2, <4>1, <4>3
            <4> QED BY <4>2, <4>3
        <3> QED BY <3>1, <3>2
    <2>6. Loop(h, m + 1)
        BY <2>4, <2>5
    <2> QED BY <2>6
<1> HIDE DEF defined
<1>3. \E g : Loop(g, last)
    <2>1. Nat \subseteq defined
        BY <1>1, <1>2, NatSetInduction
    <2> QED BY <2>1 DEF defined
<1> DEFINE after == CHOOSE g : Loop(g, last)
<1>4. Loop(after, last)
    <2> HIDE DEF Loop
    <2> QED BY <1>3
<1>5. MeetOffers(s, b, list) = after[last]
    BY DEF MeetOffers
<1> HIDE DEF after
<1>6. after[0] = s /\ \A n \in 1 .. last : after[n] = Fill(after[n - 1], b, list[n])
    BY <1>4
<1> QED
    BY <1>5, <1>6

(* The same for the outer loop of match. *)
LEMMA MeetBidsUnfolds ==
    ASSUME NEW s, NEW offers, NEW list, Len(list) \in Nat
    PROVE  \E g : /\ g[0] = s
                  /\ \A n \in 1 .. Len(list) : g[n] = MeetOffers(g[n - 1], list[n], offers)
                  /\ MeetBids(s, list, offers) = g[Len(list)]
<1> DEFINE Loop(g, m) ==
               g = [n \in 0 .. m |-> IF n = 0 THEN s ELSE MeetOffers(g[n - 1], list[n], offers)]
           defined == {m \in Nat : \E g : Loop(g, m)}
           last == Len(list)
<1>1. 0 \in defined
    <2> DEFINE g == [n \in 0 .. 0 |-> s]
    <2>1. g = [n \in 0 .. 0 |-> IF n = 0 THEN s ELSE MeetOffers(g[n - 1], list[n], offers)]
        OBVIOUS
    <2> QED BY <2>1
<1>2. ASSUME NEW m \in Nat, m \in defined PROVE m + 1 \in defined
    <2>1. PICK g : Loop(g, m)
        BY <1>2
    <2> DEFINE h == [n \in 0 .. m + 1 |-> IF n = m + 1 THEN MeetOffers(g[m], list[m + 1], offers) ELSE g[n]]
    <2>2. \A n \in 0 .. m : h[n] = g[n]
        OBVIOUS
    <2>3. h[m + 1] = MeetOffers(g[m], list[m + 1], offers)
        OBVIOUS
    <2>4. h = [n \in 0 .. m + 1 |-> h[n]]
        OBVIOUS
    <2> HIDE DEF h
    <2>5. ASSUME NEW n \in 0 .. m + 1
          PROVE  h[n] = IF n = 0 THEN s ELSE MeetOffers(h[n - 1], list[n], offers)
        <3>1. CASE n = 0
            BY <2>1, <2>2, <3>1
        <3>2. CASE n # 0
            <4>1. n - 1 \in 0 .. m /\ h[n - 1] = g[n - 1]
                BY <2>2, <3>2
            <4>2. CASE n = m + 1
                <5>1. n - 1 = m
                    BY <4>2
                <5> QED BY <2>3, <3>2, <4>1, <4>2, <5>1
            <4>3. CASE n # m + 1
                BY <2>1, <2>2, <3>2, <4>1, <4>3
            <4> QED BY <4>2, <4>3
        <3> QED BY <3>1, <3>2
    <2>6. Loop(h, m + 1)
        BY <2>4, <2>5
    <2> QED BY <2>6
<1> HIDE DEF defined
<1>3. \E g : Loop(g, last)
    <2>1. Nat \subseteq defined
        BY <1>1, <1>2, NatSetInduction
    <2> QED BY <2>1 DEF defined
<1> DEFINE after == CHOOSE g : Loop(g, last)
<1>4. Loop(after, last)
    <2> HIDE DEF Loop
    <2> QED BY <1>3
<1>5. MeetBids(s, list, offers) = after[last]
    BY DEF MeetBids
<1> HIDE DEF after
<1>6. after[0] = s /\ \A n \in 1 .. last : after[n] = MeetOffers(after[n - 1], list[n], offers)
    BY <1>4
<1> QED
    BY <1>5, <1>6

(* Each pass keeps the promises, so the loop does: over the late offers, *)
LEMMA ExpireOffersKept ==
    ASSUME NEW s, Kept(s), NEW list, Len(list) \in Nat,
           list \in [1 .. Len(list) -> DOMAIN s.offers]
    PROVE  /\ Kept(ExpireOffers(s, list))
           /\ DOMAIN ExpireOffers(s, list).offers = DOMAIN s.offers
           /\ ExpireOffers(s, list).bids = s.bids
<1>1. PICK g : /\ g[0] = s
               /\ \A n \in 1 .. Len(list) : g[n] = CloseOffer(g[n - 1], list[n], "expired")
               /\ ExpireOffers(s, list) = g[Len(list)]
    BY ExpireOffersUnfolds
<1> DEFINE Good(t) == /\ Kept(t)
                      /\ DOMAIN t.offers = DOMAIN s.offers
                      /\ t.bids = s.bids
           good == {n \in Nat : n <= Len(list) => Good(g[n])}
<1>2. 0 \in good
    BY <1>1
<1>3. ASSUME NEW n \in Nat, n \in good PROVE n + 1 \in good
    <2> SUFFICES ASSUME n + 1 <= Len(list) PROVE Good(g[n + 1])
        OBVIOUS
    <2>1. n + 1 \in 1 .. Len(list) /\ (n + 1) - 1 = n /\ n <= Len(list)
        OBVIOUS
    <2>2. Good(g[n]) /\ list[n + 1] \in DOMAIN s.offers
        BY <1>3, <2>1
    <2>3. g[n + 1] = CloseOffer(g[n], list[n + 1], "expired")
        BY <1>1, <2>1
    <2> HIDE DEF good
    <2> QED BY <2>2, <2>3, OfferClosed DEF Final
<1> HIDE DEF good
<1>4. Nat \subseteq good
    BY <1>2, <1>3, NatSetInduction
<1>5. Good(g[Len(list)])
    BY <1>4 DEF good
<1> QED
    BY <1>1, <1>5

(* over the late bids, *)
LEMMA ExpireBidsKept ==
    ASSUME NEW s, Kept(s), NEW list, Len(list) \in Nat,
           list \in [1 .. Len(list) -> DOMAIN s.bids]
    PROVE  /\ Kept(ExpireBids(s, list))
           /\ DOMAIN ExpireBids(s, list).bids = DOMAIN s.bids
           /\ ExpireBids(s, list).offers = s.offers
<1>1. PICK g : /\ g[0] = s
               /\ \A n \in 1 .. Len(list) : g[n] = CloseBid(g[n - 1], list[n], "expired")
               /\ ExpireBids(s, list) = g[Len(list)]
    BY ExpireBidsUnfolds
<1> DEFINE Good(t) == /\ Kept(t)
                      /\ DOMAIN t.bids = DOMAIN s.bids
                      /\ t.offers = s.offers
           good == {n \in Nat : n <= Len(list) => Good(g[n])}
<1>2. 0 \in good
    BY <1>1
<1>3. ASSUME NEW n \in Nat, n \in good PROVE n + 1 \in good
    <2> SUFFICES ASSUME n + 1 <= Len(list) PROVE Good(g[n + 1])
        OBVIOUS
    <2>1. n + 1 \in 1 .. Len(list) /\ (n + 1) - 1 = n /\ n <= Len(list)
        OBVIOUS
    <2>2. Good(g[n]) /\ list[n + 1] \in DOMAIN s.bids
        BY <1>3, <2>1
    <2>3. g[n + 1] = CloseBid(g[n], list[n + 1], "expired")
        BY <1>1, <2>1
    <2> HIDE DEF good
    <2> QED BY <2>2, <2>3, BidClosed DEF Final
<1> HIDE DEF good
<1>4. Nat \subseteq good
    BY <1>2, <1>3, NatSetInduction
<1>5. Good(g[Len(list)])
    BY <1>4 DEF good
<1> QED
    BY <1>1, <1>5

(* over the offers a bid meets, *)
LEMMA MeetOffersKept ==
    ASSUME NEW s, Kept(s), NEW b \in DOMAIN s.bids, NEW list, Len(list) \in Nat,
           list \in [1 .. Len(list) -> DOMAIN s.offers]
    PROVE  /\ Kept(MeetOffers(s, b, list))
           /\ DOMAIN MeetOffers(s, b, list).offers = DOMAIN s.offers
           /\ DOMAIN MeetOffers(s, b, list).bids = DOMAIN s.bids
<1>1. PICK g : /\ g[0] = s
               /\ \A n \in 1 .. Len(list) : g[n] = Fill(g[n - 1], b, list[n])
               /\ MeetOffers(s, b, list) = g[Len(list)]
    BY MeetOffersUnfolds
<1> DEFINE Good(t) == /\ Kept(t)
                      /\ DOMAIN t.offers = DOMAIN s.offers
                      /\ DOMAIN t.bids = DOMAIN s.bids
           good == {n \in Nat : n <= Len(list) => Good(g[n])}
<1>2. 0 \in good
    BY <1>1
<1>3. ASSUME NEW n \in Nat, n \in good PROVE n + 1 \in good
    <2> SUFFICES ASSUME n + 1 <= Len(list) PROVE Good(g[n + 1])
        OBVIOUS
    <2>1. n + 1 \in 1 .. Len(list) /\ (n + 1) - 1 = n /\ n <= Len(list)
        OBVIOUS
    <2>2. Good(g[n]) /\ list[n + 1] \in DOMAIN s.offers
        BY <1>3, <2>1
    <2>3. g[n + 1] = Fill(g[n], b, list[n + 1])
        BY <1>1, <2>1
    <2> HIDE DEF good
    <2> QED BY <2>2, <2>3, Filled
<1> HIDE DEF good
<1>4. Nat \subseteq good
    BY <1>2, <1>3, NatSetInduction
<1>5. Good(g[Len(list)])
    BY <1>4 DEF good
<1> QED
    BY <1>1, <1>5

(* and over the bids. *)
LEMMA MeetBidsKept ==
    ASSUME NEW s, Kept(s), NEW offers, Len(offers) \in Nat,
           offers \in [1 .. Len(offers) -> DOMAIN s.offers], NEW list, Len(list) \in Nat,
           list \in [1 .. Len(list) -> DOMAIN s.bids]
    PROVE  /\ Kept(MeetBids(s, list, offers))
           /\ DOMAIN MeetBids(s, list, offers).offers = DOMAIN s.offers
           /\ DOMAIN MeetBids(s, list, offers).bids = DOMAIN s.bids
<1>1. PICK g : /\ g[0] = s
               /\ \A n \in 1 .. Len(list) : g[n] = MeetOffers(g[n - 1], list[n], offers)
               /\ MeetBids(s, list, offers) = g[Len(list)]
    BY MeetBidsUnfolds
<1> DEFINE Good(t) == /\ Kept(t)
                      /\ DOMAIN t.offers = DOMAIN s.offers
                      /\ DOMAIN t.bids = DOMAIN s.bids
           good == {n \in Nat : n <= Len(list) => Good(g[n])}
<1>2. 0 \in good
    BY <1>1
<1>3. ASSUME NEW n \in Nat, n \in good PROVE n + 1 \in good
    <2> SUFFICES ASSUME n + 1 <= Len(list) PROVE Good(g[n + 1])
        OBVIOUS
    <2>1. n + 1 \in 1 .. Len(list) /\ (n + 1) - 1 = n /\ n <= Len(list)
        OBVIOUS
    <2>2. Good(g[n]) /\ list[n + 1] \in DOMAIN s.bids
        BY <1>3, <2>1
    <2>3. g[n + 1] = MeetOffers(g[n], list[n + 1], offers)
        BY <1>1, <2>1
    <2> HIDE DEF good
    <2> QED BY <2>2, <2>3, MeetOffersKept
<1> HIDE DEF good
<1>4. Nat \subseteq good
    BY <1>2, <1>3, NatSetInduction
<1>5. Good(g[Len(list)])
    BY <1>4 DEF good
<1> QED
    BY <1>1, <1>5

-----------------------------------------------------------------------------
(* Expiry and matching. *)

(* expire never throws and keeps every promise covered. *)
LEMMA ExpireKept ==
    ASSUME NEW s, Kept(s), NEW now
    PROVE  Kept(expire(s, now))
<1> DEFINE offers == SetToSeq(Late(s.offers, now))
           bids == SetToSeq(Late(s.bids, now))
           u == ExpireOffers(s, offers)
<1>1. /\ Late(s.offers, now) \subseteq DOMAIN s.offers /\ IsFiniteSet(Late(s.offers, now))
      /\ Late(s.bids, now) \subseteq DOMAIN s.bids /\ IsFiniteSet(Late(s.bids, now))
    <2>1. /\ Late(s.offers, now) \subseteq DOMAIN s.offers
          /\ Late(s.bids, now) \subseteq DOMAIN s.bids
        BY DEF Late, OpenOrders
    <2>2. IsFiniteSet(DOMAIN s.offers) /\ IsFiniteSet(DOMAIN s.bids)
        BY DEF Kept, IsBooks
    <2> QED BY <2>1, <2>2, FS_Subset
<1>2. Len(offers) \in Nat /\ offers \in [1 .. Len(offers) -> DOMAIN s.offers]
    BY <1>1, UnorderedList
<1>3. Len(bids) \in Nat /\ bids \in [1 .. Len(bids) -> DOMAIN s.bids]
    BY <1>1, UnorderedList
<1> HIDE DEF offers, bids, u
<1>4. Kept(u) /\ u.bids = s.bids
    BY <1>2, ExpireOffersKept DEF u
<1>5. Kept(ExpireBids(u, bids))
    BY <1>3, <1>4, ExpireBidsKept
<1> QED
    BY <1>5 DEF expire, u, offers, bids

(* What match sorts: finite sets, by strict total orders. *)
LEMMA LiveOrders ==
    ASSUME NEW s, IsBooks(s), NEW now
    PROVE  /\ Live(s.offers, now) \subseteq DOMAIN s.offers /\ IsFiniteSet(Live(s.offers, now))
           /\ Live(s.bids, now) \subseteq DOMAIN s.bids /\ IsFiniteSet(Live(s.bids, now))
           /\ Ordered(Live(s.offers, now), OffersFirst(s.offers))
           /\ Ordered(Live(s.bids, now), BidsFirst(s.bids))
<1>1. /\ Live(s.offers, now) \subseteq DOMAIN s.offers
      /\ Live(s.bids, now) \subseteq DOMAIN s.bids
    BY DEF Live, OpenOrders
<1>2. IsFiniteSet(Live(s.offers, now)) /\ IsFiniteSet(Live(s.bids, now))
    BY <1>1, FS_Subset DEF IsBooks
<1>3. Ordered(Live(s.offers, now), OffersFirst(s.offers))
    <2>1. \A o \in Live(s.offers, now) :
             o \in DOMAIN s.offers /\ o \in Nat /\ s.offers[o].unitPrice \in Nat
        BY <1>1, MarketAssumption DEF IsBooks, OfferRecord
    <2>2. \A x, y \in Live(s.offers, now) :
             <<x, y>> \in OffersFirst(s.offers)
               <=> \/ s.offers[x].unitPrice < s.offers[y].unitPrice
                   \/ s.offers[x].unitPrice = s.offers[y].unitPrice /\ x < y
        BY <2>1 DEF OffersFirst
    <2> QED BY <2>1, <2>2 DEF Ordered
<1>4. Ordered(Live(s.bids, now), BidsFirst(s.bids))
    <2>1. \A b \in Live(s.bids, now) :
             b \in DOMAIN s.bids /\ b \in Nat /\ s.bids[b].maxUnitPrice \in Nat
        BY <1>1, MarketAssumption DEF IsBooks, BidRecord
    <2>2. \A x, y \in Live(s.bids, now) :
             <<x, y>> \in BidsFirst(s.bids)
               <=> \/ s.bids[x].maxUnitPrice > s.bids[y].maxUnitPrice
                   \/ s.bids[x].maxUnitPrice = s.bids[y].maxUnitPrice /\ x < y
        BY <2>1 DEF BidsFirst
    <2> QED BY <2>1, <2>2 DEF Ordered
<1> QED
    BY <1>1, <1>2, <1>3, <1>4

(* match never throws and keeps every promise covered. *)
LEMMA MatchKept ==
    ASSUME NEW s, Kept(s), NEW now
    PROVE  Kept(match(s, now))
<1> DEFINE offers == Sorted(Live(s.offers, now), OffersFirst(s.offers))
           bids == Sorted(Live(s.bids, now), BidsFirst(s.bids))
<1>1. IsBooks(s)
    BY DEF Kept
<1>2. Len(offers) \in Nat /\ offers \in [1 .. Len(offers) -> DOMAIN s.offers]
    <2>1. /\ IsFiniteSet(Live(s.offers, now)) /\ Live(s.offers, now) \subseteq DOMAIN s.offers
          /\ Ordered(Live(s.offers, now), OffersFirst(s.offers))
        BY <1>1, LiveOrders
    <2>2. Len(offers) \in Nat /\ offers \in [1 .. Len(offers) -> Live(s.offers, now)]
        BY <2>1, SortedList
    <2> HIDE DEF offers
    <2> QED BY <2>1, <2>2
<1>3. Len(bids) \in Nat /\ bids \in [1 .. Len(bids) -> DOMAIN s.bids]
    <2>1. /\ IsFiniteSet(Live(s.bids, now)) /\ Live(s.bids, now) \subseteq DOMAIN s.bids
          /\ Ordered(Live(s.bids, now), BidsFirst(s.bids))
        BY <1>1, LiveOrders
    <2>2. Len(bids) \in Nat /\ bids \in [1 .. Len(bids) -> Live(s.bids, now)]
        BY <2>1, SortedList
    <2> HIDE DEF bids
    <2> QED BY <2>1, <2>2
<1> HIDE DEF offers, bids
<1>4. Kept(MeetBids(s, bids, offers))
    BY <1>2, <1>3, MeetBidsKept
<1> QED
    BY <1>4 DEF match, offers, bids

-----------------------------------------------------------------------------
(* Every operation. *)

(* cancelOffer. *)
LEMMA OfferCancelled ==
    ASSUME NEW s, Kept(s), NEW o \in DOMAIN s.offers, cancelOffer(s, o).ok
    PROVE  Kept(cancelOffer(s, o)) /\ cancelOffer(s, o) = CloseOffer(s, o, "cancelled")
<1> DEFINE open == s.offers[o].state = "open"
           guarded == Require(s, open)
           u == Return(guarded, OfferEscrow(o), OwnAccount(guarded.offers[o].seller),
                       guarded.offers[o].resource)
<1>1. IsBooks(s) /\ Shape(s) /\ open \in BOOLEAN
    BY DEF Kept, IsBooks
<1>2. cancelOffer(s, o) = CloseOffer(guarded, o, "cancelled")
    BY DEF cancelOffer
<1> HIDE DEF open
<1>3. Shape(guarded)
    BY <1>1, Required
<1> HIDE DEF guarded
<1>4. Shape(u) /\ (u.ok => guarded.ok)
    BY <1>3, ReturnShape
<1>5. CloseOffer(guarded, o, "cancelled").ok = u.ok
    <2> HIDE DEF u
    <2>1. CloseOffer(guarded, o, "cancelled") =
              [u EXCEPT !.offers[o] = [@ EXCEPT !.remaining = 0, !.state = "cancelled"]]
        BY DEF CloseOffer, u
    <2> QED BY <1>4, <2>1 DEF Shape
<1>6. guarded = s
    BY <1>1, <1>2, <1>4, <1>5, Required DEF guarded
<1> QED
    BY <1>2, <1>6, OfferClosed DEF Final

(* cancelBid. *)
LEMMA BidCancelled ==
    ASSUME NEW s, Kept(s), NEW b \in DOMAIN s.bids, cancelBid(s, b).ok
    PROVE  Kept(cancelBid(s, b)) /\ cancelBid(s, b) = CloseBid(s, b, "cancelled")
<1> DEFINE open == s.bids[b].state = "open"
           guarded == Require(s, open)
           u == Return(guarded, BidEscrow(b), OwnAccount(guarded.bids[b].buyer), "credits")
<1>1. IsBooks(s) /\ Shape(s) /\ open \in BOOLEAN
    BY DEF Kept, IsBooks
<1>2. cancelBid(s, b) = CloseBid(guarded, b, "cancelled")
    BY DEF cancelBid
<1> HIDE DEF open
<1>3. Shape(guarded)
    BY <1>1, Required
<1> HIDE DEF guarded
<1>4. Shape(u) /\ (u.ok => guarded.ok)
    BY <1>3, ReturnShape
<1>5. CloseBid(guarded, b, "cancelled").ok = u.ok
    <2> HIDE DEF u
    <2>1. CloseBid(guarded, b, "cancelled") =
              [u EXCEPT !.bids[b] = [@ EXCEPT !.remaining = 0, !.reservedCredits = 0,
                                              !.state = "cancelled"]]
        BY DEF CloseBid, u
    <2> QED BY <1>4, <2>1 DEF Shape
<1>6. guarded = s
    BY <1>1, <1>2, <1>4, <1>5, Required DEF guarded
<1> QED
    BY <1>2, <1>6, BidClosed DEF Final

(* One step per operation. *)
LEMMA LeadsKept ==
    ASSUME NEW s, Kept(s), NEW t, Leads(s, t)
    PROVE  Kept(t)
<1>1. ASSUME NEW a \in Account, NEW r \in Resource, NEW n \in Quantity,
             \/ Becomes(Post(s, MintAccount, OwnAccount(a), r, n), t)
             \/ Becomes(Post(s, OwnAccount(a), BurnAccount, r, n), t)
             \/ \E c \in Account : Becomes(Post(s, OwnAccount(a), OwnAccount(c), r, n), t)
             \/ \E id \in Reservation : Becomes(Post(s, OwnAccount(a), ReservationAccount(id), r, n), t)
      PROVE  Kept(t)
    <2>1. n \in Nat
        BY MarketAssumption
    <2> QED BY <1>1, <2>1, PlainPosting DEF Becomes
<1>2. ASSUME NEW id \in Reservation, NEW owner \in Account, NEW r \in Resource,
             Becomes(refundReservation(s, id, owner, r), t)
      PROVE  Kept(t)
    BY <1>2, ReservationReturned DEF refundReservation, Becomes
<1>3. ASSUME NEW id \in Reservation, NEW owner \in Account, NEW beneficiary \in Account,
             NEW r \in Resource, NEW n \in Quantity,
             Becomes(settleReservation(s, id, beneficiary, owner, r, n), t)
      PROVE  Kept(t)
    <2>1. n \in Nat
        BY MarketAssumption
    <2> QED BY <1>3, <2>1, ReservationSettled DEF Becomes
<1>4. ASSUME NEW o \in Order \ DOMAIN s.offers, NEW a \in Account, NEW r \in Goods,
             NEW n \in Quantity, NEW least \in Quantity, NEW price \in Price,
             NEW expiresAt \in Time,
             Becomes(placeOffer(s, o, NewOffer(a, r, n, least, price, expiresAt)), t)
      PROVE  Kept(t)
    <2> DEFINE offer == NewOffer(a, r, n, least, price, expiresAt)
    <2>1. offer \in OfferRecord /\ offer.remaining = offer.quantity
        BY MarketAssumption DEF NewOffer, OfferRecord
    <2> HIDE DEF offer
    <2> QED BY <1>4, <2>1, OfferPlaced DEF Becomes, offer
<1>5. ASSUME NEW b \in Order \ DOMAIN s.bids, NEW a \in Account, NEW r \in Goods,
             NEW n \in Quantity, NEW price \in Price, NEW expiresAt \in Time,
             Becomes(placeBid(s, b, NewBid(a, r, n, price, expiresAt)), t)
      PROVE  Kept(t)
    <2> DEFINE bid == NewBid(a, r, n, price, expiresAt)
    <2>1. n \in Nat /\ price \in Nat \ {0} /\ expiresAt \in Nat
        BY MarketAssumption
    <2>2. n * price \in Nat
        BY <2>1
    <2>3. /\ bid \in BidRecord /\ bid.remaining = bid.quantity
          /\ bid.reservedCredits = bid.quantity * bid.maxUnitPrice
        BY <2>1, <2>2 DEF NewBid, BidRecord
    <2> HIDE DEF bid
    <2> QED BY <1>5, <2>3, BidPlaced DEF Becomes, bid
<1>6. ASSUME NEW o \in DOMAIN s.offers, Becomes(cancelOffer(s, o), t)
      PROVE  Kept(t)
    BY <1>6, OfferCancelled DEF Becomes
<1>7. ASSUME NEW b \in DOMAIN s.bids, Becomes(cancelBid(s, b), t)
      PROVE  Kept(t)
    BY <1>7, BidCancelled DEF Becomes
<1>8. ASSUME NEW now \in Time, Becomes(expire(s, now), t) \/ Becomes(match(s, now), t)
      PROVE  Kept(t)
    BY <1>8, ExpireKept, MatchKept DEF Becomes
<1>9. ASSUME NEW id \in DOMAIN s.trades,
             Becomes(settleTrade(s, id), t) \/ Becomes(refundTrade(s, id), t)
      PROVE  Kept(t)
    <2>1. id[1] \in DOMAIN s.offers /\ id[2] \in DOMAIN s.bids
        BY DEF Kept, IsBooks
    <2>2. Seller(s, id) \in Account /\ Buyer(s, id) \in Account
        BY <2>1 DEF Kept, IsBooks, OfferRecord, BidRecord, Seller, Buyer
    <2>3. CASE Becomes(settleTrade(s, id), t)
        BY <2>2, <2>3, TradeClosed DEF Becomes, settleTrade
    <2>4. CASE Becomes(refundTrade(s, id), t)
        BY <2>2, <2>4, TradeClosed DEF Becomes, refundTrade
    <2> QED BY <1>9, <2>3, <2>4
<1> QED
    BY <1>1, <1>2, <1>3, <1>4, <1>5, <1>6, <1>7, <1>8, <1>9 DEF Leads

(* An exchange without accounts has promised nothing. *)
LEMMA EmptyKept == Kept(Empty)
<1>1. /\ Shape(Empty) /\ Empty.ok = TRUE /\ Empty.balance \in Balances
      /\ Empty.minted \in [Resource -> Nat] /\ Empty.burned \in [Resource -> Nat]
    BY DEF Empty, Shape, Balances
<1>2. DOMAIN Empty.offers = {} /\ DOMAIN Empty.bids = {} /\ DOMAIN Empty.trades = {}
    BY DEF Empty
<1>3. /\ Empty.offers \in [{} -> OfferRecord] /\ Empty.bids \in [{} -> BidRecord]
      /\ Empty.trades \in [{} -> TradeRecord]
    BY DEF Empty
<1>4. IsBooks(Empty)
    BY <1>1, <1>2, <1>3, FS_EmptySet DEF IsBooks
<1>5. \A h \in Holder, r \in Resource : Balance(Empty, h, r) = 0
    BY DEF Empty, Balance
<1> QED
    BY <1>2, <1>4, <1>5, Holders DEF Kept, OfferKept, BidKept, TradeKept

(* The invariant holds in every state of the exchange. *)
LEMMA KeptAlways == Spec => []Kept(books)
<1>1. Init => Kept(books)
    BY EmptyKept DEF Init
<1>2. Kept(books) /\ [Next]_books => Kept(books)'
    <2> SUFFICES ASSUME Kept(books), [Next]_books PROVE Kept(books')
        OBVIOUS
    <2>1. CASE Next
        BY <2>1, NextLeads, LeadsKept
    <2>2. CASE UNCHANGED books
        BY <2>2
    <2> QED BY <2>1, <2>2
<1> QED
    BY <1>1, <1>2, PTL DEF Spec

(* Every promise of the exchange is covered by an escrow of its own, whatever *)
(* operations it is given.                                                    *)
THEOREM EscrowsCoverPromises == Spec => []EscrowExact
<1>1. Kept(books) => EscrowExact
    BY KeptIsExact
<1> QED
    BY <1>1, KeptAlways, PTL

(* The same holds of what is in memory when operations are written to a file, *)
(* fail and are put back, and the process crashes.                            *)
SafeInv == WritingInv /\ Kept(books) /\ Kept(file) /\ Kept(before)

(* What is written, put back or read again was kept before. *)
LEMMA SafeStep == SafeInv /\ [DurableNext]_durableVars => SafeInv'
<1> SUFFICES ASSUME SafeInv, [DurableNext]_durableVars
             PROVE  SafeInv'
    OBVIOUS
<1>1. WritingInv'
    BY WritingStep DEF SafeInv
<1> SUFFICES Kept(books') /\ Kept(file') /\ Kept(before')
    BY <1>1 DEF SafeInv
<1>2. CASE Mutate
    <2>1. Kept(books')
        BY <1>2, NextLeads, LeadsKept DEF Mutate, SafeInv
    <2> QED BY <1>2, <2>1 DEF Mutate, SafeInv
<1>3. CASE Open \/ Checkpoint \/ Rename \/ Resolve \/ WriteFails
    BY <1>3 DEF Open, Checkpoint, Rename, Resolve, WriteFails, SafeInv
<1>4. CASE Crash
    BY <1>4, EmptyKept DEF Crash, SafeInv
<1>5. CASE UNCHANGED durableVars
    BY <1>5 DEF durableVars, SafeInv
<1> QED
    BY <1>2, <1>3, <1>4, <1>5 DEF DurableNext

(* After failed writes, crashes and restarts every promise is still covered. *)
THEOREM EscrowsSurviveCrashes == DurableSpec => []EscrowExact
<1>1. DurableInit => SafeInv
    BY WritingInit, EmptyKept DEF DurableInit, Init, SafeInv
<1>2. SafeInv /\ [DurableNext]_durableVars => SafeInv'
    BY SafeStep
<1>3. SafeInv => EscrowExact
    BY KeptIsExact DEF SafeInv
<1> QED
    BY <1>1, <1>2, <1>3, PTL DEF DurableSpec

-----------------------------------------------------------------------------
(* What a round of matching leaves. *)

(* Orders only lose remaining quantity, and trades are only added. *)
Shrinks(s, t) ==
    /\ DOMAIN t.offers = DOMAIN s.offers
    /\ \A o \in DOMAIN s.offers :
         /\ t.offers[o].resource = s.offers[o].resource
         /\ t.offers[o].unitPrice = s.offers[o].unitPrice
         /\ t.offers[o].minimumFill = s.offers[o].minimumFill
         /\ t.offers[o].expiresAt = s.offers[o].expiresAt
         /\ t.offers[o].remaining <= s.offers[o].remaining
         /\ t.offers[o].state = "open" => s.offers[o].state = "open"
    /\ DOMAIN t.bids = DOMAIN s.bids
    /\ \A b \in DOMAIN s.bids :
         /\ t.bids[b].resource = s.bids[b].resource
         /\ t.bids[b].maxUnitPrice = s.bids[b].maxUnitPrice
         /\ t.bids[b].expiresAt = s.bids[b].expiresAt
         /\ t.bids[b].remaining <= s.bids[b].remaining
         /\ t.bids[b].state = "open" => s.bids[b].state = "open"
    /\ DOMAIN s.trades \subseteq DOMAIN t.trades
    /\ \A id \in DOMAIN s.trades : t.trades[id] = s.trades[id]

(* The two do not trade with each other any more. *)
Done(s, b, o) == ~ Meets(s.bids[b], s.offers[o])

(* What PricePriority says of one trade, against some of the orders. *)
Prior(s, offers, bids, id) ==
    /\ \A o \in offers :
         /\ s.offers[o].resource = s.offers[id[1]].resource
         /\ s.offers[o].unitPrice < s.offers[id[1]].unitPrice
         => Min({s.offers[o].remaining, s.trades[id].quantity}) < s.offers[o].minimumFill
    /\ \A b \in bids :
         /\ s.bids[b].resource = s.bids[id[2]].resource
         /\ s.bids[b].maxUnitPrice > s.bids[id[2]].maxUnitPrice
         => Min({s.bids[b].remaining, s.trades[id].quantity}) < s.offers[id[1]].minimumFill

(* The numbers of orders and trades. *)
LEMMA OrderTypes ==
    ASSUME NEW s, IsBooks(s)
    PROVE  /\ \A o \in DOMAIN s.offers :
                /\ s.offers[o].unitPrice \in Nat /\ s.offers[o].remaining \in Nat
                /\ s.offers[o].minimumFill \in Nat /\ s.offers[o].minimumFill > 0
                /\ s.offers[o].expiresAt \in Nat
           /\ \A b \in DOMAIN s.bids :
                /\ s.bids[b].maxUnitPrice \in Nat /\ s.bids[b].remaining \in Nat
                /\ s.bids[b].expiresAt \in Nat
           /\ \A id \in DOMAIN s.trades :
                /\ s.trades[id].quantity \in Nat
                /\ id[1] \in DOMAIN s.offers /\ id[2] \in DOMAIN s.bids
BY DEF IsBooks, OfferRecord, BidRecord, TradeRecord

(* Several passes shrink the orders as one does. *)
LEMMA ShrinksTransitive ==
    ASSUME NEW s, NEW t, NEW u, IsBooks(s), IsBooks(t), IsBooks(u), Shrinks(s, t), Shrinks(t, u)
    PROVE  Shrinks(s, u)
<1>1. ASSUME NEW o \in DOMAIN s.offers PROVE u.offers[o].remaining <= s.offers[o].remaining
    <2>1. o \in DOMAIN t.offers /\ o \in DOMAIN u.offers
        BY DEF Shrinks
    <2>2. /\ s.offers[o].remaining \in Nat /\ t.offers[o].remaining \in Nat
          /\ u.offers[o].remaining \in Nat
        BY <2>1, OrderTypes
    <2> QED BY <2>1, <2>2 DEF Shrinks
<1>2. ASSUME NEW b \in DOMAIN s.bids PROVE u.bids[b].remaining <= s.bids[b].remaining
    <2>1. b \in DOMAIN t.bids /\ b \in DOMAIN u.bids
        BY DEF Shrinks
    <2>2. /\ s.bids[b].remaining \in Nat /\ t.bids[b].remaining \in Nat
          /\ u.bids[b].remaining \in Nat
        BY <2>1, OrderTypes
    <2> QED BY <2>1, <2>2 DEF Shrinks
<1> QED
    BY <1>1, <1>2 DEF Shrinks

(* The minimum grows with what it is taken of. *)
LEMMA SmallerMin ==
    ASSUME NEW m \in Nat, NEW n \in Nat, NEW i \in Nat, NEW j \in Nat, i <= m, j <= n
    PROVE  Min({i, j}) <= Min({m, n})
<1>1. /\ Min({i, j}) \in Nat /\ Min({i, j}) <= i /\ Min({i, j}) <= j
      /\ Min({m, n}) \in Nat /\ (Min({m, n}) = m \/ Min({m, n}) = n)
    BY MinOfTwo
<1> HIDE DEF Min
<1> QED
    BY <1>1

(* Two orders that cannot trade never can later in the round. *)
LEMMA DoneStays ==
    ASSUME NEW s, NEW t, IsBooks(s), IsBooks(t), Shrinks(s, t),
           NEW b \in DOMAIN s.bids, NEW o \in DOMAIN s.offers, Done(s, b, o)
    PROVE  Done(t, b, o)
<1>1. b \in DOMAIN t.bids /\ o \in DOMAIN t.offers
    BY DEF Shrinks
<1>2. /\ s.bids[b].remaining \in Nat /\ s.offers[o].remaining \in Nat
      /\ t.bids[b].remaining \in Nat /\ t.offers[o].remaining \in Nat
      /\ s.offers[o].minimumFill \in Nat
    BY <1>1, OrderTypes
<1>3. t.bids[b].remaining <= s.bids[b].remaining /\ t.offers[o].remaining <= s.offers[o].remaining
    BY DEF Shrinks
<1>4. FillQuantity(t.bids[b], t.offers[o]) <= FillQuantity(s.bids[b], s.offers[o])
    BY <1>2, <1>3, SmallerMin DEF FillQuantity
<1>5. /\ FillQuantity(t.bids[b], t.offers[o]) \in Nat
      /\ FillQuantity(s.bids[b], s.offers[o]) \in Nat
    BY <1>2, MinOfTwo DEF FillQuantity
<1> QED
    BY <1>2, <1>4, <1>5 DEF Done, Meets, Shrinks

(* Priority that a trade has is not lost in later passes. *)
LEMMA PriorStays ==
    ASSUME NEW s, NEW t, IsBooks(s), IsBooks(t), Shrinks(s, t), NEW id \in DOMAIN s.trades,
           NEW offers \in SUBSET DOMAIN s.offers, NEW bids \in SUBSET DOMAIN s.bids,
           Prior(s, offers, bids, id)
    PROVE  Prior(t, offers, bids, id)
<1> DEFINE n == s.trades[id].quantity
<1>1. /\ n \in Nat /\ t.trades[id].quantity = n
      /\ id[1] \in DOMAIN s.offers /\ id[2] \in DOMAIN s.bids
    BY OrderTypes DEF Shrinks
<1> HIDE DEF n
<1>2. ASSUME NEW o \in offers,
             t.offers[o].resource = t.offers[id[1]].resource,
             t.offers[o].unitPrice < t.offers[id[1]].unitPrice
      PROVE  Min({t.offers[o].remaining, n}) < t.offers[o].minimumFill
    <2>1. Min({s.offers[o].remaining, n}) < s.offers[o].minimumFill
        BY <1>1, <1>2 DEF Prior, Shrinks, n
    <2>2. o \in DOMAIN s.offers /\ o \in DOMAIN t.offers
        BY DEF Shrinks
    <2>3. /\ s.offers[o].remaining \in Nat /\ t.offers[o].remaining \in Nat
          /\ s.offers[o].minimumFill \in Nat
        BY <2>2, OrderTypes
    <2>4. t.offers[o].remaining <= s.offers[o].remaining
        BY <2>2 DEF Shrinks
    <2>5. Min({t.offers[o].remaining, n}) <= Min({s.offers[o].remaining, n})
        BY <1>1, <2>3, <2>4, SmallerMin
    <2>6. Min({t.offers[o].remaining, n}) \in Nat /\ Min({s.offers[o].remaining, n}) \in Nat
        BY <1>1, <2>3, MinOfTwo
    <2>7. t.offers[o].minimumFill = s.offers[o].minimumFill
        BY <2>2 DEF Shrinks
    <2> QED BY <2>1, <2>3, <2>5, <2>6, <2>7
<1>3. ASSUME NEW b \in bids,
             t.bids[b].resource = t.bids[id[2]].resource,
             t.bids[b].maxUnitPrice > t.bids[id[2]].maxUnitPrice
      PROVE  Min({t.bids[b].remaining, n}) < t.offers[id[1]].minimumFill
    <2>1. Min({s.bids[b].remaining, n}) < s.offers[id[1]].minimumFill
        BY <1>1, <1>3 DEF Prior, Shrinks, n
    <2>2. b \in DOMAIN s.bids /\ b \in DOMAIN t.bids
        BY DEF Shrinks
    <2>3. /\ s.bids[b].remaining \in Nat /\ t.bids[b].remaining \in Nat
          /\ s.offers[id[1]].minimumFill \in Nat
        BY <1>1, <2>2, OrderTypes
    <2>4. t.bids[b].remaining <= s.bids[b].remaining
        BY <2>2 DEF Shrinks
    <2>5. Min({t.bids[b].remaining, n}) <= Min({s.bids[b].remaining, n})
        BY <1>1, <2>3, <2>4, SmallerMin
    <2>6. Min({t.bids[b].remaining, n}) \in Nat /\ Min({s.bids[b].remaining, n}) \in Nat
        BY <1>1, <2>3, MinOfTwo
    <2>7. t.offers[id[1]].minimumFill = s.offers[id[1]].minimumFill
        BY <1>1 DEF Shrinks
    <2> QED BY <2>1, <2>3, <2>5, <2>6, <2>7
<1> QED
    BY <1>1, <1>2, <1>3 DEF Prior

(* One pass of the inner loop: the two orders are done with each other, and a *)
(* trade that is new is of the two and of all they could trade.               *)
LEMMA FillOutcome ==
    ASSUME NEW s, Kept(s), NEW b \in DOMAIN s.bids, NEW o \in DOMAIN s.offers
    PROVE  /\ Kept(Fill(s, b, o))
           /\ Shrinks(s, Fill(s, b, o))
           /\ Done(Fill(s, b, o), b, o)
           /\ \A id \in DOMAIN Fill(s, b, o).trades :
                \/ id \in DOMAIN s.trades
                \/ /\ id = <<o, b>> /\ Meets(s.bids[b], s.offers[o])
                   /\ Fill(s, b, o).trades[id].quantity = FillQuantity(s.bids[b], s.offers[o])
<1> DEFINE bid == s.bids[b]
           offer == s.offers[o]
           q == FillQuantity(bid, offer)
           id == <<o, b>>
           u == Exchange(s, b, o)
           sold == AfterFill(offer, q)
           bought == BidAfterFill(bid, q)
           made == NewTrade(bid, offer)
           trades == With(s.trades, id, made)
           t == Fill(s, b, o)
<1>1. Kept(t)
    BY Filled
<1>2. CASE ~ Meets(bid, offer)
    <2>1. t = s
        BY <1>2 DEF Fill
    <2>2. Shrinks(s, s)
        <3>1. IsBooks(s)
            BY DEF Kept
        <3>2. /\ \A x \in DOMAIN s.offers : s.offers[x].remaining <= s.offers[x].remaining
              /\ \A x \in DOMAIN s.bids : s.bids[x].remaining <= s.bids[x].remaining
            BY <3>1, OrderTypes
        <3> QED BY <3>2 DEF Shrinks
    <2> HIDE DEF t
    <2> QED BY <1>1, <1>2, <2>1, <2>2 DEF Done, t
<1>3. CASE Meets(bid, offer)
    <2>1. /\ bid \in BidRecord /\ offer \in OfferRecord
          /\ q \in Nat /\ q > 0 /\ q <= bid.remaining /\ q <= offer.remaining
          /\ bid.remaining \in Nat /\ offer.remaining \in Nat
          /\ q \in {bid.remaining, offer.remaining}
          /\ o \in Order /\ b \in Order
        BY <1>3, Met
    <2>2. /\ IsBooks(u) /\ u.offers = s.offers /\ u.bids = s.bids /\ u.trades = s.trades
        BY <1>3, Exchanged
    <2>3. t = [u EXCEPT !.offers[o] = sold, !.bids[b] = bought, !.trades = trades]
        BY <1>3, <2>2 DEF Fill
    <2>4. made.quantity = q
        BY DEF NewTrade
    <2> HIDE DEF u, t, q
    <2>5. /\ sold.remaining = offer.remaining - q
          /\ sold.resource = offer.resource /\ sold.unitPrice = offer.unitPrice
          /\ sold.minimumFill = offer.minimumFill /\ sold.expiresAt = offer.expiresAt
          /\ sold.state = "open" => offer.state = "open"
        BY <2>1, OfferSold
    <2>6. /\ bought.remaining = bid.remaining - q
          /\ bought.resource = bid.resource /\ bought.maxUnitPrice = bid.maxUnitPrice
          /\ bought.expiresAt = bid.expiresAt
          /\ bought.state = "open" => bid.state = "open"
        <3> DEFINE filled == AfterFill(bid, q)
        <3>1. /\ filled \in BidRecord /\ filled.remaining = bid.remaining - q
              /\ filled.resource = bid.resource /\ filled.maxUnitPrice = bid.maxUnitPrice
              /\ filled.expiresAt = bid.expiresAt
              /\ filled.state = "open" => bid.state = "open"
            BY <2>1, BidBought
        <3>2. bought = [filled EXCEPT !.reservedCredits = Reserved(bid, q)]
            BY DEF BidAfterFill
        <3> HIDE DEF filled
        <3> QED BY <3>1, <3>2 DEF BidRecord
    <2> HIDE DEF sold, bought, made
    <2>7. id \notin DOMAIN s.trades
        <3>1. TradeKept(s, id)
            BY <2>1 DEF Kept, Trade
        <3> QED BY <2>1, <3>1 DEF TradeKept
    <2>8. /\ DOMAIN trades = DOMAIN s.trades \cup {id} /\ trades[id] = made
          /\ \A p \in DOMAIN s.trades : trades[p] = s.trades[p]
        BY <2>7 DEF With
    <2> HIDE DEF trades
    <2>9. /\ t.offers = [s.offers EXCEPT ![o] = sold]
          /\ t.bids = [s.bids EXCEPT ![b] = bought] /\ t.trades = trades
        BY <2>2, <2>3 DEF IsBooks, Shape
    <2>10. /\ DOMAIN t.offers = DOMAIN s.offers /\ t.offers[o] = sold
           /\ \A p \in DOMAIN s.offers \ {o} : t.offers[p] = s.offers[p]
           /\ DOMAIN t.bids = DOMAIN s.bids /\ t.bids[b] = bought
           /\ \A p \in DOMAIN s.bids \ {b} : t.bids[p] = s.bids[p]
        BY <2>9 DEF Kept, IsBooks
    <2>11. IsBooks(s)
        BY DEF Kept
    <2>12. Shrinks(s, t)
        <3>1. ASSUME NEW p \in DOMAIN s.offers
              PROVE  /\ t.offers[p].resource = s.offers[p].resource
                     /\ t.offers[p].unitPrice = s.offers[p].unitPrice
                     /\ t.offers[p].minimumFill = s.offers[p].minimumFill
                     /\ t.offers[p].expiresAt = s.offers[p].expiresAt
                     /\ t.offers[p].remaining <= s.offers[p].remaining
                     /\ t.offers[p].state = "open" => s.offers[p].state = "open"
            <4>1. CASE p = o
                BY <2>1, <2>5, <2>10, <4>1
            <4>2. CASE p # o
                BY <2>10, <2>11, <4>2, OrderTypes
            <4> QED BY <4>1, <4>2
        <3>2. ASSUME NEW p \in DOMAIN s.bids
              PROVE  /\ t.bids[p].resource = s.bids[p].resource
                     /\ t.bids[p].maxUnitPrice = s.bids[p].maxUnitPrice
                     /\ t.bids[p].expiresAt = s.bids[p].expiresAt
                     /\ t.bids[p].remaining <= s.bids[p].remaining
                     /\ t.bids[p].state = "open" => s.bids[p].state = "open"
            <4>1. CASE p = b
                BY <2>1, <2>6, <2>10, <4>1
            <4>2. CASE p # b
                BY <2>10, <2>11, <4>2, OrderTypes
            <4> QED BY <4>1, <4>2
        <3> QED BY <2>8, <2>9, <2>10, <3>1, <3>2 DEF Shrinks
    <2>13. Done(t, b, o)
        <3>1. bought.remaining \in Nat /\ sold.remaining \in Nat
              /\ (bought.remaining = 0 \/ sold.remaining = 0)
            BY <2>1, <2>5, <2>6
        <3>2. FillQuantity(bought, sold) = 0
            <4>1. /\ FillQuantity(bought, sold) \in Nat
                  /\ FillQuantity(bought, sold) <= bought.remaining
                  /\ FillQuantity(bought, sold) <= sold.remaining
                BY <3>1, MinOfTwo DEF FillQuantity
            <4> QED BY <3>1, <4>1
        <3>3. offer.minimumFill \in Nat /\ offer.minimumFill > 0
            BY <2>11, OrderTypes
        <3> QED BY <2>5, <2>10, <3>2, <3>3 DEF Done, Meets
    <2>14. \A p \in DOMAIN t.trades :
              \/ p \in DOMAIN s.trades
              \/ p = id /\ t.trades[p].quantity = q
        BY <2>4, <2>8, <2>9
    <2> QED
        BY <1>1, <1>3, <2>12, <2>13, <2>14 DEF t, q
<1> QED
    BY <1>2, <1>3

(* A trade that a pass makes has price priority over the orders that were done *)
(* with its bid and its offer before.                                          *)
LEMMA FillPrior ==
    ASSUME NEW s, Kept(s), NEW b \in DOMAIN s.bids, NEW o \in DOMAIN s.offers,
           NEW offers \in SUBSET DOMAIN s.offers, NEW bids \in SUBSET DOMAIN s.bids,
           \A p \in offers : s.offers[p].unitPrice < s.offers[o].unitPrice => Done(s, b, p),
           \A p \in bids : s.bids[p].maxUnitPrice > s.bids[b].maxUnitPrice => Done(s, p, o),
           NEW id \in DOMAIN Fill(s, b, o).trades, id \notin DOMAIN s.trades
    PROVE  Prior(Fill(s, b, o), offers, bids, id)
<1> DEFINE t == Fill(s, b, o)
           bid == s.bids[b]
           offer == s.offers[o]
           n == FillQuantity(bid, offer)
<1>1. /\ Kept(t) /\ Shrinks(s, t) /\ id = <<o, b>> /\ Meets(bid, offer)
      /\ t.trades[id].quantity = n
    BY FillOutcome
<1>2. /\ n \in Nat /\ n <= bid.remaining /\ n <= offer.remaining
      /\ bid.remaining \in Nat /\ offer.remaining \in Nat
      /\ bid.maxUnitPrice \in Nat /\ offer.unitPrice \in Nat
      /\ offer.unitPrice <= bid.maxUnitPrice /\ bid.resource = offer.resource
    BY <1>1, Met DEF Meets
<1> HIDE DEF t, n
<1>3. id[1] = o /\ id[2] = b
    BY <1>1
<1>4. IsBooks(s) /\ IsBooks(t)
    BY <1>1 DEF Kept
<1>5. ASSUME NEW p \in offers, t.offers[p].resource = t.offers[o].resource,
             t.offers[p].unitPrice < t.offers[o].unitPrice
      PROVE  Min({t.offers[p].remaining, n}) < t.offers[p].minimumFill
    <2>1. p \in DOMAIN s.offers /\ p \in DOMAIN t.offers
        BY <1>1 DEF Shrinks
    <2>2. /\ s.offers[p].resource = offer.resource /\ s.offers[p].unitPrice < offer.unitPrice
          /\ t.offers[p].minimumFill = s.offers[p].minimumFill
          /\ t.offers[p].remaining <= s.offers[p].remaining
        BY <1>1, <1>5, <2>1 DEF Shrinks
    <2>3. /\ s.offers[p].unitPrice \in Nat /\ s.offers[p].remaining \in Nat
          /\ t.offers[p].remaining \in Nat /\ s.offers[p].minimumFill \in Nat
        BY <1>4, <2>1, OrderTypes
    <2>4. Done(s, b, p)
        BY <2>2
    <2>5. ~ (FillQuantity(bid, s.offers[p]) >= s.offers[p].minimumFill)
        BY <1>2, <2>2, <2>3, <2>4 DEF Done, Meets
    <2>6. Min({t.offers[p].remaining, n}) <= Min({s.offers[p].remaining, bid.remaining})
        BY <1>2, <2>2, <2>3, SmallerMin
    <2>7. Min({s.offers[p].remaining, bid.remaining}) = FillQuantity(bid, s.offers[p])
        <3>1. {s.offers[p].remaining, bid.remaining} = {bid.remaining, s.offers[p].remaining}
            OBVIOUS
        <3> QED BY <3>1 DEF FillQuantity
    <2>8. /\ Min({t.offers[p].remaining, n}) \in Nat
          /\ Min({s.offers[p].remaining, bid.remaining}) \in Nat
        BY <1>2, <2>3, MinOfTwo
    <2> HIDE DEF bid, offer
    <2> QED BY <2>2, <2>3, <2>5, <2>6, <2>7, <2>8
<1>6. ASSUME NEW p \in bids, t.bids[p].resource = t.bids[b].resource,
             t.bids[p].maxUnitPrice > t.bids[b].maxUnitPrice
      PROVE  Min({t.bids[p].remaining, n}) < t.offers[o].minimumFill
    <2>1. p \in DOMAIN s.bids /\ p \in DOMAIN t.bids
        BY <1>1 DEF Shrinks
    <2>2. /\ s.bids[p].resource = bid.resource /\ s.bids[p].maxUnitPrice > bid.maxUnitPrice
          /\ t.offers[o].minimumFill = offer.minimumFill
          /\ t.bids[p].remaining <= s.bids[p].remaining
        BY <1>1, <1>6, <2>1 DEF Shrinks
    <2>3. /\ s.bids[p].maxUnitPrice \in Nat /\ s.bids[p].remaining \in Nat
          /\ t.bids[p].remaining \in Nat /\ offer.minimumFill \in Nat
        BY <1>4, <2>1, OrderTypes
    <2>4. Done(s, p, o)
        BY <2>2
    <2>5. ~ (FillQuantity(s.bids[p], offer) >= offer.minimumFill)
        BY <1>2, <2>2, <2>3, <2>4 DEF Done, Meets
    <2>6. Min({t.bids[p].remaining, n}) <= Min({s.bids[p].remaining, offer.remaining})
        BY <1>2, <2>2, <2>3, SmallerMin
    <2>7. Min({s.bids[p].remaining, offer.remaining}) = FillQuantity(s.bids[p], offer)
        BY DEF FillQuantity
    <2>8. /\ Min({t.bids[p].remaining, n}) \in Nat
          /\ Min({s.bids[p].remaining, offer.remaining}) \in Nat
        BY <1>2, <2>3, MinOfTwo
    <2> HIDE DEF bid, offer
    <2> QED BY <2>2, <2>3, <2>5, <2>6, <2>7, <2>8
<1> QED
    BY <1>1, <1>3, <1>5, <1>6 DEF Prior, t

Elements(list) == {list[i] : i \in 1 .. Len(list)}

CheaperFirst(s, offers) ==
    \A i, j \in 1 .. Len(offers) :
        i < j => s.offers[offers[i]].unitPrice <= s.offers[offers[j]].unitPrice

DearerFirst(s, bids) ==
    \A i, j \in 1 .. Len(bids) :
        i < j => s.bids[bids[i]].maxUnitPrice >= s.bids[bids[j]].maxUnitPrice

(* The inner loop: the bid is done with every offer, and the trades it makes  *)
(* have priority if dearer bids were done before.                             *)
LEMMA InnerLoop ==
    ASSUME NEW s, Kept(s), NEW b \in DOMAIN s.bids, NEW old,
           NEW list, Len(list) \in Nat, list \in [1 .. Len(list) -> DOMAIN s.offers],
           CheaperFirst(s, list),
           NEW bids \in SUBSET DOMAIN s.bids,
           \A p \in bids : s.bids[p].maxUnitPrice > s.bids[b].maxUnitPrice
                             => \A i \in 1 .. Len(list) : Done(s, p, list[i]),
           \A id \in DOMAIN s.trades \ old : Prior(s, Elements(list), bids, id)
    PROVE  LET t == MeetOffers(s, b, list)
           IN  /\ Kept(t) /\ Shrinks(s, t)
               /\ \A i \in 1 .. Len(list) : Done(t, b, list[i])
               /\ \A id \in DOMAIN t.trades \ old : Prior(t, Elements(list), bids, id)
<1>1. PICK g : /\ g[0] = s
               /\ \A n \in 1 .. Len(list) : g[n] = Fill(g[n - 1], b, list[n])
               /\ MeetOffers(s, b, list) = g[Len(list)]
    BY MeetOffersUnfolds
<1> DEFINE Good(t, n) == /\ Kept(t) /\ Shrinks(s, t)
                         /\ \A i \in 1 .. n : Done(t, b, list[i])
                         /\ \A id \in DOMAIN t.trades \ old : Prior(t, Elements(list), bids, id)
           good == {n \in Nat : n <= Len(list) => Good(g[n], n)}
<1>2. 0 \in good
    <2>1. Shrinks(s, s)
        <3>1. IsBooks(s)
            BY DEF Kept
        <3>2. /\ \A x \in DOMAIN s.offers : s.offers[x].remaining <= s.offers[x].remaining
              /\ \A x \in DOMAIN s.bids : s.bids[x].remaining <= s.bids[x].remaining
            BY <3>1, OrderTypes
        <3> QED BY <3>2 DEF Shrinks
    <2> QED BY <1>1, <2>1
<1>3. ASSUME NEW n \in Nat, n \in good PROVE n + 1 \in good
    <2> SUFFICES ASSUME n + 1 <= Len(list) PROVE Good(g[n + 1], n + 1)
        OBVIOUS
    <2>1. n + 1 \in 1 .. Len(list) /\ (n + 1) - 1 = n /\ n <= Len(list)
        OBVIOUS
    <2> DEFINE u == g[n]
               o == list[n + 1]
               t == g[n + 1]
    <2>2. Good(u, n) /\ o \in DOMAIN s.offers
        BY <1>3, <2>1
    <2>3. t = Fill(u, b, o)
        BY <1>1, <2>1
    <2> HIDE DEF good, u, t, o
    <2>4. IsBooks(s) /\ IsBooks(u)
        BY <2>2 DEF Kept
    <2>5. /\ DOMAIN u.offers = DOMAIN s.offers /\ DOMAIN u.bids = DOMAIN s.bids
          /\ \A p \in DOMAIN s.offers : u.offers[p].unitPrice = s.offers[p].unitPrice
          /\ \A p \in DOMAIN s.bids : u.bids[p].maxUnitPrice = s.bids[p].maxUnitPrice
        BY <2>2 DEF Shrinks
    <2>6. /\ Kept(t) /\ Shrinks(u, t) /\ Done(t, b, o)
        BY <2>2, <2>3, <2>5, FillOutcome
    <2>7. IsBooks(t)
        BY <2>6 DEF Kept
    <2>8. Shrinks(s, t)
        BY <2>2, <2>4, <2>6, <2>7, ShrinksTransitive
    <2>9. ASSUME NEW i \in 1 .. n + 1 PROVE Done(t, b, list[i])
        <3>1. CASE i = n + 1
            BY <2>6, <3>1 DEF o
        <3>2. CASE i # n + 1
            <4>1. i \in 1 .. n /\ i \in 1 .. Len(list)
                BY <3>2
            <4>2. list[i] \in DOMAIN u.offers /\ Done(u, b, list[i])
                BY <2>2, <2>5, <4>1
            <4> QED BY <2>4, <2>5, <2>6, <2>7, <4>2, DoneStays
        <3> QED BY <3>1, <3>2
    <2>10. Elements(list) \in SUBSET DOMAIN s.offers
        BY DEF Elements
    <2>11. ASSUME NEW id \in DOMAIN t.trades \ old PROVE Prior(t, Elements(list), bids, id)
        <3>1. CASE id \in DOMAIN u.trades
            BY <2>2, <2>4, <2>5, <2>6, <2>7, <2>10, <3>1, PriorStays
        <3>2. CASE id \notin DOMAIN u.trades
            <4>1. ASSUME NEW p \in Elements(list), u.offers[p].unitPrice < u.offers[o].unitPrice
                  PROVE  Done(u, b, p)
                <5>1. PICK i \in 1 .. Len(list) : p = list[i]
                    BY DEF Elements
                <5>2. /\ s.offers[p].unitPrice < s.offers[o].unitPrice
                      /\ s.offers[p].unitPrice \in Nat /\ s.offers[o].unitPrice \in Nat
                    BY <2>2, <2>4, <2>5, <2>10, <4>1, OrderTypes
                <5>3. i # n + 1
                    BY <5>1, <5>2 DEF o
                <5>4. ~ (n + 1 < i)
                    BY <2>1, <5>1, <5>2 DEF CheaperFirst, o
                <5>5. i \in 1 .. n
                    BY <5>3, <5>4
                <5> QED BY <2>2, <5>1, <5>5
            <4>2. ASSUME NEW p \in bids, u.bids[p].maxUnitPrice > u.bids[b].maxUnitPrice
                  PROVE  Done(u, p, o)
                <5>1. s.bids[p].maxUnitPrice > s.bids[b].maxUnitPrice
                    BY <2>5, <4>2
                <5>2. Done(s, p, o)
                    BY <2>1, <5>1 DEF o
                <5> QED BY <2>2, <2>4, <5>2, DoneStays
            <4>3. Kept(u) /\ b \in DOMAIN u.bids /\ o \in DOMAIN u.offers
                BY <2>2, <2>5
            <4>4. Elements(list) \in SUBSET DOMAIN u.offers /\ bids \in SUBSET DOMAIN u.bids
                BY <2>5, <2>10
            <4>5. id \in DOMAIN Fill(u, b, o).trades
                BY <2>3
            <4>6. Prior(Fill(u, b, o), Elements(list), bids, id)
                BY <3>2, <4>1, <4>2, <4>3, <4>4, <4>5, FillPrior
            <4> QED BY <2>3, <4>6
        <3> QED BY <3>1, <3>2
    <2> QED BY <2>6, <2>8, <2>9, <2>11 DEF t
<1> HIDE DEF good
<1>4. Nat \subseteq good
    BY <1>2, <1>3, NatSetInduction
<1>5. Good(g[Len(list)], Len(list))
    BY <1>4 DEF good
<1> QED
    BY <1>1, <1>5

(* Both loops. *)
LEMMA OuterLoop ==
    ASSUME NEW s, Kept(s),
           NEW list, Len(list) \in Nat, list \in [1 .. Len(list) -> DOMAIN s.bids],
           DearerFirst(s, list),
           NEW offers, Len(offers) \in Nat, offers \in [1 .. Len(offers) -> DOMAIN s.offers],
           CheaperFirst(s, offers)
    PROVE  LET t == MeetBids(s, list, offers)
           IN  /\ Kept(t) /\ Shrinks(s, t)
               /\ \A i \in 1 .. Len(list), j \in 1 .. Len(offers) : Done(t, list[i], offers[j])
               /\ \A id \in DOMAIN t.trades \ DOMAIN s.trades :
                    Prior(t, Elements(offers), Elements(list), id)
<1>1. PICK g : /\ g[0] = s
               /\ \A n \in 1 .. Len(list) : g[n] = MeetOffers(g[n - 1], list[n], offers)
               /\ MeetBids(s, list, offers) = g[Len(list)]
    BY MeetBidsUnfolds
<1> DEFINE Good(t, n) ==
               /\ Kept(t) /\ Shrinks(s, t)
               /\ \A i \in 1 .. n, j \in 1 .. Len(offers) : Done(t, list[i], offers[j])
               /\ \A id \in DOMAIN t.trades \ DOMAIN s.trades :
                    Prior(t, Elements(offers), Elements(list), id)
           good == {n \in Nat : n <= Len(list) => Good(g[n], n)}
<1>2. 0 \in good
    <2>1. Shrinks(s, s)
        <3>1. IsBooks(s)
            BY DEF Kept
        <3>2. /\ \A x \in DOMAIN s.offers : s.offers[x].remaining <= s.offers[x].remaining
              /\ \A x \in DOMAIN s.bids : s.bids[x].remaining <= s.bids[x].remaining
            BY <3>1, OrderTypes
        <3> QED BY <3>2 DEF Shrinks
    <2> QED BY <1>1, <2>1
<1>3. ASSUME NEW n \in Nat, n \in good PROVE n + 1 \in good
    <2> SUFFICES ASSUME n + 1 <= Len(list) PROVE Good(g[n + 1], n + 1)
        OBVIOUS
    <2>1. n + 1 \in 1 .. Len(list) /\ (n + 1) - 1 = n /\ n <= Len(list)
        OBVIOUS
    <2> DEFINE u == g[n]
               b == list[n + 1]
               t == g[n + 1]
    <2>2. Good(u, n) /\ b \in DOMAIN s.bids
        BY <1>3, <2>1
    <2>3. t = MeetOffers(u, b, offers)
        BY <1>1, <2>1
    <2> HIDE DEF good, u, t, b
    <2>4. IsBooks(s) /\ IsBooks(u)
        BY <2>2 DEF Kept
    <2>5. /\ DOMAIN u.offers = DOMAIN s.offers /\ DOMAIN u.bids = DOMAIN s.bids
          /\ \A p \in DOMAIN s.offers : u.offers[p].unitPrice = s.offers[p].unitPrice
          /\ \A p \in DOMAIN s.bids : u.bids[p].maxUnitPrice = s.bids[p].maxUnitPrice
        BY <2>2 DEF Shrinks
    <2>6. CheaperFirst(u, offers)
        BY <2>5 DEF CheaperFirst
    <2>7. /\ Elements(list) \in SUBSET DOMAIN u.bids
          /\ offers \in [1 .. Len(offers) -> DOMAIN u.offers] /\ b \in DOMAIN u.bids
        BY <2>2, <2>5 DEF Elements
    <2>8. ASSUME NEW p \in Elements(list), u.bids[p].maxUnitPrice > u.bids[b].maxUnitPrice,
                 NEW j \in 1 .. Len(offers)
          PROVE  Done(u, p, offers[j])
        <3>1. PICK i \in 1 .. Len(list) : p = list[i]
            BY DEF Elements
        <3>2. p \in DOMAIN s.bids
            BY <3>1
        <3>3. /\ s.bids[p].maxUnitPrice > s.bids[b].maxUnitPrice
              /\ s.bids[p].maxUnitPrice \in Nat /\ s.bids[b].maxUnitPrice \in Nat
            BY <2>2, <2>4, <2>5, <2>8, <3>2, OrderTypes
        <3>4. i # n + 1
            BY <3>1, <3>3 DEF b
        <3>5. ~ (n + 1 < i)
            BY <2>1, <3>1, <3>3 DEF DearerFirst, b
        <3>6. i \in 1 .. n
            BY <3>4, <3>5
        <3> QED BY <2>2, <3>1, <3>6
    <2> DEFINE v == MeetOffers(u, b, offers)
    <2>9. /\ Kept(v) /\ Shrinks(u, v)
          /\ \A j \in 1 .. Len(offers) : Done(v, b, offers[j])
          /\ \A id \in DOMAIN v.trades \ DOMAIN s.trades :
                Prior(v, Elements(offers), Elements(list), id)
        BY <2>2, <2>6, <2>7, <2>8, InnerLoop
    <2>10. v = t
        BY <2>3
    <2> HIDE DEF v
    <2>11. IsBooks(t)
        BY <2>9, <2>10 DEF Kept
    <2>12. Shrinks(s, t)
        BY <2>2, <2>4, <2>9, <2>10, <2>11, ShrinksTransitive
    <2>13. ASSUME NEW i \in 1 .. n + 1, NEW j \in 1 .. Len(offers)
           PROVE  Done(t, list[i], offers[j])
        <3>1. CASE i = n + 1
            BY <2>9, <2>10, <3>1 DEF b
        <3>2. CASE i # n + 1
            <4>1. i \in 1 .. n /\ i \in 1 .. Len(list)
                BY <3>2
            <4>2. list[i] \in DOMAIN u.bids /\ offers[j] \in DOMAIN u.offers
                BY <2>5, <4>1
            <4>3. Done(u, list[i], offers[j])
                BY <2>2, <4>1
            <4> QED BY <2>4, <2>9, <2>10, <2>11, <4>2, <4>3, DoneStays
        <3> QED BY <3>1, <3>2
    <2> QED BY <2>9, <2>10, <2>12, <2>13 DEF t
<1> HIDE DEF good
<1>4. Nat \subseteq good
    BY <1>2, <1>3, NatSetInduction
<1>5. Good(g[Len(list)], Len(list))
    BY <1>4 DEF good
<1> QED
    BY <1>1, <1>5

(* A round: both loops over the live orders, sorted. *)
LEMMA Round ==
    ASSUME NEW s, Kept(s), NEW now
    PROVE  LET t == match(s, now)
           IN  /\ Kept(t) /\ Shrinks(s, t)
               /\ \A b \in Live(s.bids, now), o \in Live(s.offers, now) : Done(t, b, o)
               /\ \A id \in DOMAIN t.trades \ DOMAIN s.trades :
                    Prior(t, Live(s.offers, now), Live(s.bids, now), id)
<1> DEFINE offers == Sorted(Live(s.offers, now), OffersFirst(s.offers))
           bids == Sorted(Live(s.bids, now), BidsFirst(s.bids))
           t == MeetBids(s, bids, offers)
<1>1. IsBooks(s)
    BY DEF Kept
<1>2. /\ IsFiniteSet(Live(s.offers, now)) /\ Live(s.offers, now) \subseteq DOMAIN s.offers
      /\ Ordered(Live(s.offers, now), OffersFirst(s.offers))
      /\ IsFiniteSet(Live(s.bids, now)) /\ Live(s.bids, now) \subseteq DOMAIN s.bids
      /\ Ordered(Live(s.bids, now), BidsFirst(s.bids))
    BY <1>1, LiveOrders
<1>3. /\ Len(offers) \in Nat /\ offers \in [1 .. Len(offers) -> Live(s.offers, now)]
      /\ InOrder(offers, Len(offers), OffersFirst(s.offers))
      /\ \A o \in Live(s.offers, now) : \E i \in 1 .. Len(offers) : offers[i] = o
    BY <1>2, SortedList
<1>4. /\ Len(bids) \in Nat /\ bids \in [1 .. Len(bids) -> Live(s.bids, now)]
      /\ InOrder(bids, Len(bids), BidsFirst(s.bids))
      /\ \A b \in Live(s.bids, now) : \E i \in 1 .. Len(bids) : bids[i] = b
    BY <1>2, SortedList
<1>5. match(s, now) = t
    BY DEF match
<1> HIDE DEF offers, bids
<1>6. CheaperFirst(s, offers)
    <2> SUFFICES ASSUME NEW i \in 1 .. Len(offers), NEW j \in 1 .. Len(offers), i < j
                 PROVE  s.offers[offers[i]].unitPrice <= s.offers[offers[j]].unitPrice
        BY DEF CheaperFirst
    <2>1. <<offers[i], offers[j]>> \in OffersFirst(s.offers)
        BY <1>3 DEF InOrder
    <2>2. offers[i] \in DOMAIN s.offers /\ offers[j] \in DOMAIN s.offers
        BY <1>2, <1>3
    <2>3. /\ s.offers[offers[i]].unitPrice \in Nat /\ s.offers[offers[j]].unitPrice \in Nat
        BY <1>1, <2>2, OrderTypes
    <2> QED BY <2>1, <2>3 DEF OffersFirst
<1>7. DearerFirst(s, bids)
    <2> SUFFICES ASSUME NEW i \in 1 .. Len(bids), NEW j \in 1 .. Len(bids), i < j
                 PROVE  s.bids[bids[i]].maxUnitPrice >= s.bids[bids[j]].maxUnitPrice
        BY DEF DearerFirst
    <2>1. <<bids[i], bids[j]>> \in BidsFirst(s.bids)
        BY <1>4 DEF InOrder
    <2>2. bids[i] \in DOMAIN s.bids /\ bids[j] \in DOMAIN s.bids
        BY <1>2, <1>4
    <2>3. /\ s.bids[bids[i]].maxUnitPrice \in Nat /\ s.bids[bids[j]].maxUnitPrice \in Nat
        BY <1>1, <2>2, OrderTypes
    <2> QED BY <2>1, <2>3 DEF BidsFirst
<1>8. /\ offers \in [1 .. Len(offers) -> DOMAIN s.offers]
      /\ bids \in [1 .. Len(bids) -> DOMAIN s.bids]
    BY <1>2, <1>3, <1>4
<1>9. /\ Kept(t) /\ Shrinks(s, t)
      /\ \A i \in 1 .. Len(bids), j \in 1 .. Len(offers) : Done(t, bids[i], offers[j])
      /\ \A id \in DOMAIN t.trades \ DOMAIN s.trades :
            Prior(t, Elements(offers), Elements(bids), id)
    BY <1>3, <1>4, <1>6, <1>7, <1>8, OuterLoop
<1>10. Elements(offers) = Live(s.offers, now) /\ Elements(bids) = Live(s.bids, now)
    BY <1>3, <1>4 DEF Elements
<1> HIDE DEF t
<1>11. \A b \in Live(s.bids, now), o \in Live(s.offers, now) : Done(t, b, o)
    BY <1>3, <1>4, <1>9
<1> QED
    BY <1>5, <1>9, <1>10, <1>11

(* Who is live after a round was live before it. *)
LEMMA StillLive ==
    ASSUME NEW s, NEW t, IsBooks(s), IsBooks(t), Shrinks(s, t), NEW now
    PROVE  /\ Live(t.offers, now) \subseteq Live(s.offers, now)
           /\ Live(t.bids, now) \subseteq Live(s.bids, now)
<1>1. ASSUME NEW o \in Live(t.offers, now) PROVE o \in Live(s.offers, now)
    <2>1. o \in DOMAIN t.offers /\ o \in DOMAIN s.offers
        BY DEF Live, OpenOrders, Shrinks
    <2>2. t.offers[o].remaining \in Nat /\ s.offers[o].remaining \in Nat
        BY <2>1, OrderTypes
    <2> QED BY <2>1, <2>2 DEF Live, OpenOrders, Shrinks
<1>2. ASSUME NEW b \in Live(t.bids, now) PROVE b \in Live(s.bids, now)
    <2>1. b \in DOMAIN t.bids /\ b \in DOMAIN s.bids
        BY DEF Live, OpenOrders, Shrinks
    <2>2. t.bids[b].remaining \in Nat /\ s.bids[b].remaining \in Nat
        BY <2>1, OrderTypes
    <2> QED BY <2>1, <2>2 DEF Live, OpenOrders, Shrinks
<1> QED
    BY <1>1, <1>2

(* No posting of a round throws, and a round leaves no two live orders that   *)
(* could still trade: MatchExhausts but for validateState.                    *)
RoundExhausts ==
    \A now \in Time :
        LET after == match(books, now)
        IN  /\ after.ok
            /\ \A b \in Live(after.bids, now), o \in Live(after.offers, now) :
                ~ Meets(after.bids[b], after.offers[o])

(* Of any books that keep their promises. *)
LEMMA KeptExhausts == Kept(books) => RoundExhausts
<1> SUFFICES ASSUME Kept(books), NEW now \in Time
             PROVE  LET after == match(books, now)
                    IN  /\ after.ok
                        /\ \A b \in Live(after.bids, now), o \in Live(after.offers, now) :
                            ~ Meets(after.bids[b], after.offers[o])
    BY DEF RoundExhausts
<1> DEFINE t == match(books, now)
<1>1. /\ Kept(t) /\ Shrinks(books, t)
      /\ \A b \in Live(books.bids, now), o \in Live(books.offers, now) : Done(t, b, o)
    BY Round
<1> HIDE DEF t
<1>2. IsBooks(t) /\ IsBooks(books) /\ t.ok
    BY <1>1 DEF Kept, IsBooks
<1>3. /\ Live(t.offers, now) \subseteq Live(books.offers, now)
      /\ Live(t.bids, now) \subseteq Live(books.bids, now)
    BY <1>1, <1>2, StillLive
<1> QED
    BY <1>1, <1>2, <1>3 DEF Done, t

(* Of any books that keep their promises. *)
LEMMA KeptPriority == Kept(books) => PricePriority
<1> SUFFICES ASSUME Kept(books), NEW now \in Time,
                    NEW id \in DOMAIN match(books, now).trades \ DOMAIN books.trades
             PROVE  Prior(match(books, now), Live(match(books, now).offers, now),
                          Live(match(books, now).bids, now), id)
    BY DEF PricePriority, Prior
<1> DEFINE t == match(books, now)
<1>1. /\ Kept(t) /\ Shrinks(books, t)
      /\ Prior(t, Live(books.offers, now), Live(books.bids, now), id)
    BY Round
<1> HIDE DEF t
<1>2. IsBooks(t) /\ IsBooks(books)
    BY <1>1 DEF Kept
<1>3. /\ Live(t.offers, now) \subseteq Live(books.offers, now)
      /\ Live(t.bids, now) \subseteq Live(books.bids, now)
    BY <1>1, <1>2, StillLive
<1>4. Prior(t, Live(t.offers, now), Live(t.bids, now), id)
    BY <1>1, <1>3 DEF Prior
<1> QED
    BY <1>4 DEF t

(* A round at any instant and on any open orders would run to its end and     *)
(* leave nothing that could trade.                                            *)
THEOREM MatchingExhausts == Spec => []RoundExhausts
<1>1. Kept(books) => RoundExhausts
    BY KeptExhausts
<1> QED
    BY <1>1, KeptAlways, PTL

(* Where a round makes two orders trade, no cheaper offer that would have     *)
(* taken the same quantity is left, and no dearer bid.                        *)
THEOREM MatchingHasPriority == Spec => []PricePriority
<1>1. Kept(books) => PricePriority
    BY KeptPriority
<1> QED
    BY <1>1, KeptAlways, PTL

-----------------------------------------------------------------------------
(* What accounts hold together: a sum that is the same in whatever order it   *)
(* is formed.                                                                 *)

OneOf(S) == CHOOSE x \in S : TRUE

\* What the fold computes of some accounts from what it computed of fewer.
SumOf(g, s, r, S) ==
    IF S = {} THEN 0 ELSE Balance(s, OneOf(S), r) + g[S \ {OneOf(S)}]

IsSum(g, s, r, all) == g = [S \in SUBSET all |-> SumOf(g, s, r, S)]

\* The same for sets of at most n accounts.
Few(all, n) == {S \in SUBSET all : Cardinality(S) <= n}

SumOfFew(g, s, r, all, n) == g = [S \in Few(all, n) |-> SumOf(g, s, r, S)]

(* The fold is such a function at all of them. *)
LEMMA TogetherIsFold ==
    ASSUME NEW s, NEW r, NEW all
    PROVE  Together(s, all, r) = (CHOOSE g : IsSum(g, s, r, all))[all]
BY DEF Together, MapThenSumSet, MapThenFoldSet, IsSum, SumOf, OneOf

(* A set with one element less. *)
LEMMA OneLess ==
    ASSUME NEW S, IsFiniteSet(S), NEW x \in S
    PROVE  /\ IsFiniteSet(S \ {x}) /\ Cardinality(S) \in Nat /\ Cardinality(S \ {x}) \in Nat
           /\ Cardinality(S \ {x}) + 1 = Cardinality(S)
<1>1. Cardinality(S) \in Nat /\ IsFiniteSet(S \ {x})
    BY FS_CardinalityType, FS_RemoveElement
<1>2. Cardinality(S \ {x}) \in Nat
    BY <1>1, FS_CardinalityType
<1>3. Cardinality(S \ {x}) = Cardinality(S) - 1
    BY FS_RemoveElement
<1> QED
    BY <1>1, <1>2, <1>3

(* There is one for every number of accounts. *)
LEMMA SumStep ==
    ASSUME NEW s, NEW r, NEW all, IsFiniteSet(all), NEW n \in Nat, NEW g, SumOfFew(g, s, r, all, n)
    PROVE  \E h : SumOfFew(h, s, r, all, n + 1)
<1> DEFINE h == [S \in Few(all, n + 1) |-> SumOf(g, s, r, S)]
<1>1. ASSUME NEW S \in Few(all, n + 1) PROVE SumOf(h, s, r, S) = h[S]
    <2>1. CASE S = {}
        BY <1>1, <2>1 DEF SumOf
    <2>2. CASE S # {}
        <3> DEFINE R == S \ {OneOf(S)}
        <3>1. S \in SUBSET all /\ Cardinality(S) <= n + 1
            BY <1>1 DEF Few
        <3>2. OneOf(S) \in S /\ IsFiniteSet(S)
            BY <2>2, <3>1, FS_Subset DEF OneOf
        <3>3. /\ R \in SUBSET all /\ Cardinality(S) \in Nat /\ Cardinality(R) \in Nat
              /\ Cardinality(R) + 1 = Cardinality(S)
            BY <3>1, <3>2, OneLess
        <3>4. R \in Few(all, n) /\ R \in Few(all, n + 1)
            BY <3>1, <3>3 DEF Few
        <3>5. h[R] = SumOf(g, s, r, R) /\ g[R] = SumOf(g, s, r, R)
            BY <3>4 DEF SumOfFew
        <3>6. h[S] = SumOf(g, s, r, S)
            BY <1>1
        <3> HIDE DEF h
        <3>7. SumOf(h, s, r, S) = SumOf(g, s, r, S)
            BY <2>2, <3>5 DEF SumOf
        <3> QED BY <3>6, <3>7
    <2> QED BY <2>1, <2>2
<1>2. h = [S \in Few(all, n + 1) |-> h[S]]
    OBVIOUS
<1> HIDE DEF h
<1>3. h = [S \in Few(all, n + 1) |-> SumOf(h, s, r, S)]
    BY <1>1, <1>2
<1> QED
    BY <1>3 DEF SumOfFew

(* No accounts hold nothing. *)
LEMMA SumStart ==
    ASSUME NEW s, NEW r, NEW all, IsFiniteSet(all)
    PROVE  \E g : SumOfFew(g, s, r, all, 0)
<1> DEFINE g == [S \in Few(all, 0) |-> 0]
<1>1. ASSUME NEW S \in Few(all, 0) PROVE S = {}
    <2>1. IsFiniteSet(S) /\ Cardinality(S) <= 0
        BY FS_Subset DEF Few
    <2>2. Cardinality(S) \in Nat
        BY <2>1, FS_CardinalityType
    <2>3. Cardinality(S) = 0
        BY <2>1, <2>2
    <2> QED BY <2>1, <2>3, FS_EmptySet
<1>2. g = [S \in Few(all, 0) |-> SumOf(g, s, r, S)]
    BY <1>1 DEF SumOf
<1> QED
    BY <1>2 DEF SumOfFew

(* So the fold has its equation. *)
LEMMA SumEquation ==
    ASSUME NEW s, NEW r, NEW all, IsFiniteSet(all), NEW g, g = CHOOSE f : IsSum(f, s, r, all)
    PROVE  \A S \in SUBSET all : g[S] = SumOf(g, s, r, S)
<1> DEFINE can == {n \in Nat : \E f : SumOfFew(f, s, r, all, n)}
<1>1. 0 \in can
    BY SumStart
<1>2. ASSUME NEW n \in Nat, n \in can PROVE n + 1 \in can
    BY <1>2, SumStep
<1> HIDE DEF can
<1>3. Nat \subseteq can
    BY <1>1, <1>2, NatSetInduction
<1>4. Cardinality(all) \in Nat
    BY FS_CardinalityType
<1>5. PICK f : SumOfFew(f, s, r, all, Cardinality(all))
    BY <1>3, <1>4 DEF can
<1>6. Few(all, Cardinality(all)) = SUBSET all
    BY FS_Subset DEF Few
<1>7. IsSum(f, s, r, all)
    BY <1>5, <1>6 DEF SumOfFew, IsSum
<1>8. IsSum(g, s, r, all)
    BY <1>7
<1> QED
    BY <1>8 DEF IsSum
(* Induction over the subsets of a finite set, for the members of can. *)
LEMMA SubsetInduction ==
    ASSUME NEW all, IsFiniteSet(all), NEW can,
           {} \in can,
           \A S \in SUBSET all : S # {} /\ (\A x \in S : S \ {x} \in can) => S \in can
    PROVE  SUBSET all \subseteq can
<1> DEFINE sizes == {n \in Nat : Few(all, n) \subseteq can}
<1>1. \A S \in SUBSET all : IsFiniteSet(S) /\ Cardinality(S) \in Nat
    BY FS_Subset, FS_CardinalityType
<1>2. 0 \in sizes
    <2>1. \A S \in Few(all, 0) : S = {}
        BY <1>1, FS_EmptySet DEF Few
    <2> QED BY <2>1
<1>3. ASSUME NEW n \in Nat, n \in sizes PROVE n + 1 \in sizes
    <2> SUFFICES ASSUME NEW S \in Few(all, n + 1) PROVE S \in can
        OBVIOUS
    <2>1. S \in SUBSET all /\ Cardinality(S) <= n + 1
        BY DEF Few
    <2>2. CASE S = {}
        BY <2>2
    <2>3. CASE S # {}
        <3>1. ASSUME NEW x \in S PROVE S \ {x} \in can
            <4>1. /\ Cardinality(S) \in Nat /\ Cardinality(S \ {x}) \in Nat
                  /\ Cardinality(S \ {x}) + 1 = Cardinality(S)
                BY <1>1, <2>1, OneLess
            <4>2. S \ {x} \in Few(all, n)
                BY <2>1, <4>1 DEF Few
            <4> QED BY <1>3, <4>2
        <3> QED BY <2>1, <2>3, <3>1
    <2> QED BY <2>2, <2>3
<1> HIDE DEF sizes
<1>4. Nat \subseteq sizes
    BY <1>2, <1>3, NatSetInduction
<1>5. ASSUME NEW S \in SUBSET all PROVE S \in can
    <2>1. Cardinality(S) \in sizes
        BY <1>1, <1>4
    <2>2. Cardinality(S) <= Cardinality(S)
        BY <1>1
    <2>3. S \in Few(all, Cardinality(S))
        BY <2>2 DEF Few
    <2> QED BY <2>1, <2>3 DEF sizes
<1> QED
    BY <1>5

\* What the fold computes obeys its equation.
Sums(g, s, r, all) == \A S \in SUBSET all : g[S] = SumOf(g, s, r, S)

(* What some accounts hold is what the fold over more of them finds of those. *)
LEMMA SumOfPart ==
    ASSUME NEW s, NEW r, NEW all, IsFiniteSet(all), NEW g, NEW h,
           Sums(g, s, r, all), Sums(h, s, r, all)
    PROVE  g[all] = h[all]
<1> DEFINE can == {S \in SUBSET all : g[S] = h[S]}
<1>1. {} \in can
    <2>1. SumOf(g, s, r, {}) = 0 /\ SumOf(h, s, r, {}) = 0
        BY DEF SumOf
    <2> QED BY <2>1 DEF Sums
<1>2. ASSUME NEW S \in SUBSET all, S # {}, \A x \in S : S \ {x} \in can
      PROVE  S \in can
    <2>1. OneOf(S) \in S
        BY <1>2 DEF OneOf
    <2>2. g[S \ {OneOf(S)}] = h[S \ {OneOf(S)}]
        BY <1>2, <2>1
    <2>3. SumOf(g, s, r, S) = SumOf(h, s, r, S)
        BY <1>2, <2>2 DEF SumOf
    <2> QED BY <2>3 DEF Sums
<1> HIDE DEF can
<1>3. SUBSET all \subseteq can
    BY <1>1, <1>2, SubsetInduction
<1>4. all \in can
    BY <1>3
<1> QED
    BY <1>4 DEF can

(* The fold computes such a function. *)
LEMMA TogetherOf ==
    ASSUME NEW s, NEW r, NEW S, IsFiniteSet(S)
    PROVE  \E g : Together(s, S, r) = g[S] /\ Sums(g, s, r, S)
<1> DEFINE g == CHOOSE f : IsSum(f, s, r, S)
<1>1. Together(s, S, r) = g[S]
    BY TogetherIsFold
<1>2. Sums(g, s, r, S)
    BY SumEquation DEF Sums
<1> HIDE DEF g
<1> QED
    BY <1>1, <1>2

(* What accounts hold together, one at a time. *)
LEMMA TogetherStep ==
    ASSUME NEW s, NEW r, NEW S, IsFiniteSet(S)
    PROVE  Together(s, S, r) =
               IF S = {} THEN 0 ELSE Balance(s, OneOf(S), r) + Together(s, S \ {OneOf(S)}, r)
<1> DEFINE R == S \ {OneOf(S)}
<1>1. R \in SUBSET S /\ SUBSET R \subseteq SUBSET S
    OBVIOUS
<1>2. IsFiniteSet(R)
    BY <1>1, FS_Subset
<1> HIDE DEF R
<1>3. PICK g : Together(s, S, r) = g[S] /\ Sums(g, s, r, S)
    BY TogetherOf
<1>4. PICK h : Together(s, R, r) = h[R] /\ Sums(h, s, r, R)
    BY <1>2, TogetherOf
<1>5. Sums(g, s, r, R)
    BY <1>1, <1>3 DEF Sums
<1>6. g[R] = h[R]
    BY <1>2, <1>4, <1>5, SumOfPart
<1>7. g[S] = SumOf(g, s, r, S)
    BY <1>3 DEF Sums
<1> QED
    BY <1>3, <1>4, <1>6, <1>7 DEF SumOf, R

(* A number. *)
LEMMA TogetherNat ==
    ASSUME NEW s, NEW r, NEW all, IsFiniteSet(all), \A x \in all : Balance(s, x, r) \in Nat
    PROVE  \A S \in SUBSET all : Together(s, S, r) \in Nat
<1> DEFINE can == {S \in SUBSET all : Together(s, S, r) \in Nat}
<1>1. \A S \in SUBSET all : IsFiniteSet(S)
    BY FS_Subset
<1>2. {} \in can
    <2>1. Together(s, {}, r) = 0
        BY FS_EmptySet, TogetherStep
    <2> QED BY <2>1
<1>3. ASSUME NEW S \in SUBSET all, S # {}, \A x \in S : S \ {x} \in can
      PROVE  S \in can
    <2>1. OneOf(S) \in S
        BY <1>3 DEF OneOf
    <2>2. Together(s, S \ {OneOf(S)}, r) \in Nat /\ Balance(s, OneOf(S), r) \in Nat
        BY <1>3, <2>1
    <2>3. Together(s, S, r) = Balance(s, OneOf(S), r) + Together(s, S \ {OneOf(S)}, r)
        BY <1>1, <1>3, TogetherStep
    <2>4. Together(s, S, r) \in Nat
        BY <2>2, <2>3
    <2> QED BY <2>4
<1> HIDE DEF can
<1>4. SUBSET all \subseteq can
    BY <1>2, <1>3, SubsetInduction
<1> QED
    BY <1>4 DEF can

(* Any of them may be taken first. *)
LEMMA TogetherAdd ==
    ASSUME NEW s, NEW r, NEW all, IsFiniteSet(all), \A x \in all : Balance(s, x, r) \in Nat
    PROVE  \A S \in SUBSET all : \A x \in S :
               Together(s, S, r) = Balance(s, x, r) + Together(s, S \ {x}, r)
<1> DEFINE First(S, x) == Together(s, S, r) = Balance(s, x, r) + Together(s, S \ {x}, r)
           can == {S \in SUBSET all : \A x \in S : First(S, x)}
<1>1. \A S \in SUBSET all : IsFiniteSet(S) /\ Together(s, S, r) \in Nat
    BY FS_Subset, TogetherNat
<1>2. \A S \in SUBSET all : S # {} => OneOf(S) \in S /\ First(S, OneOf(S))
    BY <1>1, TogetherStep DEF OneOf
<1>3. {} \in can
    OBVIOUS
<1>4. ASSUME NEW S \in SUBSET all, S # {}, \A x \in S : S \ {x} \in can
      PROVE  S \in can
    <2> SUFFICES ASSUME NEW x \in S PROVE First(S, x)
        OBVIOUS
    <2> DEFINE y == OneOf(S)
    <2>1. y \in S /\ First(S, y)
        BY <1>2, <1>4
    <2> HIDE DEF y
    <2>2. CASE x = y
        BY <2>1, <2>2
    <2>3. CASE x # y
        <3>1. First(S \ {y}, x) /\ First(S \ {x}, y)
            BY <1>4, <2>1, <2>3
        <3>2. (S \ {y}) \ {x} = (S \ {x}) \ {y}
            OBVIOUS
        <3>3. (S \ {x}) \ {y} \in SUBSET all
            OBVIOUS
        <3>4. Together(s, (S \ {x}) \ {y}, r) \in Nat
            BY <1>1, <3>3
        <3>5. Balance(s, x, r) \in Nat /\ Balance(s, y, r) \in Nat
            BY <2>1
        <3> QED BY <2>1, <3>1, <3>2, <3>4, <3>5
    <2> QED BY <2>2, <2>3
<1> HIDE DEF can
<1>5. SUBSET all \subseteq can
    BY <1>3, <1>4, SubsetInduction
<1>6. ASSUME NEW S \in SUBSET all PROVE \A x \in S : First(S, x)
    BY <1>5 DEF can
<1> QED
    BY <1>6, Zenon

(* Accounts that hold something, and no more than in the other books, hold no *)
(* more together.                                                             *)
LEMMA HeldLess ==
    ASSUME NEW s, NEW t, NEW r, NEW all, IsFiniteSet(all), NEW more, IsFiniteSet(more),
           \A x \in all : Balance(s, x, r) \in Nat,
           \A x \in more : Balance(t, x, r) \in Nat,
           \A x \in all : Balance(s, x, r) # 0 =>
               x \in more /\ Balance(s, x, r) <= Balance(t, x, r)
    PROVE  Together(s, all, r) <= Together(t, more, r)
<1> DEFINE Held(S) == {x \in S : Balance(s, x, r) # 0}
           can == {S \in SUBSET all :
                      \A H \in SUBSET more : Held(S) \subseteq H => Together(s, S, r) <= Together(t, H, r)}
<1>1. \A S \in SUBSET all : IsFiniteSet(S) /\ Together(s, S, r) \in Nat
    BY FS_Subset, TogetherNat
<1>2. \A H \in SUBSET more : IsFiniteSet(H) /\ Together(t, H, r) \in Nat
    BY FS_Subset, TogetherNat
<1>3. {} \in can
    <2>1. Together(s, {}, r) = 0
        BY FS_EmptySet, TogetherStep
    <2> QED BY <1>2, <2>1
<1>4. ASSUME NEW S \in SUBSET all, S # {}, \A x \in S : S \ {x} \in can
      PROVE  S \in can
    <2> SUFFICES ASSUME NEW H \in SUBSET more, Held(S) \subseteq H
                 PROVE  Together(s, S, r) <= Together(t, H, r)
        OBVIOUS
    <2>1. PICK x \in S : TRUE
        BY <1>4
    <2>2. Together(s, S, r) = Balance(s, x, r) + Together(s, S \ {x}, r)
        BY <2>1, TogetherAdd
    <2>3. S \ {x} \in SUBSET all
        OBVIOUS
    <2>4. Together(s, S \ {x}, r) \in Nat
        BY <1>1, <2>3
    <2>5. CASE Balance(s, x, r) = 0
        <3>1. Held(S \ {x}) \subseteq H
            OBVIOUS
        <3>2. Together(s, S \ {x}, r) <= Together(t, H, r)
            BY <1>4, <3>1
        <3> QED BY <2>2, <2>4, <2>5, <3>2
    <2>6. CASE Balance(s, x, r) # 0
        <3>1. x \in H /\ Balance(s, x, r) <= Balance(t, x, r)
            BY <2>6
        <3>2. Together(t, H, r) = Balance(t, x, r) + Together(t, H \ {x}, r)
            BY <3>1, TogetherAdd
        <3>3. H \ {x} \in SUBSET more /\ Held(S \ {x}) \subseteq H \ {x}
            OBVIOUS
        <3>4. Together(s, S \ {x}, r) <= Together(t, H \ {x}, r)
            BY <1>4, <3>3
        <3>5. Together(t, H \ {x}, r) \in Nat
            BY <1>2, <3>3
        <3>6. Balance(s, x, r) \in Nat /\ Balance(t, x, r) \in Nat
            BY <3>1
        <3> QED BY <2>2, <2>4, <3>1, <3>2, <3>4, <3>5, <3>6
    <2> QED BY <2>5, <2>6
<1> HIDE DEF can
<1>5. SUBSET all \subseteq can
    BY <1>3, <1>4, SubsetInduction
<1>6. all \in can
    BY <1>5
<1>7. Held(all) \subseteq more
    OBVIOUS
<1> QED
    BY <1>6, <1>7 DEF can

(* Books with the same balances of some accounts, apart from accounts that hold *)
(* nothing.                                                                     *)
LEMMA HeldSame ==
    ASSUME NEW s, NEW t, NEW r, NEW all, IsFiniteSet(all), NEW more, IsFiniteSet(more),
           all \subseteq more,
           \A x \in more : Balance(t, x, r) \in Nat,
           \A x \in all : Balance(s, x, r) = Balance(t, x, r),
           \A x \in more \ all : Balance(t, x, r) = 0
    PROVE  Together(s, all, r) = Together(t, more, r)
<1>1. Together(s, all, r) \in Nat /\ Together(t, more, r) \in Nat
    BY TogetherNat
<1>2. Together(s, all, r) <= Together(t, more, r)
    BY HeldLess
<1>3. Together(t, more, r) <= Together(s, all, r)
    BY HeldLess
<1> QED
    BY <1>1, <1>2, <1>3

-----------------------------------------------------------------------------
(* What a posting does to what accounts hold together, whether it throws or   *)
(* not.                                                                       *)

Rich(s) ==
    Shape(s) /\ s.balance \in Balances /\ s.minted \in [Resource -> Nat]

\* No more is held than was minted.
Covered(s) ==
    \A r \in Resource :
        /\ s.minted[r] <= MaxMinted
        /\ \A E \in SUBSET Holder : IsFiniteSet(E) => Together(s, E, r) <= s.minted[r]

\* The escrows of bids, and of what trades cost, hold nothing but credits.
OnlyCredits == {BidEscrow(b) : b \in Order} \cup {CreditEscrow(t) : t \in Trade}

Barred(s) == \A h \in OnlyCredits, r \in Goods : Balance(s, h, r) = 0

SameMoney(s, t) == t.balance = s.balance /\ t.minted = s.minted

MovedMoney(s, t, d, c, r, n) ==
    /\ n > 0 /\ d # c /\ Payable(s, d, r, n)
    /\ t.minted = [s.minted EXCEPT ![r] = @ + (IF d = MintAccount THEN n ELSE 0)]
    /\ \A h \in Holder, x \in Resource :
         Balance(t, h, x) = IF h = d /\ x = r THEN Balance(s, h, x) - n
                            ELSE IF h = c /\ x = r THEN Balance(s, h, x) + n ELSE Balance(s, h, x)

(* Every account has a balance. *)
LEMMA RichBalance ==
    ASSUME NEW s, Rich(s)
    PROVE  /\ \A h \in Holder, r \in Resource : Balance(s, h, r) \in Nat
           /\ \A r \in Resource : s.minted[r] \in Nat
BY DEF Rich, Balances, Balance

(* A posting moves the amount or changes no balance. *)
LEMMA PostMoney ==
    ASSUME NEW s, Rich(s), NEW d \in Holder \cup {MintAccount}, NEW c \in Holder \cup {BurnAccount},
           NEW r \in Resource, NEW n \in Nat
    PROVE  /\ Rich(Post(s, d, c, r, n))
           /\ SameMoney(s, Post(s, d, c, r, n)) \/ MovedMoney(s, Post(s, d, c, r, n), d, c, r, n)
<1> DEFINE t == Post(s, d, c, r, n)
           moved == Moved(s.balance, d, c, r, n)
           minted == [s.minted EXCEPT ![r] = @ + (IF d = MintAccount THEN n ELSE 0)]
           pays == s.ok /\ n > 0 /\ d # c /\ Payable(s, d, r, n)
<1>1. Shape(t)
    BY PostShape DEF Rich
<1>2. CASE ~ pays
    <2>1. t.balance = s.balance /\ t.minted = s.minted
        BY <1>2 DEF Post, Rich, Shape
    <2> QED BY <1>1, <2>1 DEF Rich, SameMoney
<1>3. CASE pays
    <2>1. t.balance = moved /\ t.minted = minted
        <3> HIDE DEF moved
        <3>1. t = [s EXCEPT !.balance = moved,
                            !.minted[r] = @ + (IF d = MintAccount THEN n ELSE 0),
                            !.burned[r] = @ + (IF c = BurnAccount THEN n ELSE 0)]
            BY <1>3 DEF Post, Rich, Shape, moved
        <3> QED BY <3>1 DEF Rich, Shape
    <2>2. minted \in [Resource -> Nat]
        BY DEF Rich
    <2>3. ASSUME NEW h \in Holder, NEW x \in Resource
          PROVE  moved[<<h, x>>] = IF h = d /\ x = r THEN Balance(s, h, x) - n
                                   ELSE IF h = c /\ x = r THEN Balance(s, h, x) + n
                                   ELSE Balance(s, h, x)
        <3>1. <<h, x>> \in Holder \X Resource
            OBVIOUS
        <3>2. moved[<<h, x>>] = IF <<h, x>> = <<d, r>> THEN s.balance[<<h, x>>] - n
                                ELSE IF <<h, x>> = <<c, r>> THEN s.balance[<<h, x>>] + n
                                ELSE s.balance[<<h, x>>]
            BY <3>1 DEF Moved
        <3> HIDE DEF moved
        <3> QED BY <3>2 DEF Balance
    <2> HIDE DEF t, minted
    <2>4. moved \in Balances
        <3>1. moved = [p \in Holder \X Resource |-> moved[p]]
            BY DEF Moved
        <3> HIDE DEF moved
        <3>2. ASSUME NEW h \in Holder, NEW x \in Resource PROVE moved[<<h, x>>] \in Nat
            <4>1. Balance(s, h, x) \in Nat
                BY RichBalance
            <4>2. h = d /\ x = r => Balance(s, h, x) >= n
                BY <1>3, Holders DEF Payable
            <4> QED BY <2>3, <4>1, <4>2
        <3>3. \A p \in Holder \X Resource : moved[p] \in Nat
            BY <3>2
        <3> QED BY <3>1, <3>3 DEF Balances
    <2> HIDE DEF moved
    <2>5. MovedMoney(s, t, d, c, r, n)
        BY <1>3, <2>1, <2>3 DEF MovedMoney, Balance, minted
    <2>6. Rich(t)
        BY <1>1, <2>1, <2>2, <2>4 DEF Rich, t
    <2> QED BY <2>5, <2>6 DEF t
<1> QED
    BY <1>2, <1>3

(* Accounts both or neither of which are among some leave those together with *)
(* what they had.                                                             *)
LEMMA MoveWithin ==
    ASSUME NEW s, Rich(s), NEW t, Rich(t), NEW d, NEW c, NEW r \in Resource, NEW n \in Nat,
           MovedMoney(s, t, d, c, r, n), NEW W \in SUBSET Holder, IsFiniteSet(W), d \in W <=> c \in W
    PROVE  \A x \in Resource : Together(t, W, x) = Together(s, W, x)
<1> SUFFICES ASSUME NEW x \in Resource PROVE Together(t, W, x) = Together(s, W, x)
    OBVIOUS
<1>1. /\ \A h \in W : Balance(s, h, x) \in Nat /\ Balance(t, h, x) \in Nat
      /\ \A h \in W : Balance(t, h, x) = IF h = d /\ x = r THEN Balance(s, h, x) - n
                                         ELSE IF h = c /\ x = r THEN Balance(s, h, x) + n
                                         ELSE Balance(s, h, x)
      /\ d # c
    BY RichBalance DEF MovedMoney
<1>2. CASE x # r \/ d \notin W
    <2>1. \A h \in W : Balance(t, h, x) = Balance(s, h, x)
        BY <1>1, <1>2
    <2> QED BY <1>1, <2>1, HeldSame
<1>3. CASE x = r /\ d \in W
    <2> DEFINE R == W \ {d}
               Q == R \ {c}
    <2>1. /\ R \in SUBSET W /\ Q \in SUBSET W /\ c \in R
          /\ IsFiniteSet(Q)
        BY <1>1, <1>3, FS_Subset
    <2>2. /\ Together(s, W, x) = Balance(s, d, x) + Together(s, R, x)
          /\ Together(t, W, x) = Balance(t, d, x) + Together(t, R, x)
        BY <1>1, <1>3, TogetherAdd
    <2>3. /\ Together(s, R, x) = Balance(s, c, x) + Together(s, Q, x)
          /\ Together(t, R, x) = Balance(t, c, x) + Together(t, Q, x)
        BY <1>1, <2>1, TogetherAdd
    <2>4. Together(s, Q, x) \in Nat
        BY <1>1, <2>1, TogetherNat
    <2>5. \A h \in Q : Balance(t, h, x) = Balance(s, h, x) /\ Balance(s, h, x) \in Nat
        BY <1>1
    <2> HIDE DEF R, Q
    <2>6. Together(t, Q, x) = Together(s, Q, x)
        BY <2>1, <2>5, HeldSame
    <2>7. /\ Balance(t, d, x) = Balance(s, d, x) - n /\ Balance(s, d, x) \in Nat
          /\ Balance(t, c, x) = Balance(s, c, x) + n /\ Balance(s, c, x) \in Nat
        BY <1>1, <1>3
    <2> QED BY <2>2, <2>3, <2>4, <2>6, <2>7
<1> QED
    BY <1>2, <1>3

(* An account that is paid by one that is not among some leaves those with the *)
(* amount more.                                                                *)
LEMMA MoveInto ==
    ASSUME NEW s, Rich(s), NEW t, Rich(t), NEW d, NEW c, NEW r \in Resource, NEW n \in Nat,
           MovedMoney(s, t, d, c, r, n), NEW W \in SUBSET Holder, IsFiniteSet(W), d \notin W
    PROVE  Together(t, W, r) <= Together(s, W, r) + n
<1>1. /\ \A h \in W : Balance(s, h, r) \in Nat /\ Balance(t, h, r) \in Nat
      /\ \A h \in W : Balance(t, h, r) = IF h = c THEN Balance(s, h, r) + n ELSE Balance(s, h, r)
    BY RichBalance DEF MovedMoney
<1>2. CASE c \notin W
    <2>1. Together(t, W, r) = Together(s, W, r)
        BY <1>1, <1>2, HeldSame
    <2>2. Together(s, W, r) \in Nat
        BY <1>1, TogetherNat
    <2> QED BY <2>1, <2>2
<1>3. CASE c \in W
    <2> DEFINE R == W \ {c}
    <2>1. IsFiniteSet(R) /\ R \in SUBSET W
        BY FS_Subset
    <2>2. /\ Together(s, W, r) = Balance(s, c, r) + Together(s, R, r)
          /\ Together(t, W, r) = Balance(t, c, r) + Together(t, R, r)
        BY <1>1, <1>3, TogetherAdd
    <2>3. \A h \in R : Balance(t, h, r) = Balance(s, h, r) /\ Balance(s, h, r) \in Nat
        BY <1>1
    <2> HIDE DEF R
    <2>4. Together(t, R, r) = Together(s, R, r)
        BY <2>1, <2>3, HeldSame
    <2>5. Together(s, R, r) \in Nat
        BY <2>1, <2>3, TogetherNat
    <2>6. Balance(t, c, r) = Balance(s, c, r) + n /\ Balance(s, c, r) \in Nat
        BY <1>1, <1>3
    <2> QED BY <2>2, <2>4, <2>5, <2>6
<1> QED
    BY <1>2, <1>3

(* A posting leaves no more than was minted. *)
LEMMA MoveCovered ==
    ASSUME NEW s, Rich(s), Covered(s), NEW t, Rich(t),
           NEW d \in Holder \cup {MintAccount}, NEW c \in Holder \cup {BurnAccount},
           NEW r \in Resource, NEW n \in Nat, MovedMoney(s, t, d, c, r, n),
           d = MintAccount => s.minted[r] + n <= MaxMinted
    PROVE  Covered(t)
<1> SUFFICES ASSUME NEW x \in Resource
             PROVE  /\ t.minted[x] <= MaxMinted
                    /\ \A E \in SUBSET Holder : IsFiniteSet(E) => Together(t, E, x) <= t.minted[x]
    BY DEF Covered
<1>1. /\ t.minted[x] = IF x = r /\ d = MintAccount THEN s.minted[x] + n ELSE s.minted[x]
      /\ s.minted[x] \in Nat /\ s.minted[x] <= MaxMinted
    BY RichBalance DEF MovedMoney, Rich, Covered
<1>2. t.minted[x] <= MaxMinted
    BY <1>1
<1>3. ASSUME NEW E \in SUBSET Holder, IsFiniteSet(E) PROVE Together(t, E, x) <= t.minted[x]
    <2>1. /\ Together(s, E, x) \in Nat /\ Together(t, E, x) \in Nat
          /\ \A h \in E : Balance(s, h, x) \in Nat /\ Balance(t, h, x) \in Nat
        BY <1>3, RichBalance, TogetherNat
    <2>2. Together(s, E, x) <= s.minted[x]
        BY <1>3 DEF Covered
    <2>3. CASE x # r
        <3>1. \A h \in E : Balance(t, h, x) = Balance(s, h, x)
            BY <2>3 DEF MovedMoney
        <3>2. Together(t, E, x) = Together(s, E, x)
            BY <1>3, <2>1, <3>1, HeldSame
        <3> QED BY <1>1, <2>2, <2>3, <3>2
    <2>4. CASE x = r /\ d = MintAccount
        <3>1. d \notin E
            BY <2>4, Holders
        <3>2. Together(t, E, x) <= Together(s, E, x) + n
            BY <1>3, <2>4, <3>1, MoveInto
        <3> QED BY <1>1, <2>1, <2>2, <2>4, <3>2
    <2>5. CASE x = r /\ d # MintAccount
        <3> DEFINE F == E \cup ({d, c} \cap Holder)
        <3>1. F \in SUBSET Holder /\ E \subseteq F /\ d \in F /\ d \in Holder
            BY <2>5
        <3>2. IsFiniteSet(F)
            <4>1. IsFiniteSet(E \cup {d}) /\ IsFiniteSet((E \cup {d}) \cup {c})
                BY <1>3, FS_AddElement
            <4>2. F \subseteq (E \cup {d}) \cup {c}
                OBVIOUS
            <4> QED BY <4>1, <4>2, FS_Subset
        <3> HIDE DEF F
        <3>3. /\ Together(s, F, x) \in Nat /\ Together(t, F, x) \in Nat
              /\ \A h \in F : Balance(t, h, x) \in Nat
            BY <3>1, <3>2, RichBalance, TogetherNat
        <3>4. Together(s, F, x) <= s.minted[x]
            BY <3>1, <3>2 DEF Covered
        <3>5. Together(t, E, x) <= Together(t, F, x)
            BY <1>3, <2>1, <3>1, <3>2, <3>3, HeldLess
        <3>6. CASE c \in Holder
            <4>1. c \in F
                BY <3>6 DEF F
            <4>2. Together(t, F, x) = Together(s, F, x)
                BY <3>1, <3>2, <4>1, MoveWithin
            <4> QED BY <1>1, <2>1, <2>5, <3>3, <3>4, <3>5, <4>2
        <3>7. CASE c \notin Holder
            <4>1. \A h \in E : Balance(t, h, x) <= Balance(s, h, x)
                <5>1. \A h \in E : h # c /\ h \in Holder
                    BY <3>7
                <5> QED BY <2>1, <5>1 DEF MovedMoney
            <4>2. Together(t, E, x) <= Together(s, E, x)
                BY <1>3, <2>1, <4>1, HeldLess
            <4> QED BY <1>1, <2>1, <2>2, <2>5, <4>2
        <3> QED BY <3>6, <3>7
    <2> QED BY <2>3, <2>4, <2>5
<1> QED
    BY <1>2, <1>3

(* Books with the same money are covered when the others are. *)
LEMMA SameCovered ==
    ASSUME NEW s, Rich(s), Covered(s), NEW t, SameMoney(s, t)
    PROVE  Covered(t)
<1> SUFFICES ASSUME NEW x \in Resource, NEW E \in SUBSET Holder, IsFiniteSet(E)
             PROVE  Together(t, E, x) <= t.minted[x]
    BY DEF Covered, SameMoney
<1>1. \A h \in E : Balance(t, h, x) = Balance(s, h, x) /\ Balance(s, h, x) \in Nat
    BY RichBalance DEF SameMoney, Balance
<1>2. Together(t, E, x) = Together(s, E, x)
    BY <1>1, HeldSame
<1> QED
    BY <1>2 DEF Covered, SameMoney

(* Only credits are paid into the escrows that hold credits. *)
LEMMA MoveBarred ==
    ASSUME NEW s, Rich(s), Barred(s), NEW t, NEW d, NEW c, NEW r \in Resource, NEW n \in Nat,
           MovedMoney(s, t, d, c, r, n),
           r = "credits" \/ c \notin OnlyCredits
    PROVE  Barred(t)
<1> SUFFICES ASSUME NEW h \in OnlyCredits, NEW x \in Goods PROVE Balance(t, h, x) = 0
    BY DEF Barred
<1>1. h \in Holder /\ x \in Resource /\ x # "credits"
    BY Holders, MarketAssumption DEF OnlyCredits
<1>2. Balance(s, h, x) = 0
    BY DEF Barred
<1>3. ~ (h = d /\ x = r)
    BY <1>1, <1>2, Holders DEF MovedMoney, Payable
<1>4. ~ (h = c /\ x = r)
    BY <1>1
<1> QED
    BY <1>1, <1>2, <1>3, <1>4 DEF MovedMoney

-----------------------------------------------------------------------------
(* What belongs to an account, and what changes nothing of it.                *)

\* The estate of an account with the escrows of every trade its orders may
\* still make.
Wide(u, a) ==
    {OwnAccount(a)}
      \cup {OfferEscrow(o) : o \in {p \in DOMAIN u.offers : u.offers[p].seller = a}}
      \cup {BidEscrow(b) : b \in {p \in DOMAIN u.bids : u.bids[p].buyer = a}}
      \cup {ResourceEscrow(t) : t \in {p \in (DOMAIN u.offers) \X (DOMAIN u.bids) : Seller(u, p) = a}}
      \cup {CreditEscrow(t) : t \in {p \in (DOMAIN u.offers) \X (DOMAIN u.bids) : Buyer(u, p) = a}}

(* The values of a function of finitely many arguments are finitely many. *)
LEMMA FiniteImage ==
    ASSUME NEW S, IsFiniteSet(S), NEW f, NEW T, T = {f[x] : x \in S}
    PROVE  IsFiniteSet(T)
<1> DEFINE g == [x \in S |-> f[x]]
<1>1. g \in Surjection(S, T)
    BY DEF Surjection
<1> QED
    BY <1>1, FS_Surjection

(* They are accounts, finitely many. *)
LEMMA WideFinite ==
    ASSUME NEW u, IsBooks(u), NEW a
    PROVE  Wide(u, a) \subseteq Holder \cup {OwnAccount(a)} /\ IsFiniteSet(Wide(u, a))
<1> DEFINE offers == {p \in DOMAIN u.offers : u.offers[p].seller = a}
           bids == {p \in DOMAIN u.bids : u.bids[p].buyer = a}
           pairs == (DOMAIN u.offers) \X (DOMAIN u.bids)
           sold == {p \in pairs : Seller(u, p) = a}
           bought == {p \in pairs : Buyer(u, p) = a}
           O == {OfferEscrow(o) : o \in offers}
           B == {BidEscrow(b) : b \in bids}
           R == {ResourceEscrow(t) : t \in sold}
           C == {CreditEscrow(t) : t \in bought}
<1>1. /\ DOMAIN u.offers \subseteq Order /\ IsFiniteSet(DOMAIN u.offers)
      /\ DOMAIN u.bids \subseteq Order /\ IsFiniteSet(DOMAIN u.bids)
    BY DEF IsBooks
<1>2. offers \subseteq Order /\ bids \subseteq Order /\ sold \subseteq Trade /\ bought \subseteq Trade
    BY <1>1 DEF Trade
<1>3. IsFiniteSet(pairs)
    BY <1>1, FS_Product
<1>4. IsFiniteSet(offers) /\ IsFiniteSet(bids) /\ IsFiniteSet(sold) /\ IsFiniteSet(bought)
    <2>1. offers \subseteq DOMAIN u.offers /\ bids \subseteq DOMAIN u.bids
          /\ sold \subseteq pairs /\ bought \subseteq pairs
        OBVIOUS
    <2> HIDE DEF offers, bids, sold, bought, pairs
    <2> QED BY <1>1, <1>3, <2>1, FS_Subset
<1> HIDE DEF offers, bids, sold, bought
<1>5. O \subseteq Holder /\ B \subseteq Holder /\ R \subseteq Holder /\ C \subseteq Holder
    BY <1>2, Holders
<1>6. IsFiniteSet(O)
    <2> DEFINE f == [x \in offers |-> OfferEscrow(x)]
    <2>1. O = {f[x] : x \in offers}
        OBVIOUS
    <2> HIDE DEF f, O
    <2> QED BY <1>4, <2>1, FiniteImage
<1>7. IsFiniteSet(B)
    <2> DEFINE f == [x \in bids |-> BidEscrow(x)]
    <2>1. B = {f[x] : x \in bids}
        OBVIOUS
    <2> HIDE DEF f, B
    <2> QED BY <1>4, <2>1, FiniteImage
<1>8. IsFiniteSet(R)
    <2> DEFINE f == [x \in sold |-> ResourceEscrow(x)]
    <2>1. R = {f[x] : x \in sold}
        OBVIOUS
    <2> HIDE DEF f, R
    <2> QED BY <1>4, <2>1, FiniteImage
<1>9. IsFiniteSet(C)
    <2> DEFINE f == [x \in bought |-> CreditEscrow(x)]
    <2>1. C = {f[x] : x \in bought}
        OBVIOUS
    <2> HIDE DEF f, C
    <2> QED BY <1>4, <2>1, FiniteImage
<1>10. Wide(u, a) = {OwnAccount(a)} \cup O \cup B \cup R \cup C
    BY DEF Wide, offers, bids, sold, bought
<1> HIDE DEF O, B, R, C
<1>11. IsFiniteSet({OwnAccount(a)})
    BY FS_Singleton
<1>12. IsFiniteSet({OwnAccount(a)} \cup O \cup B)
    BY <1>6, <1>7, <1>11, FS_Union
<1>13. IsFiniteSet({OwnAccount(a)} \cup O \cup B \cup R \cup C)
    BY <1>8, <1>9, <1>12, FS_Union
<1> QED
    BY <1>5, <1>10, <1>13

(* Whose they are. *)
LEMMA WideMembers ==
    ASSUME NEW u, NEW a
    PROVE  /\ \A c : OwnAccount(c) \in Wide(u, a) <=> c = a
           /\ \A o \in DOMAIN u.offers : OfferEscrow(o) \in Wide(u, a) <=> u.offers[o].seller = a
           /\ \A b \in DOMAIN u.bids : BidEscrow(b) \in Wide(u, a) <=> u.bids[b].buyer = a
           /\ \A t \in (DOMAIN u.offers) \X (DOMAIN u.bids) :
                 /\ ResourceEscrow(t) \in Wide(u, a) <=> Seller(u, t) = a
                 /\ CreditEscrow(t) \in Wide(u, a) <=> Buyer(u, t) = a
<1>1. \A c : OwnAccount(c) \in Wide(u, a) <=> c = a
    <2>1. \A x, y : OwnAccount(x) = OwnAccount(y) => x = y
        BY DEF OwnAccount
    <2> QED BY <2>1, Names DEF Wide
<1>2. \A o \in DOMAIN u.offers : OfferEscrow(o) \in Wide(u, a) <=> u.offers[o].seller = a
    BY Names DEF Wide
<1>3. \A b \in DOMAIN u.bids : BidEscrow(b) \in Wide(u, a) <=> u.bids[b].buyer = a
    BY Names DEF Wide
<1>4. \A t \in (DOMAIN u.offers) \X (DOMAIN u.bids) : ResourceEscrow(t) \in Wide(u, a) <=> Seller(u, t) = a
    BY Names DEF Wide
<1>5. \A t \in (DOMAIN u.offers) \X (DOMAIN u.bids) : CreditEscrow(t) \in Wide(u, a) <=> Buyer(u, t) = a
    BY Names DEF Wide
<1> QED
    BY <1>1, <1>2, <1>3, <1>4, <1>5

\* What changes the balances of s to those of t, and moves nothing from what
\* belongs to one account, by the orders of u, to what belongs to another.
Flow(s, t, u) ==
    /\ Rich(t)
    /\ Covered(s) => Covered(t)
    /\ Barred(s) => Barred(t)
    /\ \A a \in Account, r \in Resource : Together(t, Wide(u, a), r) = Together(s, Wide(u, a), r)

(* The same balances. *)
LEMMA SameFlows ==
    ASSUME NEW s, Rich(s), NEW t, Shape(t), SameMoney(s, t), NEW u, IsBooks(u)
    PROVE  Flow(s, t, u)
<1>1. Rich(t)
    BY DEF Rich, SameMoney
<1>2. Covered(s) => Covered(t)
    BY SameCovered
<1>3. \A h, r : Balance(t, h, r) = Balance(s, h, r)
    BY DEF SameMoney, Balance
<1>4. Barred(s) => Barred(t)
    BY <1>3 DEF Barred
<1>5. ASSUME NEW a \in Account, NEW r \in Resource
      PROVE  Together(t, Wide(u, a), r) = Together(s, Wide(u, a), r)
    <2>1. IsFiniteSet(Wide(u, a)) /\ Wide(u, a) \subseteq Holder
        BY WideFinite, Holders
    <2>2. \A h \in Wide(u, a) : Balance(s, h, r) \in Nat
        BY <2>1, RichBalance
    <2> QED BY <1>3, <2>1, <2>2, HeldSame
<1> QED
    BY <1>1, <1>2, <1>4, <1>5 DEF Flow

(* One after the other. *)
LEMMA FlowsOn ==
    ASSUME NEW s, NEW t, NEW v, NEW u, Flow(s, t, u), Flow(t, v, u)
    PROVE  Flow(s, v, u)
BY DEF Flow

(* A posting between accounts of the same owner. *)
LEMMA PostFlows ==
    ASSUME NEW s, Rich(s), NEW d \in Holder, NEW c \in Holder, NEW r \in Resource, NEW n \in Nat,
           NEW u, IsBooks(u), \A a \in Account : d \in Wide(u, a) <=> c \in Wide(u, a),
           r = "credits" \/ c \notin OnlyCredits
    PROVE  Flow(s, Post(s, d, c, r, n), u)
<1> DEFINE t == Post(s, d, c, r, n)
<1>1. Rich(t) /\ (SameMoney(s, t) \/ MovedMoney(s, t, d, c, r, n))
    BY PostMoney
<1> HIDE DEF t
<1>2. CASE SameMoney(s, t)
    BY <1>1, <1>2, SameFlows DEF Rich, t
<1>3. CASE MovedMoney(s, t, d, c, r, n)
    <2>1. d # MintAccount
        BY Holders
    <2>2. Covered(s) => Covered(t)
        BY <1>1, <1>3, <2>1, MoveCovered
    <2>3. Barred(s) => Barred(t)
        BY <1>3, MoveBarred
    <2>4. ASSUME NEW a \in Account
          PROVE  \A x \in Resource : Together(t, Wide(u, a), x) = Together(s, Wide(u, a), x)
        <3>1. IsFiniteSet(Wide(u, a)) /\ Wide(u, a) \in SUBSET Holder
            BY WideFinite, Holders
        <3>2. d \in Wide(u, a) <=> c \in Wide(u, a)
            OBVIOUS
        <3> QED BY <1>1, <1>3, <3>1, <3>2, MoveWithin
    <2> QED BY <1>1, <2>2, <2>3, <2>4 DEF Flow, t
<1> QED
    BY <1>1, <1>2, <1>3

(* What is left given back to its owner. *)
LEMMA ReturnFlows ==
    ASSUME NEW s, Rich(s), NEW e \in Holder, NEW w \in Holder, NEW r \in Resource,
           NEW u, IsBooks(u), \A a \in Account : e \in Wide(u, a) <=> w \in Wide(u, a),
           w \notin OnlyCredits
    PROVE  Flow(s, Return(s, e, w, r), u)
<1>1. CASE Balance(s, e, r) = 0
    <2>1. Flow(s, s, u)
        BY SameFlows DEF Rich, SameMoney
    <2> QED BY <1>1, <2>1 DEF Return
<1>2. CASE Balance(s, e, r) # 0
    <2>1. Balance(s, e, r) \in Nat
        BY RichBalance
    <2>2. Flow(s, Post(s, e, w, r, Balance(s, e, r)), u)
        BY <2>1, PostFlows
    <2> QED BY <1>2, <2>2 DEF Return
<1> QED
    BY <1>1, <1>2

\* The same orders, of the same owners.
SameFrame(s, t) ==
    /\ DOMAIN t.offers = DOMAIN s.offers /\ DOMAIN t.bids = DOMAIN s.bids
    /\ \A o \in DOMAIN s.offers : t.offers[o].seller = s.offers[o].seller
    /\ \A b \in DOMAIN s.bids : t.bids[b].buyer = s.bids[b].buyer

(* So the same accounts belong together. *)
LEMMA SameWide ==
    ASSUME NEW s, NEW t, SameFrame(s, t), NEW a
    PROVE  Wide(t, a) = Wide(s, a)
<1>1. {p \in DOMAIN t.offers : t.offers[p].seller = a} = {p \in DOMAIN s.offers : s.offers[p].seller = a}
    BY DEF SameFrame
<1>2. {p \in DOMAIN t.bids : t.bids[p].buyer = a} = {p \in DOMAIN s.bids : s.bids[p].buyer = a}
    BY DEF SameFrame
<1>3. {p \in (DOMAIN t.offers) \X (DOMAIN t.bids) : Seller(t, p) = a}
        = {p \in (DOMAIN s.offers) \X (DOMAIN s.bids) : Seller(s, p) = a}
    BY DEF SameFrame, Seller
<1>4. {p \in (DOMAIN t.offers) \X (DOMAIN t.bids) : Buyer(t, p) = a}
        = {p \in (DOMAIN s.offers) \X (DOMAIN s.bids) : Buyer(s, p) = a}
    BY DEF SameFrame, Buyer
<1> QED
    BY <1>1, <1>2, <1>3, <1>4 DEF Wide

\* An operation on orders that are there.
Passed(s, t) == SameFrame(s, t) /\ Flow(s, t, s)

(* One after the other. *)
LEMMA PassedOn ==
    ASSUME NEW s, NEW t, NEW v, Passed(s, t), Passed(t, v)
    PROVE  Passed(s, v)
<1>1. SameFrame(s, v)
    BY DEF Passed, SameFrame
<1>2. \A a \in Account : Wide(t, a) = Wide(s, a)
    BY SameWide DEF Passed
<1>3. Flow(t, v, s)
    BY <1>2 DEF Passed, Flow
<1> QED
    BY <1>1, <1>3, FlowsOn DEF Passed

(* None. *)
LEMMA PassedNone ==
    ASSUME NEW s, IsBooks(s)
    PROVE  Rich(s) /\ Passed(s, s)
<1>1. Rich(s) /\ SameMoney(s, s) /\ SameFrame(s, s)
    BY DEF IsBooks, Rich, SameMoney, SameFrame
<1> QED
    BY <1>1, SameFlows DEF Rich, Passed

-----------------------------------------------------------------------------
(* Closing and expiring move nothing between owners.                          *)

(* cancelOffer and expire. *)
LEMMA OfferPasses ==
    ASSUME NEW s, Kept(s), NEW o \in DOMAIN s.offers, NEW final
    PROVE  Passed(s, CloseOffer(s, o, final))
<1> DEFINE offer == s.offers[o]
           e == OfferEscrow(o)
           w == OwnAccount(offer.seller)
           u == Return(s, e, w, offer.resource)
           closed == [offer EXCEPT !.remaining = 0, !.state = final]
           t == CloseOffer(s, o, final)
<1>1. /\ IsBooks(s) /\ Rich(s) /\ o \in Order /\ offer \in OfferRecord
      /\ offer.seller \in Account /\ offer.resource \in Resource
    BY PassedNone DEF Kept, IsBooks, OfferRecord, Resource
<1>2. e \in Holder /\ w \in Holder /\ w \notin OnlyCredits
    BY <1>1, Holders, Names DEF OnlyCredits
<1>3. \A a \in Account : e \in Wide(s, a) <=> w \in Wide(s, a)
    BY WideMembers
<1> HIDE DEF w
<1>4. Flow(s, u, s)
    BY <1>1, <1>2, <1>3, ReturnFlows
<1>5. Shape(u) /\ u.offers = s.offers /\ u.bids = s.bids /\ u.trades = s.trades
    BY <1>1, ReturnShape DEF Rich
<1>6. t = [u EXCEPT !.offers[o] = closed]
    BY <1>5 DEF CloseOffer, w
<1> HIDE DEF u, t
<1>7. closed.seller = offer.seller
    BY <1>1 DEF OfferRecord
<1> HIDE DEF closed, offer
<1>8. /\ Shape(t) /\ SameMoney(u, t) /\ t.bids = s.bids
      /\ t.offers = [s.offers EXCEPT ![o] = closed]
    BY <1>5, <1>6 DEF Shape, SameMoney
<1>9. SameFrame(s, t)
    BY <1>1, <1>7, <1>8 DEF SameFrame, IsBooks, offer
<1>10. Flow(u, t, s)
    BY <1>1, <1>4, <1>8, SameFlows DEF Flow
<1>11. Flow(s, t, s)
    BY <1>4, <1>10, FlowsOn
<1> QED
    BY <1>9, <1>11 DEF Passed, t

(* cancelBid and expire. *)
LEMMA BidPasses ==
    ASSUME NEW s, Kept(s), NEW b \in DOMAIN s.bids, NEW final
    PROVE  Passed(s, CloseBid(s, b, final))
<1> DEFINE bid == s.bids[b]
           e == BidEscrow(b)
           w == OwnAccount(bid.buyer)
           u == Return(s, e, w, "credits")
           closed == [bid EXCEPT !.remaining = 0, !.reservedCredits = 0, !.state = final]
           t == CloseBid(s, b, final)
<1>1. /\ IsBooks(s) /\ Rich(s) /\ b \in Order /\ bid \in BidRecord
      /\ bid.buyer \in Account /\ "credits" \in Resource
    BY PassedNone DEF Kept, IsBooks, BidRecord, Resource
<1>2. e \in Holder /\ w \in Holder /\ w \notin OnlyCredits
    BY <1>1, Holders, Names DEF OnlyCredits
<1>3. \A a \in Account : e \in Wide(s, a) <=> w \in Wide(s, a)
    BY WideMembers
<1> HIDE DEF w
<1>4. Flow(s, u, s)
    BY <1>1, <1>2, <1>3, ReturnFlows
<1>5. Shape(u) /\ u.offers = s.offers /\ u.bids = s.bids /\ u.trades = s.trades
    BY <1>1, ReturnShape DEF Rich
<1>6. t = [u EXCEPT !.bids[b] = closed]
    BY <1>5 DEF CloseBid, w
<1> HIDE DEF u, t
<1>7. closed.buyer = bid.buyer
    BY <1>1 DEF BidRecord
<1> HIDE DEF closed, bid
<1>8. /\ Shape(t) /\ SameMoney(u, t) /\ t.offers = s.offers
      /\ t.bids = [s.bids EXCEPT ![b] = closed]
    BY <1>5, <1>6 DEF Shape, SameMoney
<1>9. SameFrame(s, t)
    BY <1>1, <1>7, <1>8 DEF SameFrame, IsBooks, bid
<1>10. Flow(u, t, s)
    BY <1>1, <1>4, <1>8, SameFlows DEF Flow
<1>11. Flow(s, t, s)
    BY <1>4, <1>10, FlowsOn
<1> QED
    BY <1>9, <1>11 DEF Passed, t

(* All late offers. *)
LEMMA ExpireOffersPasses ==
    ASSUME NEW s, Kept(s), NEW list, Len(list) \in Nat,
           list \in [1 .. Len(list) -> DOMAIN s.offers]
    PROVE  Passed(s, ExpireOffers(s, list))
<1>1. PICK g : /\ g[0] = s
               /\ \A n \in 1 .. Len(list) : g[n] = CloseOffer(g[n - 1], list[n], "expired")
               /\ ExpireOffers(s, list) = g[Len(list)]
    BY ExpireOffersUnfolds
<1> DEFINE Good(t) == /\ Kept(t)
                      /\ DOMAIN t.offers = DOMAIN s.offers
                      /\ Passed(s, t)
           good == {n \in Nat : n <= Len(list) => Good(g[n])}
<1>2. 0 \in good
    BY <1>1, PassedNone DEF Kept
<1>3. ASSUME NEW n \in Nat, n \in good PROVE n + 1 \in good
    <2> SUFFICES ASSUME n + 1 <= Len(list) PROVE Good(g[n + 1])
        OBVIOUS
    <2>1. n + 1 \in 1 .. Len(list) /\ (n + 1) - 1 = n /\ n <= Len(list)
        OBVIOUS
    <2>2. Good(g[n]) /\ list[n + 1] \in DOMAIN s.offers
        BY <1>3, <2>1
    <2>3. g[n + 1] = CloseOffer(g[n], list[n + 1], "expired")
        BY <1>1, <2>1
    <2> HIDE DEF good
    <2>4. Kept(g[n + 1]) /\ DOMAIN g[n + 1].offers = DOMAIN s.offers
        BY <2>2, <2>3, OfferClosed DEF Final
    <2>5. Passed(g[n], g[n + 1])
        BY <2>2, <2>3, OfferPasses
    <2>6. Passed(s, g[n + 1])
        BY <2>2, <2>5, PassedOn
    <2> QED BY <2>4, <2>6
<1> HIDE DEF good
<1>4. Nat \subseteq good
    BY <1>2, <1>3, NatSetInduction
<1>5. Good(g[Len(list)])
    BY <1>4 DEF good
<1> QED
    BY <1>1, <1>5

(* All late bids. *)
LEMMA ExpireBidsPasses ==
    ASSUME NEW s, Kept(s), NEW list, Len(list) \in Nat,
           list \in [1 .. Len(list) -> DOMAIN s.bids]
    PROVE  Passed(s, ExpireBids(s, list))
<1>1. PICK g : /\ g[0] = s
               /\ \A n \in 1 .. Len(list) : g[n] = CloseBid(g[n - 1], list[n], "expired")
               /\ ExpireBids(s, list) = g[Len(list)]
    BY ExpireBidsUnfolds
<1> DEFINE Good(t) == /\ Kept(t)
                      /\ DOMAIN t.bids = DOMAIN s.bids
                      /\ Passed(s, t)
           good == {n \in Nat : n <= Len(list) => Good(g[n])}
<1>2. 0 \in good
    BY <1>1, PassedNone DEF Kept
<1>3. ASSUME NEW n \in Nat, n \in good PROVE n + 1 \in good
    <2> SUFFICES ASSUME n + 1 <= Len(list) PROVE Good(g[n + 1])
        OBVIOUS
    <2>1. n + 1 \in 1 .. Len(list) /\ (n + 1) - 1 = n /\ n <= Len(list)
        OBVIOUS
    <2>2. Good(g[n]) /\ list[n + 1] \in DOMAIN s.bids
        BY <1>3, <2>1
    <2>3. g[n + 1] = CloseBid(g[n], list[n + 1], "expired")
        BY <1>1, <2>1
    <2> HIDE DEF good
    <2>4. Kept(g[n + 1]) /\ DOMAIN g[n + 1].bids = DOMAIN s.bids
        BY <2>2, <2>3, BidClosed DEF Final
    <2>5. Passed(g[n], g[n + 1])
        BY <2>2, <2>3, BidPasses
    <2>6. Passed(s, g[n + 1])
        BY <2>2, <2>5, PassedOn
    <2> QED BY <2>4, <2>6
<1> HIDE DEF good
<1>4. Nat \subseteq good
    BY <1>2, <1>3, NatSetInduction
<1>5. Good(g[Len(list)])
    BY <1>4 DEF good
<1> QED
    BY <1>1, <1>5

(* expire. *)
LEMMA ExpirePasses ==
    ASSUME NEW s, Kept(s), NEW now
    PROVE  Passed(s, expire(s, now))
<1> DEFINE offers == SetToSeq(Late(s.offers, now))
           bids == SetToSeq(Late(s.bids, now))
           u == ExpireOffers(s, offers)
<1>1. /\ Late(s.offers, now) \subseteq DOMAIN s.offers /\ IsFiniteSet(Late(s.offers, now))
      /\ Late(s.bids, now) \subseteq DOMAIN s.bids /\ IsFiniteSet(Late(s.bids, now))
    <2>1. /\ Late(s.offers, now) \subseteq DOMAIN s.offers
          /\ Late(s.bids, now) \subseteq DOMAIN s.bids
        BY DEF Late, OpenOrders
    <2>2. IsFiniteSet(DOMAIN s.offers) /\ IsFiniteSet(DOMAIN s.bids)
        BY DEF Kept, IsBooks
    <2> QED BY <2>1, <2>2, FS_Subset
<1>2. Len(offers) \in Nat /\ offers \in [1 .. Len(offers) -> DOMAIN s.offers]
    BY <1>1, UnorderedList
<1>3. Len(bids) \in Nat /\ bids \in [1 .. Len(bids) -> DOMAIN s.bids]
    BY <1>1, UnorderedList
<1> HIDE DEF offers, bids, u
<1>4. Kept(u) /\ u.bids = s.bids
    BY <1>2, ExpireOffersKept DEF u
<1>5. Passed(s, u)
    BY <1>2, ExpireOffersPasses DEF u
<1>6. Passed(u, ExpireBids(u, bids))
    BY <1>3, <1>4, ExpireBidsPasses
<1>7. Passed(s, ExpireBids(u, bids))
    BY <1>5, <1>6, PassedOn
<1> QED
    BY <1>7 DEF expire, u, offers, bids

-----------------------------------------------------------------------------
(* Neither does matching.                                                     *)

(* A condition, met or not. *)
LEMMA RequireFlows ==
    ASSUME NEW s, Rich(s), NEW condition \in BOOLEAN, NEW u, IsBooks(u)
    PROVE  Flow(s, Require(s, condition), u) /\ SameMoney(s, Require(s, condition))
<1> DEFINE t == Require(s, condition)
<1>1. Shape(t)
    BY Required DEF Rich
<1>2. SameMoney(s, t)
    BY DEF Require, SameMoney, Rich, Shape
<1> HIDE DEF t
<1>3. Flow(s, t, u)
    BY <1>1, <1>2, SameFlows
<1> QED
    BY <1>2, <1>3 DEF t

(* The postings of a fill: each escrow pays another of the same owner. *)
LEMMA ExchangeFlows ==
    ASSUME NEW s, Kept(s), NEW b \in DOMAIN s.bids, NEW o \in DOMAIN s.offers,
           Meets(s.bids[b], s.offers[o])
    PROVE  Flow(s, Exchange(s, b, o), s)
<1> DEFINE bid == s.bids[b]
           offer == s.offers[o]
           q == FillQuantity(bid, offer)
           r == offer.resource
           e == BidEscrow(b)
           oe == OfferEscrow(o)
           re == ResourceEscrow(<<o, b>>)
           ce == CreditEscrow(<<o, b>>)
           w == OwnAccount(bid.buyer)
           price == q * offer.unitPrice
           extra == PriceImprovement(bid, offer)
           allowed == multiplySafe(q, bid.maxUnitPrice)
           safe == Require(s, allowed)
           delivered == Post(safe, oe, re, r, q)
           paid == Post(delivered, e, ce, "credits", price)
           improved == IF extra = 0 THEN paid ELSE Post(paid, e, w, "credits", extra)
           t == Exchange(s, b, o)
<1>1. t = IF bid.remaining = q THEN Return(improved, e, w, "credits") ELSE improved
    BY DEF Exchange
<1>2. /\ b \in Order /\ o \in Order /\ r \in Resource /\ bid.buyer \in Account
      /\ bid.maxUnitPrice \in Nat /\ offer.unitPrice \in Nat
      /\ offer.unitPrice <= bid.maxUnitPrice /\ q \in Nat
    BY Met
<1>3. /\ oe \in Holder /\ e \in Holder /\ re \in Holder /\ ce \in Holder /\ w \in Holder
      /\ "credits" \in Resource
    BY <1>2, Holders DEF Trade
<1>4. re \notin OnlyCredits /\ w \notin OnlyCredits
    BY Names DEF OnlyCredits
<1>5. IsBooks(s) /\ Rich(s)
    BY PassedNone DEF Kept
<1>6. \A a \in Account : /\ oe \in Wide(s, a) <=> re \in Wide(s, a)
                         /\ e \in Wide(s, a) <=> ce \in Wide(s, a)
                         /\ e \in Wide(s, a) <=> w \in Wide(s, a)
    <2>1. <<o, b>> \in (DOMAIN s.offers) \X (DOMAIN s.bids)
        OBVIOUS
    <2>2. Seller(s, <<o, b>>) = offer.seller /\ Buyer(s, <<o, b>>) = bid.buyer
        BY DEF Seller, Buyer
    <2> QED BY <2>1, <2>2, WideMembers
<1>7. extra = q * (bid.maxUnitPrice - offer.unitPrice)
    BY DEF PriceImprovement
<1>8. allowed \in BOOLEAN
    BY DEF multiplySafe
<1> HIDE DEF bid, offer, q, r, extra, allowed, oe, e, re, ce, w
<1>9. price \in Nat /\ extra \in Nat
    <2>1. bid.maxUnitPrice - offer.unitPrice \in Nat
        BY <1>2
    <2>2. \A x, y \in Nat : x * y \in Nat
        OBVIOUS
    <2> QED BY <1>2, <1>7, <2>1, <2>2
<1> HIDE DEF price
<1>10. Flow(s, safe, s)
    BY <1>5, <1>8, RequireFlows
<1> HIDE DEF safe
<1>11. Flow(safe, delivered, s)
    BY <1>2, <1>3, <1>4, <1>5, <1>6, <1>10, PostFlows DEF Flow
<1> HIDE DEF delivered
<1>12. Flow(delivered, paid, s)
    BY <1>3, <1>5, <1>6, <1>9, <1>11, PostFlows DEF Flow
<1> HIDE DEF paid
<1>13. Flow(paid, improved, s)
    <2>1. CASE extra = 0
        <3>1. Flow(paid, paid, s)
            BY <1>5, <1>12, SameFlows DEF Flow, Rich, SameMoney
        <3> QED BY <2>1, <3>1
    <2>2. CASE extra # 0
        <3>1. Flow(paid, Post(paid, e, w, "credits", extra), s)
            BY <1>3, <1>5, <1>6, <1>9, <1>12, PostFlows DEF Flow
        <3> QED BY <2>2, <3>1
    <2> QED BY <2>1, <2>2
<1> HIDE DEF improved
<1>14. Flow(s, improved, s)
    BY <1>10, <1>11, <1>12, <1>13, FlowsOn
<1>15. Flow(improved, Return(improved, e, w, "credits"), s)
    BY <1>3, <1>4, <1>5, <1>6, <1>14, ReturnFlows DEF Flow
<1>16. Flow(s, Return(improved, e, w, "credits"), s)
    BY <1>14, <1>15, FlowsOn
<1> HIDE DEF t
<1>17. Flow(s, t, s)
    BY <1>1, <1>14, <1>16
<1> QED
    BY <1>17 DEF t

(* A fill. *)
LEMMA FillPasses ==
    ASSUME NEW s, Kept(s), NEW b \in DOMAIN s.bids, NEW o \in DOMAIN s.offers
    PROVE  Passed(s, Fill(s, b, o))
<1> DEFINE bid == s.bids[b]
           offer == s.offers[o]
           q == FillQuantity(bid, offer)
           u == Exchange(s, b, o)
           sold == AfterFill(offer, q)
           bought == BidAfterFill(bid, q)
           trades == With(s.trades, <<o, b>>, NewTrade(bid, offer))
           t == Fill(s, b, o)
<1>1. IsBooks(s) /\ Rich(s) /\ Passed(s, s)
    BY PassedNone DEF Kept
<1>2. CASE ~ Meets(bid, offer)
    BY <1>1, <1>2 DEF Fill
<1>3. CASE Meets(bid, offer)
    <2>1. offer \in OfferRecord /\ bid \in BidRecord
        BY <1>1 DEF IsBooks
    <2>2. /\ Shape(u) /\ u.offers = s.offers /\ u.bids = s.bids /\ u.trades = s.trades
        BY <1>3, Exchanged DEF IsBooks
    <2>3. Flow(s, u, s)
        BY <1>3, ExchangeFlows
    <2>4. t = [u EXCEPT !.offers[o] = sold, !.bids[b] = bought, !.trades = trades]
        BY <1>3, <2>2 DEF Fill
    <2>5. sold.seller = offer.seller
        BY <2>1 DEF AfterFill, OfferRecord
    <2>6. bought.buyer = bid.buyer
        BY <2>1 DEF BidAfterFill, AfterFill, BidRecord
    <2> HIDE DEF u, t, sold, bought, trades
    <2>7. /\ Shape(t) /\ SameMoney(u, t)
          /\ t.offers = [s.offers EXCEPT ![o] = sold]
          /\ t.bids = [s.bids EXCEPT ![b] = bought]
        BY <2>2, <2>4 DEF Shape, SameMoney
    <2>8. SameFrame(s, t)
        BY <1>1, <2>5, <2>6, <2>7 DEF SameFrame, IsBooks
    <2>9. Flow(u, t, s)
        BY <1>1, <2>3, <2>7, SameFlows DEF Flow
    <2>10. Flow(s, t, s)
        BY <2>3, <2>9, FlowsOn
    <2> QED BY <2>8, <2>10 DEF Passed, t
<1> QED
    BY <1>2, <1>3

(* Of a bid with all offers. *)
LEMMA MeetOffersPasses ==
    ASSUME NEW s, Kept(s), NEW b \in DOMAIN s.bids, NEW list, Len(list) \in Nat,
           list \in [1 .. Len(list) -> DOMAIN s.offers]
    PROVE  Passed(s, MeetOffers(s, b, list))
<1>1. PICK g : /\ g[0] = s
               /\ \A n \in 1 .. Len(list) : g[n] = Fill(g[n - 1], b, list[n])
               /\ MeetOffers(s, b, list) = g[Len(list)]
    BY MeetOffersUnfolds
<1> DEFINE Good(t) == /\ Kept(t)
                      /\ DOMAIN t.offers = DOMAIN s.offers
                      /\ DOMAIN t.bids = DOMAIN s.bids
                      /\ Passed(s, t)
           good == {n \in Nat : n <= Len(list) => Good(g[n])}
<1>2. 0 \in good
    BY <1>1, PassedNone DEF Kept
<1>3. ASSUME NEW n \in Nat, n \in good PROVE n + 1 \in good
    <2> SUFFICES ASSUME n + 1 <= Len(list) PROVE Good(g[n + 1])
        OBVIOUS
    <2>1. n + 1 \in 1 .. Len(list) /\ (n + 1) - 1 = n /\ n <= Len(list)
        OBVIOUS
    <2>2. Good(g[n]) /\ list[n + 1] \in DOMAIN s.offers
        BY <1>3, <2>1
    <2>3. g[n + 1] = Fill(g[n], b, list[n + 1])
        BY <1>1, <2>1
    <2> HIDE DEF good
    <2>4. /\ Kept(g[n + 1]) /\ DOMAIN g[n + 1].offers = DOMAIN s.offers
          /\ DOMAIN g[n + 1].bids = DOMAIN s.bids
        BY <2>2, <2>3, Filled
    <2>5. Passed(g[n], g[n + 1])
        BY <2>2, <2>3, FillPasses
    <2>6. Passed(s, g[n + 1])
        BY <2>2, <2>5, PassedOn
    <2> QED BY <2>4, <2>6
<1> HIDE DEF good
<1>4. Nat \subseteq good
    BY <1>2, <1>3, NatSetInduction
<1>5. Good(g[Len(list)])
    BY <1>4 DEF good
<1> QED
    BY <1>1, <1>5

(* And of all bids. *)
LEMMA MeetBidsPasses ==
    ASSUME NEW s, Kept(s), NEW offers, Len(offers) \in Nat,
           offers \in [1 .. Len(offers) -> DOMAIN s.offers], NEW list, Len(list) \in Nat,
           list \in [1 .. Len(list) -> DOMAIN s.bids]
    PROVE  Passed(s, MeetBids(s, list, offers))
<1>1. PICK g : /\ g[0] = s
               /\ \A n \in 1 .. Len(list) : g[n] = MeetOffers(g[n - 1], list[n], offers)
               /\ MeetBids(s, list, offers) = g[Len(list)]
    BY MeetBidsUnfolds
<1> DEFINE Good(t) == /\ Kept(t)
                      /\ DOMAIN t.offers = DOMAIN s.offers
                      /\ DOMAIN t.bids = DOMAIN s.bids
                      /\ Passed(s, t)
           good == {n \in Nat : n <= Len(list) => Good(g[n])}
<1>2. 0 \in good
    BY <1>1, PassedNone DEF Kept
<1>3. ASSUME NEW n \in Nat, n \in good PROVE n + 1 \in good
    <2> SUFFICES ASSUME n + 1 <= Len(list) PROVE Good(g[n + 1])
        OBVIOUS
    <2>1. n + 1 \in 1 .. Len(list) /\ (n + 1) - 1 = n /\ n <= Len(list)
        OBVIOUS
    <2>2. Good(g[n]) /\ list[n + 1] \in DOMAIN s.bids
        BY <1>3, <2>1
    <2>3. g[n + 1] = MeetOffers(g[n], list[n + 1], offers)
        BY <1>1, <2>1
    <2> HIDE DEF good
    <2>4. /\ Kept(g[n + 1]) /\ DOMAIN g[n + 1].offers = DOMAIN s.offers
          /\ DOMAIN g[n + 1].bids = DOMAIN s.bids
        BY <2>2, <2>3, MeetOffersKept
    <2>5. Passed(g[n], g[n + 1])
        BY <2>2, <2>3, MeetOffersPasses
    <2>6. Passed(s, g[n + 1])
        BY <2>2, <2>5, PassedOn
    <2> QED BY <2>4, <2>6
<1> HIDE DEF good
<1>4. Nat \subseteq good
    BY <1>2, <1>3, NatSetInduction
<1>5. Good(g[Len(list)])
    BY <1>4 DEF good
<1> QED
    BY <1>1, <1>5

(* match. *)
LEMMA MatchPasses ==
    ASSUME NEW s, Kept(s), NEW now
    PROVE  Passed(s, match(s, now))
<1> DEFINE offers == Sorted(Live(s.offers, now), OffersFirst(s.offers))
           bids == Sorted(Live(s.bids, now), BidsFirst(s.bids))
<1>1. IsBooks(s)
    BY DEF Kept
<1>2. Len(offers) \in Nat /\ offers \in [1 .. Len(offers) -> DOMAIN s.offers]
    <2>1. /\ IsFiniteSet(Live(s.offers, now)) /\ Live(s.offers, now) \subseteq DOMAIN s.offers
          /\ Ordered(Live(s.offers, now), OffersFirst(s.offers))
        BY <1>1, LiveOrders
    <2>2. Len(offers) \in Nat /\ offers \in [1 .. Len(offers) -> Live(s.offers, now)]
        BY <2>1, SortedList
    <2> HIDE DEF offers
    <2> QED BY <2>1, <2>2
<1>3. Len(bids) \in Nat /\ bids \in [1 .. Len(bids) -> DOMAIN s.bids]
    <2>1. /\ IsFiniteSet(Live(s.bids, now)) /\ Live(s.bids, now) \subseteq DOMAIN s.bids
          /\ Ordered(Live(s.bids, now), BidsFirst(s.bids))
        BY <1>1, LiveOrders
    <2>2. Len(bids) \in Nat /\ bids \in [1 .. Len(bids) -> Live(s.bids, now)]
        BY <2>1, SortedList
    <2> HIDE DEF bids
    <2> QED BY <2>1, <2>2
<1> HIDE DEF offers, bids
<1>4. Passed(s, MeetBids(s, bids, offers))
    BY <1>2, <1>3, MeetBidsPasses
<1> QED
    BY <1>4 DEF match, offers, bids

-----------------------------------------------------------------------------
(* The other operations.                                                      *)

\* What leaves the books covered.
Solid(s, t) ==
    /\ Rich(t)
    /\ Covered(s) => Covered(t)
    /\ Barred(s) => Barred(t)

(* Every posting does. *)
LEMMA PostSolid ==
    ASSUME NEW s, Rich(s), NEW d \in Holder \cup {MintAccount}, NEW c \in Holder \cup {BurnAccount},
           NEW r \in Resource, NEW n \in Nat, d = MintAccount => s.minted[r] + n <= MaxMinted,
           r = "credits" \/ c \notin OnlyCredits
    PROVE  Solid(s, Post(s, d, c, r, n))
<1> DEFINE t == Post(s, d, c, r, n)
<1>1. Rich(t) /\ (SameMoney(s, t) \/ MovedMoney(s, t, d, c, r, n))
    BY PostMoney
<1> HIDE DEF t
<1>2. CASE SameMoney(s, t)
    <2>1. \A h, x : Balance(t, h, x) = Balance(s, h, x)
        BY <1>2 DEF SameMoney, Balance
    <2>2. Covered(s) => Covered(t)
        BY <1>2, SameCovered
    <2> QED BY <1>1, <2>1, <2>2 DEF Solid, Barred, t
<1>3. CASE MovedMoney(s, t, d, c, r, n)
    <2>1. Covered(s) => Covered(t)
        BY <1>1, <1>3, MoveCovered
    <2>2. Barred(s) => Barred(t)
        BY <1>3, MoveBarred
    <2> QED BY <1>1, <2>1, <2>2 DEF Solid, t
<1> QED
    BY <1>1, <1>2, <1>3

(* So does giving back what is left. *)
LEMMA ReturnSolid ==
    ASSUME NEW s, Rich(s), NEW e \in Holder, NEW w \in Holder, NEW r \in Resource, w \notin OnlyCredits
    PROVE  Solid(s, Return(s, e, w, r))
<1>1. Balance(s, e, r) \in Nat /\ e # MintAccount
    BY RichBalance, Holders
<1>2. Solid(s, Post(s, e, w, r, Balance(s, e, r)))
    BY <1>1, PostSolid
<1> QED
    BY <1>2 DEF Return, Solid

(* And settleReservation. *)
LEMMA ReservationSolid ==
    ASSUME NEW s, Rich(s), NEW id \in Reservation, NEW a \in Account, NEW owner \in Account,
           NEW r \in Resource, NEW n \in Nat
    PROVE  Solid(s, settleReservation(s, id, a, owner, r, n))
<1> DEFINE account == ReservationAccount(id)
           covered == n <= Balance(s, account, r)
           guarded == Require(s, covered)
           u == Post(guarded, account, OwnAccount(a), r, n)
<1>1. covered \in BOOLEAN
    OBVIOUS
<1>2. /\ account \in Holder /\ OwnAccount(a) \in Holder /\ OwnAccount(owner) \in Holder
      /\ account # MintAccount
      /\ OwnAccount(a) \notin OnlyCredits /\ OwnAccount(owner) \notin OnlyCredits
    BY Holders, Names DEF OnlyCredits
<1>3. settleReservation(s, id, a, owner, r, n) = Return(u, account, OwnAccount(owner), r)
    BY DEF settleReservation
<1> HIDE DEF covered
<1>4. SameMoney(s, guarded) /\ Shape(guarded)
    <2>1. Shape(guarded)
        BY <1>1, Required DEF Rich
    <2>2. SameMoney(s, guarded)
        BY DEF Require, SameMoney, Rich, Shape
    <2> QED BY <2>1, <2>2
<1> HIDE DEF guarded, account
<1>5. Rich(guarded) /\ (Covered(s) => Covered(guarded)) /\ (Barred(s) => Barred(guarded))
    <2>1. Rich(guarded)
        BY <1>4 DEF Rich, SameMoney
    <2>2. Covered(s) => Covered(guarded)
        BY <1>4, SameCovered
    <2>3. \A h, x : Balance(guarded, h, x) = Balance(s, h, x)
        BY <1>4 DEF SameMoney, Balance
    <2>4. Barred(s) => Barred(guarded)
        BY <2>3 DEF Barred
    <2> QED BY <2>1, <2>2, <2>4
<1>6. Solid(guarded, u)
    BY <1>2, <1>5, PostSolid
<1> HIDE DEF u
<1>7. Solid(u, Return(u, account, OwnAccount(owner), r))
    BY <1>2, <1>6, ReturnSolid DEF Solid
<1> QED
    BY <1>3, <1>5, <1>6, <1>7 DEF Solid

(* settleTrade and refundTrade. *)
LEMMA TradeSolid ==
    ASSUME NEW s, Kept(s), NEW id \in DOMAIN s.trades, NEW resourceTo \in Account,
           NEW creditsTo \in Account, NEW final
    PROVE  Solid(s, CloseTrade(s, id, resourceTo, creditsTo, final))
<1> DEFINE trade == s.trades[id]
           r == s.offers[id[1]].resource
           open == trade.state = "escrowed"
           guarded == Require(s, open)
           u == Post(guarded, ResourceEscrow(id), OwnAccount(resourceTo), r, trade.quantity)
           v == Post(u, CreditEscrow(id), OwnAccount(creditsTo), "credits", trade.totalPrice)
           closed == [trade EXCEPT !.state = final]
           t == CloseTrade(s, id, resourceTo, creditsTo, final)
<1>1. /\ IsBooks(s) /\ Rich(s) /\ open \in BOOLEAN
      /\ trade.quantity \in Nat /\ trade.totalPrice \in Nat
      /\ id[1] \in DOMAIN s.offers /\ id \in Trade
    BY PassedNone DEF Kept, IsBooks, TradeRecord, Trade
<1>2. r \in Resource
    BY <1>1 DEF IsBooks, OfferRecord, Resource
<1>3. /\ ResourceEscrow(id) \in Holder /\ CreditEscrow(id) \in Holder /\ "credits" \in Resource
      /\ OwnAccount(resourceTo) \in Holder /\ OwnAccount(creditsTo) \in Holder
      /\ ResourceEscrow(id) # MintAccount /\ CreditEscrow(id) # MintAccount
      /\ OwnAccount(resourceTo) \notin OnlyCredits
    BY <1>1, Holders, Names DEF OnlyCredits
<1> HIDE DEF open
<1>4. Flow(s, guarded, s) /\ guarded.trades = s.trades
    BY <1>1, RequireFlows, Required DEF Rich
<1> HIDE DEF guarded
<1>5. Solid(guarded, u) /\ Shape(u) /\ u.trades = s.trades
    <2>1. Rich(guarded) /\ Shape(guarded)
        BY <1>4 DEF Flow, Rich
    <2>2. Shape(u) /\ u.trades = s.trades
        BY <1>4, <2>1, PostShape
    <2> HIDE DEF r, trade
    <2>3. Solid(guarded, u)
        BY <1>1, <1>2, <1>3, <2>1, PostSolid
    <2> QED BY <2>2, <2>3
<1> HIDE DEF u
<1>6. Solid(u, v) /\ Shape(v) /\ v.trades = s.trades
    BY <1>1, <1>3, <1>5, PostSolid, PostShape DEF Solid, Rich
<1>7. t = [v EXCEPT !.trades[id] = closed]
    <2>1. t = [v EXCEPT !.trades[id].state = final]
        BY DEF CloseTrade, guarded, open, u
    <2> HIDE DEF v, t
    <2> QED BY <1>6, <2>1
<1> HIDE DEF v, t, closed
<1>8. Shape(t) /\ SameMoney(v, t)
    BY <1>6, <1>7 DEF Solid, Rich, Shape, SameMoney
<1>9. Flow(v, t, s)
    BY <1>1, <1>6, <1>8, SameFlows DEF Solid
<1> QED
    BY <1>4, <1>5, <1>6, <1>9 DEF Flow, Solid, t

(* refundTrade gives both sides back what is theirs. *)
LEMMA RefundPasses ==
    ASSUME NEW s, Kept(s), NEW id \in DOMAIN s.trades
    PROVE  Passed(s, refundTrade(s, id))
<1> DEFINE trade == s.trades[id]
           r == s.offers[id[1]].resource
           open == trade.state = "escrowed"
           guarded == Require(s, open)
           wr == OwnAccount(Seller(s, id))
           wc == OwnAccount(Buyer(s, id))
           u == Post(guarded, ResourceEscrow(id), wr, r, trade.quantity)
           v == Post(u, CreditEscrow(id), wc, "credits", trade.totalPrice)
           closed == [trade EXCEPT !.state = "refunded"]
           t == refundTrade(s, id)
<1>1. /\ IsBooks(s) /\ Rich(s) /\ open \in BOOLEAN
      /\ trade.quantity \in Nat /\ trade.totalPrice \in Nat
      /\ id \in (DOMAIN s.offers) \X (DOMAIN s.bids) /\ id \in Trade
    BY PassedNone DEF Kept, IsBooks, TradeRecord, Trade
<1>2. r \in Resource /\ Seller(s, id) \in Account /\ Buyer(s, id) \in Account
    BY <1>1 DEF IsBooks, OfferRecord, BidRecord, Resource, Seller, Buyer
<1>3. /\ ResourceEscrow(id) \in Holder /\ CreditEscrow(id) \in Holder /\ "credits" \in Resource
      /\ wr \in Holder /\ wc \in Holder /\ wr \notin OnlyCredits
    BY <1>1, <1>2, Holders, Names DEF OnlyCredits
<1>4. \A a \in Account : /\ ResourceEscrow(id) \in Wide(s, a) <=> wr \in Wide(s, a)
                         /\ CreditEscrow(id) \in Wide(s, a) <=> wc \in Wide(s, a)
    BY <1>1, WideMembers
<1> HIDE DEF open, wr, wc
<1>5. /\ Flow(s, guarded, s) /\ Shape(guarded) /\ guarded.trades = s.trades
      /\ guarded.offers = s.offers /\ guarded.bids = s.bids
    BY <1>1, RequireFlows, Required DEF Rich
<1> HIDE DEF guarded
<1>6. /\ Shape(u) /\ u.trades = s.trades /\ u.offers = s.offers /\ u.bids = s.bids
      /\ Flow(guarded, u, s)
    <2>1. Shape(u) /\ u.trades = s.trades /\ u.offers = s.offers /\ u.bids = s.bids
        BY <1>5, PostShape
    <2>2. Rich(guarded)
        BY <1>5 DEF Flow
    <2> HIDE DEF r, trade
    <2>3. Flow(guarded, u, s)
        BY <1>1, <1>2, <1>3, <1>4, <2>2, PostFlows
    <2> QED BY <2>1, <2>3
<1> HIDE DEF u
<1>7. /\ Shape(v) /\ v.trades = s.trades /\ v.offers = s.offers /\ v.bids = s.bids
      /\ Flow(u, v, s)
    <2>1. Shape(v) /\ v.trades = s.trades /\ v.offers = s.offers /\ v.bids = s.bids
        BY <1>6, PostShape
    <2>2. Rich(u)
        BY <1>6 DEF Flow
    <2> HIDE DEF trade
    <2>3. Flow(u, v, s)
        BY <1>1, <1>3, <1>4, <2>2, PostFlows
    <2> QED BY <2>1, <2>3
<1>8. t = [v EXCEPT !.trades[id] = closed]
    <2>1. t = [v EXCEPT !.trades[id].state = "refunded"]
        BY DEF refundTrade, CloseTrade, guarded, open, u, wr, wc
    <2> HIDE DEF v, t
    <2> QED BY <1>7, <2>1
<1> HIDE DEF v, t, closed
<1>9. Shape(t) /\ SameMoney(v, t) /\ t.offers = s.offers /\ t.bids = s.bids
    BY <1>7, <1>8 DEF Flow, Rich, Shape, SameMoney
<1>10. Flow(v, t, s)
    BY <1>1, <1>7, <1>9, SameFlows DEF Flow
<1>11. Flow(s, t, s)
    BY <1>5, <1>6, <1>7, <1>10, FlowsOn
<1>12. SameFrame(s, t)
    BY <1>9 DEF SameFrame
<1> QED
    BY <1>11, <1>12 DEF Passed, t

\* The old orders are there, of the same owners.
Grown(s, t) ==
    /\ DOMAIN s.offers \subseteq DOMAIN t.offers /\ DOMAIN s.bids \subseteq DOMAIN t.bids
    /\ \A o \in DOMAIN s.offers : t.offers[o].seller = s.offers[o].seller
    /\ \A b \in DOMAIN s.bids : t.bids[b].buyer = s.bids[b].buyer

(* placeOffer pays into an escrow of the seller's. *)
LEMMA OfferFlows ==
    ASSUME NEW s, Kept(s), NEW o \in Order \ DOMAIN s.offers, NEW offer \in OfferRecord,
           offer.remaining = offer.quantity, placeOffer(s, o, offer).ok
    PROVE  /\ Flow(s, placeOffer(s, o, offer), placeOffer(s, o, offer))
           /\ Grown(s, placeOffer(s, o, offer))
<1> DEFINE allowed == offer.minimumFill <= offer.quantity
           guarded == Require(s, allowed)
           d == OwnAccount(offer.seller)
           e == OfferEscrow(o)
           n == offer.quantity
           r == offer.resource
           u == Post(guarded, d, e, r, n)
           offers == With(s.offers, o, offer)
           t == placeOffer(s, o, offer)
<1>1. /\ IsBooks(s) /\ Rich(s) /\ allowed \in BOOLEAN
      /\ n \in Nat /\ r \in Resource /\ offer.seller \in Account /\ o \in Order
    <2>1. IsBooks(s) /\ Rich(s)
        BY PassedNone DEF Kept
    <2>2. n \in Nat /\ r \in Resource /\ offer.seller \in Account /\ o \in Order
        BY DEF OfferRecord, Resource
    <2> QED BY <2>1, <2>2
<1>2. IsBooks(t)
    BY OfferPlaced DEF Kept
<1> HIDE DEF allowed
<1>3. Shape(guarded) /\ guarded.offers = s.offers /\ guarded.bids = s.bids
    BY <1>1, Required DEF Rich
<1>4. t = [u EXCEPT !.offers = offers]
    <2>1. u.offers = s.offers
        BY <1>3, PostShape
    <2> HIDE DEF u
    <2> QED BY <2>1 DEF placeOffer, guarded, allowed, u
<1>5. Shape(u) /\ u.bids = s.bids
    BY <1>3, PostShape
<1> HIDE DEF t
<1>6. Flow(s, guarded, t)
    BY <1>1, <1>2, RequireFlows
<1> HIDE DEF guarded, u
<1>7. Shape(t) /\ SameMoney(u, t) /\ t.offers = offers /\ t.bids = s.bids
    BY <1>4, <1>5 DEF Shape, SameMoney
<1>8. /\ DOMAIN offers = DOMAIN s.offers \cup {o} /\ offers[o] = offer
      /\ \A p \in DOMAIN s.offers : offers[p] = s.offers[p]
    BY DEF With
<1> HIDE DEF offers, n, r
<1>9. \A a \in Account : d \in Wide(t, a) <=> e \in Wide(t, a)
    BY <1>7, <1>8, WideMembers
<1>10. d \in Holder /\ e \in Holder /\ e \notin OnlyCredits
    BY <1>1, Holders, Names DEF OnlyCredits
<1> HIDE DEF d, e
<1>11. Flow(guarded, u, t)
    <2>1. Rich(guarded)
        BY <1>6 DEF Flow
    <2> QED BY <1>1, <1>2, <1>9, <1>10, <2>1, PostFlows DEF u
<1>12. Flow(u, t, t)
    BY <1>2, <1>7, <1>11, SameFlows DEF Flow
<1>13. Flow(s, t, t)
    BY <1>6, <1>11, <1>12, FlowsOn
<1>14. Grown(s, t)
    BY <1>7, <1>8 DEF Grown
<1> QED
    BY <1>13, <1>14 DEF t

(* placeBid pays into an escrow of the buyer's. *)
LEMMA BidFlows ==
    ASSUME NEW s, Kept(s), NEW b \in Order \ DOMAIN s.bids, NEW bid \in BidRecord,
           bid.remaining = bid.quantity,
           bid.reservedCredits = bid.quantity * bid.maxUnitPrice, placeBid(s, b, bid).ok
    PROVE  /\ Flow(s, placeBid(s, b, bid), placeBid(s, b, bid))
           /\ Grown(s, placeBid(s, b, bid))
<1> DEFINE allowed == multiplySafe(bid.quantity, bid.maxUnitPrice)
           guarded == Require(s, allowed)
           d == OwnAccount(bid.buyer)
           e == BidEscrow(b)
           n == bid.quantity * bid.maxUnitPrice
           u == Post(guarded, d, e, "credits", n)
           bids == With(s.bids, b, bid)
           t == placeBid(s, b, bid)
<1>1. /\ IsBooks(s) /\ Rich(s) /\ allowed \in BOOLEAN
      /\ bid.quantity \in Nat /\ bid.maxUnitPrice \in Nat
      /\ bid.buyer \in Account /\ b \in Order /\ "credits" \in Resource
    <2>1. IsBooks(s) /\ Rich(s)
        BY PassedNone DEF Kept
    <2>2. /\ bid.quantity \in Nat /\ bid.maxUnitPrice \in Nat
          /\ bid.buyer \in Account /\ b \in Order /\ "credits" \in Resource
        BY DEF BidRecord, Resource
    <2>3. allowed \in BOOLEAN
        BY DEF multiplySafe
    <2> QED BY <2>1, <2>2, <2>3
<1>2. IsBooks(t)
    BY BidPlaced DEF Kept
<1>3. n \in Nat
    BY <1>1
<1> HIDE DEF allowed
<1>4. Shape(guarded) /\ guarded.offers = s.offers /\ guarded.bids = s.bids
    BY <1>1, Required DEF Rich
<1>5. Shape(u) /\ u.offers = s.offers /\ u.bids = s.bids
    BY <1>4, PostShape
<1>6. t = [u EXCEPT !.bids = bids]
    <2> HIDE DEF u
    <2> QED BY <1>5 DEF placeBid, guarded, allowed, u
<1> HIDE DEF t
<1>7. Flow(s, guarded, t)
    BY <1>1, <1>2, RequireFlows
<1> HIDE DEF guarded, u
<1>8. Shape(t) /\ SameMoney(u, t) /\ t.bids = bids /\ t.offers = s.offers
    BY <1>5, <1>6 DEF Shape, SameMoney
<1>9. /\ DOMAIN bids = DOMAIN s.bids \cup {b} /\ bids[b] = bid
      /\ \A p \in DOMAIN s.bids : bids[p] = s.bids[p]
    BY DEF With
<1> HIDE DEF bids, n
<1>10. \A a \in Account : d \in Wide(t, a) <=> e \in Wide(t, a)
    BY <1>8, <1>9, WideMembers
<1>11. d \in Holder /\ e \in Holder
    BY <1>1, Holders
<1> HIDE DEF d, e
<1>12. Flow(guarded, u, t)
    <2>1. Rich(guarded)
        BY <1>7 DEF Flow
    <2> QED BY <1>1, <1>2, <1>3, <1>10, <1>11, <2>1, PostFlows DEF u
<1>13. Flow(u, t, t)
    BY <1>2, <1>8, <1>12, SameFlows DEF Flow
<1>14. Flow(s, t, t)
    BY <1>7, <1>12, <1>13, FlowsOn
<1>15. Grown(s, t)
    BY <1>8, <1>9 DEF Grown
<1> QED
    BY <1>14, <1>15 DEF t

(* Of the estate and the escrows of trades that may still be made, only the   *)
(* estate holds anything.                                                     *)
LEMMA EstateHolds ==
    ASSUME NEW s, Kept(s), Barred(s), NEW u, IsBooks(u), Grown(s, u),
           NEW a \in Account, NEW r \in Resource
    PROVE  Holdings(s, a, r) = Together(s, Wide(u, a), r)
<1> DEFINE W == Wide(u, a)
           E == Estate(s, a)
<1>1. IsFiniteSet(W) /\ W \subseteq Holder
    BY WideFinite, Holders
<1>2. /\ DOMAIN u.offers \subseteq Order /\ DOMAIN u.bids \subseteq Order
      /\ DOMAIN s.trades \subseteq (DOMAIN s.offers) \X (DOMAIN s.bids)
    BY DEF Kept, IsBooks
<1>3. /\ DOMAIN s.offers \subseteq DOMAIN u.offers /\ DOMAIN s.bids \subseteq DOMAIN u.bids
      /\ \A o \in DOMAIN s.offers : u.offers[o].seller = s.offers[o].seller
      /\ \A b \in DOMAIN s.bids : u.bids[b].buyer = s.bids[b].buyer
    BY DEF Grown
<1>4. \A t \in DOMAIN s.trades : /\ t \in (DOMAIN u.offers) \X (DOMAIN u.bids)
                                 /\ Seller(u, t) = Seller(s, t) /\ Buyer(u, t) = Buyer(s, t)
    BY <1>2, <1>3 DEF Seller, Buyer
<1>5. E \subseteq W
    BY <1>3, <1>4 DEF Estate, Wide
<1>6. r # "credits" => r \in Goods
    BY DEF Resource
<1>7. ASSUME NEW h \in W, h \notin E PROVE Balance(s, h, r) = 0
    <2>1. h # OwnAccount(a)
        BY <1>7 DEF Estate
    <2>2. ASSUME NEW o \in DOMAIN u.offers, u.offers[o].seller = a, h = OfferEscrow(o)
          PROVE  Balance(s, h, r) = 0
        <3>1. o \notin DOMAIN s.offers
            BY <1>3, <1>7, <2>2 DEF Estate
        <3>2. OfferKept(s, o)
            BY <1>2 DEF Kept
        <3> QED BY <2>2, <3>1, <3>2 DEF OfferKept
    <2>3. ASSUME NEW b \in DOMAIN u.bids, u.bids[b].buyer = a, h = BidEscrow(b)
          PROVE  Balance(s, h, r) = 0
        <3>1. b \notin DOMAIN s.bids
            BY <1>3, <1>7, <2>3 DEF Estate
        <3>2. BidKept(s, b)
            BY <1>2 DEF Kept
        <3>3. b \in Order /\ h \in OnlyCredits
            BY <1>2, <2>3 DEF OnlyCredits
        <3> QED BY <1>6, <2>3, <3>1, <3>2, <3>3 DEF BidKept, Barred
    <2>4. ASSUME NEW t \in (DOMAIN u.offers) \X (DOMAIN u.bids), Seller(u, t) = a, h = ResourceEscrow(t)
          PROVE  Balance(s, h, r) = 0
        <3>1. t \notin DOMAIN s.trades
            BY <1>4, <1>7, <2>4 DEF Estate
        <3>2. t \in Trade
            BY <1>2 DEF Trade
        <3>3. TradeKept(s, t)
            BY <3>2 DEF Kept
        <3> QED BY <2>4, <3>1, <3>3 DEF TradeKept
    <2>5. ASSUME NEW t \in (DOMAIN u.offers) \X (DOMAIN u.bids), Buyer(u, t) = a, h = CreditEscrow(t)
          PROVE  Balance(s, h, r) = 0
        <3>1. t \notin DOMAIN s.trades
            BY <1>4, <1>7, <2>5 DEF Estate
        <3>2. t \in Trade
            BY <1>2 DEF Trade
        <3>3. TradeKept(s, t)
            BY <3>2 DEF Kept
        <3>4. h \in OnlyCredits
            BY <2>5, <3>2 DEF OnlyCredits
        <3> QED BY <1>6, <2>5, <3>1, <3>3, <3>4 DEF TradeKept, Barred
    <2> QED BY <2>1, <2>2, <2>3, <2>4, <2>5 DEF Wide
<1>8. Rich(s)
    BY PassedNone DEF Kept
<1> HIDE DEF W, E
<1>9. IsFiniteSet(E)
    BY <1>1, <1>5, FS_Subset
<1>10. \A h \in W : Balance(s, h, r) \in Nat
    BY <1>1, <1>8, RichBalance
<1>11. Together(s, E, r) = Together(s, W, r)
    BY <1>1, <1>5, <1>7, <1>9, <1>10, HeldSame
<1> QED
    BY <1>11 DEF Holdings, E, W

-----------------------------------------------------------------------------
(* Every operation, and every state.                                          *)

(* What passes moves nothing. *)
LEMMA PassedFlows ==
    ASSUME NEW s, NEW t, Passed(s, t)
    PROVE  Solid(s, t) /\ Flow(s, t, t) /\ Grown(s, t)
<1>1. \A a : Wide(t, a) = Wide(s, a)
    BY SameWide DEF Passed
<1> QED
    BY <1>1 DEF Passed, SameFrame, Flow, Solid, Grown

\* The trades that are settled.
SettledIn(s) == {id \in DOMAIN s.trades : s.trades[id].state = "settled"}

\* An operation that settles no trade and touches the orders.
Transfers(s, t) ==
    \/ <<t.offers, t.bids, t.trades>> = <<s.offers, s.bids, s.trades>>
    \/ SettledIn(t) # SettledIn(s)

(* The books are covered after every operation, and all but transfers move    *)
(* nothing between owners.                                                    *)
LEMMA LeadsFlows ==
    ASSUME NEW s, Kept(s), NEW t, Leads(s, t)
    PROVE  Solid(s, t) /\ (Transfers(s, t) \/ (Flow(s, t, t) /\ Grown(s, t)))
<1>1. Rich(s) /\ IsBooks(s) /\ Shape(s)
    BY PassedNone DEF Kept, IsBooks
<1>2. ASSUME NEW a \in Account, NEW r \in Resource, NEW n \in Quantity,
             \/ /\ s.minted[r] + n <= MaxMinted
                /\ Becomes(Post(s, MintAccount, OwnAccount(a), r, n), t)
             \/ Becomes(Post(s, OwnAccount(a), BurnAccount, r, n), t)
             \/ \E c \in Account : Becomes(Post(s, OwnAccount(a), OwnAccount(c), r, n), t)
             \/ \E id \in Reservation : Becomes(Post(s, OwnAccount(a), ReservationAccount(id), r, n), t)
      PROVE  Solid(s, t) /\ Transfers(s, t)
    <2>1. n \in Nat
        BY MarketAssumption
    <2>2. /\ \A c \in Account : OwnAccount(c) \in Holder /\ OwnAccount(c) \notin OnlyCredits
                                /\ OwnAccount(c) # MintAccount
          /\ \A id \in Reservation : /\ ReservationAccount(id) \in Holder
                                     /\ ReservationAccount(id) \notin OnlyCredits
          /\ BurnAccount \notin OnlyCredits
        BY Holders, Names DEF OnlyCredits
    <2>3. PICK d, c : /\ d \in Holder \cup {MintAccount} /\ c \in Holder \cup {BurnAccount}
                      /\ d = MintAccount => s.minted[r] + n <= MaxMinted
                      /\ c \notin OnlyCredits /\ t = Post(s, d, c, r, n)
        BY <1>2, <2>2 DEF Becomes
    <2>4. Solid(s, t)
        BY <1>1, <2>1, <2>3, PostSolid
    <2>5. t.offers = s.offers /\ t.bids = s.bids /\ t.trades = s.trades
        BY <1>1, <2>3, PostShape
    <2> QED BY <2>4, <2>5 DEF Transfers
<1>3. ASSUME NEW id \in Reservation, NEW owner \in Account, NEW r \in Resource,
             \/ Becomes(refundReservation(s, id, owner, r), t)
             \/ \E a \in Account, n \in Quantity : Becomes(settleReservation(s, id, a, owner, r, n), t)
      PROVE  Solid(s, t) /\ Transfers(s, t)
    <2>1. \A c \in Account : OwnAccount(c) \in Holder /\ OwnAccount(c) \notin OnlyCredits
        BY Holders, Names DEF OnlyCredits
    <2>2. ReservationAccount(id) \in Holder
        BY Holders
    <2>3. CASE Becomes(refundReservation(s, id, owner, r), t)
        <3>1. t = Return(s, ReservationAccount(id), OwnAccount(owner), r)
            BY <2>3 DEF Becomes, refundReservation
        <3>2. Solid(s, t)
            BY <1>1, <2>1, <2>2, <3>1, ReturnSolid
        <3>3. t.offers = s.offers /\ t.bids = s.bids /\ t.trades = s.trades
            BY <1>1, <3>1, ReturnShape
        <3> QED BY <3>2, <3>3 DEF Transfers
    <2>4. ASSUME NEW a \in Account, NEW n \in Quantity,
                 Becomes(settleReservation(s, id, a, owner, r, n), t)
          PROVE  Solid(s, t) /\ Transfers(s, t)
        <3>1. n \in Nat
            BY MarketAssumption
        <3>2. t = settleReservation(s, id, a, owner, r, n)
            BY <2>4 DEF Becomes
        <3>3. Solid(s, t)
            BY <1>1, <3>1, <3>2, ReservationSolid
        <3> DEFINE covered == n <= Balance(s, ReservationAccount(id), r)
                   guarded == Require(s, covered)
                   u == Post(guarded, ReservationAccount(id), OwnAccount(a), r, n)
        <3>4. t = Return(u, ReservationAccount(id), OwnAccount(owner), r)
            BY <3>2 DEF settleReservation
        <3>5. covered \in BOOLEAN
            OBVIOUS
        <3> HIDE DEF covered
        <3>6. /\ Shape(guarded) /\ guarded.offers = s.offers /\ guarded.bids = s.bids
              /\ guarded.trades = s.trades
            BY <1>1, <3>5, Required
        <3> HIDE DEF guarded
        <3>7. Shape(u) /\ u.offers = s.offers /\ u.bids = s.bids /\ u.trades = s.trades
            BY <3>6, PostShape
        <3> HIDE DEF u
        <3>8. t.offers = s.offers /\ t.bids = s.bids /\ t.trades = s.trades
            BY <3>4, <3>7, ReturnShape
        <3> QED BY <3>3, <3>8 DEF Transfers
    <2> QED BY <1>3, <2>3, <2>4
<1>4. ASSUME NEW o \in Order \ DOMAIN s.offers, NEW a \in Account, NEW r \in Goods,
             NEW n \in Quantity, NEW least \in Quantity, NEW price \in Price,
             NEW expiresAt \in Time,
             Becomes(placeOffer(s, o, NewOffer(a, r, n, least, price, expiresAt)), t)
      PROVE  Flow(s, t, t) /\ Grown(s, t)
    <2> DEFINE offer == NewOffer(a, r, n, least, price, expiresAt)
    <2>1. offer \in OfferRecord /\ offer.remaining = offer.quantity
        BY MarketAssumption DEF NewOffer, OfferRecord
    <2> HIDE DEF offer
    <2> QED BY <1>4, <2>1, OfferFlows DEF Becomes, offer
<1>5. ASSUME NEW b \in Order \ DOMAIN s.bids, NEW a \in Account, NEW r \in Goods,
             NEW n \in Quantity, NEW price \in Price, NEW expiresAt \in Time,
             Becomes(placeBid(s, b, NewBid(a, r, n, price, expiresAt)), t)
      PROVE  Flow(s, t, t) /\ Grown(s, t)
    <2> DEFINE bid == NewBid(a, r, n, price, expiresAt)
    <2>1. n \in Nat /\ price \in Nat \ {0} /\ expiresAt \in Nat
        BY MarketAssumption
    <2>2. n * price \in Nat
        BY <2>1
    <2>3. /\ bid \in BidRecord /\ bid.remaining = bid.quantity
          /\ bid.reservedCredits = bid.quantity * bid.maxUnitPrice
        BY <2>1, <2>2 DEF NewBid, BidRecord
    <2> HIDE DEF bid
    <2> QED BY <1>5, <2>3, BidFlows DEF Becomes, bid
<1>6. ASSUME NEW o \in DOMAIN s.offers, Becomes(cancelOffer(s, o), t)
      PROVE  Passed(s, t)
    BY <1>6, OfferCancelled, OfferPasses DEF Becomes
<1>7. ASSUME NEW b \in DOMAIN s.bids, Becomes(cancelBid(s, b), t)
      PROVE  Passed(s, t)
    BY <1>7, BidCancelled, BidPasses DEF Becomes
<1>8. ASSUME NEW now \in Time, Becomes(expire(s, now), t) \/ Becomes(match(s, now), t)
      PROVE  Passed(s, t)
    BY <1>8, ExpirePasses, MatchPasses DEF Becomes
<1>9. ASSUME NEW id \in DOMAIN s.trades, Becomes(refundTrade(s, id), t)
      PROVE  Passed(s, t)
    BY <1>9, RefundPasses DEF Becomes
<1>10. ASSUME NEW id \in DOMAIN s.trades, Becomes(settleTrade(s, id), t)
       PROVE  Solid(s, t) /\ Transfers(s, t)
    <2>1. id[1] \in DOMAIN s.offers /\ id[2] \in DOMAIN s.bids
        BY DEF Kept, IsBooks
    <2>2. Seller(s, id) \in Account /\ Buyer(s, id) \in Account
        BY <2>1 DEF Kept, IsBooks, OfferRecord, BidRecord, Seller, Buyer
    <2>3. t = CloseTrade(s, id, Buyer(s, id), Seller(s, id), "settled") /\ t.ok
        BY <1>10 DEF Becomes, settleTrade
    <2>4. Solid(s, t)
        BY <2>2, <2>3, TradeSolid
    <2>5. s.trades[id].state = "escrowed" /\ id \in DOMAIN t.trades /\ t.trades[id].state = "settled"
        BY <2>2, <2>3, TradeClosed
    <2>6. id \in SettledIn(t) /\ id \notin SettledIn(s)
        BY <2>5 DEF SettledIn
    <2> QED BY <2>4, <2>6 DEF Transfers
<1>11. Flow(s, t, t) => Solid(s, t)
    BY DEF Flow, Solid
<1>12. Passed(s, t) => Solid(s, t) /\ Flow(s, t, t) /\ Grown(s, t)
    BY PassedFlows
<1> QED
    BY <1>2, <1>3, <1>4, <1>5, <1>6, <1>7, <1>8, <1>9, <1>10, <1>11, <1>12 DEF Leads

(* An exchange without accounts holds nothing. *)
LEMMA EmptyCovered == Rich(Empty) /\ Covered(Empty) /\ Barred(Empty)
<1>1. Rich(Empty)
    BY EmptyKept, PassedNone DEF Kept
<1>2. /\ \A h \in Holder, r \in Resource : Balance(Empty, h, r) = 0
      /\ \A r \in Resource : Empty.minted[r] = 0
    BY DEF Empty, Balance
<1>3. Covered(Empty)
    <2> SUFFICES ASSUME NEW r \in Resource, NEW E \in SUBSET Holder, IsFiniteSet(E)
                 PROVE  Together(Empty, E, r) <= 0
        BY <1>2, MarketAssumption DEF Covered
    <2>1. IsFiniteSet({}) /\ Together(Empty, {}, r) = 0
        BY FS_EmptySet, TogetherStep
    <2>2. \A h \in E : Balance(Empty, h, r) = 0
        BY <1>2
    <2>3. Together(Empty, {}, r) = Together(Empty, E, r)
        BY <2>1, <2>2, HeldSame
    <2> QED BY <2>1, <2>3
<1>4. Barred(Empty)
    <2>1. \A h \in OnlyCredits : h \in Holder
        BY Holders DEF OnlyCredits
    <2> QED BY <1>2, <2>1, Holders DEF Barred
<1> QED
    BY <1>1, <1>3, <1>4

\* The escrows keep the promises, and nobody holds what was not minted.
Funded(s) == Kept(s) /\ Covered(s) /\ Barred(s)

(* In every state of the exchange. *)
LEMMA FundedStep == Funded(books) /\ [Next]_books => Funded(books)'
<1> SUFFICES ASSUME Funded(books), [Next]_books PROVE Funded(books')
    OBVIOUS
<1>1. CASE Next
    <2>1. Leads(books, books') /\ Kept(books)
        BY <1>1, NextLeads DEF Funded
    <2>2. Kept(books') /\ Solid(books, books')
        BY <2>1, LeadsKept, LeadsFlows
    <2> QED BY <2>2 DEF Funded, Solid
<1>2. CASE UNCHANGED books
    BY <1>2
<1> QED
    BY <1>1, <1>2

(* So always. *)
LEMMA FundedAlways == Spec => []Funded(books)
<1>1. Init => Funded(books)
    BY EmptyKept, EmptyCovered DEF Init, Funded
<1> QED
    BY <1>1, FundedStep, PTL DEF Spec

(* No account holds more than was minted. *)
LEMMA CoveredBalance ==
    ASSUME NEW s, Rich(s), Covered(s), NEW h \in Holder, NEW r \in Resource
    PROVE  Balance(s, h, r) <= MaxMinted
<1>1. IsFiniteSet({h}) /\ IsFiniteSet({}) /\ {h} \in SUBSET Holder
    BY FS_Singleton, FS_EmptySet
<1>2. Balance(s, h, r) \in Nat /\ s.minted[r] \in Nat
    BY RichBalance
<1>3. Together(s, {h}, r) = Balance(s, h, r) + Together(s, {h} \ {h}, r)
    BY <1>1, <1>2, TogetherAdd
<1>4. Together(s, {}, r) = 0
    BY <1>1, TogetherStep
<1>5. {h} \ {h} = {}
    OBVIOUS
<1>6. Together(s, {h}, r) = Balance(s, h, r)
    BY <1>2, <1>3, <1>4, <1>5
<1>7. Together(s, {h}, r) <= s.minted[r] /\ s.minted[r] <= MaxMinted
    BY <1>1 DEF Covered
<1> QED
    BY <1>2, <1>6, <1>7, MarketAssumption

(* So validateState does not refuse what a round leaves. *)
LEMMA FundedExhausts == Funded(books) => MatchExhausts
<1> SUFFICES ASSUME Funded(books), MaxMinted <= MaxSafe, NEW now \in Time
             PROVE  LET after == match(books, now)
                    IN  /\ after.ok /\ validateState(after)
                        /\ \A b \in Live(after.bids, now), o \in Live(after.offers, now) :
                            ~ Meets(after.bids[b], after.offers[o])
    BY DEF MatchExhausts
<1> DEFINE t == match(books, now)
<1>1. Kept(books) /\ Covered(books)
    BY DEF Funded
<1>2. /\ t.ok
      /\ \A b \in Live(t.bids, now), o \in Live(t.offers, now) : ~ Meets(t.bids[b], t.offers[o])
    BY <1>1, KeptExhausts DEF RoundExhausts
<1>3. Rich(t) /\ Covered(t)
    BY <1>1, MatchPasses DEF Passed, Flow
<1> HIDE DEF t
<1>4. ASSUME NEW h \in Holder, NEW r \in Resource PROVE t.balance[<<h, r>>] <= MaxSafe
    <2>1. Balance(t, h, r) <= MaxMinted /\ Balance(t, h, r) \in Nat
        BY <1>3, CoveredBalance, RichBalance
    <2> QED BY <2>1, MarketAssumption DEF Balance
<1>5. validateState(t)
    BY <1>4 DEF validateState
<1> QED
    BY <1>2, <1>5 DEF t

(* What a step moves between owners. *)
LEMMA FundedTransfers ==
    ASSUME Funded(books), Funded(books'), [Next]_books, Orders' # Orders, Settled' = Settled,
           NEW a \in Account, NEW r \in Resource
    PROVE  Holdings(books', a, r) = Holdings(books, a, r)
<1>1. Leads(books, books')
    BY NextLeads DEF Orders
<1>2. /\ Kept(books) /\ Barred(books) /\ Kept(books') /\ Barred(books')
      /\ IsBooks(books) /\ IsBooks(books')
    BY DEF Funded, Kept
<1>3. ~ Transfers(books, books')
    BY DEF Transfers, Orders, Settled, SettledIn
<1>4. Flow(books, books', books') /\ Grown(books, books')
    BY <1>1, <1>2, <1>3, LeadsFlows
<1>5. Grown(books', books')
    BY DEF Grown
<1>6. Holdings(books, a, r) = Together(books, Wide(books', a), r)
    BY <1>2, <1>4, EstateHolds
<1>7. Holdings(books', a, r) = Together(books', Wide(books', a), r)
    BY <1>2, <1>5, EstateHolds
<1> QED
    BY <1>4, <1>6, <1>7 DEF Flow

(* However the operations follow one another, what any accounts hold together *)
(* of a resource is no more than was minted of it.                            *)
THEOREM OnlyMintedIsHeld == Spec => []Covered(books)
<1>1. Funded(books) => Covered(books)
    BY DEF Funded
<1> QED
    BY <1>1, FundedAlways, PTL

(* If no more is minted of a resource than a safe number, a round of matching *)
(* at any instant and on any open orders neither throws nor is refused by     *)
(* validateState, and leaves nothing that could trade.                        *)
THEOREM MatchingNeverStops == Spec => []MatchExhausts
<1> QED
    BY FundedExhausts, FundedAlways, PTL

(* Placing, matching, cancelling, expiring and refunding leave every account, *)
(* with its escrows, what it had of every resource.                           *)
THEOREM OnlySettlementMoves == Spec => OnlySettlementTransfers
<1>1. Funded(books) /\ Funded(books)' /\ [Next]_books =>
          [Orders' # Orders /\ Settled' = Settled
             => \A a \in Account, r \in Resource : Holdings(books', a, r) = Holdings(books, a, r)]_books
    BY FundedTransfers
<1> QED
    BY <1>1, FundedAlways, PTL DEF Spec, OnlySettlementTransfers
=============================================================================
