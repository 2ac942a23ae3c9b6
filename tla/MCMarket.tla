------------------------------ MODULE MCMarket ------------------------------
(* A seller and a buyer of one resource that is traded for credits. *)
EXTENDS Market, TLC

CONSTANTS a1, a2    \* accounts

Grant(s, a, r, n) == Post(s, MintAccount, OwnAccount(a), r, n)

\* Once a1 has been given goods and a2 credits, orders are placed, matched and
\* closed.
Endowed ==
    books = Grant(FoldSet(LAMBDA r, s : Grant(s, a1, r, MaxMinted - 1), Empty, Goods),
                  a2, "credits", MaxMinted)

Trading ==
    \/ PlaceOffer \/ PlaceBid \/ Cancel \/ Expire
    \/ \E now \in Time : Match(now)
    \/ Settle \/ Refund

TradingSpec == Endowed /\ [][Trading]_books
=============================================================================
