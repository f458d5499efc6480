-------------------------------- MODULE Shop --------------------------------
(***************************************************************************)
(* The feeds of the Shop: GET /v3/catalog/shop, unified (per listing and   *)
(* per item), legacy and importable.  All read mv_trades alone: neither    *)
(* the approval nor the minters of an item are looked at, and `available'  *)
(* is the view's.  Prices are in credits, rounded up.                      *)
(***************************************************************************)
EXTENDS Items

\* A price limit in credits as USD wei: floored, negative ones 0.
CreditsToWei(credits) == (IF credits < 0 THEN 0 ELSE credits) * PerCredit

Buyable == {r \in view : 0 \notin r.available}
Native == {r \in Buyable : r.trade.pegged}
Legacy == {r \in Buyable : ~r.trade.pegged}
LegacyPrimary == {r \in Legacy : IsItemOrder(r.trade)}

\* What is asked: [min, max, source], each a set of at most one.
AskedMin(S, x) == \A m \in S : x >= m
AskedMax(S, x) == \A m \in S : x <= m

\* getShopListings, in whole credits; toCredits drops what has no positive price.
ToCredits(r) == IF r.trade.price <= 0 THEN {} ELSE {CeilDiv(r.trade.price, PerCredit)}
ShopRows(f) ==
  {r \in Native : /\ AskedMin({CreditsToWei(m) : m \in f.min}, r.trade.price)
                  /\ AskedMax({CreditsToWei(m) : m \in f.max}, r.trade.price)}
ShopListings(f) == {r \in ShopRows(f) : ToCredits(r) # {}}

\* getImportableListings: what a seller may import, first or second hand.
ImportableListings(seller) == {r \in Legacy : r.trade.signer = seller}

\* getLegacyListings.
LegacyListings == LegacyPrimary

\* buildUnifiedInner: native of both hands, and legacy first hand, at the rate.
Unified(f) ==
  (IF f.source = {"legacy"} THEN {} ELSE Native)
  \cup (IF f.source = {"native"} THEN {} ELSE LegacyPrimary)
Usd(r, rate) == UsdOf(r.trade, rate)
Credits(r, rate) == CeilDiv(Usd(r, rate), PerCredit)

\* As a bug would have it: the limit before the rounding.
CreditsBeforeRounding(r, f, rate) ==
  /\ AskedMin({CreditsToWei(m) : m \in f.min}, Usd(r, rate))
  /\ AskedMax({CreditsToWei(m) : m \in f.max}, Usd(r, rate))

\* The limits are on the price as displayed: above (min - 1) credits is min credits.
CreditsAsked(r, f, rate) ==
  /\ \A m \in f.min : CreditsToWei(m) > 0 => Usd(r, rate) > CreditsToWei(m) - PerCredit
  /\ AskedMax({CreditsToWei(m) : m \in f.max}, Usd(r, rate))

\* getUnifiedListings.
Priced(f, rate) == {r \in Unified(f) : Usd(r, rate) > 0}
UnifiedListings(f, rate) == {r \in Priced(f, rate) : CreditsAsked(r, f, rate)}

\* getShopItems: one row per item, the first of its listings in this order (and not,
\* as a bug would have it, the cheapest).
Group(r, f, rate) == {q \in Priced(f, rate) : SoldItem(q.trade) = SoldItem(r.trade)}
CheapestFirst(r, rate) == <<Usd(r, rate), IF IsItemOrder(r.trade) THEN 0 ELSE 1, 0>>
Rank(r, rate) ==
  <<IF IsItemOrder(r.trade) THEN 0 ELSE 1, IF r.trade.pegged THEN 0 ELSE 1, Usd(r, rate)>>
Before(a, b) ==
  \E n \in 1 .. 3 : a[n] < b[n] /\ \A m \in 1 .. n - 1 : a[m] = b[m]
Headline(R, rate) == CHOOSE r \in R : \A q \in R : ~Before(Rank(q, rate), Rank(r, rate))
ShopItems(f, rate) ==
  {h \in {Headline(Group(r, f, rate), rate) : r \in Priced(f, rate)} : CreditsAsked(h, f, rate)}
=============================================================================
