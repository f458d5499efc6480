------------------------------- MODULE Feeds --------------------------------
(***************************************************************************)
(* What the feeds of items owe their readers and one another: the page of  *)
(* the catalog and its total, the catalog, /v1/items, /v3/catalog/items    *)
(* and the Shop answer from the same tables by different queries.          *)
(***************************************************************************)
EXTENDS Catalog, Shop

CONSTANTS
  Filters, \* the catalog filters tried
  Asks,    \* the Shop filters tried: [min, max, source]
  Rates    \* the rates of MANA in USD tried; 0 is no rate

ASSUME FeedsAssumption ==
  /\ \A f \in Filters : /\ f \in CatalogFilters /\ ~Refused(f)
                        /\ f.min < MaxNumeric /\ f.max < MaxNumeric
  /\ \A f \in Asks : \A m \in f.min \cup f.max : m \in Int
  /\ Rates \subseteq Nat

Categories == {CategoryOf[x] : x \in Items \cup Tokens}
NoAsk == [min |-> {}, max |-> {}, source |-> {}]
Plain == [v2 |-> TRUE, isOnSale |-> EitherSale, onlyMinting |-> FALSE, onlyListing |-> FALSE,
          soldOut |-> FALSE, min |-> 0, max |-> 0, ids |-> {}, search |-> {}]

\* Requests of /v2/catalog without price limits, for all items or those on sale: the
\* two queries, written apart and over different joins, count exactly what is shown.
Unpriced(f) == /\ f.v2 /\ ~f.onlyMinting /\ f.isOnSale # NotOnSale
               /\ f.min = 0 /\ f.max = 0
TotalIsExact ==
  \A f \in Filters : Unpriced(f) => Fetch(f).total = Cardinality(Fetch(f).data)

\* With price limits or onlyMinting the total of /v2/catalog still misses no row of its
\* pages: a client that walks to the total sees them all. (Except with onlyListing and a
\* limit: the page then overlooks an item's own order outside the limits, the count does not.)
NoRowUncounted ==
  \A f \in Filters :
    f.v2 /\ f.isOnSale # NotOnSale /\ (f.onlyListing => f.min = 0 /\ f.max = 0)
      => \A i \in Items : Shown(i, f) => Counted(i, f)

\* Whatever /v2/catalog shows as on sale can be bought at a price within each limit that was
\* asked for, from the store, by an order on a unit or by an open trade; and the least price
\* its card tells is such a price, and above the lower limit. (The card's price apart where
\* only the marketplace contract may mint: see LeastPriceIsPaid.)
OffersOf(i) ==
  {ItemPrice[j] : j \in {m \in {i} : StoreSells(m)}}
  \cup OrderPrices(i, Plain) \cup PricesOf(OffchainOrders(i, Plain))
OnSaleInRange ==
  \A f \in Filters : f.v2 /\ f.isOnSale = OnSale =>
    \A i \in Items : Shown(i, f) =>
      /\ f.min # 0 => \E p \in OffersOf(i) : p >= f.min
      /\ f.max # 0 => \E p \in OffersOf(i) : p <= f.max
      /\ (items[i].v3 => items[i].store)
           => MinPriceCaseWithTrades(i, f) \subseteq {p \in OffersOf(i) : p >= f.min}

\* /v1/items has a row for each open order of an item, /v2/catalog has one row: they agree on
\* whether it is sold first hand, and the catalog tells the price of the dearest of those rows,
\* whatever of its trades, its minters and its supply the view is behind of.
ItemsAndCatalogAgree ==
  \A i \in Items :
    /\ \A row \in RowsOf(i, {}) : IsOnSaleRow(row) <=> CatalogOnSale(i, Plain)
    /\ CatalogPrice(i, Plain) = Max({ItemRowPrice(row) : row \in RowsOf(i, {})})

\* A listing is in the unified feed exactly when the credits it shows, rounded up, are
\* within the limits: the query compares USD wei, before any rounding. Without limits the
\* feed is that of the Shop and that of the legacy listings, but for what has no price.
CreditsAsAsked ==
  \A rate \in Rates :
    /\ \A f \in Asks : \A r \in Priced(f, rate) :
         r \in UnifiedListings(f, rate) <=> /\ \A m \in f.min : Credits(r, rate) >= m
                                            /\ \A m \in f.max : Credits(r, rate) <= m
    /\ UnifiedListings(NoAsk, rate)
         = ShopListings(NoAsk) \cup {r \in LegacyListings : Credits(r, rate) > 0}

\* While an open order sells an item first hand, its card in the Shop is one of the rows of its
\* page (/v3/catalog/items), at the same price, however cheap a unit is second hand; and no row
\* is cheaper than the card, unless the card's price is in USD and the row's in MANA.
HeadlineIsItemPrice ==
  \A rate \in Rates, i \in Items :
    LET sold == {row \in RowsOf(i, {}) : TradeCounts(row) /\ PriceCredits(row, rate) > 0}
    IN  items[i].available > 0 /\ sold # {} =>
          \E h \in ShopItems(NoAsk, rate), row \in sold :
            /\ row.trade = {h.trade} /\ Credits(h, rate) = PriceCredits(row, rate)
            /\ \A other \in sold : PriceCredits(other, rate) < PriceCredits(row, rate)
                 => h.trade.pegged /\ \A t \in other.trade : ~t.pegged

-----------------------------------------------------------------------------
(* Not so: what the code says of itself, and does not do. *)

\* "anything not currently for sale (available = 0, no open minter) -> 0": asking
\* /v3/catalog/items for the category of an item leaves its price what it is.
CategoryKeepsPrice ==
  \A rate \in Rates, c \in Categories :
    LET all == [category |-> {}, isOnSale |-> FALSE, soldOut |-> FALSE, ids |-> {}]
        PricesIn(R) == {<<row.item, PriceCredits(row, rate)>> : row \in R}
    IN  PricesIn(GetItems([all EXCEPT !.category = {c}]))
          = PricesIn({row \in GetItems(all) : CategoryOf[row.item] = c})

\* (Not among the runs.)  "Item amount is the minimum value for public_item_order": of several
\* open orders of an item the catalog tells the price of the cheapest.
CatalogTellsLeast ==
  \A i \in Items :
    items[i].v3 /\ items[i].available > 0 /\ ItemsListings(i, Plain) # {}
      => CatalogPrice(i, Plain) = Min(PricesOf(ItemsListings(i, Plain)))

\* (Not among the runs.)  The least price on the card of an item on sale is paid somewhere: but
\* the price of the store counts as well where only the marketplace contract may mint, and the
\* store does not sell.
LeastPriceIsPaid ==
  \A i \in Items : LET f == [Plain EXCEPT !.isOnSale = OnSale]
                   IN  Shown(i, f) => MinPriceCaseWithTrades(i, f) \subseteq OffersOf(i)

\* "Not on sale: no minting AND no listings (neither onchain nor offchain)", and the total
\* of such a request is the length of its data.
NotOnSaleTotal ==
  LET f == [Plain EXCEPT !.isOnSale = NotOnSale]
  IN  Fetch(f).total = Cardinality(Fetch(f).data)

\* "Uses `first` and `skip` parameters": a page of what is not on sale, newest first, is that
\* part of the rows. (So only for skip 0, and while every item is shown.)
NewestPages(byAge) ==
  LET f == [Plain EXCEPT !.isOnSale = NotOnSale]
  IN  \A first, skip \in 1 .. Len(byAge) :
        NewestPage(f, byAge, first, skip) = PageOf(SelectSeq(byAge, LAMBDA i : Shown(i, f)), first, skip)
=============================================================================
