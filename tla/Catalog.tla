------------------------------ MODULE Catalog -------------------------------
(***************************************************************************)
(* GET /v1/catalog and /v2/catalog: the query for a page of items, the     *)
(* separate query for their total, and the mapping of rows to items.  A    *)
(* filter record f says which of the two versions asks (f.v2).  MIN, MAX,  *)
(* LEAST and GREATEST leave NULLs out; a comparison with NULL is not true. *)
(***************************************************************************)
EXTENDS Market, Sequences

CONSTANTS
  MaxNumeric, \* MAX_NUMERIC_NUMBER: above every price asked; as an item's, it is no price
  Words,      \* the words of each item: [name, tags, utility], each a set
  UtilityWord \* the word `utility', which finds whatever has a utility

ASSUME CatalogAssumption ==
  /\ IsFiniteSet(Items)
  /\ MaxNumeric \in Nat
  /\ \A i \in Items : ItemPrice[i] <= MaxNumeric
  /\ \A t \in Trades : t.price < MaxNumeric
  /\ \A p \in Prices : p < MaxNumeric

EitherSale == BOOLEAN
OnSale == {TRUE}
NotOnSale == {FALSE}

\* What a request may ask. isOnSale is the set of the values the parameter allows,
\* 0 is no price limit, search is a set of at most one word, ids {} is no filter.
CatalogFilters ==
  [v2 : BOOLEAN, isOnSale : {EitherSale, OnSale, NotOnSale}, onlyMinting : BOOLEAN,
   onlyListing : BOOLEAN, soldOut : BOOLEAN, min : Nat, max : Nat,
   ids : SUBSET Items, search : SUBSET STRING]

InRange(p, f) == (f.min # 0 => p >= f.min) /\ (f.max # 0 => p <= f.max)
Least(S) == IF S = {} THEN {} ELSE {Min(S)}
Greatest(S) == IF S = {} THEN {} ELSE {Max(S)}
AtLeast(S, p) == \E x \in Least(S) : x >= p
AtMost(S, p) == \E x \in Greatest(S) : x <= p
MaySell(i) == items[i].store \/ items[i].v3
Offered(i) == items[i].available > 0 /\ MaySell(i)
StoreSells(i) == items[i].store /\ items[i].available > 0

-----------------------------------------------------------------------------
(* The parts that the page query joins. *)

\* offchain_orders: the open trades of an item, per contract and item id.
TradesOf(i) == {r \in view : i \in SoldItem(r.trade) /\ 0 \notin r.available}
OffchainOrders(i, f) ==
  {r \in TradesOf(i) : /\ f.onlyMinting => r.trade.type = "public_item_order"
                       /\ InRange(r.trade.price, f)}
OfType(R, type) == {r \in R : r.trade.type = type}
NftsListings(i, f) == OfType(OffchainOrders(i, f), "public_nft_order")
ItemsListings(i, f) == OfType(OffchainOrders(i, f), "public_item_order")
PricesOf(R) == {r.trade.price : r \in R}
OpenItemTradePrice(i, f) == Greatest(PricesOf(ItemsListings(i, f)))

\* nfts_with_orders: the open orders of the legacy marketplace, per item.
OrdersOf(i) == {n \in Tokens \X UNION {orders[k] : k \in Tokens} :
                  i \in ItemOf[n[1]] /\ n[2] \in orders[n[1]]}
NftsWithOrders(i, f) == {n \in OrdersOf(i) : InRange(n[2].price, f)}
OrderPrices(i, f) == {n[2].price : n \in NftsWithOrders(i, f)}

-----------------------------------------------------------------------------
(* The conditions of the page query, one operator per filter. *)

ItemLevel(i, f) ==
  /\ items[i].approved
  /\ f.soldOut => items[i].available = 0
  /\ f.ids # {} => i \in f.ids

\* As a bug would have it: the supply is not looked at.
MintableSoldOut(i, f) == items[i].store \/ (items[i].v3 /\ OffchainOrders(i, f) # {})

\* getIsOnSale and getIsOnSaleWithTrades. A COUNT is NULL only where there is no group.
Mintable(i, f) ==
  /\ items[i].store \/ (items[i].v3 /\ OffchainOrders(i, f) # {})
  /\ items[i].available > 0
IsOnSale(i, f) ==
  \/ items[i].store /\ items[i].available > 0
  \/ NftsWithOrders(i, f) # {}
IsOnSaleWithTrades(i, f) ==
  \/ Mintable(i, f)
  \/ ~f.onlyMinting /\ (NftsWithOrders(i, f) # {} \/ OffchainOrders(i, f) # {})
IsNotOnSale(i, f) ==
  /\ ~items[i].store \/ items[i].available = 0
  /\ NftsWithOrders(i, f) = {}
IsNotOnSaleWithTrades(i, f) ==
  \/ ~MaySell(i) \/ items[i].available = 0
  \/ items[i].v3 /\ NftsWithOrders(i, f) = {} /\ OffchainOrders(i, f) = {}
SaleWhere(i, f) ==
  CASE f.isOnSale = EitherSale -> TRUE
    [] f.isOnSale = OnSale -> IF f.v2 THEN IsOnSaleWithTrades(i, f) ELSE IsOnSale(i, f)
    [] OTHER -> IF f.v2 THEN IsNotOnSaleWithTrades(i, f) ELSE IsNotOnSale(i, f)

\* getMinPriceWhere, getMaxPriceWhere: min_price and max_price are those of the orders.
MinPriceWhere(i, f) ==
  CASE f.onlyMinting -> ItemPrice[i] >= f.min /\ ItemPrice[i] # MaxNumeric
    [] ~f.onlyMinting /\ f.onlyListing -> AtLeast(OrderPrices(i, f), f.min)
    [] OTHER -> \/ AtLeast(OrderPrices(i, f), f.min)
                \/ ItemPrice[i] >= f.min /\ items[i].available > 0 /\ MaySell(i)
                \/ f.v2 /\ AtLeast(PricesOf(NftsListings(i, f)), f.min)
MaxPriceWhere(i, f) ==
  CASE f.onlyMinting -> ItemPrice[i] <= f.max
    [] ~f.onlyMinting /\ f.onlyListing -> AtMost(OrderPrices(i, f), f.max)
    [] OTHER -> \/ AtMost(OrderPrices(i, f), f.max)
                \/ ItemPrice[i] <= f.max /\ items[i].available > 0 /\ MaySell(i)
                \/ f.v2 /\ AtMost(PricesOf(NftsListings(i, f)), f.max)

OnlyListings(i, f) ==
  IF f.v2
  THEN /\ \/ ~MaySell(i)
          \/ items[i].store /\ items[i].available = 0
          \/ items[i].v3 /\ ItemsListings(i, f) = {}
       /\ NftsWithOrders(i, f) # {} \/ NftsListings(i, f) # {}
  ELSE /\ items[i].store => items[i].available = 0
       /\ NftsWithOrders(i, f) # {}
OnlyMinting(i, f) ==
  IF f.v2 THEN Mintable(i, f) ELSE items[i].store /\ items[i].available > 0

Shown(i, f) ==
  /\ ItemLevel(i, f) /\ SaleWhere(i, f)
  /\ f.min # 0 => MinPriceWhere(i, f)
  /\ f.max # 0 => MaxPriceWhere(i, f)
  /\ f.onlyListing => OnlyListings(i, f)
  /\ f.onlyMinting => OnlyMinting(i, f)

\* With onlyMinting the orders are not joined, and PostgreSQL refuses a condition on them.
Refused(f) == f.v2 /\ f.onlyMinting /\ (f.isOnSale = NotOnSale \/ f.onlyListing)

-----------------------------------------------------------------------------
(* The page queries: the columns min_price and max_price, and the rows. *)

MinPriceCase(i, f) ==
  Least(OrderPrices(i, f) \cup {p \in {ItemPrice[i]} : Offered(i) /\ p >= f.min})
MaxPriceCase(i, f) ==
  Greatest((IF f.onlyMinting THEN {} ELSE OrderPrices(i, f))
           \cup {p \in {ItemPrice[i]} : StoreSells(i) /\ (f.max # 0 => p <= f.max)})

\* With onlyMinting the orders are not joined. There is always a least price: MaxNumeric.
OfferedToo(i, f) ==
  PricesOf(NftsListings(i, f)) \cup OpenItemTradePrice(i, f)
  \cup (IF f.onlyMinting THEN {} ELSE OrderPrices(i, f))
MinPriceCaseWithTrades(i, f) ==
  {Min({MaxNumeric} \cup OfferedToo(i, f)
       \cup {p \in {ItemPrice[i]} : Offered(i) /\ p >= f.min})}
MaxPriceCaseWithTrades(i, f) ==
  Greatest(OfferedToo(i, f)
           \cup {p \in {ItemPrice[i]} : Offered(i) /\ (f.max # 0 => p <= f.max)})

CatalogRows(f) ==
  {[item |-> i, min |-> MinPriceCase(i, f), max |-> MaxPriceCase(i, f)] :
     i \in {j \in Items : Shown(j, f)}}
CatalogRowsWithTrades(f) ==
  {[item |-> i, min |-> MinPriceCaseWithTrades(i, f), max |-> MaxPriceCaseWithTrades(i, f)] :
     i \in {j \in Items : Shown(j, f)}}

-----------------------------------------------------------------------------
(* The query for the total, the same for both versions. *)

HasOrder(i, lo, hi) == \E n \in OrdersOf(i) : lo <= n[2].price /\ n[2].price <= hi
HasTrade(i, types, lo, hi) ==
  \E r \in TradesOf(i) : r.trade.type \in types /\ lo <= r.trade.price /\ r.trade.price <= hi
NftOrders == {"public_nft_order"}
ItemOrders == {"public_item_order"}

\* As a bug would have it: the total of before there were trades.
SaleCountedByOrders(i, f) ==
  LET listed == HasOrder(i, 0, MaxNumeric)
  IN  CASE f.isOnSale = EitherSale -> TRUE
        [] f.isOnSale = OnSale -> StoreSells(i) \/ listed
        [] OTHER -> ~StoreSells(i) /\ ~listed

SaleCounted(i, f) ==
  LET listed == HasOrder(i, 0, MaxNumeric) \/ HasTrade(i, TradeTypes, 0, MaxNumeric)
  IN  CASE f.isOnSale = EitherSale -> TRUE
        [] f.isOnSale = OnSale -> StoreSells(i) \/ listed
        [] OTHER -> ~StoreSells(i) /\ ~listed

MintingCounted(i, f) ==
  \/ StoreSells(i)
  \/ HasTrade(i, ItemOrders, f.min, IF f.max = 0 THEN MaxNumeric ELSE f.max)

ListingCounted(i, f) ==
  /\ \/ ~MaySell(i)
     \/ items[i].store /\ items[i].available = 0
     \/ items[i].v3 /\ ~HasTrade(i, ItemOrders, 0, MaxNumeric)
  /\ HasOrder(i, 0, MaxNumeric) \/ HasTrade(i, NftOrders, 0, MaxNumeric)

\* As a bug would have it: trades of units do not count for a limit.
PriceCountedByOrders(i, f, lo, hi) ==
  \/ lo <= ItemPrice[i] /\ ItemPrice[i] <= hi /\ items[i].available > 0 /\ MaySell(i)
  \/ HasOrder(i, lo, hi) \/ HasTrade(i, ItemOrders, lo, hi)

\* Each limit is tested for itself: one offer may meet one limit, another the other. The
\* limit from below comes with hi = MaxNumeric.
PriceCounted(i, f, lo, hi) ==
  CASE f.onlyMinting -> /\ lo <= ItemPrice[i] /\ ItemPrice[i] <= hi
                        /\ hi = MaxNumeric => ItemPrice[i] # MaxNumeric
    [] ~f.onlyMinting /\ f.onlyListing -> HasOrder(i, lo, hi) \/ HasTrade(i, NftOrders, lo, hi)
    [] OTHER -> \/ /\ lo <= ItemPrice[i] /\ ItemPrice[i] <= hi
                   /\ items[i].available > 0 /\ MaySell(i)
                \/ HasOrder(i, lo, hi) \/ HasTrade(i, TradeTypes, lo, hi)

Counted(i, f) ==
  /\ ItemLevel(i, f) /\ SaleCounted(i, f)
  /\ f.onlyMinting => MintingCounted(i, f)
  /\ f.onlyListing => ListingCounted(i, f)
  /\ f.min # 0 => PriceCounted(i, f, f.min, MaxNumeric)
  /\ f.max # 0 => PriceCounted(i, f, 0, f.max)

-----------------------------------------------------------------------------
(* Searching, and the answer. *)

\* Items with the word in their name or among their tags, and those with such a utility.
FoundByTagOrName(w) == {i \in Items : w \in Words[i].name \cup Words[i].tags}
FoundByUtility(w) ==
  {i \in Items : IF w = UtilityWord THEN Words[i].utility # {} ELSE w \in Words[i].utility}
Found(w) == FoundByUtility(w) \cup FoundByTagOrName(w)

\* The ids found are added to those asked for.
WithIds(f) == [f EXCEPT !.ids = @ \cup UNION {Found(w) : w \in f.search}]

Fetch(f) ==
  LET g == WithIds(f)
  IN  IF f.search # {} /\ g.ids = {}
      THEN [data |-> {}, total |-> 0]
      ELSE [data  |-> IF g.v2 THEN CatalogRowsWithTrades(g) ELSE CatalogRows(g),
            total |-> Cardinality({i \in Items : Counted(i, g)})]

\* A page of what is not on sale, newest first: top_n_items is cut from the items alone, and
\* the rows that are joined to it are cut again. byAge is the items from the newest on.
PageOf(s, first, skip) == {s[n] : n \in {m \in DOMAIN s : skip < m /\ m <= skip + first}}
NewestPage(f, byAge, first, skip) ==
  LET topItems == PageOf(SelectSeq(byAge, LAMBDA i : ItemLevel(i, f)), first, skip)
  IN  PageOf(SelectSeq(byAge, LAMBDA i : i \in topItems /\ Shown(i, f)), first, skip)

-----------------------------------------------------------------------------
(* The item a row is mapped to. *)

CatalogPrice(i, f) ==
  IF items[i].available = 0 THEN 0
  ELSE IF f.v2 /\ items[i].v3 /\ ItemsListings(i, f) # {} THEN Max(OpenItemTradePrice(i, f))
  ELSE IF items[i].store THEN ItemPrice[i] ELSE 0
CatalogOnSale(i, f) ==
  /\ items[i].store \/ (f.v2 /\ items[i].v3 /\ ItemsListings(i, f) # {})
  /\ items[i].available > 0
=============================================================================
