------------------------------- MODULE Items --------------------------------
(***************************************************************************)
(* GET /v1/items and GET /v3/catalog/items: every item once, or once per   *)
(* open trade that sells it first hand, with its price and, in v3, with    *)
(* that price in credits.                                                  *)
(***************************************************************************)
EXTENDS Market

CONSTANTS
  CategoryOf, \* the category of each item and token
  PerCredit   \* USD wei per credit

ASSUME ItemsAssumption ==
  /\ DOMAIN CategoryOf = Items \cup Tokens
  /\ PerCredit \in Nat \ {0}

CeilDiv(a, b) == (a + b - 1) \div b

\* The column sent_nft_category: that of the token sold, NULL when an item is sold.
SentNftCategory(r) == IF IsItemOrder(r.trade) THEN {} ELSE {CategoryOf[r.trade.sent]}

\* unified_trades, and its rows that join an item. category is {} when not asked for.
UnifiedTrades(category) ==
  {r \in view : category # {} => SentNftCategory(r) = category}
TradesOfItem(i, category) ==
  {r.trade : r \in {q \in UnifiedTrades(category) : IsItemOrder(q.trade) /\ q.trade.sent = i}}

\* A row: an item and the set of the trade joined to it, if any.
RowsOf(i, category) ==
  LET T == TradesOfItem(i, category)
  IN  IF T = {} THEN {[item |-> i, trade |-> {}]} ELSE {[item |-> i, trade |-> {t}] : t \in T}

TradeCounts(row) == row.trade # {} /\ items[row.item].v3

IsOnSaleRow(row) ==
  (TradeCounts(row) \/ items[row.item].store) /\ items[row.item].available > 0

\* As a bug would have it: the store goes first.
StoreBeforeTrade(row) ==
  IF items[row.item].available = 0 THEN 0
  ELSE IF items[row.item].store THEN ItemPrice[row.item]
  ELSE IF TradeCounts(row) THEN (CHOOSE t \in row.trade : TRUE).price ELSE 0

\* fromDBItemToItem: an open trade goes before the store.
ItemRowPrice(row) ==
  IF items[row.item].available = 0 THEN 0
  ELSE IF TradeCounts(row) THEN (CHOOSE t \in row.trade : TRUE).price
  ELSE IF items[row.item].store THEN ItemPrice[row.item] ELSE 0

\* A rate that is not a positive number counts as 0.
UsdOf(t, rate) == IF t.pegged THEN t.price ELSE t.price * rate

PriceCredits(row, rate) ==
  CASE items[row.item].available > 0 /\ TradeCounts(row) ->
         CeilDiv(UsdOf(CHOOSE t \in row.trade : TRUE, rate), PerCredit)
    [] items[row.item].available > 0 /\ ~TradeCounts(row) /\ items[row.item].store ->
         CeilDiv(ItemPrice[row.item] * rate, PerCredit)
    [] OTHER -> 0

\* f is [category, isOnSale, soldOut, ids]: the filters on what an item is like go by ids.
ItemsWhere(row, f) ==
  /\ f.category # {} => CategoryOf[row.item] \in f.category
  /\ f.soldOut => items[row.item].available = 0
  /\ f.isOnSale => IsOnSaleRow(row)
  /\ f.ids # {} => row.item \in f.ids

GetItems(f) ==
  {row \in UNION {RowsOf(i, f.category) : i \in Items} : ItemsWhere(row, f)}
=============================================================================
