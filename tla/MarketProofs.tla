---------------------------- MODULE MarketProofs ----------------------------
(***************************************************************************)
(* Proofs for the feeds of items (Feeds) and for /v1/nfts and /v1/orders   *)
(* (Nfts, Orders), for any items, tokens, trades, prices and requests,     *)
(* however far the view is behind.  Items and catalog agree on an item     *)
(* that is sold, the total of the catalog misses none of its rows, what it *)
(* shows as on sale is so in the limits asked, the feeds of the Shop hold  *)
(* what is within theirs; and the pages of tokens and of orders, some cut  *)
(* before the joins, are together the whole answer, with the orders and    *)
(* the rentals of their rows, though the tables move meanwhile.            *)
(***************************************************************************)
EXTENDS Feeds, Nfts, PagingProofs

(***************************************************************************)
(* 1. The feeds of items.                                                  *)
(***************************************************************************)

Terms == [approved : BOOLEAN, store : BOOLEAN, v3 : BOOLEAN, available : Nat]

Typed ==
  /\ items \in [Items -> Terms]
  /\ open \subseteq Trades
  /\ \A r \in view : r.trade \in Trades

\* Items only sell, so the view's supply is never below theirs.
SupplyBehind ==
  \A r \in view : IsItemOrder(r.trade) =>
    \E n \in Nat : r.available = {n} /\ items[r.trade.sent].available <= n

FeedsInv == Typed /\ SupplyBehind

LEMMA SentIsItem == \A t \in Trades : IsItemOrder(t) => t.sent \in Items
<1> SUFFICES ASSUME NEW t \in Trades, IsItemOrder(t) PROVE t.sent \in Items
    OBVIOUS
<1>1. t.sent \in IF t.type = "public_item_order" THEN Items ELSE Tokens
  BY MarketAssumption
<1> QED BY <1>1 DEF IsItemOrder

LEMMA InitFeeds == Init => FeedsInv
<1> SUFFICES ASSUME Init PROVE FeedsInv
    OBVIOUS
<1>1. items \in [Items -> Terms]
  <2>1. items \in [Items -> [approved : {FALSE}, store : {FALSE}, v3 : {FALSE},
                             available : 1 .. MaxAvailable]]
    BY DEF Init
  <2>2. 1 .. MaxAvailable \subseteq Nat
    BY MarketAssumption
  <2> QED BY <2>1, <2>2 DEF Terms
<1> QED BY <1>1 DEF Init, FeedsInv, Typed, SupplyBehind

-----------------------------------------------------------------------------
(* The steps. *)

\* An event of an item that leaves its supply or lessens it.
LEMMA ItemsChange ==
    ASSUME FeedsInv, items' \in [Items -> Terms],
           \A i \in Items : items'[i].available <= items[i].available,
           open' = open, view' = view
    PROVE  FeedsInv'
<1> USE DEF FeedsInv
<1>1. Typed'
  BY DEF Typed
<1>2. SupplyBehind'
  <2> SUFFICES ASSUME NEW r \in view, IsItemOrder(r.trade)
               PROVE  \E n \in Nat : r.available = {n} /\ items'[r.trade.sent].available <= n
      BY DEF SupplyBehind
  <2>1. PICK n \in Nat : r.available = {n} /\ items[r.trade.sent].available <= n
    BY DEF SupplyBehind
  <2>2. r.trade.sent \in Items
    BY SentIsItem DEF Typed
  <2>3. items[r.trade.sent].available \in Nat /\ items'[r.trade.sent].available \in Nat
    BY <2>2 DEF Typed, Terms
  <2>4. items'[r.trade.sent].available <= n
    BY <2>1, <2>2, <2>3
  <2> QED BY <2>1, <2>4
<1> QED BY <1>1, <1>2

LEMMA MintKeeps ==
    ASSUME FeedsInv, NEW k \in Tokens, NEW u \in Users, Mint(k, u)
    PROVE  FeedsInv'
<1>1. \A i \in Items : items[i] \in Terms
  BY DEF FeedsInv, Typed
<1>2. \A i \in Items : items'[i] \in Terms /\ items'[i].available <= items[i].available
  <2> SUFFICES ASSUME NEW i \in Items
               PROVE  items'[i] \in Terms /\ items'[i].available <= items[i].available
      OBVIOUS
  <2>1. CASE i \in ItemOf[k]
    <3>1. items'[i] = [items[i] EXCEPT !.available = items[i].available - 1]
      BY <2>1 DEF Mint
    <3>2. items[i].available > 0
      BY <2>1 DEF Mint
    <3> QED BY <1>1, <3>1, <3>2 DEF Terms
  <2>2. CASE i \notin ItemOf[k]
    BY <1>1, <2>2 DEF Mint, Terms
  <2> QED BY <2>1, <2>2
<1>3. items' \in [Items -> Terms]
  BY <1>2 DEF Mint
<1> QED BY <1>2, <1>3, ItemsChange DEF Mint

LEMMA MintersKeep ==
    ASSUME FeedsInv, NEW i \in Items, SetMinters(i) \/ SetApproval(i)
    PROVE  FeedsInv'
<1>1. items \in [Items -> Terms] /\ items[i] \in Terms
  BY DEF FeedsInv, Typed
<1>2. \E x \in Terms : x.available = items[i].available /\ items' = [items EXCEPT ![i] = x]
  <2>1. CASE SetMinters(i)
    <3>1. PICK s, v \in BOOLEAN : items' = [items EXCEPT ![i].store = s, ![i].v3 = v]
      BY <2>1 DEF SetMinters
    <3> DEFINE x == [items[i] EXCEPT !.store = s, !.v3 = v]
    <3>2. items' = [items EXCEPT ![i] = x]
      BY <1>1, <3>1
    <3>3. x \in Terms /\ x.available = items[i].available
      BY <1>1 DEF Terms
    <3> QED BY <3>2, <3>3
  <2>2. CASE SetApproval(i)
    <3> DEFINE x == [items[i] EXCEPT !.approved = ~items[i].approved]
    <3>1. items' = [items EXCEPT ![i] = x]
      BY <1>1, <2>2 DEF SetApproval
    <3>2. x \in Terms /\ x.available = items[i].available
      BY <1>1 DEF Terms
    <3> QED BY <3>1, <3>2
  <2> QED BY <2>1, <2>2
<1>3. items' \in [Items -> Terms] /\ \A j \in Items : items'[j].available <= items[j].available
  BY <1>1, <1>2 DEF Terms
<1> QED BY <1>3, ItemsChange DEF SetMinters, SetApproval

LEMMA RefreshKeeps == FeedsInv /\ RefreshView => FeedsInv'
<1> SUFFICES ASSUME FeedsInv, RefreshView PROVE FeedsInv'
    OBVIOUS
<1>1. /\ view' = OpenRows /\ open' = open /\ items' = items
      /\ \A r \in OpenRows : \E t \in open : r = Row(t)
  BY DEF RefreshView, OpenRows
<1>2. \A t \in open : t \in Trades /\ Row(t).trade = t
  BY DEF FeedsInv, Typed, Row
<1>3. Typed'
  BY <1>1, <1>2 DEF FeedsInv, Typed
<1>4. SupplyBehind'
  <2> SUFFICES ASSUME NEW r \in OpenRows, IsItemOrder(r.trade)
               PROVE  \E n \in Nat : r.available = {n} /\ items[r.trade.sent].available <= n
      BY <1>1 DEF SupplyBehind
  <2>1. PICK t \in open : r = Row(t)
    BY <1>1
  <2>2. r.trade = t /\ r.available = {items[t.sent].available}
    BY <2>1 DEF Row
  <2>3. items[t.sent].available \in Nat
    BY <1>2, <2>2, SentIsItem DEF FeedsInv, Typed, Terms
  <2> QED BY <2>2, <2>3
<1> QED BY <1>3, <1>4 DEF FeedsInv

LEMMA FeedsInductive == FeedsInv /\ [Next]_vars => FeedsInv'
<1> SUFFICES ASSUME FeedsInv, [Next]_vars PROVE FeedsInv'
    OBVIOUS
<1>1. ASSUME NEW i \in Items, SetMinters(i) \/ SetApproval(i) PROVE FeedsInv'
  BY <1>1, MintersKeep
<1>2. ASSUME NEW k \in Tokens, NEW u \in Users, Mint(k, u) PROVE FeedsInv'
  BY <1>2, MintKeeps
\* The owners of tokens and the legacy orders are no part of the invariant.
<1>3. ASSUME items' = items, open' = open, view' = view PROVE FeedsInv'
  BY <1>3 DEF FeedsInv, Typed, SupplyBehind
<1>4. ASSUME NEW k \in Tokens,
             \/ \E u \in Users : Transfer(k, u)
             \/ \E p \in Prices : PlaceOrder(k, p)
             \/ EndOrder(k)
      PROVE  FeedsInv'
  BY <1>3, <1>4 DEF Transfer, PlaceOrder, EndOrder
<1>5. ASSUME NEW t \in Trades, StoreTrade(t) PROVE FeedsInv'
  BY <1>5 DEF StoreTrade, FeedsInv, Typed, SupplyBehind
<1>6. ASSUME NEW t \in Trades, EndTrade(t) PROVE FeedsInv'
  BY <1>6 DEF EndTrade, FeedsInv, Typed, SupplyBehind
<1>7. CASE RefreshView
  BY <1>7, RefreshKeeps
<1>8. CASE UNCHANGED vars
  BY <1>3, <1>8 DEF vars
<1> QED BY <1>1, <1>2, <1>4, <1>5, <1>6, <1>7, <1>8 DEF Next

-----------------------------------------------------------------------------
(* The two queries. *)

LEMMA PlainFilter == Plain.v2 /\ Plain.min = 0 /\ Plain.max = 0 /\ ~Plain.onlyMinting
BY DEF Plain

LEMMA MaxOfOne == \A p \in Nat : Max({p}) = p
BY DEF Max

LEMMA GreatestNumber ==
    ASSUME NEW T \in SUBSET Nat, T # {}, NEW n \in Nat, \A t \in T : t <= n
    PROVE  \E x \in T : \A y \in T : y <= x
<1> DEFINE U == {n - t : t \in T}
<1>1. U \in SUBSET Nat /\ U # {}
  <2>1. \A t \in T : n - t \in Nat
    OBVIOUS
  <2>2. PICK t \in T : TRUE
    OBVIOUS
  <2>3. n - t \in U
    OBVIOUS
  <2> QED BY <2>1, <2>3
<1>2. PICK u \in U : \A v \in U : u <= v
  <2> HIDE DEF U
  <2> QED BY <1>1, LeastNumber
<1>3. PICK x \in T : u = n - x
  OBVIOUS
<1>4. ASSUME NEW y \in T PROVE y <= x
  <2>1. n - y \in U
    OBVIOUS
  <2> HIDE DEF U
  <2>2. u <= n - y
    BY <1>2, <2>1
  <2>3. n \in Nat /\ x \in Nat /\ y \in Nat
    BY <1>3
  <2> QED BY <2>2, <2>3, <1>3
<1> QED BY <1>4

LEMMA LeastIsOne ==
    ASSUME NEW S \in SUBSET Nat, S # {}
    PROVE  Min(S) \in S /\ \A x \in S : Min(S) <= x
<1>1. \E x \in S : \A y \in S : x <= y
  BY LeastNumber
<1> QED BY <1>1 DEF Min

LEMMA GreatestIsOne ==
    ASSUME NEW S \in SUBSET Nat, S # {}, NEW n \in Nat, \A x \in S : x <= n
    PROVE  Max(S) \in S /\ \A x \in S : Max(S) >= x
<1>1. \E x \in S : \A y \in S : y <= x
  BY GreatestNumber
<1>2. \E x \in S : \A y \in S : x >= y
  BY <1>1
<1> QED BY <1>2 DEF Max

\* Of an item that is left, both queries join the same trades: its supply is not 0 in the
\* view either.
LEMMA SameTrades ==
    ASSUME FeedsInv, NEW i \in Items, items[i].available # 0
    PROVE  /\ TradesOfItem(i, {}) = {r.trade : r \in ItemsListings(i, Plain)}
           /\ \A t \in TradesOfItem(i, {}) : t \in Trades
<1> DEFINE Sells(r) == IsItemOrder(r.trade) /\ r.trade.sent = i
<1>1. items[i].available \in Nat
  BY DEF FeedsInv, Typed, Terms
<1>2. ASSUME NEW r \in view, Sells(r) PROVE 0 \notin r.available
  <2>1. PICK n \in Nat : r.available = {n} /\ items[i].available <= n
    BY <1>2 DEF FeedsInv, SupplyBehind
  <2> QED BY <1>1, <2>1
<1>3. TradesOfItem(i, {}) = {r.trade : r \in {q \in view : Sells(q)}}
  BY DEF TradesOfItem, UnifiedTrades
<1>4. ItemsListings(i, Plain) = {r \in view : Sells(r)}
  <2>1. \A r \in view : IsItemOrder(r.trade) <=> r.trade.type = "public_item_order"
    BY DEF IsItemOrder
  <2>2. \A r \in view : IsItemOrder(r.trade) => SoldItem(r.trade) = {r.trade.sent}
    BY DEF SoldItem
  <2>3. ASSUME NEW r PROVE r \in ItemsListings(i, Plain) <=> r \in view /\ Sells(r)
    BY <1>2, <2>1, <2>2, PlainFilter
       DEF ItemsListings, OfType, OffchainOrders, TradesOf, InRange
  <2> QED BY <2>3
<1>5. \A r \in view : r.trade \in Trades
  BY DEF FeedsInv, Typed
<1> HIDE DEF Sells
<1> QED BY <1>3, <1>4, <1>5

\* The price of the catalog is that of the dearest order.
LEMMA DearestOrder ==
    ASSUME FeedsInv, NEW i \in Items, items[i].available # 0, TradesOfItem(i, {}) # {}
    PROVE  Max(OpenItemTradePrice(i, Plain)) = Max({t.price : t \in TradesOfItem(i, {})})
<1> DEFINE P == PricesOf(ItemsListings(i, Plain))
<1>1. P = {t.price : t \in TradesOfItem(i, {})}
  BY SameTrades DEF PricesOf
<1>2. P # {} /\ P \in SUBSET Nat /\ \A p \in P : p <= MaxNumeric
  BY <1>1, SameTrades, MarketAssumption, CatalogAssumption
<1>3. OpenItemTradePrice(i, Plain) = {Max(P)}
  BY <1>2 DEF OpenItemTradePrice, Greatest
<1>4. Max(P) \in Nat
  <2> HIDE DEF P
  <2>1. MaxNumeric \in Nat
    BY CatalogAssumption
  <2> QED BY <1>2, <2>1, GreatestIsOne
<1> QED BY <1>1, <1>3, <1>4, MaxOfOne

LEMMA RowsAgree == FeedsInv => ItemsAndCatalogAgree
<1> SUFFICES ASSUME FeedsInv, NEW i \in Items
             PROVE  /\ \A row \in RowsOf(i, {}) : IsOnSaleRow(row) <=> CatalogOnSale(i, Plain)
                    /\ CatalogPrice(i, Plain) = Max({ItemRowPrice(row) : row \in RowsOf(i, {})})
    BY DEF ItemsAndCatalogAgree
<1> DEFINE R == RowsOf(i, {})  T == TradesOfItem(i, {})  L == ItemsListings(i, Plain)
           own == IF items[i].available # 0 /\ items[i].store THEN ItemPrice[i] ELSE 0
<1>1. items[i].available \in Nat /\ own \in Nat /\ \A row \in R : row.item = i
  BY MarketAssumption DEF FeedsInv, Typed, Terms, RowsOf
<1>2. R # {} /\ (T = {} => R = {[item |-> i, trade |-> {}]})
  BY DEF RowsOf
<1>3. T # {} => R = {[item |-> i, trade |-> {t}] : t \in T}
  BY DEF RowsOf
<1>4. ASSUME items[i].available # 0 PROVE L = {} <=> T = {}
  BY <1>4, SameTrades
<1>5. \A row \in R : TradeCounts(row) <=> T # {} /\ items[i].v3
  BY <1>1, <1>2, <1>3 DEF TradeCounts
<1>6. CatalogOnSale(i, Plain) <=> /\ items[i].store \/ (items[i].v3 /\ L # {})
                                  /\ items[i].available > 0
  BY PlainFilter DEF CatalogOnSale
<1>7. \A row \in R : IsOnSaleRow(row) <=> CatalogOnSale(i, Plain)
  BY <1>1, <1>4, <1>5, <1>6 DEF IsOnSaleRow
\* Where an order counts the prices are those of the orders.
<1>8. CASE items[i].available # 0 /\ T # {} /\ items[i].v3
  <2>1. CatalogPrice(i, Plain) = Max(OpenItemTradePrice(i, Plain))
    BY <1>4, <1>8, PlainFilter DEF CatalogPrice
  <2>2. ASSUME NEW t \in T PROVE ItemRowPrice([item |-> i, trade |-> {t}]) = t.price
    <3> DEFINE row == [item |-> i, trade |-> {t}]
    <3>1. row.item = i /\ row.trade = {t} /\ (CHOOSE u \in row.trade : TRUE) = t
      OBVIOUS
    <3> HIDE DEF row
    <3>2. TradeCounts(row)
      BY <1>8, <3>1 DEF TradeCounts
    <3>3. ItemRowPrice(row) = t.price
      BY <1>8, <3>1, <3>2 DEF ItemRowPrice
    <3> QED BY <3>3 DEF row
  <2>3. {ItemRowPrice(row) : row \in R} = {t.price : t \in T}
    <3> HIDE DEF T
    <3>1. R = {[item |-> i, trade |-> {t}] : t \in T}
      BY <1>3, <1>8
    <3> HIDE DEF R
    <3>2. \A row \in R : \E t \in T : ItemRowPrice(row) = t.price
      BY <2>2, <3>1
    <3>3. \A t \in T : \E row \in R : ItemRowPrice(row) = t.price
      BY <2>2, <3>1
    <3> QED BY <3>2, <3>3
  <2> QED BY <1>7, <1>8, <2>1, <2>3, DearestOrder
\* Elsewhere every row has the price of the store, or none.
<1>9. CASE ~(items[i].available # 0 /\ T # {} /\ items[i].v3)
  <2>1. CatalogPrice(i, Plain) = own
    BY <1>4, <1>9, PlainFilter DEF CatalogPrice
  <2>2. \A row \in R : ItemRowPrice(row) = own
    BY <1>1, <1>5, <1>9 DEF ItemRowPrice
  <2>3. {ItemRowPrice(row) : row \in R} = {own}
    <3> HIDE DEF R, own
    <3> QED BY <1>2, <2>2
  <2> HIDE DEF own
  <2> QED BY <1>1, <1>7, <2>1, <2>3, MaxOfOne
<1> QED BY <1>8, <1>9

\* What fromDBItemToItem (adapters/items) makes of a row of the items query and what
\* fromCollectionsItemDbResultToCatalogItem (ports/catalog/utils) makes of the catalog's
\* is the same price, and both are on sale first hand or neither is.
THEOREM ItemsAgreeWithCatalog == Spec => []ItemsAndCatalogAgree
<1> QED BY InitFeeds, FeedsInductive, RowsAgree, PTL DEF Spec

-----------------------------------------------------------------------------
(* Credits. *)

\* Rounding up: the quotient is the least whole number of p's that is no less than a.
LEMMA Ceiling ==
    ASSUME NEW a \in Nat, NEW p \in Nat \ {0}
    PROVE  /\ CeilDiv(a, p) \in Int
           /\ CeilDiv(a, p) * p >= a /\ (CeilDiv(a, p) - 1) * p < a
<1> DEFINE n == a + p - 1  c == n \div p
<1>1. n \in Nat /\ c \in Int
  OBVIOUS
<1>2. c * p <= n /\ n < (c + 1) * p
  BY <1>1
<1>3. (c - 1) * p = c * p - p /\ (c + 1) * p = c * p + p /\ c * p \in Int
  BY <1>1
<1> QED BY <1>1, <1>2, <1>3 DEF CeilDiv

LEMMA TimesGrows ==
    ASSUME NEW p \in Nat \ {0}, NEW x \in Int, NEW y \in Int, x <= y
    PROVE  x * p <= y * p
OBVIOUS

\* A price that is rounded up is within a limit just when it was above the limit less one,
\* or no more than it, before.
LEMMA CeilingWithin ==
    ASSUME NEW a \in Nat \ {0}, NEW p \in Nat \ {0}, NEW m \in Int
    PROVE  /\ CeilDiv(a, p) >= m <=> a > (m - 1) * p
           /\ CeilDiv(a, p) <= m <=> a <= m * p
<1> DEFINE c == CeilDiv(a, p)
<1>1. c \in Int /\ c * p >= a /\ (c - 1) * p < a
  BY Ceiling
<1>2. c * p \in Int /\ (c - 1) * p \in Int /\ m * p \in Int /\ (m - 1) * p \in Int
  BY <1>1
<1> HIDE DEF c
<1>3. c >= m => (m - 1) * p <= (c - 1) * p
  BY <1>1, TimesGrows
<1>4. ~(c >= m) => c * p <= (m - 1) * p
  BY <1>1, TimesGrows
<1>5. c <= m => c * p <= m * p
  BY <1>1, TimesGrows
<1>6. ~(c <= m) => m * p <= (c - 1) * p
  BY <1>1, TimesGrows
<1>7. /\ c >= m <=> a > (m - 1) * p
      /\ c <= m <=> a <= m * p
  BY <1>1, <1>2, <1>3, <1>4, <1>5, <1>6
<1> QED BY <1>7 DEF c

LEMMA UsdIsNat ==
    ASSUME FeedsInv, NEW r \in view, NEW rate \in Nat
    PROVE  Usd(r, rate) \in Nat /\ (r.trade.pegged => Usd(r, rate) = r.trade.price)
           /\ r.trade.price \in Nat \ {0}
<1>1. r.trade.price \in Nat \ {0}
  BY MarketAssumption DEF FeedsInv, Typed
<1> QED BY <1>1 DEF Usd, UsdOf

\* A price above 0 is rounded up to a credit at least.
LEMMA CeilingAboveZero ==
    ASSUME NEW a \in Nat \ {0}, NEW p \in Nat \ {0}
    PROVE  CeilDiv(a, p) > 0
<1>1. CeilDiv(a, p) \in Int /\ (CeilDiv(a, p) >= 1 <=> a > (1 - 1) * p)
  BY Ceiling, CeilingWithin
<1>2. (1 - 1) * p = 0
  OBVIOUS
<1> QED BY <1>1, <1>2

\* Limits compared in wei before rounding are the limits on the credits shown.
LEMMA CreditsWithin ==
    ASSUME FeedsInv, NEW rate \in Nat, NEW r \in view, Usd(r, rate) > 0, NEW f \in Asks
    PROVE  CreditsAsked(r, f, rate) <=> /\ \A m \in f.min : Credits(r, rate) >= m
                                        /\ \A m \in f.max : Credits(r, rate) <= m
<1> DEFINE a == Usd(r, rate)  p == PerCredit  c == Credits(r, rate)
<1>1. a \in Nat \ {0} /\ p \in Nat \ {0}
  BY UsdIsNat, ItemsAssumption
<1>2. \A m \in f.min \cup f.max : m \in Int
  BY FeedsAssumption
<1>3. c \in Int /\ c >= 1 /\ c = CeilDiv(a, p)
  <2>1. c = CeilDiv(a, p)
    BY DEF Credits
  <2>2. CeilDiv(a, p) \in Int /\ (CeilDiv(a, p) >= 1 <=> a > (1 - 1) * p)
    BY <1>1, Ceiling, CeilingWithin
  <2> HIDE DEF a, p, c
  <2> QED BY <1>1, <2>1, <2>2
<1> HIDE DEF a, c
<1>4. ASSUME NEW m \in Int
      PROVE  /\ (CreditsToWei(m) > 0 => a > CreditsToWei(m) - p) <=> c >= m
             /\ a <= CreditsToWei(m) <=> c <= m
  <2>1. /\ c >= m <=> a > (m - 1) * p
        /\ c <= m <=> a <= m * p
    BY <1>1, <1>3, CeilingWithin
  <2>2. CASE m <= 0
    <3>1. CreditsToWei(m) = 0
      BY <1>1, <2>2 DEF CreditsToWei
    <3> HIDE DEF p
    <3> QED BY <1>1, <1>3, <2>2, <3>1
  <2>3. CASE m > 0
    <3>1. CreditsToWei(m) = m * p
      BY <2>3 DEF CreditsToWei
    <3>2. m * p > 0 /\ m * p - p = (m - 1) * p
      BY <1>1, <2>3
    <3> HIDE DEF p
    <3> QED BY <2>1, <3>1, <3>2
  <2> QED BY <2>2, <2>3
<1>5. CreditsAsked(r, f, rate) <=> /\ \A m \in f.min : CreditsToWei(m) > 0 => a > CreditsToWei(m) - p
                                   /\ \A m \in f.max : a <= CreditsToWei(m)
  BY DEF CreditsAsked, AskedMax, a
<1>6. CreditsAsked(r, f, rate) <=> (\A m \in f.min : c >= m) /\ (\A m \in f.max : c <= m)
  BY <1>2, <1>4, <1>5
<1> QED BY <1>6 DEF c

\* A price above 0 is some credits, and a price of 0 is none.
LEMMA CreditsOfPrice ==
    ASSUME FeedsInv, NEW rate \in Nat, NEW r \in view
    PROVE  Credits(r, rate) > 0 <=> Usd(r, rate) > 0
<1> DEFINE a == Usd(r, rate)  p == PerCredit
<1>1. a \in Nat /\ p \in Nat \ {0}
  BY UsdIsNat, ItemsAssumption
<1>2. CASE a = 0
  <2>1. CeilDiv(0, p) * p >= 0 /\ (CeilDiv(0, p) - 1) * p < 0 /\ CeilDiv(0, p) \in Int
    BY <1>1, Ceiling
  <2>2. ~(CeilDiv(0, p) > 0)
    <3>1. CeilDiv(0, p) > 0 => 0 * p <= (CeilDiv(0, p) - 1) * p
      BY <1>1, <2>1, TimesGrows
    <3> QED BY <1>1, <2>1, <3>1
  <2> QED BY <1>2, <2>2 DEF Credits
<1>3. CASE a # 0
  <2>1. a \in Nat \ {0}
    BY <1>1, <1>3
  <2>2. CeilDiv(a, p) > 0
    BY <1>1, <2>1, CeilingAboveZero
  <2>3. Credits(r, rate) = CeilDiv(a, p)
    BY DEF Credits
  <2> HIDE DEF a, p
  <2>4. Credits(r, rate) > 0 /\ a > 0
    BY <2>1, <2>2, <2>3
  <2> QED BY <2>4 DEF a
<1> QED BY <1>2, <1>3

\* Without limits the unified feed is that of the Shop and the legacy listings with a price.
LEMMA UnifiedIsBoth ==
    ASSUME FeedsInv, NEW rate \in Nat
    PROVE  UnifiedListings(NoAsk, rate)
             = ShopListings(NoAsk) \cup {r \in LegacyListings : Credits(r, rate) > 0}
<1>1. NoAsk.min = {} /\ NoAsk.max = {} /\ NoAsk.source = {}
  BY DEF NoAsk
<1>2. UnifiedListings(NoAsk, rate) = {r \in Native \cup LegacyPrimary : Usd(r, rate) > 0}
  BY <1>1 DEF UnifiedListings, Priced, Unified, CreditsAsked, AskedMax
<1>3. ShopListings(NoAsk) = {r \in Native : Usd(r, rate) > 0}
  <2>1. ShopRows(NoAsk) = Native
    BY <1>1 DEF ShopRows, AskedMin, AskedMax
  <2>2. ASSUME NEW r \in Native PROVE ToCredits(r) # {} /\ Usd(r, rate) > 0
    <3>1. r \in view /\ r.trade.pegged
      BY DEF Native, Buyable
    <3> QED BY <3>1, UsdIsNat DEF ToCredits
  <2> QED BY <2>1, <2>2 DEF ShopListings
<1>4. \A r \in LegacyPrimary : Credits(r, rate) > 0 <=> Usd(r, rate) > 0
  BY CreditsOfPrice DEF LegacyPrimary, Legacy, Buyable
<1> QED BY <1>2, <1>3, <1>4 DEF LegacyListings

LEMMA FeedIsAsAsked == FeedsInv => CreditsAsAsked
<1> SUFFICES ASSUME FeedsInv, NEW rate \in Rates
             PROVE  /\ \A f \in Asks : \A r \in Priced(f, rate) :
                          r \in UnifiedListings(f, rate) <=> /\ \A m \in f.min : Credits(r, rate) >= m
                                                             /\ \A m \in f.max : Credits(r, rate) <= m
                    /\ UnifiedListings(NoAsk, rate)
                         = ShopListings(NoAsk) \cup {r \in LegacyListings : Credits(r, rate) > 0}
    BY DEF CreditsAsAsked
<1>1. rate \in Nat
  BY FeedsAssumption
<1>2. ASSUME NEW f \in Asks, NEW r \in Priced(f, rate)
      PROVE  r \in UnifiedListings(f, rate) <=> /\ \A m \in f.min : Credits(r, rate) >= m
                                                /\ \A m \in f.max : Credits(r, rate) <= m
  <2>1. r \in view /\ Usd(r, rate) > 0
    BY DEF Priced, Unified, Native, LegacyPrimary, Legacy, Buyable
  <2>2. r \in UnifiedListings(f, rate) <=> CreditsAsked(r, f, rate)
    BY DEF UnifiedListings
  <2> QED BY <1>1, <2>1, <2>2, CreditsWithin
<1> QED BY <1>1, <1>2, UnifiedIsBoth

\* The feeds of the Shop (ports/shop-catalog): a listing is in the unified feed just when
\* the credits it shows are within the limits, though the query compares before rounding.
THEOREM ShopFeedIsAsAsked == Spec => []CreditsAsAsked
<1> QED BY InitFeeds, FeedsInductive, FeedIsAsAsked, PTL DEF Spec

-----------------------------------------------------------------------------
(* The card of an item in the Shop. *)

LEMMA FirstHandFirst ==
    ASSUME NEW r, NEW q, NEW rate, IsItemOrder(r.trade), ~IsItemOrder(q.trade)
    PROVE  Before(Rank(r, rate), Rank(q, rate)) /\ ~Before(Rank(q, rate), Rank(r, rate))
<1>1. Rank(r, rate)[1] = 0 /\ Rank(q, rate)[1] = 1
  BY DEF Rank
<1> HIDE DEF Rank
<1>2. ASSUME NEW n \in 1 .. 3, n # 1 PROVE 1 \in 1 .. n - 1
  BY <1>2
<1>3. Before(Rank(r, rate), Rank(q, rate))
  <2>1. 1 \in 1 .. 3 /\ \A m \in 1 .. 1 - 1 : FALSE
    OBVIOUS
  <2> QED BY <1>1, <2>1 DEF Before
<1>4. ~Before(Rank(q, rate), Rank(r, rate))
  BY <1>1, <1>2 DEF Before
<1> QED BY <1>3, <1>4

LEMMA NotBeforeItself ==
    ASSUME NEW rate \in Nat, NEW r, Usd(r, rate) \in Nat
    PROVE  ~Before(Rank(r, rate), Rank(r, rate))
<1>1. \A n \in 1 .. 3 : Rank(r, rate)[n] \in Int
  BY DEF Rank
<1> QED BY <1>1 DEF Before

\* Of two listings at first hand the pegged one is before the other, and then the cheaper one.
LEMMA FirstHandRank ==
    ASSUME NEW r, NEW q, NEW rate, IsItemOrder(r.trade), IsItemOrder(q.trade),
           r.trade.pegged \in BOOLEAN, q.trade.pegged \in BOOLEAN,
           Usd(r, rate) \in Nat, Usd(q, rate) \in Nat
    PROVE  Before(Rank(r, rate), Rank(q, rate)) <=>
             \/ r.trade.pegged /\ ~q.trade.pegged
             \/ r.trade.pegged = q.trade.pegged /\ Usd(r, rate) < Usd(q, rate)
<1> DEFINE a == Rank(r, rate)  b == Rank(q, rate)
<1>1. /\ a[1] = 0 /\ a[2] = (IF r.trade.pegged THEN 0 ELSE 1) /\ a[3] = Usd(r, rate)
      /\ b[1] = 0 /\ b[2] = (IF q.trade.pegged THEN 0 ELSE 1) /\ b[3] = Usd(q, rate)
  BY DEF Rank
<1> HIDE DEF a, b
<1>2. Before(a, b) <=> \/ a[1] < b[1]
                       \/ a[2] < b[2] /\ a[1] = b[1]
                       \/ a[3] < b[3] /\ a[1] = b[1] /\ a[2] = b[2]
  <2>1. 1 .. 3 = {1, 2, 3} /\ 1 .. 1 - 1 = {} /\ 1 .. 2 - 1 = {1} /\ 1 .. 3 - 1 = {1, 2}
    OBVIOUS
  <2> QED BY <2>1 DEF Before
<1>3. Before(a, b) <=> \/ r.trade.pegged /\ ~q.trade.pegged
                       \/ r.trade.pegged = q.trade.pegged /\ Usd(r, rate) < Usd(q, rate)
  BY <1>1, <1>2
<1> QED BY <1>3 DEF a, b

LEMMA CeilingGrows ==
    ASSUME NEW a \in Nat, NEW b \in Nat, NEW p \in Nat \ {0}, a <= b
    PROVE  CeilDiv(a, p) <= CeilDiv(b, p)
<1> DEFINE c == CeilDiv(a, p)  d == CeilDiv(b, p)
<1>1. c \in Int /\ (c - 1) * p < a /\ d \in Int /\ d * p >= b
  BY Ceiling
<1> HIDE DEF c, d
<1>2. d <= c - 1 => d * p <= (c - 1) * p
  BY <1>1, TimesGrows
<1>3. (c - 1) * p \in Int /\ d * p \in Int
  BY <1>1
<1>4. c <= d
  BY <1>1, <1>2, <1>3
<1> QED BY <1>4 DEF c, d

\* A row of the page of an item whose order counts is a listing of the Shop.
LEMMA RowIsListing ==
    ASSUME FeedsInv, NEW rate \in Nat, NEW i \in Items, items[i].available > 0,
           NEW row \in RowsOf(i, {}), TradeCounts(row), PriceCredits(row, rate) > 0
    PROVE  \E r \in Priced(NoAsk, rate) :
             /\ r \in view /\ IsItemOrder(r.trade) /\ SoldItem(r.trade) = {i}
             /\ row.trade = {r.trade} /\ PriceCredits(row, rate) = Credits(r, rate)
<1>1. row.item = i /\ items[i].available \in Nat \ {0}
  BY DEF RowsOf, FeedsInv, Typed, Terms
<1>2. PICK r \in view : IsItemOrder(r.trade) /\ r.trade.sent = i /\ row.trade = {r.trade}
  BY DEF RowsOf, TradeCounts, TradesOfItem, UnifiedTrades
<1>3. PriceCredits(row, rate) = Credits(r, rate)
  <2>1. (CHOOSE t \in row.trade : TRUE) = r.trade
    BY <1>2
  <2> QED BY <1>1, <2>1 DEF PriceCredits, Credits, Usd
<1>4. Usd(r, rate) > 0
  BY <1>3, CreditsOfPrice
<1>5. r \in Buyable
  <2>1. PICK n \in Nat : r.available = {n} /\ items[i].available <= n
    BY <1>2 DEF FeedsInv, SupplyBehind
  <2> QED BY <1>1, <2>1 DEF Buyable
<1>6. r \in Priced(NoAsk, rate)
  BY <1>2, <1>4, <1>5 DEF Priced, Unified, NoAsk, Native, LegacyPrimary, Legacy
<1> QED BY <1>2, <1>3, <1>6 DEF SoldItem

\* There is a first listing in the order of the Shop: the cheapest of the pegged ones at first
\* hand, or of all of them where none is pegged.
LEMMA SomeIsFirst ==
    ASSUME FeedsInv, NEW rate \in Nat, NEW G \in SUBSET view,
           \E r \in G : IsItemOrder(r.trade)
    PROVE  \E h \in G : \A q \in G : ~Before(Rank(q, rate), Rank(h, rate))
<1> DEFINE F == {r \in G : IsItemOrder(r.trade)}
           N == {r \in F : (\E q \in F : q.trade.pegged) => r.trade.pegged}
           U == {Usd(r, rate) : r \in N}
<1>1. \A r \in G : Usd(r, rate) \in Nat /\ r.trade.pegged \in BOOLEAN
  BY UsdIsNat, MarketAssumption DEF FeedsInv, Typed
<1>2. N # {}
  OBVIOUS
<1>3. U \in SUBSET Nat /\ U # {}
  BY <1>1, <1>2
<1>4. PICK u \in U : \A v \in U : u <= v
  <2> HIDE DEF U
  <2> QED BY <1>3, LeastNumber
<1>5. PICK h \in N : u = Usd(h, rate)
  OBVIOUS
<1>6. ASSUME NEW q \in G PROVE ~Before(Rank(q, rate), Rank(h, rate))
  <2>1. CASE ~IsItemOrder(q.trade)
    BY <1>5, <2>1, FirstHandFirst
  <2>2. CASE IsItemOrder(q.trade)
    <3>1. q.trade.pegged => h.trade.pegged
      BY <1>5, <2>2
    <3>2. q.trade.pegged = h.trade.pegged => q \in N
      BY <1>1, <1>5, <2>2
    <3>3. q.trade.pegged = h.trade.pegged => Usd(h, rate) <= Usd(q, rate)
      BY <1>4, <1>5, <3>2
    <3> QED BY <1>1, <1>5, <2>2, <3>1, <3>3, FirstHandRank
  <2> QED BY <2>1, <2>2
<1> QED BY <1>5, <1>6

LEMMA HeadlineAgrees == FeedsInv => HeadlineIsItemPrice
<1> SUFFICES ASSUME FeedsInv, NEW rate \in Rates, NEW i \in Items, items[i].available > 0,
                    {row \in RowsOf(i, {}) : TradeCounts(row) /\ PriceCredits(row, rate) > 0} # {}
             PROVE  \E h \in ShopItems(NoAsk, rate),
                       row \in {x \in RowsOf(i, {}) : TradeCounts(x) /\ PriceCredits(x, rate) > 0} :
                      /\ row.trade = {h.trade} /\ Credits(h, rate) = PriceCredits(row, rate)
                      /\ \A other \in {x \in RowsOf(i, {}) : TradeCounts(x) /\ PriceCredits(x, rate) > 0} :
                           PriceCredits(other, rate) < PriceCredits(row, rate)
                             => h.trade.pegged /\ \A t \in other.trade : ~t.pegged
    BY DEF HeadlineIsItemPrice
<1> DEFINE Sold == {row \in RowsOf(i, {}) : TradeCounts(row) /\ PriceCredits(row, rate) > 0}
<1>1. rate \in Nat /\ \A row \in RowsOf(i, {}) : row.item = i
  BY FeedsAssumption DEF RowsOf
<1>2. ASSUME NEW row \in Sold
      PROVE  \E r \in Priced(NoAsk, rate) :
               /\ r \in view /\ IsItemOrder(r.trade) /\ SoldItem(r.trade) = {i}
               /\ row.trade = {r.trade} /\ PriceCredits(row, rate) = Credits(r, rate)
  BY <1>1, RowIsListing
<1>3. PICK some \in Sold : TRUE
  OBVIOUS
<1>4. items[i].v3
  BY <1>1, <1>3 DEF TradeCounts
<1> HIDE DEF Sold
<1>5. PICK r \in Priced(NoAsk, rate) :
        /\ r \in view /\ IsItemOrder(r.trade) /\ SoldItem(r.trade) = {i}
        /\ some.trade = {r.trade} /\ PriceCredits(some, rate) = Credits(r, rate)
  BY <1>2, <1>3
<1> DEFINE G == Group(r, NoAsk, rate)
           h == Headline(G, rate)
<1>6. r \in G /\ G \subseteq view /\ \A q \in G : SoldItem(q.trade) = {i} /\ q \in Priced(NoAsk, rate)
  BY <1>5 DEF Group, Priced, Unified, Native, LegacyPrimary, Legacy, Buyable
<1>7. h \in G /\ \A q \in G : ~Before(Rank(q, rate), Rank(h, rate))
  <2>1. \E x \in G : \A q \in G : ~Before(Rank(q, rate), Rank(x, rate))
    <3> HIDE DEF G
    <3> QED BY <1>1, <1>5, <1>6, SomeIsFirst
  <2> HIDE DEF G
  <2> QED BY <2>1 DEF Headline
<1>8. h \in ShopItems(NoAsk, rate)
  BY <1>5 DEF ShopItems, CreditsAsked, AskedMax, NoAsk
<1>9. h \in view /\ SoldItem(h.trade) = {i} /\ h \in Priced(NoAsk, rate)
  <2> HIDE DEF G, h
  <2> QED BY <1>6, <1>7
<1>10. IsItemOrder(h.trade)
  <2> HIDE DEF G, h
  <2> QED BY <1>5, <1>6, <1>7, FirstHandFirst
<1> HIDE DEF h
\* The headline is a row of the page of the item.
<1> DEFINE row == [item |-> i, trade |-> {h.trade}]
<1>11. row \in RowsOf(i, {})
  <2>1. h.trade.sent = i
    BY <1>9, <1>10 DEF SoldItem
  <2>2. h.trade \in TradesOfItem(i, {})
    BY <1>9, <1>10, <2>1 DEF TradesOfItem, UnifiedTrades
  <2> QED BY <2>2 DEF RowsOf
<1>12. TradeCounts(row) /\ PriceCredits(row, rate) = Credits(h, rate) /\ Credits(h, rate) > 0
  <2>1. TradeCounts(row)
    BY <1>4 DEF TradeCounts
  <2>2. (CHOOSE t \in row.trade : TRUE) = h.trade
    OBVIOUS
  <2>3. PriceCredits(row, rate) = Credits(h, rate)
    BY <2>1, <2>2 DEF PriceCredits, Credits, Usd
  <2>4. Usd(h, rate) > 0
    BY <1>9 DEF Priced
  <2> QED BY <1>1, <1>9, <2>1, <2>3, <2>4, CreditsOfPrice
<1>13. row \in Sold
  BY <1>11, <1>12 DEF Sold
<1>14. ASSUME NEW other \in Sold, PriceCredits(other, rate) < PriceCredits(row, rate)
       PROVE  h.trade.pegged /\ \A t \in other.trade : ~t.pegged
  <2>1. PICK q \in Priced(NoAsk, rate) :
          /\ q \in view /\ IsItemOrder(q.trade) /\ SoldItem(q.trade) = {i}
          /\ other.trade = {q.trade} /\ PriceCredits(other, rate) = Credits(q, rate)
    BY <1>2
  <2>2. q \in G
    BY <1>5, <2>1 DEF Group
  <2>3. /\ Usd(q, rate) \in Nat /\ Usd(h, rate) \in Nat
        /\ q.trade.pegged \in BOOLEAN /\ h.trade.pegged \in BOOLEAN
    BY <1>1, <1>9, <2>1, UsdIsNat, MarketAssumption DEF FeedsInv, Typed
  <2>4. ~(Usd(h, rate) <= Usd(q, rate))
    <3>1. Usd(h, rate) <= Usd(q, rate) => Credits(h, rate) <= Credits(q, rate)
      BY <2>3, CeilingGrows, ItemsAssumption DEF Credits
    <3>2. Credits(h, rate) \in Int /\ Credits(q, rate) \in Int
      BY <2>3, Ceiling, ItemsAssumption DEF Credits
    <3> QED BY <1>12, <1>14, <2>1, <3>1, <3>2
  <2>5. ~Before(Rank(q, rate), Rank(h, rate))
    BY <1>7, <2>2 DEF h
  <2>6. h.trade.pegged /\ ~q.trade.pegged
    BY <1>10, <2>1, <2>3, <2>4, <2>5, FirstHandRank
  <2> QED BY <2>1, <2>6
<1> QED BY <1>8, <1>12, <1>13, <1>14 DEF Sold

\* The card of an item in the Shop (getShopItems) tells the price of its page
\* (/v3/catalog/items) while an open trade sells it first hand, however cheap a unit is.
THEOREM CardTellsItemPrice == Spec => []HeadlineIsItemPrice
<1> QED BY InitFeeds, FeedsInductive, HeadlineAgrees, PTL DEF Spec

-----------------------------------------------------------------------------
(* The prices of the orders. *)

\* An order on the legacy marketplace has one of the prices there are.
OrdersTyped ==
  /\ owner \in [Tokens -> Users \cup {Nobody}]
  /\ orders \in [Tokens -> SUBSET [owner : Users, price : Prices]]

LEMMA InitOrders == Init => OrdersTyped
BY DEF Init, OrdersTyped

LEMMA OrdersStayTyped == OrdersTyped /\ [Next]_vars => OrdersTyped'
<1> SUFFICES ASSUME OrdersTyped, [Next]_vars PROVE OrdersTyped'
    OBVIOUS
<1>1. ASSUME UNCHANGED <<owner, orders>> PROVE OrdersTyped'
  BY <1>1 DEF OrdersTyped
<1>2. ASSUME NEW k \in Tokens, NEW u \in Users, Mint(k, u) \/ Transfer(k, u) PROVE OrdersTyped'
  BY <1>2 DEF Mint, Transfer, OrdersTyped
<1>3. ASSUME NEW k \in Tokens, NEW p \in Prices, PlaceOrder(k, p) PROVE OrdersTyped'
  <2>1. owner[k] \in Users
    BY <1>3 DEF PlaceOrder, OrdersTyped
  <2> QED BY <1>3, <2>1 DEF PlaceOrder, OrdersTyped
<1>4. ASSUME NEW k \in Tokens, EndOrder(k) PROVE OrdersTyped'
  BY <1>4 DEF EndOrder, OrdersTyped
<1>5. ASSUME NEW i \in Items, SetMinters(i) \/ SetApproval(i) PROVE OrdersTyped'
  BY <1>1, <1>5 DEF SetMinters, SetApproval
<1>6. ASSUME NEW t \in Trades, StoreTrade(t) \/ EndTrade(t) PROVE OrdersTyped'
  BY <1>1, <1>6 DEF StoreTrade, EndTrade
<1>7. CASE RefreshView
  BY <1>1, <1>7 DEF RefreshView
<1>8. CASE UNCHANGED vars
  BY <1>1, <1>8 DEF vars
<1> QED BY <1>2, <1>3, <1>4, <1>5, <1>6, <1>7, <1>8 DEF Next

-----------------------------------------------------------------------------
(* What the catalog shows and what it counts. *)

PricesInv == Typed /\ OrdersTyped

\* The filters of the two requests there are: all items, or those on sale.
Sought(f) ==
  /\ f.v2 = TRUE /\ f.onlyMinting \in BOOLEAN /\ f.onlyListing \in BOOLEAN /\ f.soldOut \in BOOLEAN
  /\ f.isOnSale \in {EitherSale, OnSale} /\ f.min \in Nat /\ f.max \in Nat
  /\ f.max < MaxNumeric

LEMMA SaleParameters == EitherSale # OnSale /\ EitherSale # NotOnSale /\ OnSale # NotOnSale
<1>1. FALSE \in EitherSale /\ TRUE \in EitherSale
  BY DEF EitherSale
<1>2. FALSE \notin OnSale /\ TRUE \notin NotOnSale /\ TRUE \in OnSale
  BY DEF OnSale, NotOnSale
<1> QED BY <1>1, <1>2

LEMMA FiltersSought ==
    ASSUME NEW f \in Filters, f.v2, f.isOnSale # NotOnSale
    PROVE  Sought(f)
BY FeedsAssumption DEF CatalogFilters, Sought

LEMMA PricesKnown ==
    ASSUME PricesInv, NEW i \in Items
    PROVE  /\ ItemPrice[i] \in Nat /\ ItemPrice[i] <= MaxNumeric /\ MaxNumeric \in Nat
           /\ \A n \in OrdersOf(i) : n[2].price \in Nat /\ n[2].price < MaxNumeric
           /\ \A r \in TradesOf(i) : /\ r.trade.price \in Nat /\ r.trade.price < MaxNumeric
                                     /\ r.trade.type \in TradeTypes
<1>1. ItemPrice[i] \in Nat /\ ItemPrice[i] <= MaxNumeric /\ MaxNumeric \in Nat
  BY MarketAssumption, CatalogAssumption
<1>2. ASSUME NEW n \in OrdersOf(i) PROVE n[2].price \in Nat /\ n[2].price < MaxNumeric
  <2>1. n[1] \in Tokens /\ n[2] \in orders[n[1]]
    BY DEF OrdersOf
  <2>2. n[2].price \in Prices
    BY <2>1 DEF PricesInv, OrdersTyped
  <2> QED BY <2>2, MarketAssumption, CatalogAssumption
<1>3. ASSUME NEW r \in TradesOf(i)
      PROVE  /\ r.trade.price \in Nat /\ r.trade.price < MaxNumeric /\ r.trade.type \in TradeTypes
  <2>1. r.trade \in Trades
    BY DEF TradesOf, PricesInv, Typed
  <2> QED BY <2>1, MarketAssumption, CatalogAssumption
<1> QED BY <1>1, <1>2, <1>3

\* The joined tables are empty or not as the conditions of the count say, limits included.
LEMMA JoinsAndCounts ==
    ASSUME PricesInv, NEW i \in Items, NEW f, Sought(f)
    PROVE  LET top == IF f.max = 0 THEN MaxNumeric ELSE f.max
           IN  /\ NftsWithOrders(i, f) # {} => /\ HasOrder(i, 0, MaxNumeric)
                                               /\ f.min # 0 => HasOrder(i, f.min, MaxNumeric)
                                               /\ f.max # 0 => HasOrder(i, 0, f.max)
               /\ OffchainOrders(i, f) # {} => HasTrade(i, TradeTypes, 0, MaxNumeric)
               /\ NftsListings(i, f) # {} => /\ HasTrade(i, NftOrders, 0, MaxNumeric)
                                             /\ f.min # 0 => HasTrade(i, TradeTypes, f.min, MaxNumeric)
                                             /\ f.max # 0 => HasTrade(i, TradeTypes, 0, f.max)
               /\ f.onlyMinting /\ OffchainOrders(i, f) # {} => HasTrade(i, ItemOrders, f.min, top)
<1>1. ASSUME NEW n \in NftsWithOrders(i, f)
      PROVE  /\ HasOrder(i, 0, MaxNumeric)
             /\ f.min # 0 => HasOrder(i, f.min, MaxNumeric)
             /\ f.max # 0 => HasOrder(i, 0, f.max)
  <2>1. n \in OrdersOf(i) /\ InRange(n[2].price, f)
    BY DEF NftsWithOrders
  <2>2. n[2].price \in Nat /\ n[2].price < MaxNumeric /\ MaxNumeric \in Nat
    BY <2>1, PricesKnown
  <2> QED BY <2>1, <2>2 DEF HasOrder, InRange, Sought
<1>2. ASSUME NEW r \in OffchainOrders(i, f)
      PROVE  /\ r \in TradesOf(i) /\ r.trade.price \in Nat /\ r.trade.price < MaxNumeric /\ MaxNumeric \in Nat
             /\ f.min # 0 => r.trade.price >= f.min
             /\ f.max # 0 => r.trade.price <= f.max
             /\ r.trade.type \in TradeTypes /\ (f.onlyMinting => r.trade.type \in ItemOrders)
  <2>1. r \in TradesOf(i) /\ InRange(r.trade.price, f) /\ (f.onlyMinting => r.trade.type \in ItemOrders)
    BY DEF OffchainOrders, ItemOrders
  <2> QED BY <2>1, PricesKnown DEF InRange
<1>3. OffchainOrders(i, f) # {} => HasTrade(i, TradeTypes, 0, MaxNumeric)
  BY <1>2 DEF HasTrade
<1>4. ASSUME NEW r \in NftsListings(i, f)
      PROVE  /\ HasTrade(i, NftOrders, 0, MaxNumeric)
             /\ f.min # 0 => HasTrade(i, TradeTypes, f.min, MaxNumeric)
             /\ f.max # 0 => HasTrade(i, TradeTypes, 0, f.max)
  <2>1. r \in OffchainOrders(i, f) /\ r.trade.type \in NftOrders
    BY DEF NftsListings, OfType, NftOrders
  <2> QED BY <1>2, <2>1 DEF HasTrade, Sought
<1>5. ASSUME f.onlyMinting, NEW r \in OffchainOrders(i, f)
      PROVE  HasTrade(i, ItemOrders, f.min, IF f.max = 0 THEN MaxNumeric ELSE f.max)
  <2>1. f.min <= r.trade.price
    BY <1>2 DEF Sought
  <2>2. r.trade.price <= IF f.max = 0 THEN MaxNumeric ELSE f.max
    BY <1>2
  <2> QED BY <1>2, <1>5, <2>1, <2>2 DEF HasTrade
<1> QED BY <1>1, <1>3, <1>4, <1>5

\* Without limits they hold whatever the count finds.
LEMMA CountsAreJoined ==
    ASSUME PricesInv, NEW i \in Items, NEW f, Sought(f), f.min = 0, f.max = 0
    PROVE  /\ HasOrder(i, 0, MaxNumeric) => NftsWithOrders(i, f) # {}
           /\ HasTrade(i, ItemOrders, 0, MaxNumeric) => ItemsListings(i, f) # {}
           /\ ~f.onlyMinting /\ HasTrade(i, TradeTypes, 0, MaxNumeric) => OffchainOrders(i, f) # {}
           /\ ~f.onlyMinting /\ HasTrade(i, NftOrders, 0, MaxNumeric) => NftsListings(i, f) # {}
<1>0. \A p : InRange(p, f)
  BY DEF InRange
<1>1. HasOrder(i, 0, MaxNumeric) => NftsWithOrders(i, f) # {}
  BY <1>0 DEF HasOrder, NftsWithOrders
<1>2. ASSUME NEW r \in TradesOf(i), r.trade.type = "public_item_order" PROVE r \in ItemsListings(i, f)
  BY <1>0, <1>2 DEF ItemsListings, OfType, OffchainOrders
<1>3. ASSUME NEW r \in TradesOf(i), ~f.onlyMinting PROVE r \in OffchainOrders(i, f)
  BY <1>0, <1>3 DEF OffchainOrders
<1>4. ASSUME NEW r \in TradesOf(i), ~f.onlyMinting, r.trade.type = "public_nft_order"
      PROVE  r \in NftsListings(i, f)
  BY <1>3, <1>4 DEF NftsListings, OfType
<1> QED BY <1>1, <1>2, <1>3, <1>4 DEF HasTrade, ItemOrders, NftOrders

LEMMA OnSaleCounted ==
    ASSUME PricesInv, NEW i \in Items, NEW f, Sought(f), SaleWhere(i, f)
    PROVE  SaleCounted(i, f)
<1>1. CASE f.isOnSale = EitherSale
  BY <1>1, SaleParameters DEF SaleCounted
<1>2. CASE f.isOnSale = OnSale
  <2>1. IsOnSaleWithTrades(i, f)
    BY <1>2, SaleParameters DEF SaleWhere, Sought
  <2>2. \/ StoreSells(i) \/ OffchainOrders(i, f) # {} \/ NftsWithOrders(i, f) # {}
    BY <2>1 DEF IsOnSaleWithTrades, Mintable, StoreSells
  <2>3. StoreSells(i) \/ HasTrade(i, TradeTypes, 0, MaxNumeric) \/ HasOrder(i, 0, MaxNumeric)
    BY <2>2, JoinsAndCounts
  <2> QED BY <1>2, <2>3, SaleParameters DEF SaleCounted
<1> QED BY <1>1, <1>2 DEF Sought

LEMMA ShownIsCounted ==
    ASSUME PricesInv, NEW i \in Items, NEW f, Sought(f), f.onlyListing => f.min = 0 /\ f.max = 0,
           Shown(i, f)
    PROVE  Counted(i, f)
<1>1. ItemLevel(i, f) /\ SaleCounted(i, f)
  BY OnSaleCounted DEF Shown
<1>2. ASSUME f.onlyMinting PROVE MintingCounted(i, f)
  <2>1. Mintable(i, f)
    BY <1>2 DEF Shown, OnlyMinting, Sought
  <2>2. CASE items[i].store
    BY <2>1, <2>2 DEF Mintable, MintingCounted, StoreSells
  <2>3. CASE ~items[i].store
    <3>1. OffchainOrders(i, f) # {}
      BY <2>1, <2>3 DEF Mintable
    <3> QED BY <1>2, <3>1, JoinsAndCounts DEF MintingCounted
  <2> QED BY <2>2, <2>3
<1>3. ASSUME f.onlyListing PROVE ListingCounted(i, f)
  <2>1. OnlyListings(i, f) /\ f.min = 0 /\ f.max = 0 /\ f.v2
    BY <1>3 DEF Shown, Sought
  <2>2. ItemsListings(i, f) = {} => ~HasTrade(i, ItemOrders, 0, MaxNumeric)
    BY <2>1, CountsAreJoined
  <2>3. NftsWithOrders(i, f) # {} \/ NftsListings(i, f) # {}
    BY <2>1 DEF OnlyListings
  <2>4. HasOrder(i, 0, MaxNumeric) \/ HasTrade(i, NftOrders, 0, MaxNumeric)
    BY <2>3, JoinsAndCounts
  <2> QED BY <2>1, <2>2, <2>4 DEF OnlyListings, ListingCounted
<1>4. \A S, p : (AtLeast(S, p) => S # {}) /\ (AtMost(S, p) => S # {})
  BY DEF AtLeast, AtMost, Least, Greatest
<1>5. /\ OrderPrices(i, f) # {} => NftsWithOrders(i, f) # {}
      /\ PricesOf(NftsListings(i, f)) # {} => NftsListings(i, f) # {}
  BY DEF OrderPrices, PricesOf
<1>6. /\ ItemPrice[i] \in Nat /\ ItemPrice[i] <= MaxNumeric
      /\ MaxNumeric \in Nat /\ f.min \in Nat /\ f.max \in Nat
  BY PricesKnown DEF Sought
<1>7. ASSUME f.min # 0 PROVE PriceCounted(i, f, f.min, MaxNumeric)
  <2>1. MinPriceWhere(i, f) /\ ~f.onlyListing
    BY <1>7 DEF Shown
  <2>2. CASE f.onlyMinting
    BY <1>6, <2>1, <2>2 DEF MinPriceWhere, PriceCounted
  <2>3. CASE ~f.onlyMinting
    <3>1. \/ OrderPrices(i, f) # {} \/ PricesOf(NftsListings(i, f)) # {}
          \/ ItemPrice[i] >= f.min /\ items[i].available > 0 /\ MaySell(i)
      BY <1>4, <2>1, <2>3 DEF MinPriceWhere
    <3>2. \/ HasOrder(i, f.min, MaxNumeric) \/ HasTrade(i, TradeTypes, f.min, MaxNumeric)
          \/ /\ f.min <= ItemPrice[i] /\ ItemPrice[i] <= MaxNumeric
             /\ items[i].available > 0 /\ MaySell(i)
      BY <1>5, <1>6, <1>7, <3>1, JoinsAndCounts
    <3> QED BY <2>1, <2>3, <3>2 DEF PriceCounted
  <2> QED BY <2>2, <2>3
<1>8. ASSUME f.max # 0 PROVE PriceCounted(i, f, 0, f.max)
  <2>1. MaxPriceWhere(i, f) /\ ~f.onlyListing
    BY <1>8 DEF Shown
  <2>2. CASE f.onlyMinting
    BY <1>6, <2>1, <2>2 DEF MaxPriceWhere, PriceCounted, Sought
  <2>3. CASE ~f.onlyMinting
    <3>1. \/ OrderPrices(i, f) # {} \/ PricesOf(NftsListings(i, f)) # {}
          \/ ItemPrice[i] <= f.max /\ items[i].available > 0 /\ MaySell(i)
      BY <1>4, <2>1, <2>3 DEF MaxPriceWhere
    <3>2. \/ HasOrder(i, 0, f.max) \/ HasTrade(i, TradeTypes, 0, f.max)
          \/ /\ 0 <= ItemPrice[i] /\ ItemPrice[i] <= f.max
             /\ items[i].available > 0 /\ MaySell(i)
      BY <1>5, <1>6, <1>8, <3>1, JoinsAndCounts
    <3> QED BY <2>1, <2>3, <3>2 DEF PriceCounted
  <2> QED BY <2>2, <2>3
<1> QED BY <1>1, <1>2, <1>3, <1>7, <1>8 DEF Counted

LEMMA FeedsAndOrders == Spec => []PricesInv
<1>1. FeedsInv => Typed
  BY DEF FeedsInv
<1> QED BY <1>1, InitFeeds, FeedsInductive, InitOrders, OrdersStayTyped, PTL DEF Spec, PricesInv

\* GET /v2/catalog (ports/catalog/queries): the total misses no row of the pages, though
\* another query counts it over other joins.
THEOREM RowsAreCounted == Spec => []NoRowUncounted
<1>1. PricesInv => NoRowUncounted
  BY FiltersSought, ShownIsCounted DEF NoRowUncounted
<1> QED BY <1>1, FeedsAndOrders, PTL

LEMMA CountedIsShown ==
    ASSUME PricesInv, NEW i \in Items, NEW f, Sought(f), ~f.onlyMinting, f.min = 0, f.max = 0,
           Counted(i, f)
    PROVE  Shown(i, f)
<1>1. SaleWhere(i, f)
  <2>1. CASE f.isOnSale = EitherSale
    BY <2>1, SaleParameters DEF SaleWhere
  <2>2. CASE f.isOnSale = OnSale
    <3>1. StoreSells(i) \/ HasOrder(i, 0, MaxNumeric) \/ HasTrade(i, TradeTypes, 0, MaxNumeric)
      BY <2>2, SaleParameters DEF Counted, SaleCounted
    <3>2. StoreSells(i) \/ NftsWithOrders(i, f) # {} \/ OffchainOrders(i, f) # {}
      BY <3>1, CountsAreJoined
    <3>3. IsOnSaleWithTrades(i, f)
      BY <3>2 DEF IsOnSaleWithTrades, Mintable, StoreSells
    <3> QED BY <2>2, <3>3, SaleParameters DEF SaleWhere, Sought
  <2> QED BY <2>1, <2>2 DEF Sought
<1>2. ASSUME f.onlyListing PROVE OnlyListings(i, f)
  <2>1. ListingCounted(i, f) /\ f.v2
    BY <1>2 DEF Counted, Sought
  <2>2. ASSUME NEW r \in ItemsListings(i, f) PROVE HasTrade(i, ItemOrders, 0, MaxNumeric)
    <3>1. r \in TradesOf(i) /\ r.trade.type \in ItemOrders
      BY DEF ItemsListings, OfType, OffchainOrders, ItemOrders
    <3>2. r.trade.price \in Nat /\ r.trade.price < MaxNumeric /\ MaxNumeric \in Nat
      BY <3>1, PricesKnown
    <3> QED BY <3>1, <3>2 DEF HasTrade
  <2>3. ~HasTrade(i, ItemOrders, 0, MaxNumeric) => ItemsListings(i, f) = {}
    BY <2>2
  <2>4. NftsWithOrders(i, f) # {} \/ NftsListings(i, f) # {}
    BY <2>1, CountsAreJoined DEF ListingCounted
  <2> QED BY <2>1, <2>3, <2>4 DEF OnlyListings, ListingCounted
<1> QED BY <1>1, <1>2 DEF Counted, Shown

LEMMA TotalOfRows ==
    ASSUME PricesInv, NEW g, Sought(g), ~g.onlyMinting, g.min = 0, g.max = 0
    PROVE  Cardinality({i \in Items : Counted(i, g)}) = Cardinality(CatalogRowsWithTrades(g))
<1> DEFINE S == {i \in Items : Shown(i, g)}
           row(i) == [item |-> i, min |-> MinPriceCaseWithTrades(i, g),
                      max |-> MaxPriceCaseWithTrades(i, g)]
           h == [i \in S |-> row(i)]
           R == {row(i) : i \in S}
<1>1. {i \in Items : Counted(i, g)} = S
  BY ShownIsCounted, CountedIsShown
<1>2. IsFiniteSet(S)
  BY CatalogAssumption, FS_Subset
<1>3. CatalogRowsWithTrades(g) = R
  BY DEF CatalogRowsWithTrades
<1> HIDE DEF S
<1>4. \A i, j \in S : h[i] = h[j] => i = j
  OBVIOUS
<1>5. h \in Surjection(S, R)
  BY DEF Surjection
<1> HIDE DEF h, R
<1>6. h \in Injection(S, R)
  BY <1>4, <1>5 DEF Surjection, Injection, IsInjective
<1>7. Cardinality(R) = Cardinality(S)
  BY <1>2, <1>5, <1>6, FS_Surjection
<1> QED BY <1>1, <1>3, <1>7

\* GET /v2/catalog: without limits on the price, of all items or of those on sale, the total
\* is the number of rows.
THEOREM TotalCountsRows == Spec => []TotalIsExact
<1>1. ASSUME PricesInv, NEW f \in Filters, Unpriced(f)
      PROVE  Fetch(f).total = Cardinality(Fetch(f).data)
  <2> DEFINE g == WithIds(f)
  <2>1. /\ g.v2 = f.v2 /\ g.isOnSale = f.isOnSale /\ g.onlyMinting = f.onlyMinting
        /\ g.onlyListing = f.onlyListing /\ g.soldOut = f.soldOut /\ g.min = f.min /\ g.max = f.max
    BY FeedsAssumption DEF WithIds, CatalogFilters
  <2>2. Sought(f)
    BY <1>1, FiltersSought DEF Unpriced
  <2>3. Sought(g) /\ ~g.onlyMinting /\ g.min = 0 /\ g.max = 0 /\ g.v2
    BY <1>1, <2>1, <2>2 DEF Sought, Unpriced
  <2> HIDE DEF g
  <2>4. Cardinality({i \in Items : Counted(i, g)}) = Cardinality(CatalogRowsWithTrades(g))
    BY <1>1, <2>3, TotalOfRows
  <2>5. Fetch(f) = IF f.search # {} /\ g.ids = {}
                   THEN [data |-> {}, total |-> 0]
                   ELSE [data |-> CatalogRowsWithTrades(g),
                         total |-> Cardinality({i \in Items : Counted(i, g)})]
    BY <2>3 DEF Fetch, g
  <2> QED BY <2>4, <2>5, FS_EmptySet
<1>2. PricesInv => TotalIsExact
  BY <1>1 DEF TotalIsExact
<1> QED BY <1>2, FeedsAndOrders, PTL

-----------------------------------------------------------------------------
(* What is on sale has a price within the limits. *)

\* What the joins hold are offers within each limit asked for.
LEMMA JoinedOffers ==
    ASSUME PricesInv, NEW i \in Items, NEW f, Sought(f)
    PROVE  LET Within == {p \in OffersOf(i) : /\ p \in Nat /\ p < MaxNumeric /\ p >= f.min
                                              /\ f.max # 0 => p <= f.max}
           IN  /\ OrderPrices(i, f) \subseteq Within
               /\ PricesOf(OffchainOrders(i, f)) \subseteq Within
               /\ PricesOf(NftsListings(i, f)) \subseteq Within
               /\ PricesOf(ItemsListings(i, f)) \subseteq Within
<1> DEFINE Within == {p \in OffersOf(i) : /\ p \in Nat /\ p < MaxNumeric /\ p >= f.min
                                          /\ f.max # 0 => p <= f.max}
<1>0. \A p : InRange(p, Plain)
  BY PlainFilter DEF InRange
<1>1. ASSUME NEW n \in NftsWithOrders(i, f) PROVE n[2].price \in Within
  <2>1. n \in OrdersOf(i) /\ InRange(n[2].price, f)
    BY DEF NftsWithOrders
  <2>2. n[2].price \in OrderPrices(i, Plain)
    BY <1>0, <2>1 DEF OrderPrices, NftsWithOrders
  <2>3. n[2].price \in Nat /\ n[2].price < MaxNumeric
    BY <2>1, PricesKnown
  <2> QED BY <2>1, <2>2, <2>3 DEF OffersOf, InRange, Sought
<1>2. ASSUME NEW r \in OffchainOrders(i, f) PROVE r.trade.price \in Within
  <2>1. r \in TradesOf(i) /\ InRange(r.trade.price, f)
    BY DEF OffchainOrders
  <2>2. r \in OffchainOrders(i, Plain)
    BY <1>0, <2>1, PlainFilter DEF OffchainOrders
  <2>3. r.trade.price \in PricesOf(OffchainOrders(i, Plain))
    BY <2>2 DEF PricesOf
  <2>4. r.trade.price \in Nat /\ r.trade.price < MaxNumeric
    BY <2>1, PricesKnown
  <2> QED BY <2>1, <2>3, <2>4 DEF OffersOf, InRange, Sought
<1> HIDE DEF Within
<1>3. NftsListings(i, f) \subseteq OffchainOrders(i, f) /\ ItemsListings(i, f) \subseteq OffchainOrders(i, f)
  BY DEF NftsListings, ItemsListings, OfType
<1>4. OrderPrices(i, f) \subseteq Within
  BY <1>1 DEF OrderPrices
<1>5. \A R : R \subseteq OffchainOrders(i, f) => PricesOf(R) \subseteq Within
  BY <1>2 DEF PricesOf
<1> QED BY <1>3, <1>4, <1>5 DEF Within

\* The card's least price is one of those it has to choose from, for there is one.
LEMMA LeastPriceIsOffered ==
    ASSUME PricesInv, NEW i \in Items, NEW f, Sought(f), f.isOnSale = OnSale, Shown(i, f),
           items[i].v3 => items[i].store
    PROVE  MinPriceCaseWithTrades(i, f) \subseteq {p \in OffersOf(i) : p >= f.min}
<1> DEFINE Good == {p \in OffersOf(i) : p \in Nat /\ p <= MaxNumeric /\ p >= f.min}
           Own == {p \in {ItemPrice[i]} : Offered(i) /\ p >= f.min}
           All == OfferedToo(i, f) \cup Own
           trades == PricesOf(ItemsListings(i, f))
<1>0. /\ OrderPrices(i, f) \subseteq Good /\ PricesOf(NftsListings(i, f)) \subseteq Good
      /\ trades \subseteq Good
  <2> DEFINE Within == {p \in OffersOf(i) : /\ p \in Nat /\ p < MaxNumeric /\ p >= f.min
                                            /\ f.max # 0 => p <= f.max}
  <2>1. /\ OrderPrices(i, f) \subseteq Within /\ PricesOf(NftsListings(i, f)) \subseteq Within
        /\ trades \subseteq Within
    BY JoinedOffers
  <2>2. Within \subseteq Good
    BY PricesKnown
  <2> HIDE DEF Within, Good, trades
  <2> QED BY <2>1, <2>2
<1>1. ItemPrice[i] \in Nat /\ ItemPrice[i] <= MaxNumeric /\ MaxNumeric \in Nat
  BY PricesKnown
<1>2. Own \subseteq Good
  <2>1. Offered(i) => StoreSells(i)
    BY DEF Offered, MaySell, StoreSells
  <2> QED BY <1>1, <2>1 DEF OffersOf
<1>3. OpenItemTradePrice(i, f) \subseteq Good /\ (trades # {} => OpenItemTradePrice(i, f) # {})
  <2>1. ASSUME trades # {} PROVE Max(trades) \in trades
    <3>1. trades \in SUBSET Nat /\ \A x \in trades : x <= MaxNumeric
      BY <1>0, <1>1
    <3> QED BY <1>1, <2>1, <3>1, GreatestIsOne
  <2>2. OpenItemTradePrice(i, f) = IF trades = {} THEN {} ELSE {Max(trades)}
    BY DEF OpenItemTradePrice, Greatest
  <2> HIDE DEF trades, Good
  <2> QED BY <1>0, <2>1, <2>2
<1>4. All \subseteq Good
  BY <1>0, <1>2, <1>3 DEF OfferedToo
\* Something is for sale, and if only by the store then at no less than what was asked.
<1>5. All # {}
  <2>1. IsOnSaleWithTrades(i, f)
    BY SaleParameters DEF Shown, SaleWhere, Sought
  <2>2. OffchainOrders(i, f) # {} => All # {}
    <3> SUFFICES ASSUME NEW r \in OffchainOrders(i, f) PROVE All # {}
        OBVIOUS
    <3>1. r.trade.type \in TradeTypes
      BY PricesKnown DEF OffchainOrders
    <3>2. r \in NftsListings(i, f) \/ r \in ItemsListings(i, f)
      BY <3>1 DEF TradeTypes, NftsListings, ItemsListings, OfType
    <3>3. PricesOf(NftsListings(i, f)) # {} \/ trades # {}
      BY <3>2 DEF PricesOf
    <3> HIDE DEF trades
    <3> QED BY <1>3, <3>3 DEF OfferedToo
  <2>3. ~f.onlyMinting /\ NftsWithOrders(i, f) # {} => All # {}
    BY DEF OrderPrices, OfferedToo
  <2>4. ASSUME Offered(i) PROVE All # {}
    <3>1. CASE f.min = 0 \/ ItemPrice[i] >= f.min
      BY <1>1, <2>4, <3>1
    <3>2. CASE f.min # 0 /\ ~(ItemPrice[i] >= f.min)
      <4>1. MinPriceWhere(i, f)
        BY <3>2 DEF Shown
      <4>2. /\ ~f.onlyMinting
            /\ \/ AtLeast(OrderPrices(i, f), f.min)
               \/ AtLeast(PricesOf(NftsListings(i, f)), f.min)
        <5> HIDE DEF All
        <5>1. CASE f.onlyMinting
          BY <3>2, <4>1, <5>1 DEF MinPriceWhere
        <5>2. CASE ~f.onlyMinting /\ f.onlyListing
          BY <4>1, <5>2 DEF MinPriceWhere
        <5>3. CASE ~f.onlyMinting /\ ~f.onlyListing
          BY <3>2, <4>1, <5>3 DEF MinPriceWhere
        <5> QED BY <5>1, <5>2, <5>3
      <4>3. OrderPrices(i, f) # {} \/ PricesOf(NftsListings(i, f)) # {}
        BY <4>2 DEF AtLeast, Least
      <4> QED BY <4>2, <4>3 DEF OfferedToo
    <3> QED BY <3>1, <3>2
  <2>5. Offered(i) \/ OffchainOrders(i, f) # {} \/ (~f.onlyMinting /\ NftsWithOrders(i, f) # {})
    BY <2>1 DEF IsOnSaleWithTrades, Mintable, Offered, MaySell
  <2> HIDE DEF All
  <2> QED BY <2>2, <2>3, <2>4, <2>5
<1>6. MinPriceCaseWithTrades(i, f) = {Min({MaxNumeric} \cup All)}
  <2>1. {MaxNumeric} \cup All = {MaxNumeric} \cup OfferedToo(i, f) \cup Own
    OBVIOUS
  <2> QED BY <2>1 DEF MinPriceCaseWithTrades
<1> HIDE DEF All
<1>7. Min({MaxNumeric} \cup All) \in Good
  <2>1. {MaxNumeric} \cup All \in SUBSET Nat /\ {MaxNumeric} \cup All # {}
    BY <1>1, <1>4
  <2> DEFINE m == Min({MaxNumeric} \cup All)
  <2>2. m \in {MaxNumeric} \cup All /\ \A x \in {MaxNumeric} \cup All : m <= x
    BY <2>1, LeastIsOne
  <2> HIDE DEF m
  <2>3. m = MaxNumeric => m \in All
    <3>1. PICK x \in All : x \in Good
      BY <1>4, <1>5
    <3>2. x \in Nat /\ x <= MaxNumeric /\ m <= x
      BY <2>2, <3>1
    <3> QED BY <1>1, <3>2
  <2>4. m \in Good
    BY <1>4, <2>2, <2>3
  <2> QED BY <2>4 DEF m
<1> QED BY <1>6, <1>7

\* Only a store that sells needs its price to be within the limits; all else is so by the joins.
LEMMA LimitsAreMet ==
    ASSUME PricesInv, NEW i \in Items, NEW f, Sought(f), f.isOnSale = OnSale, Shown(i, f)
    PROVE  /\ f.min # 0 => \E p \in OffersOf(i) : p >= f.min
           /\ f.max # 0 => \E p \in OffersOf(i) : p <= f.max
<1> DEFINE joined == OrderPrices(i, f) \cup PricesOf(OffchainOrders(i, f))
<1>1. \A p \in joined : p \in OffersOf(i) /\ p >= f.min /\ (f.max # 0 => p <= f.max)
  BY JoinedOffers
<1>2. joined # {} \/ StoreSells(i)
  <2>1. IsOnSaleWithTrades(i, f)
    BY SaleParameters DEF Shown, SaleWhere, Sought
  <2>2. StoreSells(i) \/ OffchainOrders(i, f) # {} \/ NftsWithOrders(i, f) # {}
    BY <2>1 DEF IsOnSaleWithTrades, Mintable, StoreSells
  <2> QED BY <2>2 DEF OrderPrices, PricesOf
<1>3. ASSUME joined = {}, StoreSells(i)
      PROVE  /\ f.min # 0 => ItemPrice[i] >= f.min
             /\ f.max # 0 => ItemPrice[i] <= f.max
  <2>1. OrderPrices(i, f) = {} /\ PricesOf(NftsListings(i, f)) = {}
    BY <1>3 DEF PricesOf, NftsListings, OfType
  <2>2. \A p : ~AtLeast({}, p) /\ ~AtMost({}, p)
    BY DEF AtLeast, AtMost, Least, Greatest
  <2>3. f.min # 0 => ItemPrice[i] >= f.min
    BY <2>1, <2>2 DEF Shown, MinPriceWhere
  <2>4. f.max # 0 => ItemPrice[i] <= f.max
    BY <2>1, <2>2 DEF Shown, MaxPriceWhere
  <2> QED BY <2>3, <2>4
<1>4. StoreSells(i) => ItemPrice[i] \in OffersOf(i)
  BY DEF OffersOf
<1> HIDE DEF joined
<1> QED BY <1>1, <1>2, <1>3, <1>4

\* GET /v2/catalog: whatever is shown as on sale can be bought within each limit that was
\* asked for, and the least price of its card is one it can be bought at where the store is
\* the only one who may mint, or may as well.
THEOREM OnSaleIsInRange == Spec => []OnSaleInRange
<1>1. ASSUME PricesInv, NEW f \in Filters, f.v2, f.isOnSale = OnSale, NEW i \in Items, Shown(i, f)
      PROVE  /\ f.min # 0 => \E p \in OffersOf(i) : p >= f.min
             /\ f.max # 0 => \E p \in OffersOf(i) : p <= f.max
             /\ (items[i].v3 => items[i].store)
                  => MinPriceCaseWithTrades(i, f) \subseteq {p \in OffersOf(i) : p >= f.min}
  <2>1. Sought(f)
    BY <1>1, FiltersSought, SaleParameters
  <2> QED BY <1>1, <2>1, LeastPriceIsOffered, LimitsAreMet
<1>2. PricesInv => OnSaleInRange
  BY <1>1 DEF OnSaleInRange
<1> QED BY <1>2, FeedsAndOrders, PTL

(***************************************************************************)
(* 2. The tokens and their orders.                                         *)
(***************************************************************************)

Holders == Users \cup {Custodian}

\* No token has two orders, and the view has no two rows of one trade; a row of the view is
\* there only if who signed its trade owned the token when the view was refreshed.
TablesInv ==
  /\ owner \in [Tokens -> Holders]
  /\ orders \in [Tokens -> SUBSET [owner : Holders, price : Prices]]
  /\ \A k \in Tokens : \A o, p \in orders[k] : o = p
  /\ lessor \in [Tokens -> SUBSET Holders]
  /\ open \subseteq Trades
  /\ \A r \in view : r.trade \in Trades
  /\ \A r \in view : ~IsItemOrder(r.trade) => r.owner = {r.trade.signer}
  /\ \A r, q \in view :
       ~IsItemOrder(r.trade) /\ r.trade = q.trade => r = q

Followed == {"assets", "page", "orders", "listings"}
\* What a request holds: its rentals filter the page they were asked for, and until something
\* moves the orders on its rows are those of the table.
ReqInv ==
  req.phase \in Followed =>
    /\ req.f \in Requests
    /\ req.phase \in {"assets", "page"} =>
         req = [phase |-> req.phase, f |-> req.f, assets |-> req.assets, rentals |-> req.rentals]
    /\ req.phase = "orders" =>
         req = [phase |-> "orders", f |-> req.f, rentals |-> req.rentals, rows |-> req.rows,
                calm |-> req.calm]
    /\ \A rented, r \in req.rentals : rented = r
    /\ req.rentals # {} => req.f.category = {"parcel"}
    /\ req.phase \in {"orders", "listings"} /\ req.f.onSale # {TRUE} =>
         \A rented \in req.rentals : rented # {} =>
           \A row \in req.rows : IsLand(row.token) /\ row.token \in rented
    /\ req.phase = "orders" /\ req.calm =>
         \A row \in req.rows : row.token \in Tokens
           /\ \A o \in row.offer : o.trade # {} \/ o \in OrderOffers(row.token)

NftsInv == TablesInv /\ ReqInv

LEMMA NftSent == \A t \in Trades : ~IsItemOrder(t) => t.sent \in Tokens
<1> SUFFICES ASSUME NEW t \in Trades, ~IsItemOrder(t) PROVE t.sent \in Tokens
    OBVIOUS
<1>1. t.sent \in IF t.type = "public_item_order" THEN Items ELSE Tokens
  BY MarketAssumption
<1> QED BY <1>1 DEF IsItemOrder

LEMMA InitNfts == NInit => NftsInv
BY DEF NInit, Idle, NftsInv, TablesInv, ReqInv, Followed, Holders

\* The steps of a request leave the tables, those of the tables are seen as disturbance.
LEMMA SameTables == TablesInv /\ UNCHANGED tables => TablesInv'
BY DEF TablesInv, tables, vars

LEMMA DisturbKeepsReq == ReqInv /\ Disturb => ReqInv'
<1> SUFFICES ASSUME ReqInv, Disturb PROVE ReqInv'
    OBVIOUS
<1>1. CASE req.phase = "orders"
  <2>1. req' = [req EXCEPT !.calm = FALSE]
    BY <1>1 DEF Disturb
  <2>2. /\ req'.phase = req.phase /\ req'.f = req.f /\ req'.rentals = req.rentals
        /\ req'.rows = req.rows /\ ~req'.calm
        /\ req' = [phase |-> "orders", f |-> req.f, rentals |-> req.rentals, rows |-> req.rows,
                   calm |-> FALSE]
    BY <1>1, <2>1 DEF ReqInv, Followed
  <2>3. \A rented, r \in req.rentals : rented = r
    BY <1>1 DEF ReqInv, Followed
  <2>4. req'.f.onSale = req.f.onSale /\ req'.f.category = req.f.category /\ req'.f \in Requests
    BY <1>1, <2>2 DEF ReqInv, Followed
  <2>5. req.f.onSale # {TRUE} => \A rented \in req.rentals : rented # {} =>
          \A row \in req.rows : IsLand(row.token) /\ row.token \in rented
    BY <1>1 DEF ReqInv, Followed
  <2> QED BY <1>1, <2>2, <2>3, <2>4, <2>5 DEF ReqInv, Followed
<1>2. CASE req.phase # "orders"
  BY <1>2 DEF Disturb, ReqInv
<1> QED BY <1>1, <1>2

LEMMA TablesChange ==
    ASSUME NftsInv, TablesInv', Disturb
    PROVE  NftsInv'
BY DisturbKeepsReq DEF NftsInv

LEMMA OrdersChange ==
    ASSUME TablesInv, NEW k \in Tokens, NEW O, O \subseteq [owner : Holders, price : Prices],
           \A o, p \in O : o = p,
           orders' = [orders EXCEPT ![k] = O], UNCHANGED <<owner, open, view, lessor>>
    PROVE  TablesInv'
<1>1. orders' \in [Tokens -> SUBSET [owner : Holders, price : Prices]]
  BY DEF TablesInv
<1>2. \A m \in Tokens : orders'[m] = IF m = k THEN O ELSE orders[m]
  BY DEF TablesInv
<1>3. \A m \in Tokens : \A o, p \in orders'[m] : o = p
  BY <1>2 DEF TablesInv
<1> QED BY <1>1, <1>3 DEF TablesInv

LEMMA MarketMovesKeep == NftsInv /\ MarketMoves => NftsInv'
<1> SUFFICES ASSUME NftsInv, MarketMoves PROVE NftsInv'
    OBVIOUS
<1> USE DEF NftsInv
<1>0. UNCHANGED lessor
  BY DEF MarketMoves, Aside
<1>1. ASSUME NEW k \in Tokens, NEW u \in Users, Transfer(k, u) PROVE TablesInv'
  <2>1. owner' \in [Tokens -> Holders]
    BY <1>1 DEF Transfer, TablesInv, Holders
  <2>2. UNCHANGED <<items, orders, open, view, lessor>>
    BY <1>0, <1>1 DEF Transfer
  <2> QED BY <2>1, <2>2 DEF TablesInv
<1>2. ASSUME NEW t \in Trades, StoreTrade(t) PROVE TablesInv'
  <2>1. open' = open \cup {t} /\ UNCHANGED <<owner, orders, view, lessor>>
    BY <1>0, <1>2 DEF StoreTrade
  <2> QED BY <2>1 DEF TablesInv
<1>3. TablesInv'
  BY <1>1, <1>2 DEF MarketMoves
<1> QED BY <1>3, TablesChange DEF MarketMoves

LEMMA OrderMovesKeep ==
    ASSUME NftsInv, NEW k \in Tokens, OrderMoves(k)
    PROVE  NftsInv'
<1>0. UNCHANGED lessor /\ TablesInv
  BY DEF OrderMoves, Aside, NftsInv
<1>1. ASSUME NEW p \in Prices, PlaceOrder(k, p) PROVE TablesInv'
  <2> DEFINE O == {[owner |-> owner[k], price |-> p]}
  <2>1. O \subseteq [owner : Holders, price : Prices]
    BY <1>0 DEF TablesInv
  <2>2. \A o, q \in O : o = q
    OBVIOUS
  <2>3. orders' = [orders EXCEPT ![k] = O] /\ UNCHANGED <<owner, open, view, lessor>>
    BY <1>0, <1>1 DEF PlaceOrder
  <2> HIDE DEF O
  <2> QED BY <1>0, <2>1, <2>2, <2>3, OrdersChange
<1>2. ASSUME EndOrder(k) PROVE TablesInv'
  <2>1. orders' = [orders EXCEPT ![k] = {}] /\ UNCHANGED <<owner, open, view, lessor>>
    BY <1>0, <1>2 DEF EndOrder
  <2> QED BY <1>0, <2>1, OrdersChange
<1>3. ASSUME UNCHANGED vars PROVE TablesInv'
  BY <1>0, <1>3 DEF TablesInv, vars
<1>4. TablesInv'
  BY <1>1, <1>2, <1>3 DEF OrderMoves
<1> QED BY <1>4, TablesChange DEF OrderMoves

LEMMA CloseKeeps == NftsInv /\ CloseTrade => NftsInv'
<1> SUFFICES ASSUME NftsInv, CloseTrade PROVE NftsInv'
    OBVIOUS
<1>1. open' \subseteq open /\ UNCHANGED <<owner, orders, view, lessor>>
  BY DEF CloseTrade, EndTrade, vars
<1>2. TablesInv'
  BY <1>1 DEF NftsInv, TablesInv
<1> QED BY <1>2, TablesChange DEF CloseTrade

LEMMA RefreshAllKeeps == NftsInv /\ RefreshAll => NftsInv'
<1> SUFFICES ASSUME NftsInv, RefreshAll PROVE NftsInv'
    OBVIOUS
<1>1. view' = OpenRows /\ UNCHANGED <<owner, orders, open, lessor>>
  BY DEF RefreshAll, RefreshView
<1>2. ASSUME NEW r \in OpenRows
      PROVE  /\ r.trade \in open /\ r.trade \in Trades /\ r = Row(r.trade)
             /\ ~IsItemOrder(r.trade) => r.owner = {r.trade.signer}
  <2>1. PICK t \in open : r = Row(t) /\ OwnerOk(t)
    BY DEF OpenRows
  <2>2. r.trade = t /\ t \in Trades
    BY <2>1 DEF Row, NftsInv, TablesInv
  <2>3. ASSUME ~IsItemOrder(t) PROVE r.owner = {t.signer}
    <3>1. owner[t.sent] \in Holders
      BY <2>2, <2>3, NftSent DEF NftsInv, TablesInv
    <3>2. owner[t.sent] # Nobody
      BY <3>1, MarketAssumption, NftsAssumption DEF Holders
    <3>3. owner[t.sent] = t.signer
      BY <2>1, <2>3, <3>2 DEF OwnerOk
    <3>4. r.owner = {owner[t.sent]} \ {Nobody}
      BY <2>1, <2>3 DEF Row
    <3> QED BY <3>2, <3>3, <3>4
  <2> QED BY <2>1, <2>2, <2>3
<1>4. TablesInv'
  <2>1. \A r \in view' : r.trade \in Trades /\ (~IsItemOrder(r.trade) => r.owner = {r.trade.signer})
    BY <1>1, <1>2
  <2>2. \A r, q \in view' :
          ~IsItemOrder(r.trade) /\ r.trade = q.trade => r = q
    BY <1>1, <1>2
  <2>3. UNCHANGED <<owner, orders, open, lessor>>
    BY <1>1
  <2> HIDE DEF RefreshAll
  <2> QED BY <2>1, <2>2, <2>3 DEF NftsInv, TablesInv
<1> QED BY <1>4, TablesChange DEF RefreshAll

LEMMA RentKeeps ==
    ASSUME NftsInv, NEW k \in Tokens, OfferRent(k) \/ Lease(k) \/ EndLease(k)
    PROVE  NftsInv'
<1>1. /\ owner' \in [Tokens -> Holders] /\ lessor' \in [Tokens -> SUBSET Holders]
      /\ UNCHANGED <<orders, open, view>> /\ Disturb
  BY DEF OfferRent, Lease, EndLease, vars, NftsInv, TablesInv, Holders
<1>2. TablesInv'
  BY <1>1 DEF NftsInv, TablesInv
<1> QED BY <1>1, <1>2, TablesChange

LEMMA CutsAreParts ==
    ASSUME NEW R, NEW f
    PROVE  \A P \in CutRows(R, f) \cup CutTokens(R, f) : P \subseteq R
BY DEF CutRows, CutTokens, PagesOf

LEMMA JoinedHas ==
    ASSUME NEW k, NEW O, NEW row \in Join(k, O)
    PROVE  row.token = k /\ row.offer \subseteq O
BY DEF Join, InnerJoin

\* Land is cut before the joins, or, when looked for by ids, after them.
LEMMA LandsCut ==
    ASSUME NEW f, NEW ids, NEW assets, NEW answer \in AllLands(f, ids, assets), NEW row \in answer.rows
    PROVE  \E K \in SUBSET LandsOf(f, ids, assets) : row \in LandRows(K, f)
<1> DEFINE K == LandsOf(f, ids, assets)
<1>1. CASE ids = {}
  <2>1. PICK L \in CutTokens(K, f) : row \in LandRows(L, f)
    BY <1>1 DEF AllLands, Windowed, Answer
  <2> QED BY <2>1, CutsAreParts
<1>2. CASE ids # {}
  <2>1. PICK P \in CutRows(LandRows(K, f), f) : row \in P
    BY <1>2 DEF AllLands, Windowed, Answer
  <2> QED BY <2>1, CutsAreParts
<1> QED BY <1>1, <1>2

\* The offers of a row are those of trades, or are in the table.
LEMMA RowsAreOfTables ==
    ASSUME NEW f \in Requests, NEW ids, NEW assets, NEW answer \in NftsPages(f, ids, assets),
           NEW row \in answer.rows
    PROVE  /\ row.token \in Tokens
           /\ \A o \in row.offer : o.trade # {} \/ o \in OrderOffers(row.token)
<1> DEFINE Told == /\ row.token \in Tokens
                   /\ \A o \in row.offer : o.trade # {} \/ o \in OrderOffers(row.token)
<1>1. \A T, k : \A o \in OffersIn(T, k) : o.trade # {}
  BY DEF OffersIn, Offer
<1>2. ASSUME NEW k \in Tokens, NEW O, row \in Join(k, O),
             \A o \in O : o.trade # {} \/ o \in OrderOffers(k)
      PROVE  Told
  BY <1>2, JoinedHas
<1>3. ASSUME answer \in LandsOnSale(f) PROVE Told
  <2>1. row \in SaleRows(f)
    BY <1>3, CutsAreParts DEF LandsOnSale, CutAfter, Windowed, Answer
  <2>2. PICK k \in Tokens : \E o \in InLimits(OrderOffers(k) \cup TradeOffers(k), f) :
                              row = [token |-> k, offer |-> {o}]
    BY <2>1 DEF SaleRows, InnerJoin
  <2>3. \A o \in InLimits(OrderOffers(k) \cup TradeOffers(k), f) : o.trade # {} \/ o \in OrderOffers(k)
    BY <1>1 DEF InLimits, TradeOffers
  <2> HIDE DEF Told
  <2>4. PICK o \in InLimits(OrderOffers(k) \cup TradeOffers(k), f) : row = [token |-> k, offer |-> {o}]
    BY <2>2
  <2>5. row.token = k /\ row.offer = {o}
    BY <2>4
  <2> QED BY <2>3, <2>4, <2>5 DEF Told
<1>4. ASSUME answer \in AllLands(f, ids, assets) PROVE Told
  <2>1. PICK K \in SUBSET LandsOf(f, ids, assets) : row \in LandRows(K, f)
    BY <1>4, LandsCut
  <2>2. PICK k \in K : row \in Join(k, OrderOffers(k) \cup InLimits(TradeOffers(k), f))
    BY <2>1 DEF LandRows
  <2>3. k \in Tokens
    BY <2>1, <2>2 DEF LandsOf
  <2>4. \A o \in OrderOffers(k) \cup InLimits(TradeOffers(k), f) : o.trade # {} \/ o \in OrderOffers(k)
    BY <1>1 DEF InLimits, TradeOffers
  <2> QED BY <1>2, <2>2, <2>3, <2>4
<1>5. ASSUME answer \in EnsPages(f, ids) PROVE Told
  <2>1. row \in EnsRows(f, ids)
    BY <1>5, CutsAreParts DEF EnsPages, Answer
  <2>2. PICK k \in Tokens : row \in Join(k, TradeOffers(k))
    BY <2>1 DEF EnsRows
  <2>3. \A o \in TradeOffers(k) : o.trade # {}
    BY <1>1 DEF TradeOffers
  <2> QED BY <1>2, <2>2, <2>3
<1>6. ASSUME answer = RecentPage(f, ids) PROVE Told
  <2>1. RecentTraded(f, ids) \subseteq Tokens /\ RecentOrdered(f, ids) \subseteq Tokens
    BY DEF RecentTraded, RecentOrdered, RecentAmong
  <2>2. \/ \E k \in RecentTraded(f, ids) : row \in Join(k, OffersIn(RecentTrades, k))
        \/ \E k \in RecentOrdered(f, ids) : row \in Join(k, {})
    BY <1>6 DEF RecentPage, Answer
  <2>3. ASSUME NEW k \in Tokens, row \in Join(k, OffersIn(RecentTrades, k)) PROVE Told
    BY <1>1, <1>2, <2>3
  <2>4. ASSUME NEW k \in Tokens, row \in Join(k, {}) PROVE Told
    BY <1>2, <2>4
  <2> QED BY <2>1, <2>2, <2>3, <2>4
<1>7. ASSUME answer \in DefaultPages(f, ids) PROVE Told
  <2>1. PICK K : row \in JoinedRows(K, f) /\ K \subseteq Tokens
    <3>1. Candidates(f, ids) \subseteq Tokens
      BY DEF Candidates
    <3>2. CASE f.owner = {}
      BY <1>7, <3>1, <3>2, CutsAreParts DEF DefaultPages, CutBefore, Windowed, Answer
    <3>3. CASE f.owner # {}
      BY <1>7, <3>1, <3>3, CutsAreParts DEF DefaultPages, CutAfter, Windowed, Answer
    <3> QED BY <3>2, <3>3
  <2>2. PICK k \in K : row \in Join(k, {o \in TradeOffers(k) : o.signer = owner[k]})
    BY <2>1 DEF JoinedRows
  <2>3. \A o \in {x \in TradeOffers(k) : x.signer = owner[k]} : o.trade # {}
    BY <1>1 DEF TradeOffers
  <2> QED BY <1>2, <2>1, <2>2, <2>3
<1>8. \/ answer \in LandsOnSale(f) \/ answer \in AllLands(f, ids, assets)
      \/ answer \in EnsPages(f, ids) \/ answer = RecentPage(f, ids) \/ answer \in DefaultPages(f, ids)
  BY DEF NftsPages
<1> HIDE DEF Told
<1>9. Told
  BY <1>3, <1>4, <1>5, <1>6, <1>7, <1>8
<1> QED BY <1>9 DEF Told

LEMMA RentedRows ==
    ASSUME NEW f \in Requests, f.category = {"parcel"}, f.onSale # {TRUE},
           NEW ids, ids # {}, NEW assets, NEW answer \in NftsPages(f, ids, assets),
           NEW row \in answer.rows
    PROVE  IsLand(row.token) /\ row.token \in ids
<1>1. answer \in AllLands(f, ids, assets)
  <2>1. "parcel" # "ens"
    OBVIOUS
  <2>2. f.category # {"ens"} /\ f.sort # "recent"
    BY <2>1, NftsAssumption
  <2>3. NftsPages(f, ids, assets) = AllLands(f, ids, assets)
    BY <2>2 DEF NftsPages
  <2> QED BY <2>3
<1>2. PICK K \in SUBSET LandsOf(f, ids, assets) : row \in LandRows(K, f)
  BY <1>1, LandsCut
<1>3. PICK k \in K : row \in Join(k, OrderOffers(k) \cup InLimits(TradeOffers(k), f))
  BY <1>2 DEF LandRows
<1>4. row.token = k /\ k \in LandsOf(f, ids, assets)
  BY <1>2, <1>3, JoinedHas
<1> QED BY <1>4 DEF LandsOf, ByIds

-----------------------------------------------------------------------------
(* The steps of a request. *)

LEMMA AskKeeps ==
    ASSUME NftsInv, NEW f \in Served, AskNfts(f)
    PROVE  NftsInv'
<1> DEFINE ph == IF f.owner = {} THEN "page" ELSE "assets"
           rs == IF f.onRent /\ f.category = {"parcel"}
                 THEN {{k \in Tokens : \E u \in listed[k] : Asked(f.owner, u)}} ELSE {}
<1>1. req' = [phase |-> ph, f |-> f, assets |-> {}, rentals |-> rs]
  BY DEF AskNfts
<1>2. f \in Requests /\ ph \in {"page", "assets"} /\ (rs # {} => f.category = {"parcel"})
      /\ \A rented, r \in rs : rented = r
  BY NftsAssumption
<1> HIDE DEF ph, rs
<1>3. ReqInv'
  BY <1>1, <1>2 DEF ReqInv, Followed
<1>4. TablesInv'
  BY SameTables DEF NftsInv, AskNfts
<1> QED BY <1>3, <1>4 DEF NftsInv

LEMMA AssetsKeep == NftsInv /\ GetRentalAssets => NftsInv'
<1> SUFFICES ASSUME NftsInv, GetRentalAssets PROVE NftsInv'
    OBVIOUS
<1> DEFINE as == {k \in Tokens : IsLand(k) /\ req.f.owner \cap lessor[k] # {}}
<1>1. req = [phase |-> "assets", f |-> req.f, assets |-> req.assets, rentals |-> req.rentals]
      /\ req.f \in Requests /\ (req.rentals # {} => req.f.category = {"parcel"})
      /\ \A rented, r \in req.rentals : rented = r
  BY DEF GetRentalAssets, NftsInv, ReqInv, Followed
<1>2. req' = [req EXCEPT !.phase = "page", !.assets = as]
  BY DEF GetRentalAssets
<1> HIDE DEF as
<1>3. req' = [phase |-> "page", f |-> req.f, assets |-> as, rentals |-> req.rentals]
  BY <1>1, <1>2
<1>4. ReqInv'
  BY <1>1, <1>3 DEF ReqInv, Followed
<1>5. TablesInv'
  BY SameTables DEF NftsInv, GetRentalAssets
<1> QED BY <1>4, <1>5 DEF NftsInv

LEMMA QueryKeeps == NftsInv /\ QueryPage => NftsInv'
<1> SUFFICES ASSUME NftsInv, QueryPage PROVE NftsInv'
    OBVIOUS
<1> DEFINE f == req.f  ids == UNION req.rentals
<1>0. PICK answer \in NftsPages(f, ids, req.assets) :
        req' = [phase |-> "orders", f |-> f, rentals |-> req.rentals, rows |-> answer.rows, calm |-> TRUE]
  BY DEF QueryPage
<1> DEFINE rows == answer.rows
<1>1. f \in Requests /\ (req.rentals # {} => f.category = {"parcel"})
      /\ \A rented, r \in req.rentals : rented = r
  BY DEF QueryPage, NftsInv, ReqInv, Followed
<1>2. req' = [phase |-> "orders", f |-> f, rentals |-> req.rentals, rows |-> rows, calm |-> TRUE]
  BY <1>0
<1>3. \A row \in rows : /\ row.token \in Tokens
                        /\ \A o \in row.offer : o.trade # {} \/ o \in OrderOffers(row.token)
  BY <1>1, RowsAreOfTables
<1>4. ASSUME f.onSale # {TRUE}, NEW rented \in req.rentals, rented # {}, NEW row \in rows
      PROVE  IsLand(row.token) /\ row.token \in rented
  <2>1. ids = rented
    BY <1>1, <1>4
  <2>2. f.category = {"parcel"}
    BY <1>1, <1>4
  <2> QED BY <1>1, <1>4, <2>1, <2>2, RentedRows
<1>5. \A k : OrderOffers(k)' = OrderOffers(k)
  BY DEF QueryPage, tables, vars, OrderOffers
<1> HIDE DEF f, ids, rows
<1>6. ReqInv'
  BY <1>1, <1>2, <1>3, <1>4, <1>5 DEF ReqInv, Followed
<1>7. TablesInv'
  BY SameTables DEF NftsInv, QueryPage
<1> QED BY <1>6, <1>7 DEF NftsInv

LEMMA OrdersKeep == NftsInv /\ QueryOrders => NftsInv'
<1> SUFFICES ASSUME NftsInv, QueryOrders PROVE NftsInv'
    OBVIOUS
<1>1. PICK pick : req' = [phase |-> "listings", f |-> req.f, rentals |-> req.rentals,
                          rows |-> req.rows, orders |-> pick]
  BY DEF QueryOrders
<1>2. /\ req.f \in Requests /\ (req.rentals # {} => req.f.category = {"parcel"})
      /\ \A rented, r \in req.rentals : rented = r
      /\ req.f.onSale # {TRUE} => \A rented \in req.rentals : rented # {} =>
           \A row \in req.rows : IsLand(row.token) /\ row.token \in rented
  BY DEF QueryOrders, NftsInv, ReqInv, Followed
<1>3. ReqInv'
  BY <1>1, <1>2 DEF ReqInv, Followed
<1>4. TablesInv'
  BY SameTables DEF NftsInv, QueryOrders
<1> QED BY <1>3, <1>4 DEF NftsInv

LEMMA NftsInductive == NftsInv /\ [NNext]_nvars => NftsInv'
<1> SUFFICES ASSUME NftsInv, [NNext]_nvars PROVE NftsInv'
    OBVIOUS
<1>1. CASE Respond
  <2>1. ReqInv'
    BY <1>1 DEF Respond, Idle, ReqInv, Followed
  <2> QED BY <1>1, <2>1, SameTables DEF Respond, NftsInv
<1>2. CASE UNCHANGED nvars
  <2>1. TablesInv' /\ req' = req /\ \A k : OrderOffers(k)' = OrderOffers(k)
    BY <1>2, SameTables DEF nvars, tables, vars, OrderOffers, NftsInv
  <2> QED BY <2>1 DEF NftsInv, ReqInv
<1> QED BY <1>1, <1>2, AskKeeps, AssetsKeep, QueryKeeps, OrdersKeep, MarketMovesKeep, OrderMovesKeep, CloseKeeps,
           RefreshAllKeeps, RentKeeps DEF NNext

\* GET /v1/nfts (ports/nfts): while some land is for rent a request for what is for rent gets
\* nothing else, and the rental of each, however the rentals and the tables move meanwhile.
THEOREM RentedAreRented == NSpec => []RentedOnly
<1>1. NftsInv => RentedOnly
  <2> SUFFICES ASSUME NftsInv, req.phase = "listings", req.f.onSale # {TRUE},
                      NEW rented \in req.rentals, rented # {}, NEW row \in req.rows
               PROVE  row.token \in RentalsOfPage
      BY DEF RentedOnly, TokensOf
  <2>1. IsLand(row.token) /\ row.token \in rented
    BY DEF NftsInv, ReqInv, Followed
  <2> QED BY <2>1 DEF RentalsOfPage, TokensOf
<1> QED BY <1>1, InitNfts, NftsInductive, PTL DEF NSpec

\* The order behind an offer of the row is among those asked for.
LEMMA OfferHasOrder ==
    ASSUME NftsInv, NEW k \in Tokens, NEW o, NEW f, o.signer = owner[k], Asked(f.owner, o.signer),
           o \in OrderOffers(k) \/ (o \in TradeOffers(k) /\ o.trade \cap expired = {})
    PROVE  \E r \in OrderRows([owner |-> f.owner, token |-> {}]) : r.token = k
<1> DEFINE g == [owner |-> f.owner, token |-> {}]
<1>0. \A x : Asked({}, x)
  BY DEF Asked
<1>1. CASE o \in OrderOffers(k)
  <2>1. PICK x \in orders[k] : o = Offer(x.price, x.owner, {})
    BY <1>1 DEF OrderOffers, OfferOf
  <2>2. x.owner = owner[k] /\ Asked(f.owner, x.owner)
    BY <2>1 DEF Offer
  <2>3. <<k, x>> \in LegacyRows
    BY <2>1 DEF LegacyRows
  <2>4. <<k, x>> \in {m \in LegacyOrders(g) : Asked(g.token, m[1])}
    BY <1>0, <2>2, <2>3 DEF LegacyOrders
  <2>5. [token |-> <<k, x>>[1], owner |-> <<k, x>>[2].owner, price |-> <<k, x>>[2].price,
         trade |-> {}] \in OrderRows(g)
    BY <2>4 DEF OrderRows
  <2> QED BY <2>5
<1>2. CASE o \in TradeOffers(k) /\ o.trade \cap expired = {}
  <2>1. PICK r \in view : ~IsItemOrder(r.trade) /\ r.trade.sent = k
                          /\ o = Offer(r.trade.price, r.trade.signer, {r.trade})
    BY <1>2 DEF TradeOffers, OffersIn, OpenTrades
  <2>2. r.trade.signer \in r.owner /\ Asked(f.owner, r.trade.signer) /\ r.trade \notin expired
    BY <1>2, <2>1 DEF NftsInv, TablesInv, Offer
  <2>3. r \in {q \in TradeOrders(g) : Asked(g.token, q.trade.sent)}
    BY <1>0, <2>1, <2>2 DEF TradeOrders
  <2>4. [token |-> r.trade.sent, owner |-> r.trade.signer, price |-> r.trade.price,
         trade |-> {r.trade}] \in OrderRows(g)
    BY <2>3 DEF OrderRows
  <2> QED BY <2>1, <2>4
<1> QED BY <1>1, <1>2

\* GET /v1/nfts: the orders that go out with a page are of its rows and of the owner asked, and
\* while nothing moves each row on sale by its owner, for a time that has not passed, gets one.
THEOREM RowsComeWithOrders == NSpec => OrderGoesWithRow
<1> DEFINE Gone(row) ==
             \E o \in row.offer \cup OrderOffers(row.token) :
               o.signer = owner[row.token] /\ Asked(req.f.owner, o.signer)
               /\ (o.trade # {} => o \in TradeOffers(row.token) /\ o.trade \cap expired = {})
           Goes ==
             req.phase = "orders" /\ req'.phase = "listings" =>
               /\ \A k \in DOMAIN req'.orders : \A r \in req'.orders[k] :
                    r.token = k /\ Asked(req.f.owner, r.owner)
               /\ req.calm => \A row \in req.rows : Gone(row) => req'.orders[row.token] # {}
<1>1. ASSUME NftsInv, [NNext]_nvars, req.phase = "orders", req'.phase = "listings"
      PROVE  QueryOrders
  <2>1. req = [phase |-> "orders", f |-> req.f, rentals |-> req.rentals, rows |-> req.rows,
               calm |-> req.calm]
    BY <1>1 DEF NftsInv, ReqInv, Followed
  <2>2. ~Disturb
    BY <1>1, <2>1 DEF Disturb
  <2>3. ~ UNCHANGED nvars
    BY <1>1 DEF nvars
  <2> QED BY <1>1, <2>2, <2>3 DEF NNext, AskNfts, GetRentalAssets, QueryPage, Respond, MarketMoves,
             OrderMoves, CloseTrade, RefreshAll, OfferRent, Lease, EndLease
<1>2. ASSUME NftsInv, QueryOrders
      PROVE  Goes
  <2> DEFINE found == OrdersOfPage(req.f, TokensOf(req.rows))
             ofK(k) == {r \in found : r.token = k}
  <2>1. PICK pick \in [TokensOf(req.rows) -> {{}} \cup {{r} : r \in found}] :
          /\ \A k \in DOMAIN pick : pick[k] \subseteq ofK(k) /\ (ofK(k) # {} => pick[k] # {})
          /\ req' = [phase |-> "listings", f |-> req.f, rentals |-> req.rentals,
                     rows |-> req.rows, orders |-> pick]
    BY <1>2 DEF QueryOrders
  <2>2. req'.orders = pick /\ DOMAIN pick = TokensOf(req.rows)
    BY <2>1
  <2>3. \A r \in OrderRows([owner |-> req.f.owner, token |-> {}]) : Asked(req.f.owner, r.owner)
    BY DEF OrderRows, TradeOrders, LegacyOrders
  <2>4. \A r \in found : Asked(req.f.owner, r.owner)
    BY <2>3 DEF OrdersOfPage
  <2>5. \A k \in DOMAIN req'.orders : \A r \in req'.orders[k] :
          r.token = k /\ Asked(req.f.owner, r.owner)
    <3> HIDE DEF found
    <3> QED BY <2>1, <2>2, <2>4
  <2>6. ASSUME req.calm, NEW row \in req.rows, Gone(row)
        PROVE  req'.orders[row.token] # {}
    <3> DEFINE k == row.token
    <3>1. PICK o \in row.offer \cup OrderOffers(k) :
            /\ o.signer = owner[k] /\ Asked(req.f.owner, o.signer)
            /\ o.trade # {} => o \in TradeOffers(k) /\ o.trade \cap expired = {}
      BY <2>6
    <3>2. k \in Tokens /\ (o.trade # {} \/ o \in OrderOffers(k))
      BY <1>2, <2>6, <3>1 DEF NftsInv, ReqInv, Followed, QueryOrders
    <3>3. PICK r \in OrderRows([owner |-> req.f.owner, token |-> {}]) : r.token = k
      BY <1>2, <3>1, <3>2, OfferHasOrder
    <3>4. k \in TokensOf(req.rows)
      BY DEF TokensOf
    <3>5. r \in ofK(k)
      BY <3>3, <3>4 DEF OrdersOfPage
    <3> HIDE DEF found, k
    <3> QED BY <2>1, <2>2, <3>4, <3>5 DEF k
  <2> HIDE DEF Gone, found
  <2> QED BY <2>5, <2>6
<1>3. ASSUME NftsInv, [NNext]_nvars PROVE [Goes]_nvars
  <2> HIDE DEF Goes
  <2>1. req.phase = "orders" /\ req'.phase = "listings" => Goes
    BY <1>1, <1>2, <1>3
  <2> QED BY <2>1 DEF Goes
<1>4. NSpec => []NftsInv
  BY InitNfts, NftsInductive, PTL DEF NSpec
<1> QED BY <1>3, <1>4, PTL DEF NSpec, OrderGoesWithRow

-----------------------------------------------------------------------------
(* The pages of the orders. *)

LEMMA OrderRowShape ==
    ASSUME NftsInv, NEW f, NEW r \in OrderRows(f)
    PROVE  r.token \in Tokens /\ r.price \in Nat
<1>1. CASE \E q \in TradeOrders(f) : r = [token |-> q.trade.sent, owner |-> q.trade.signer,
                                          price |-> q.trade.price, trade |-> {q.trade}]
  <2>1. PICK q \in TradeOrders(f) : r = [token |-> q.trade.sent, owner |-> q.trade.signer,
                                         price |-> q.trade.price, trade |-> {q.trade}]
    BY <1>1
  <2>2. q.trade \in Trades /\ ~IsItemOrder(q.trade)
    BY DEF TradeOrders, NftsInv, TablesInv
  <2>3. q.trade.price \in Nat /\ q.trade.sent \in Tokens
    BY <2>2, NftSent, MarketAssumption
  <2> QED BY <2>1, <2>3
<1>2. CASE \E n \in LegacyOrders(f) : r = [token |-> n[1], owner |-> n[2].owner,
                                           price |-> n[2].price, trade |-> {}]
  <2>1. PICK n \in LegacyOrders(f) : r = [token |-> n[1], owner |-> n[2].owner,
                                          price |-> n[2].price, trade |-> {}]
    BY <1>2
  <2>0. PICK k \in Tokens : \E o \in orders[k] : n = <<k, o>>
    BY DEF LegacyOrders, LegacyRows
  <2>2. PICK o \in orders[k] : n = <<k, o>>
    BY <2>0
  <2>3. o.price \in Nat
    <3>1. o.price \in Prices
      BY DEF NftsInv, TablesInv
    <3> QED BY <3>1, MarketAssumption
  <2>4. n[1] = k /\ n[2] = o
    BY <2>2
  <2> QED BY <2>1, <2>3, <2>4
<1> QED BY <1>1, <1>2 DEF OrderRows

LEMMA OneOrderEach ==
    ASSUME NftsInv, NEW f
    PROVE  /\ \A n, m \in LegacyRows : n[1] \in Tokens /\ (n[1] = m[1] => n = m)
           /\ \A r, q \in TradeOrders(f) : r.trade \in Trades /\ (r.trade = q.trade => r = q)
<1>1. ASSUME NEW n \in LegacyRows, NEW m \in LegacyRows PROVE n[1] \in Tokens /\ (n[1] = m[1] => n = m)
  <2>1. PICK k \in Tokens : \E o \in orders[k] : n = <<k, o>>
    BY DEF LegacyRows
  <2>2. PICK l \in Tokens : \E o \in orders[l] : m = <<l, o>>
    BY DEF LegacyRows
  <2> QED BY <2>1, <2>2 DEF NftsInv, TablesInv
<1>2. \A r, q \in TradeOrders(f) : r.trade \in Trades /\ (r.trade = q.trade => r = q)
  BY DEF TradeOrders, NftsInv, TablesInv
<1> QED BY <1>1, <1>2

\* Orders of different prices do not tie, and there are no more of them than the total says.
PricesApart(R) == \A a, b \in R : a # b => a.price # b.price

LEMMA OrdersRanked ==
    ASSUME NftsInv, NEW f, NEW R, R = OrderRows(f), PricesApart(R)
    PROVE  RankedBy({p \in R \X R : CheaperOrder(p[1], p[2])}, R)
<1> DEFINE B == {p \in R \X R : CheaperOrder(p[1], p[2])}
<1>0. \A x, y \in R : <<x, y>> \in B <=> CheaperOrder(x, y)
  OBVIOUS
<1>1. \A x \in R : x.price \in Nat
  BY OrderRowShape
<1>2. \A x, y \in R : x # y => CheaperOrder(x, y) \/ CheaperOrder(y, x)
  BY <1>1 DEF CheaperOrder, PricesApart
<1>3. \A x \in R : ~CheaperOrder(x, x)
  BY <1>1 DEF CheaperOrder
<1>4. \A x, y, z \in R : CheaperOrder(x, y) /\ CheaperOrder(y, z) => CheaperOrder(x, z)
  BY <1>1 DEF CheaperOrder
<1> HIDE DEF B
<1> QED BY <1>0, <1>2, <1>3, <1>4 DEF RankedBy, InOrderBy, B

LEMMA LegacyFinite == NftsInv => IsFiniteSet(LegacyRows)
<1> SUFFICES ASSUME NftsInv PROVE IsFiniteSet(LegacyRows)
    OBVIOUS
<1> DEFINE g == [n \in LegacyRows |-> n[1]]
<1>1. g \in Injection(LegacyRows, Tokens)
  BY OneOrderEach DEF Injection, IsInjective
<1> QED BY <1>1, NftsAssumption, FS_Injection

LEMMA OrdersCounted ==
    ASSUME NftsInv, NEW of, NEW f, f = [owner |-> of, token |-> {}]
    PROVE  IsFiniteSet(OrderRows(f)) /\ Cardinality(OrderRows(f)) <= OrdersTotal(f)
<1> DEFINE L == {n \in LegacyRows : Asked(f.owner, n[2].owner)}
           N == {m \in LegacyOrders(f) : Asked(f.token, m[1])}
           T == {q \in TradeOrders(f) : Asked(f.token, q.trade.sent)}
           RowOfTrade(r) == [token |-> r.trade.sent, owner |-> r.trade.signer,
                             price |-> r.trade.price, trade |-> {r.trade}]
           RowOfOrder(n) == [token |-> n[1], owner |-> n[2].owner, price |-> n[2].price,
                             trade |-> {}]
           A == {RowOfTrade(r) : r \in T}
           C == {RowOfOrder(n) : n \in N}
<1>1. IsFiniteSet(LegacyRows)
  BY LegacyFinite
<1>2. IsFiniteSet(TradeOrders(f))
  <2> DEFINE g == [r \in TradeOrders(f) |-> r.trade]
  <2>0. \A r, q \in TradeOrders(f) : r.trade \in Trades /\ (r.trade = q.trade => r = q)
    BY OneOrderEach
  <2>1. g \in Injection(TradeOrders(f), Trades)
    BY <2>0 DEF Injection, IsInjective
  <2> QED BY <2>1, NftsAssumption, FS_Injection
<1>3. IsFiniteSet(L) /\ IsFiniteSet(N) /\ Cardinality(N) <= Cardinality(L)
  <2>1. N \subseteq L /\ L \subseteq LegacyRows
    BY DEF LegacyOrders
  <2> HIDE DEF N, L
  <2> QED BY <1>1, <2>1, FS_Subset
<1>4. IsFiniteSet(T) /\ Cardinality(T) <= Cardinality(TradeOrders(f))
  <2>1. T \subseteq TradeOrders(f)
    OBVIOUS
  <2> HIDE DEF T
  <2> QED BY <1>2, <2>1, FS_Subset
<1>5. IsFiniteSet(A) /\ Cardinality(A) <= Cardinality(T)
  <2> DEFINE g == [r \in T |-> RowOfTrade(r)]
  <2> HIDE DEF T
  <2>1. g \in Surjection(T, A)
    BY DEF Surjection
  <2> HIDE DEF A, g
  <2> QED BY <1>4, <2>1, FS_Surjection
<1>6. IsFiniteSet(C) /\ Cardinality(C) <= Cardinality(N)
  <2> DEFINE g == [n \in N |-> RowOfOrder(n)]
  <2> HIDE DEF N
  <2>1. g \in Surjection(N, C)
    BY DEF Surjection
  <2> HIDE DEF C, g
  <2> QED BY <1>3, <2>1, FS_Surjection
<1>7. OrderRows(f) = A \cup C
  BY DEF OrderRows
<1>8. OrdersTotal(f) = Cardinality(TradeOrders(f)) + Cardinality(L)
  BY DEF OrdersTotal
<1> HIDE DEF A, C, L, N, T
<1>9. IsFiniteSet(A \cup C) /\ Cardinality(A \cup C) = Cardinality(A) + Cardinality(C) - Cardinality(A \cap C)
  BY <1>5, <1>6, FS_Union
<1>10. Cardinality(A \cap C) \in Nat
  BY <1>5, FS_Intersection, FS_CardinalityType
<1>11. /\ Cardinality(A) \in Nat /\ Cardinality(C) \in Nat /\ Cardinality(T) \in Nat
       /\ Cardinality(N) \in Nat /\ Cardinality(L) \in Nat /\ Cardinality(TradeOrders(f)) \in Nat
  BY <1>2, <1>3, <1>4, <1>5, <1>6, FS_CardinalityType
<1>12. Cardinality(A) <= Cardinality(TradeOrders(f)) /\ Cardinality(C) <= Cardinality(L)
  BY <1>3, <1>4, <1>5, <1>6, <1>11
<1>13. Cardinality(A) + Cardinality(C) - Cardinality(A \cap C) <= OrdersTotal(f)
  BY <1>8, <1>10, <1>11, <1>12
<1>14. Cardinality(A \cup C) <= OrdersTotal(f)
  BY <1>9, <1>13
<1> QED BY <1>7, <1>9, <1>14

\* A page of the union, whose two parts are cut before it, is that of the whole.
WholePages(R) ==
  \A first \in Nat, skip \in Nat :
    OrdersPage(R, first, skip, CheaperOrder) = RowsOnPage(R, first, skip, CheaperOrder)

OrdersPagedAnyhow ==
  \A of \in {{}} \cup {{u} : u \in Users} :
    LET R == OrderRows([owner |-> of, token |-> {}])
    IN  PricesApart(R) => WholePages(R)

LEMMA PartsMakeThePage ==
    ASSUME NftsInv, NEW of
    PROVE  LET f == [owner |-> of, token |-> {}]
           IN  /\ PricesApart(OrderRows(f)) => WholePages(OrderRows(f))
               /\ Cardinality(OrderRows(f)) <= OrdersTotal(f)
<1> DEFINE f == [owner |-> of, token |-> {}]
           R == OrderRows(f)
           B == {p \in R \X R : CheaperOrder(p[1], p[2])}
<1>1. IsFiniteSet(R) /\ Cardinality(R) <= OrdersTotal(f)
  BY OrdersCounted
<1>2. PricesApart(R) => RankedBy(B, R)
  BY OrdersRanked
<1>3. ASSUME PricesApart(R), NEW first \in Nat, NEW skip \in Nat
      PROVE  OrdersPage(R, first, skip, CheaperOrder) = RowsOnPage(R, first, skip, CheaperOrder)
  <2>0. RankedBy(B, R)
    BY <1>2, <1>3
  <2> HIDE DEF f, R
  <2> DEFINE m == first + skip
             Page(S, n, k) == {x \in S : k <= Place(B, S, x) /\ Place(B, S, x) < k + n}
             P == {x \in R : x.trade # {}}  Q == {x \in R : x.trade = {}}
             both == Page(P, m, 0) \cup Page(Q, m, 0)
  <2>1. \A S \in SUBSET R : \A n, k : RowsOnPage(S, n, k, CheaperOrder) = Page(S, n, k)
    <3> SUFFICES ASSUME NEW S \in SUBSET R, NEW n, NEW k
                 PROVE  RowsOnPage(S, n, k, CheaperOrder) = Page(S, n, k)
        OBVIOUS
    <3>1. \A x \in S : {y \in S : CheaperOrder(y, x)} = {y \in S : <<y, x>> \in B}
      OBVIOUS
    <3> HIDE DEF B
    <3> QED BY <3>1 DEF RowsOnPage, Place
  <2> HIDE DEF B
  <2>2. OrdersPage(R, first, skip, CheaperOrder) = Page(both, first, skip)
    <3>1. P \subseteq R /\ Q \subseteq R /\ both \subseteq R
      OBVIOUS
    <3>2. /\ RowsOnPage(P, m, 0, CheaperOrder) = Page(P, m, 0)
          /\ RowsOnPage(Q, m, 0, CheaperOrder) = Page(Q, m, 0)
          /\ RowsOnPage(both, first, skip, CheaperOrder) = Page(both, first, skip)
      <4> HIDE DEF P, Q, both, Page
      <4> QED BY <2>1, <3>1
    <3> HIDE DEF Page
    <3> QED BY <3>2 DEF OrdersPage, InnerLimit
  <2>3. m \in Nat /\ first \in Nat /\ skip \in Nat
    OBVIOUS
  <2>4. both \in SUBSET R
    OBVIOUS
  <2>5. \A x \in R : Place(B, R, x) < m => x \in both
    <3> SUFFICES ASSUME NEW x \in R, Place(B, R, x) < m PROVE x \in both
        OBVIOUS
    <3>1. IsFiniteSet(P) /\ IsFiniteSet(Q) /\ P \subseteq R /\ Q \subseteq R
      BY <1>1, FS_Subset
    <3>2. Place(B, P, x) \in Nat /\ Place(B, Q, x) \in Nat /\ Place(B, R, x) \in Nat
      BY <1>1, <3>1, PlaceType
    <3>3. Place(B, P, x) <= Place(B, R, x) /\ Place(B, Q, x) <= Place(B, R, x)
      BY <1>1, <3>1, FewerBefore
    <3>4. 0 <= Place(B, P, x) /\ Place(B, P, x) < 0 + m /\ 0 <= Place(B, Q, x) /\ Place(B, Q, x) < 0 + m
      BY <2>3, <3>2, <3>3
    <3>5. x \in P \/ x \in Q
      OBVIOUS
    <3> QED BY <3>4, <3>5
  <2> HIDE DEF both, m
  <2>6. \A x \in R : /\ (Place(B, R, x) < m => x \in both /\ Place(B, both, x) = Place(B, R, x))
                     /\ (x \in both /\ Place(B, both, x) < m => Place(B, R, x) < m)
    BY <1>1, <2>0, <2>3, <2>4, <2>5, PartKeepsPlaces
  <2>7. \A x \in R : Place(B, R, x) \in Nat
    BY <1>1, PlaceType
  <2>8. m = skip + first
    BY <2>3 DEF m
  <2>9. Page(both, first, skip) = Page(R, first, skip)
    BY <2>3, <2>4, <2>6, <2>7, <2>8
  <2>10. RowsOnPage(R, first, skip, CheaperOrder) = Page(R, first, skip)
    BY <2>1
  <2> QED BY <2>2, <2>9, <2>10
<1> HIDE DEF R, f
<1> QED BY <1>1, <1>3 DEF R, f, WholePages

\* GET /v1/orders (ports/orders/queries): each part of the union is cut to first + skip rows, and
\* then any page, of any size, is that of the whole union, where no two orders tie.
THEOREM AnyOrderPageIsWhole == NSpec => []OrdersPagedAnyhow
<1>1. NftsInv => OrdersPagedAnyhow
  BY PartsMakeThePage DEF OrdersPagedAnyhow
<1> QED BY <1>1, InitNfts, NftsInductive, PTL DEF NSpec

\* GET /v1/orders: a page of the union, whose two parts are cut before it, is that of the whole
\* where no two orders tie; and the total, of another query, leaves no order out.
THEOREM OrderPagesAreWhole == NSpec => []OrdersPaged
<1>1. ASSUME NftsInv, NEW of, PricesApart(OrderRows([owner |-> of, token |-> {}])),
             NEW first \in 1 .. 2, NEW skip \in 0 .. 3
      PROVE  LET R == OrderRows([owner |-> of, token |-> {}])
             IN  OrdersPage(R, first, skip, CheaperOrder) = RowsOnPage(R, first, skip, CheaperOrder)
  <2> DEFINE R == OrderRows([owner |-> of, token |-> {}])
  <2>1. WholePages(R)
    BY <1>1, PartsMakeThePage
  <2> HIDE DEF R
  <2>2. first \in Nat /\ skip \in Nat
    OBVIOUS
  <2>3. OrdersPage(R, first, skip, CheaperOrder) = RowsOnPage(R, first, skip, CheaperOrder)
    BY <2>1, <2>2 DEF WholePages
  <2> QED BY <2>3 DEF R
<1>2. ASSUME NftsInv, NEW of
      PROVE  Cardinality(OrderRows([owner |-> of, token |-> {}]))
               <= OrdersTotal([owner |-> of, token |-> {}])
  BY <1>2, PartsMakeThePage
<1>3. NftsInv => OrdersPaged
  BY <1>1, <1>2 DEF OrdersPaged, PricesApart
<1> QED BY <1>3, InitNfts, NftsInductive, PTL DEF NSpec

-----------------------------------------------------------------------------
(* The rows of the pages. *)

\* Every offer there may be, and what a row of an answer looks like.
AllOffers == {Offer(t.price, t.signer, {t}) : t \in Trades} \cup {OfferOf(n[2]) : n \in LegacyRows}
RowSet(R) ==
  \A x \in R : x = [token |-> x.token, offer |-> x.offer] /\ x.token \in Tokens /\ x.offer \subseteq AllOffers

LEMMA OffersKnown ==
    ASSUME NftsInv, NEW k \in Tokens
    PROVE  OrderOffers(k) \cup TradeOffers(k) \subseteq AllOffers
<1>1. ASSUME NEW o \in orders[k] PROVE OfferOf(o) \in AllOffers
  <2>1. <<k, o>> \in LegacyRows /\ <<k, o>>[2] = o
    BY DEF LegacyRows
  <2> QED BY <2>1 DEF AllOffers
<1>2. OrderOffers(k) \subseteq AllOffers
  BY <1>1 DEF OrderOffers
<1>3. OpenTrades \subseteq Trades
  BY DEF OpenTrades, NftsInv, TablesInv
<1>4. TradeOffers(k) \subseteq AllOffers
  BY <1>3 DEF TradeOffers, OffersIn, AllOffers
<1> QED BY <1>2, <1>4

LEMMA RowsFinite ==
    ASSUME NftsInv, NEW R, RowSet(R)
    PROVE  IsFiniteSet(R)
<1> DEFINE A == {Offer(t.price, t.signer, {t}) : t \in Trades}
           C == {OfferOf(n[2]) : n \in LegacyRows}
<1>1. IsFiniteSet(A)
  <2> DEFINE g == [t \in Trades |-> Offer(t.price, t.signer, {t})]
  <2>1. g \in Surjection(Trades, A)
    BY DEF Surjection
  <2> HIDE DEF g, A
  <2> QED BY <2>1, NftsAssumption, FS_Surjection
<1>2. IsFiniteSet(C)
  <2> DEFINE g == [n \in LegacyRows |-> OfferOf(n[2])]
  <2>1. g \in Surjection(LegacyRows, C)
    BY DEF Surjection
  <2>2. IsFiniteSet(LegacyRows)
    BY LegacyFinite
  <2> HIDE DEF g, C
  <2> QED BY <2>1, <2>2, FS_Surjection
<1>3. IsFiniteSet(AllOffers)
  <2>1. AllOffers = A \cup C
    BY DEF AllOffers
  <2> HIDE DEF A, C
  <2> QED BY <1>1, <1>2, <2>1, FS_Union
<1>4. IsFiniteSet(Tokens \X SUBSET AllOffers)
  BY <1>3, NftsAssumption, FS_SUBSET, FS_Product
<1> DEFINE g == [x \in R |-> <<x.token, x.offer>>]
<1>5. g \in [R -> Tokens \X SUBSET AllOffers]
  BY DEF RowSet
<1>6. \A x, y \in R : g[x] = g[y] => x = y
  <2> SUFFICES ASSUME NEW x \in R, NEW y \in R, g[x] = g[y] PROVE x = y
      OBVIOUS
  <2>1. x.token = y.token /\ x.offer = y.offer
    OBVIOUS
  <2> QED BY <2>1 DEF RowSet
<1> HIDE DEF g
<1>7. g \in Injection(R, Tokens \X SUBSET AllOffers)
  BY <1>5, <1>6 DEF Injection, IsInjective
<1> QED BY <1>4, <1>7, FS_Injection

LEMMA JoinsAreRows ==
    ASSUME NftsInv, NEW k \in Tokens, NEW O, O \subseteq OrderOffers(k) \cup TradeOffers(k),
           NEW x \in Join(k, O)
    PROVE  /\ x = [token |-> x.token, offer |-> x.offer] /\ x.token = k
           /\ x.offer \subseteq AllOffers
<1>1. x = [token |-> x.token, offer |-> x.offer] /\ x.token = k /\ x.offer \subseteq O
  BY DEF Join, InnerJoin
<1> QED BY <1>1, OffersKnown

\* The sets of rows the pages are cut of, and those of the tokens cut before.
LEMMA RowSets ==
    ASSUME NftsInv, NEW f, NEW K \in SUBSET Tokens
    PROVE  /\ RowSet(SaleRows(f)) /\ RowSet(EnsRows(f, {})) /\ RowSet(JoinedRows(K, f))
           /\ \A x \in LandRows(K, f) \cup JoinedRows(K, f) : x.token \in K
<1>1. RowSet(SaleRows(f))
  <2> SUFFICES ASSUME NEW x \in SaleRows(f)
               PROVE  x = [token |-> x.token, offer |-> x.offer] /\ x.token \in Tokens /\ x.offer \subseteq AllOffers
      BY DEF RowSet
  <2>1. PICK k \in Tokens : \E o \in InLimits(OrderOffers(k) \cup TradeOffers(k), f) :
                              x = [token |-> k, offer |-> {o}]
    BY DEF SaleRows, InnerJoin
  <2>2. InLimits(OrderOffers(k) \cup TradeOffers(k), f) \subseteq AllOffers
    BY OffersKnown DEF InLimits
  <2> QED BY <2>1, <2>2
<1>2. ASSUME NEW x \in LandRows(K, f) PROVE x.token \in K
  <2>1. PICK k \in K : x \in Join(k, OrderOffers(k) \cup InLimits(TradeOffers(k), f))
    BY DEF LandRows
  <2> QED BY <2>1, JoinedHas
<1>3. RowSet(EnsRows(f, {}))
  <2> SUFFICES ASSUME NEW x \in EnsRows(f, {})
               PROVE  x = [token |-> x.token, offer |-> x.offer] /\ x.token \in Tokens /\ x.offer \subseteq AllOffers
      BY DEF RowSet
  <2>1. PICK k \in Tokens : x \in Join(k, TradeOffers(k))
    BY DEF EnsRows
  <2> QED BY <2>1, JoinsAreRows
<1>4. ASSUME NEW x \in JoinedRows(K, f)
      PROVE  /\ x = [token |-> x.token, offer |-> x.offer] /\ x.token \in Tokens
             /\ x.offer \subseteq AllOffers /\ x.token \in K
  <2>1. PICK k \in K : x \in Join(k, {o \in TradeOffers(k) : o.signer = owner[k]})
    BY DEF JoinedRows
  <2>2. {o \in TradeOffers(k) : o.signer = owner[k]} \subseteq OrderOffers(k) \cup TradeOffers(k)
    OBVIOUS
  <2> QED BY <2>1, <2>2, JoinsAreRows
<1> QED BY <1>1, <1>2, <1>3, <1>4 DEF RowSet

\* Where no two have one age, pages of one row are each row once; and so are those of tokens.
LEMMA RowPages ==
    ASSUME NEW R, \A x \in R : x.token \in Tokens, \A a, b \in R : a # b => Age[a.token] # Age[b.token]
    PROVE  LET c == Cardinality(Tokens)
           IN  /\ \A w : Ordered(w) /\ w.first \in Nat /\ c <= w.first /\ w.skip = 0 =>
                    \A P \in CutRows(R, w) : P = R
               /\ \A x \in R : \E n \in 0 .. c - 1 : \A g : \A m \in 0 .. c - 1 :
                    Ordered(g) /\ g.first = 1 /\ g.skip = m => \A P \in CutRows(R, g) : x \in P <=> m = n
<1> DEFINE c == Cardinality(Tokens)
           turn == [row \in R |-> Age[row.token]]
           g == [row \in R |-> row.token]
<1>1. turn \in [R -> Int] /\ \A x, y \in R : turn[x] = turn[y] => x = y
  BY NftsAssumption
<1>2. c \in Nat
  BY NftsAssumption, FS_CardinalityType
<1>3. IsFiniteSet(R) /\ Cardinality(R) <= c
  <2>1. g \in Injection(R, Tokens)
    BY DEF Injection, IsInjective
  <2> HIDE DEF g
  <2> QED BY <2>1, NftsAssumption, FS_Injection
<1>4. \A f : Ordered(f) => CutRows(R, f) = PagesOf(R, f.first, f.skip, turn)
  BY DEF CutRows, Turn
<1> HIDE DEF c, turn
<1>5. /\ \A first \in Nat : c <= first => \A P \in PagesOf(R, first, 0, turn) : P = R
      /\ \A x \in R : \E n \in 0 .. c - 1 : \A m \in 0 .. c - 1 :
           \A P \in PagesOf(R, 1, m, turn) : x \in P <=> m = n
  BY <1>1, <1>2, <1>3, PagesOfOne
<1>6. \A w : Ordered(w) /\ w.first \in Nat /\ c <= w.first /\ w.skip = 0 => \A P \in CutRows(R, w) : P = R
  BY <1>4, <1>5
<1>7. ASSUME NEW x \in R
      PROVE  \E n \in 0 .. c - 1 : \A f : \A m \in 0 .. c - 1 :
               Ordered(f) /\ f.first = 1 /\ f.skip = m => \A P \in CutRows(R, f) : x \in P <=> m = n
  <2>1. PICK n \in 0 .. c - 1 : \A m \in 0 .. c - 1 : \A P \in PagesOf(R, 1, m, turn) : x \in P <=> m = n
    BY <1>5
  <2>2. ASSUME NEW f, NEW m \in 0 .. c - 1, Ordered(f), f.first = 1, f.skip = m, NEW P \in CutRows(R, f)
        PROVE  x \in P <=> m = n
    <3>1. P \in PagesOf(R, 1, m, turn)
      BY <1>4, <2>2
    <3> QED BY <2>1, <3>1
  <2> QED BY <2>2
<1> QED BY <1>6, <1>7 DEF c

LEMMA TokenPages ==
    ASSUME NEW K \in SUBSET Tokens, \A k, m \in K : k # m => Age[k] # Age[m]
    PROVE  LET c == Cardinality(Tokens)
           IN  /\ \A w : Ordered(w) /\ w.first \in Nat /\ c <= w.first /\ w.skip = 0 =>
                    \A P \in CutTokens(K, w) : P = K
               /\ \A x \in K : \E n \in 0 .. c - 1 : \A g : \A m \in 0 .. c - 1 :
                    Ordered(g) /\ g.first = 1 /\ g.skip = m => \A P \in CutTokens(K, g) : x \in P <=> m = n
<1> DEFINE c == Cardinality(Tokens)
           turn == [k \in K |-> Age[k]]
<1>1. turn \in [K -> Int] /\ \A x, y \in K : turn[x] = turn[y] => x = y
  BY NftsAssumption
<1>2. c \in Nat
  BY NftsAssumption, FS_CardinalityType
<1>3. IsFiniteSet(K) /\ Cardinality(K) <= c
  BY NftsAssumption, FS_Subset
<1>4. \A f : Ordered(f) => CutTokens(K, f) = PagesOf(K, f.first, f.skip, turn)
  BY DEF CutTokens, Turn
<1> HIDE DEF c, turn
<1>5. /\ \A first \in Nat : c <= first => \A P \in PagesOf(K, first, 0, turn) : P = K
      /\ \A x \in K : \E n \in 0 .. c - 1 : \A m \in 0 .. c - 1 :
           \A P \in PagesOf(K, 1, m, turn) : x \in P <=> m = n
  BY <1>1, <1>2, <1>3, PagesOfOne
<1>6. \A w : Ordered(w) /\ w.first \in Nat /\ c <= w.first /\ w.skip = 0 => \A P \in CutTokens(K, w) : P = K
  BY <1>4, <1>5
<1>7. ASSUME NEW x \in K
      PROVE  \E n \in 0 .. c - 1 : \A f : \A m \in 0 .. c - 1 :
               Ordered(f) /\ f.first = 1 /\ f.skip = m => \A P \in CutTokens(K, f) : x \in P <=> m = n
  <2>1. PICK n \in 0 .. c - 1 : \A m \in 0 .. c - 1 : \A P \in PagesOf(K, 1, m, turn) : x \in P <=> m = n
    BY <1>5
  <2>2. ASSUME NEW f, NEW m \in 0 .. c - 1, Ordered(f), f.first = 1, f.skip = m, NEW P \in CutTokens(K, f)
        PROVE  x \in P <=> m = n
    <3>1. P \in PagesOf(K, 1, m, turn)
      BY <1>4, <2>2
    <3> QED BY <2>1, <3>1
  <2> QED BY <2>2
<1> QED BY <1>6, <1>7 DEF c

\* A row is there whichever tokens it was looked for among.
LEMMA RowsByToken ==
    ASSUME NEW f, NEW K \in SUBSET Tokens, NEW L \in SUBSET K
    PROVE  /\ LandRows(L, f) = {x \in LandRows(K, f) : x.token \in L}
           /\ JoinedRows(L, f) = {x \in JoinedRows(K, f) : x.token \in L}
<1>1. \A k, O : \A x \in Join(k, O) : x.token = k
  BY JoinedHas
<1>2. LandRows(L, f) = {x \in LandRows(K, f) : x.token \in L}
  <2> DEFINE P(k) == OrderOffers(k) \cup InLimits(TradeOffers(k), f)
  <2>1. LandRows(L, f) = UNION {Join(k, P(k)) : k \in L} /\ LandRows(K, f) = UNION {Join(k, P(k)) : k \in K}
    BY DEF LandRows
  <2> HIDE DEF P
  <2> QED BY <1>1, <2>1
<1>3. JoinedRows(L, f) = {x \in JoinedRows(K, f) : x.token \in L}
  <2> DEFINE P(k) == {o \in TradeOffers(k) : o.signer = owner[k]}
             Kept(x) == Meets(x.offer \cup SearchOffers(x.token), f) /\ OnSaleWhere(x, f)
  <2>1. /\ JoinedRows(L, f) = {x \in UNION {Join(k, P(k)) : k \in L} : Kept(x)}
        /\ JoinedRows(K, f) = {x \in UNION {Join(k, P(k)) : k \in K} : Kept(x)}
    BY DEF JoinedRows
  <2> HIDE DEF P, Kept
  <2> QED BY <1>1, <2>1
<1> QED BY <1>2, <1>3

\* The size of a page and what it skips have no part in what there is to page through.
LEMMA SameQuestion ==
    ASSUME NEW f, NEW g, g.category = f.category, g.onSale = f.onSale, g.owner = f.owner,
           g.min = f.min, g.max = f.max
    PROVE  /\ SaleRows(g) = SaleRows(f) /\ EnsRows(g, {}) = EnsRows(f, {})
           /\ LandsOf(g, {}, {}) = LandsOf(f, {}, {}) /\ Candidates(g, {}) = Candidates(f, {})
           /\ \A K : LandRows(K, g) = LandRows(K, f) /\ JoinedRows(K, g) = JoinedRows(K, f)
<1>1. \A O : Meets(O, g) <=> Meets(O, f)
  BY DEF Meets
<1>2. \A O : InLimits(O, g) = InLimits(O, f)
  BY <1>1 DEF InLimits
<1>3. SaleRows(g) = SaleRows(f)
  BY <1>2 DEF SaleRows
<1>4. EnsRows(g, {}) = EnsRows(f, {})
  BY <1>1 DEF EnsRows
<1>5. LandsOf(g, {}, {}) = LandsOf(f, {}, {})
  BY <1>1 DEF LandsOf
<1>6. Candidates(g, {}) = Candidates(f, {})
  BY <1>1 DEF Candidates
<1>7. \A K : LandRows(K, g) = LandRows(K, f)
  BY <1>2 DEF LandRows
<1>8. \A x : OnSaleWhere(x, g) <=> OnSaleWhere(x, f)
  BY DEF OnSaleWhere
<1>9. \A K : JoinedRows(K, g) = JoinedRows(K, f)
  BY <1>1, <1>8 DEF JoinedRows
<1> QED BY <1>3, <1>4, <1>5, <1>6, <1>7, <1>9

\* The page of each query, where no land is asked for by its rental.
LEMMA PageRows ==
    ASSUME NEW f, f.sort # "recent", NEW answer \in NftsPages(f, {}, {})
    PROVE  LET rows == answer.rows
               total == answer.total
               Told(n) == IF rows = {} THEN 0 ELSE n
           IN  /\ f.category = {"parcel"} /\ f.onSale = {TRUE} =>
                    rows \in CutRows(SaleRows(f), f) /\ total = Told(Cardinality(SaleRows(f)))
               /\ f.category = {"parcel"} /\ f.onSale # {TRUE} =>
                    \E L \in CutTokens(LandsOf(f, {}, {}), f) :
                      rows = LandRows(L, f) /\ total = Told(Cardinality(LandsOf(f, {}, {})))
               /\ f.category = {"ens"} =>
                    rows \in CutRows(EnsRows(f, {}), f) /\ total = Cardinality(EnsCounted(f, {}))
               /\ f.category \notin {{"parcel"}, {"ens"}} /\ f.owner = {} =>
                    \E L \in CutTokens(Candidates(f, {}), f) :
                      rows = JoinedRows(L, f) /\ total = Told(Cardinality(rows))
               /\ f.category \notin {{"parcel"}, {"ens"}} /\ f.owner # {} =>
                    rows \in CutRows(JoinedRows(Candidates(f, {}), f), f)
                    /\ total = Told(Cardinality(JoinedRows(Candidates(f, {}), f)))
<1>0. {"parcel"} # {"ens"}
  <2>1. "parcel" # "ens"
    OBVIOUS
  <2> QED BY <2>1
<1>1. CASE f.category = {"parcel"} /\ f.onSale = {TRUE}
  <2>1. answer \in LandsOnSale(f)
    BY <1>0, <1>1 DEF NftsPages
  <2> QED BY <1>0, <1>1, <2>1 DEF LandsOnSale, CutAfter, Windowed, Answer
<1>2. CASE f.category = {"parcel"} /\ f.onSale # {TRUE}
  <2>1. answer \in AllLands(f, {}, {})
    BY <1>0, <1>2 DEF NftsPages
  <2>2. PICK L \in CutTokens(LandsOf(f, {}, {}), f) :
          answer = Windowed(LandRows(L, f), Cardinality(LandsOf(f, {}, {})))
    BY <2>1 DEF AllLands
  <2>3. /\ answer.rows = LandRows(L, f)
        /\ answer.total = IF answer.rows = {} THEN 0 ELSE Cardinality(LandsOf(f, {}, {}))
    BY <2>2 DEF Windowed, Answer
  <2> QED BY <1>0, <1>2, <2>2, <2>3
<1>3. CASE f.category = {"ens"}
  <2>1. answer \in EnsPages(f, {})
    BY <1>0, <1>3 DEF NftsPages
  <2>2. PICK R \in CutRows(EnsRows(f, {}), f) : answer = Answer(R, Cardinality(EnsCounted(f, {})))
    BY <2>1 DEF EnsPages
  <2>3. answer.rows = R /\ answer.total = Cardinality(EnsCounted(f, {}))
    BY <2>2 DEF Answer
  <2> QED BY <1>0, <1>3, <2>2, <2>3
<1>4. CASE f.category \notin {{"parcel"}, {"ens"}}
  <2>1. answer \in DefaultPages(f, {})
    BY <1>4 DEF NftsPages
  <2>2. CASE f.owner = {}
    <3>1. PICK L \in CutTokens(Candidates(f, {}), f) :
            answer = Windowed(JoinedRows(L, f), Cardinality(JoinedRows(L, f)))
      BY <2>1, <2>2 DEF DefaultPages, CutBefore
    <3> QED BY <1>4, <2>2, <3>1 DEF Windowed, Answer
  <2>3. CASE f.owner # {}
    <3>1. PICK P \in CutRows(JoinedRows(Candidates(f, {}), f), f) :
            answer = Windowed(P, Cardinality(JoinedRows(Candidates(f, {}), f)))
      BY <2>1, <2>3 DEF DefaultPages, CutAfter
    <3> QED BY <1>4, <2>3, <3>1 DEF Windowed, Answer
  <2> QED BY <2>2, <2>3
<1> QED BY <1>1, <1>2, <1>3, <1>4

LEMMA Resized ==
    ASSUME NEW f \in Requests, NEW a, NEW b
    PROVE  LET g == [f EXCEPT !.first = a, !.skip = b]
           IN  /\ g.first = a /\ g.skip = b /\ g.sort = f.sort
               /\ g.category = f.category /\ g.onSale = f.onSale /\ g.owner = f.owner
               /\ g.min = f.min /\ g.max = f.max
BY NftsAssumption

\* GET /v1/nfts (ports/nfts/queries): where the order asked for has no ties, the pages a client
\* asks one after another, some cut before joins that drop rows, are each row of the whole
\* answer once and nothing else.
THEOREM PagesAreWhole == NSpec => []PagesLoseNothing
<1>1. ASSUME NftsInv, NEW f \in Requests, Settled(f), NEW whole \in NftsPages(WholeOf(f), {}, {})
      PROVE  LET N == 0 .. Cardinality(Tokens) - 1
                 Page(n) == NftsPages([f EXCEPT !.first = 1, !.skip = n], {}, {})
             IN  /\ \A n \in N : \A page \in Page(n) : page.rows \subseteq whole.rows
                 /\ \A row \in whole.rows : \E n \in N : \A m \in N : \A page \in Page(m) :
                      row \in page.rows <=> m = n
  <2> DEFINE c == Cardinality(Tokens)
             N == 0 .. c - 1
             w == WholeOf(f)
             g(n) == [f EXCEPT !.first = 1, !.skip = n]
             Page(h) == NftsPages(h, {}, {})
             Same(h) == /\ h.category = f.category /\ h.onSale = f.onSale /\ h.owner = f.owner
                        /\ h.min = f.min /\ h.max = f.max /\ h.sort = f.sort
             Goal == /\ \A n \in N : \A page \in Page(g(n)) : page.rows \subseteq whole.rows
                     /\ \A row \in whole.rows : \E n \in N : \A m \in N : \A page \in Page(g(m)) :
                          row \in page.rows <=> m = n
  <2>1. w.first \in Nat /\ c <= w.first /\ w.skip = 0 /\ Same(w)
    <3>1. w.first = c + Cardinality(Trades) /\ w.skip = 0 /\ Same(w)
      BY <1>1, Resized DEF WholeOf
    <3>2. c \in Nat /\ Cardinality(Trades) \in Nat
      BY NftsAssumption, FS_CardinalityType
    <3> QED BY <3>1, <3>2
  <2>2. \A n : g(n).first = 1 /\ g(n).skip = n /\ Same(g(n))
    BY <1>1, Resized
  <2>3. \A h : Same(h) => Ordered(h) /\ h.sort # "recent"
    <3>1. Ordered(f) /\ f.sort # "recent"
      BY <1>1, NftsAssumption DEF Settled, Ordered
    <3> QED BY <3>1 DEF Ordered
  <2>4. whole \in Page(w)
    BY <1>1
  <2> HIDE DEF w, g, Page, c
  \* Where the rows are cut.
  <2>5. ASSUME NEW R, \A x \in R : x.token \in Tokens, \A a, b \in R : a # b => Age[a.token] # Age[b.token],
               \A h : Same(h) => \A page \in Page(h) : page.rows \in CutRows(R, h)
        PROVE  Goal
    <3>1. whole.rows = R
      BY <2>1, <2>3, <2>4, <2>5, RowPages DEF c
    <3>2. \A n \in N : \A page \in Page(g(n)) : page.rows \subseteq R
      BY <2>2, <2>5, CutsAreParts
    <3>3. ASSUME NEW x \in R
          PROVE  \E n \in N : \A m \in N : \A page \in Page(g(m)) : x \in page.rows <=> m = n
      <4>1. PICK n \in N : \A h : \A m \in N :
              Ordered(h) /\ h.first = 1 /\ h.skip = m => \A P \in CutRows(R, h) : x \in P <=> m = n
        BY <2>5, RowPages DEF c
      <4> QED BY <2>2, <2>3, <2>5, <4>1
    <3> QED BY <3>1, <3>2, <3>3
  \* Where the tokens are.
  <2>6. ASSUME NEW K \in SUBSET Tokens, \A k, m \in K : k # m => Age[k] # Age[m],
               NEW R, \A x \in R : x.token \in K,
               \A h : Same(h) => \A page \in Page(h) :
                 \E L \in CutTokens(K, h) : page.rows = {x \in R : x.token \in L}
        PROVE  Goal
    <3>1. whole.rows = R
      <4>1. PICK L \in CutTokens(K, w) : whole.rows = {x \in R : x.token \in L}
        BY <2>1, <2>4, <2>6
      <4>2. L = K
        BY <2>1, <2>3, <2>6, <4>1, TokenPages DEF c
      <4> QED BY <2>6, <4>1, <4>2
    <3>2. \A n \in N : \A page \in Page(g(n)) : page.rows \subseteq R
      BY <2>2, <2>6
    <3>3. ASSUME NEW x \in R
          PROVE  \E n \in N : \A m \in N : \A page \in Page(g(m)) : x \in page.rows <=> m = n
      <4>1. x.token \in K
        BY <2>6
      <4>2. PICK n \in N : \A h : \A m \in N :
              Ordered(h) /\ h.first = 1 /\ h.skip = m => \A P \in CutTokens(K, h) : x.token \in P <=> m = n
        BY <2>6, <4>1, TokenPages DEF c
      <4>3. ASSUME NEW m \in N, NEW page \in Page(g(m)) PROVE x \in page.rows <=> m = n
        <5>1. PICK L \in CutTokens(K, g(m)) : page.rows = {y \in R : y.token \in L}
          BY <2>2, <2>6, <4>3
        <5>2. x.token \in L <=> m = n
          BY <2>2, <2>3, <4>2, <5>1
        <5> QED BY <5>1, <5>2
      <4> QED BY <4>3
    <3> QED BY <3>1, <3>2, <3>3
  <2>7. ASSUME NEW h, Same(h)
        PROVE  /\ SaleRows(h) = SaleRows(f) /\ EnsRows(h, {}) = EnsRows(f, {})
               /\ LandsOf(h, {}, {}) = LandsOf(f, {}, {}) /\ Candidates(h, {}) = Candidates(f, {})
               /\ \A K : LandRows(K, h) = LandRows(K, f) /\ JoinedRows(K, h) = JoinedRows(K, f)
    BY <2>7, SameQuestion
  <2>8. Candidates(f, {}) \in SUBSET Tokens /\ LandsOf(f, {}, {}) \in SUBSET Tokens
    BY DEF Candidates, LandsOf
  <2> HIDE DEF Same, Goal
  <2>9. ASSUME f.category = {"parcel"}, f.onSale = {TRUE} PROVE Goal
    <3>1. \A h : Same(h) => \A page \in Page(h) : page.rows \in CutRows(SaleRows(f), h)
      BY <2>3, <2>7, <2>9, PageRows DEF Page, Same
    <3>2. \A x \in SaleRows(f) : x.token \in Tokens
      BY <1>1, <2>8, RowSets DEF RowSet
    <3>3. \A a, b \in SaleRows(f) : a # b => Age[a.token] # Age[b.token]
      BY <1>1, <2>9 DEF Settled
    <3> QED BY <2>5, <3>1, <3>2, <3>3
  <2>10. ASSUME f.category = {"parcel"}, f.onSale # {TRUE} PROVE Goal
    <3> DEFINE K == LandsOf(f, {}, {})  R == LandRows(K, f)
    <3>1. ASSUME NEW h, Same(h), NEW page \in Page(h)
          PROVE  \E L \in CutTokens(K, h) : page.rows = {x \in R : x.token \in L}
      <4>1. PICK L \in CutTokens(LandsOf(h, {}, {}), h) : page.rows = LandRows(L, h)
        BY <2>3, <2>10, <3>1, PageRows DEF Page, Same
      <4>2. L \in CutTokens(K, h) /\ page.rows = LandRows(L, f)
        BY <2>7, <3>1, <4>1
      <4>3. L \in SUBSET K
        BY <4>2, CutsAreParts
      <4> QED BY <2>8, <4>2, <4>3, RowsByToken
    <3>2. \A x \in R : x.token \in K
      BY <1>1, <2>8, RowSets
    <3>3. \A k, m \in K : k # m => Age[k] # Age[m]
      BY <1>1, <2>10 DEF Settled
    <3>4. K \in SUBSET Tokens
      BY <2>8
    <3> HIDE DEF R, K
    <3> QED BY <2>6, <3>1, <3>2, <3>3, <3>4
  <2>11. ASSUME f.category = {"ens"} PROVE Goal
    <3>1. \A h : Same(h) => \A page \in Page(h) : page.rows \in CutRows(EnsRows(f, {}), h)
      BY <2>3, <2>7, <2>11, PageRows DEF Page, Same
    <3>2. \A x \in EnsRows(f, {}) : x.token \in Tokens
      BY <1>1, <2>8, RowSets DEF RowSet
    <3>3. \A a, b \in EnsRows(f, {}) : a # b => Age[a.token] # Age[b.token]
      <4>1. f.category # {"parcel"}
        <5>1. "parcel" # "ens"
          OBVIOUS
        <5> QED BY <2>11, <5>1
      <4> QED BY <1>1, <2>11, <4>1 DEF Settled
    <3> QED BY <2>5, <3>1, <3>2, <3>3
  <2>12. ASSUME f.category \notin {{"parcel"}, {"ens"}}, f.owner = {} PROVE Goal
    <3> DEFINE K == Candidates(f, {})  R == JoinedRows(K, f)
    <3>1. ASSUME NEW h, Same(h), NEW page \in Page(h)
          PROVE  \E L \in CutTokens(K, h) : page.rows = {x \in R : x.token \in L}
      <4>1. PICK L \in CutTokens(Candidates(h, {}), h) : page.rows = JoinedRows(L, h)
        BY <2>3, <2>12, <3>1, PageRows DEF Page, Same
      <4>2. L \in CutTokens(K, h) /\ page.rows = JoinedRows(L, f)
        BY <2>7, <3>1, <4>1
      <4>3. L \in SUBSET K
        BY <4>2, CutsAreParts
      <4> QED BY <2>8, <4>2, <4>3, RowsByToken
    <3>2. \A x \in R : x.token \in K
      BY <1>1, <2>8, RowSets
    <3>3. \A k, m \in K : k # m => Age[k] # Age[m]
      BY <1>1, <2>12 DEF Settled
    <3>4. K \in SUBSET Tokens
      BY <2>8
    <3> HIDE DEF R, K
    <3> QED BY <2>6, <3>1, <3>2, <3>3, <3>4
  <2>13. ASSUME f.category \notin {{"parcel"}, {"ens"}}, f.owner # {} PROVE Goal
    <3> DEFINE R == JoinedRows(Candidates(f, {}), f)
    <3>1. ASSUME NEW h, Same(h), NEW page \in Page(h) PROVE page.rows \in CutRows(R, h)
      <4>1. page.rows \in CutRows(JoinedRows(Candidates(h, {}), h), h)
        BY <2>3, <2>13, <3>1, PageRows DEF Page, Same
      <4>2. Candidates(h, {}) = Candidates(f, {}) /\ \A L : JoinedRows(L, h) = JoinedRows(L, f)
        BY <2>7, <3>1
      <4> QED BY <4>1, <4>2
    <3>2. \A x \in R : x.token \in Tokens
      BY <1>1, <2>8, RowSets DEF RowSet
    <3>3. \A a, b \in R : a # b => Age[a.token] # Age[b.token]
      BY <1>1, <2>13 DEF Settled
    <3> HIDE DEF R
    <3> QED BY <2>5, <3>1, <3>2, <3>3
  <2>14. Goal
    BY <2>9, <2>10, <2>11, <2>12, <2>13
  <2> QED BY <2>14 DEF Goal, Page, g, c
<1>2. NftsInv => PagesLoseNothing
  BY <1>1 DEF PagesLoseNothing
<1> QED BY <1>2, InitNfts, NftsInductive, PTL DEF NSpec

LEMMA TokensCounted ==
    ASSUME NEW R, IsFiniteSet(R)
    PROVE  /\ IsFiniteSet(TokensOf(R))
           /\ Cardinality(TokensOf(R)) \in Nat /\ Cardinality(R) \in Nat
           /\ Cardinality(TokensOf(R)) <= Cardinality(R)
<1> DEFINE g == [x \in R |-> x.token]
<1>1. g \in Surjection(R, TokensOf(R))
  BY DEF Surjection, TokensOf
<1> HIDE DEF g
<1> QED BY <1>1, FS_Surjection, FS_CardinalityType

\* GET /v1/nfts (ports/nfts): the total of names and of land, counted by other queries or before
\* the offers are joined, is no less than the tokens there are to page through; but for a name
\* whose order's time has passed, when limits are asked for.
THEOREM TotalsCover == NSpec => []TotalCoversTokens
<1>1. ASSUME NftsInv, NEW f \in Requests, f.sort # "recent", NEW whole \in NftsPages(WholeOf(f), {}, {})
      PROVE  whole.total >= Cardinality({k \in TokensOf(whole.rows) :
                                          Category[k] = "ens" /\ lapsed[k] # {} => f.min = 0 /\ f.max = 0})
  <2> DEFINE w == WholeOf(f)  rows == whole.rows  total == whole.total
             Due == {k \in TokensOf(rows) : Category[k] = "ens" /\ lapsed[k] # {} => f.min = 0 /\ f.max = 0}
  <2>1. w.sort # "recent" /\ w.min = f.min /\ w.max = f.max
    BY <1>1, Resized DEF WholeOf
  <2>2. Candidates(w, {}) \in SUBSET Tokens /\ LandsOf(w, {}, {}) \in SUBSET Tokens
    BY DEF Candidates, LandsOf
  <2>3. whole \in NftsPages(w, {}, {})
    BY <1>1
  <2>4. Due \subseteq TokensOf(rows)
    OBVIOUS
  <2>5. TokensOf({}) = {} /\ Cardinality({}) = 0
    BY FS_EmptySet DEF TokensOf
  <2> HIDE DEF w
  \* Where the total is the number of rows, before they are cut.
  <2>6. ASSUME NEW R, RowSet(R), rows \subseteq R, total = IF rows = {} THEN 0 ELSE Cardinality(R)
        PROVE  total >= Cardinality(Due)
    <3> HIDE DEF Due, rows, total
    <3>1. IsFiniteSet(R)
      BY <1>1, <2>6, RowsFinite
    <3>2. IsFiniteSet(rows) /\ Cardinality(rows) <= Cardinality(R)
      BY <2>6, <3>1, FS_Subset
    <3>3. /\ IsFiniteSet(TokensOf(rows)) /\ Cardinality(TokensOf(rows)) <= Cardinality(rows)
      BY <3>2, TokensCounted
    <3>4. IsFiniteSet(Due) /\ Cardinality(Due) <= Cardinality(TokensOf(rows))
      BY <2>4, <3>3, FS_Subset
    <3>5. /\ Cardinality(Due) \in Nat /\ Cardinality(TokensOf(rows)) \in Nat
          /\ Cardinality(rows) \in Nat /\ Cardinality(R) \in Nat
      BY <3>1, <3>2, <3>3, <3>4, FS_CardinalityType
    <3>6. CASE rows = {}
      <4>1. Due = {}
        BY <2>4, <2>5, <3>6
      <4> QED BY <2>5, <2>6, <3>6, <4>1
    <3>7. CASE rows # {}
      BY <2>6, <3>2, <3>3, <3>4, <3>5, <3>7
    <3> QED BY <3>6, <3>7
  \* Where it is the number of tokens there are.
  <2>7. ASSUME NEW K \in SUBSET Tokens, Due \subseteq K,
               total = Cardinality(K) \/ (rows = {} /\ total = 0)
        PROVE  total >= Cardinality(Due)
    <3>1. IsFiniteSet(K) /\ IsFiniteSet(Due)
      BY <2>7, NftsAssumption, FS_Subset
    <3>2. Cardinality(Due) <= Cardinality(K)
      BY <2>7, <3>1, FS_Subset
    <3>3. Cardinality(Due) \in Nat /\ Cardinality(K) \in Nat
      BY <3>1, FS_CardinalityType
    <3>4. CASE rows = {} /\ total = 0
      <4>1. Due = {}
        BY <2>4, <2>5, <3>4
      <4> QED BY <2>5, <3>4, <4>1
    <3>5. CASE total = Cardinality(K)
      BY <3>2, <3>3, <3>5
    <3> QED BY <2>7, <3>4, <3>5
  <2>8. ASSUME w.category = {"parcel"}, w.onSale = {TRUE}
        PROVE  total >= Cardinality(Due)
    <3>1. rows \in CutRows(SaleRows(w), w) /\ total = IF rows = {} THEN 0 ELSE Cardinality(SaleRows(w))
      BY <2>1, <2>3, <2>8, PageRows
    <3>2. RowSet(SaleRows(w)) /\ rows \subseteq SaleRows(w)
      BY <1>1, <2>2, <3>1, RowSets, CutsAreParts
    <3> HIDE DEF rows, total, Due
    <3> QED BY <2>6, <3>1, <3>2
  <2>9. ASSUME w.category = {"parcel"}, w.onSale # {TRUE}
        PROVE  total >= Cardinality(Due)
    <3> DEFINE K == LandsOf(w, {}, {})
    <3>1. PICK L \in CutTokens(K, w) : rows = LandRows(L, w) /\ total = IF rows = {} THEN 0 ELSE Cardinality(K)
      BY <2>1, <2>3, <2>9, PageRows
    <3>2. L \in SUBSET K /\ K \in SUBSET Tokens
      BY <2>2, <3>1, CutsAreParts
    <3>3. \A x \in rows : x.token \in K
      BY <1>1, <3>1, <3>2, RowSets
    <3> HIDE DEF K, rows, total
    <3>4. Due \subseteq K
      BY <3>3 DEF TokensOf
    <3> HIDE DEF Due
    <3> QED BY <2>7, <3>1, <3>2, <3>4
  <2>10. ASSUME w.category = {"ens"}
        PROVE  total >= Cardinality(Due)
    <3>1. rows \in CutRows(EnsRows(w, {}), w) /\ total = Cardinality(EnsCounted(w, {}))
      BY <2>1, <2>3, <2>10, PageRows
    <3>2. rows \subseteq EnsRows(w, {})
      BY <3>1, CutsAreParts
    <3>3. ASSUME NEW x \in EnsRows(w, {}), lapsed[x.token] # {} => w.min = 0 /\ w.max = 0
          PROVE  x.token \in EnsCounted(w, {})
      <4>1. PICK k \in Tokens : Category[k] = "ens" /\ x \in Join(k, TradeOffers(k))
        BY DEF EnsRows
      <4>2. x.token = k
        BY <4>1, JoinedHas
      <4>3. /\ Asked(w.owner, owner[x.token]) /\ Meets(x.offer \cup SearchOffers(x.token), w)
            /\ w.onSale = {TRUE} => x.offer # {} \/ orders[x.token] # {}
        BY DEF EnsRows
      <4>4. ASSUME w.onSale = {TRUE}, orders[k] = {}
            PROVE  InLimits(TradeOffers(k), w) # {}
        <5>1. PICK o \in TradeOffers(k) : x.offer = {o}
          BY <4>1, <4>2, <4>3, <4>4 DEF Join, InnerJoin
        <5>2. CASE lapsed[k] = {}
          <6>1. SearchOffers(k) = {}
            BY <4>4, <5>2 DEF SearchOffers
          <6>2. Meets({o}, w)
            BY <4>2, <4>3, <5>1, <6>1
          <6> QED BY <6>2 DEF InLimits
        <5>3. CASE lapsed[k] # {}
          <6>1. Meets({o}, w)
            BY <3>3, <4>2, <5>3 DEF Meets
          <6> QED BY <6>1 DEF InLimits
        <5> QED BY <5>2, <5>3
      <4> QED BY <4>1, <4>2, <4>3, <4>4 DEF EnsCounted, ByIds
    <3>4. EnsCounted(w, {}) \in SUBSET Tokens
      BY DEF EnsCounted
    <3>5. Due \subseteq EnsCounted(w, {})
      <4>1. \A x \in EnsRows(w, {}) : Category[x.token] = "ens"
        <5> SUFFICES ASSUME NEW x \in EnsRows(w, {}) PROVE Category[x.token] = "ens"
            OBVIOUS
        <5>1. PICK k \in Tokens : Category[k] = "ens" /\ x \in Join(k, TradeOffers(k))
          BY DEF EnsRows
        <5> QED BY <5>1, JoinedHas
      <4> SUFFICES ASSUME NEW k \in Due PROVE k \in EnsCounted(w, {})
          OBVIOUS
      <4>2. PICK x \in rows : k = x.token
        BY DEF TokensOf
      <4>3. x \in EnsRows(w, {})
        BY <3>2, <4>2
      <4>4. lapsed[k] # {} => w.min = 0 /\ w.max = 0
        BY <2>1, <4>1, <4>2, <4>3
      <4> QED BY <3>3, <4>2, <4>3, <4>4
    <3> HIDE DEF rows, total, Due
    <3> QED BY <2>7, <3>1, <3>4, <3>5
  <2>11. ASSUME w.category \notin {{"parcel"}, {"ens"}}, w.owner = {}
        PROVE  total >= Cardinality(Due)
    <3>1. PICK L \in CutTokens(Candidates(w, {}), w) :
            rows = JoinedRows(L, w) /\ total = IF rows = {} THEN 0 ELSE Cardinality(rows)
      BY <2>1, <2>3, <2>11, PageRows
    <3>2. RowSet(rows)
      <4>1. L \in SUBSET Tokens
        BY <2>2, <3>1, CutsAreParts
      <4> QED BY <1>1, <3>1, <4>1, RowSets
    <3> HIDE DEF rows, total, Due
    <3> QED BY <2>6, <3>1, <3>2
  <2>12. ASSUME w.category \notin {{"parcel"}, {"ens"}}, w.owner # {}
        PROVE  total >= Cardinality(Due)
    <3> DEFINE R == JoinedRows(Candidates(w, {}), w)
    <3>1. rows \in CutRows(R, w) /\ total = IF rows = {} THEN 0 ELSE Cardinality(R)
      BY <2>1, <2>3, <2>12, PageRows
    <3>2. RowSet(R) /\ rows \subseteq R
      BY <1>1, <2>2, <3>1, RowSets, CutsAreParts
    <3> HIDE DEF R, rows, total, Due
    <3> QED BY <2>6, <3>1, <3>2
  <2> QED BY <2>8, <2>9, <2>10, <2>11, <2>12
<1>2. NftsInv => TotalCoversTokens
  BY <1>1 DEF TotalCoversTokens
<1> QED BY <1>2, InitNfts, NftsInductive, PTL DEF NSpec
=============================================================================
