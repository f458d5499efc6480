------------------------------- MODULE Market -------------------------------
(***************************************************************************)
(* The tables that the reads of the server are about, and the events that  *)
(* change them.  Items, tokens and orders are written by the squid, which  *)
(* indexes the chain; trades are written by the server (see AddTrade);     *)
(* `view' is mv_trades, which lags behind (see TradesView, ListingsView).  *)
(* The read modules extend this one with the queries, as operators.  SQL's *)
(* NULL is the empty set of a column that is a set of at most one value.   *)
(***************************************************************************)
EXTENDS Integers, FiniteSets, FiniteSetsExt

CONSTANTS
  Items,       \* items of collections
  Tokens,      \* tokens: units of items, parcels, names
  ItemOf,      \* the item each token is a unit of, {} for parcels and names
  ItemPrice,   \* the price of each item in the collection store
  Users, Nobody,
  Prices,      \* what orders on the legacy marketplace may ask
  Trades,      \* the terms that may be signed: [type, sent, signer, price, pegged]
  MaxAvailable \* bound on the supply of an item

TradeTypes == {"public_item_order", "public_nft_order"}

ASSUME MarketAssumption ==
  /\ ItemOf \in [Tokens -> {{}} \cup {{i} : i \in Items}]
  /\ ItemPrice \in [Items -> Nat]
  /\ Nobody \notin Users
  /\ Prices \subseteq Nat \ {0}
  /\ MaxAvailable \in Nat \ {0}
  /\ \A t \in Trades :
       /\ t.type \in TradeTypes /\ t.signer \in Users
       /\ t.price \in Nat \ {0} /\ t.pegged \in BOOLEAN
       /\ t.sent \in IF t.type = "public_item_order" THEN Items ELSE Tokens

VARIABLES
  items,   \* per item: approved, store, v3 (who may sell it first hand), available
  owner,   \* per token: its owner, Nobody before it is minted
  orders,  \* per token: the set of its open orders on the legacy marketplace
  open,    \* the trades that are stored, not ended and not expired
  view     \* the rows of mv_trades with status open

vars == <<items, owner, orders, open, view>>

IsItemOrder(t) == t.type = "public_item_order"

\* The item a trade sells, or sells a unit of: contract_address_sent, sent_item_id.
SoldItem(t) == IF IsItemOrder(t) THEN {t.sent} ELSE ItemOf[t.sent]

\* An order of a token counts only while its signer owns the token, or none is known to.
OwnerOk(t) == ~IsItemOrder(t) => owner[t.sent] \in {t.signer, Nobody}

\* The columns `available' and owner of a row.
Row(t) ==
  [trade     |-> t,
   available |-> IF IsItemOrder(t) THEN {items[t.sent].available} ELSE {},
   owner     |-> IF IsItemOrder(t) THEN {} ELSE {owner[t.sent]} \ {Nobody}]

\* What a refresh computes.
OpenRows == {Row(t) : t \in {u \in open : OwnerOk(u)}}

Init ==
  /\ items \in [Items -> [approved : {FALSE}, store : {FALSE}, v3 : {FALSE},
                          available : 1 .. MaxAvailable]]
  /\ owner = [k \in Tokens |-> Nobody]
  /\ orders = [k \in Tokens |-> {}]
  /\ open = {} /\ view = {}

-----------------------------------------------------------------------------
(* Events of the chain, as the squid writes them. *)

\* A creator lets a store, or the marketplace contract, mint the item, or stops it.
SetMinters(i) ==
  /\ \E s, v \in BOOLEAN : items' = [items EXCEPT ![i].store = s, ![i].v3 = v]
  /\ UNCHANGED <<owner, orders, open, view>>

\* The curators approve a collection, or reject it.
SetApproval(i) ==
  /\ items' = [items EXCEPT ![i].approved = ~@]
  /\ UNCHANGED <<owner, orders, open, view>>

\* A unit of an item, a parcel or a name gets its first owner.
Mint(k, u) ==
  /\ owner[k] = Nobody
  /\ \A i \in ItemOf[k] : items[i].available > 0
  /\ owner' = [owner EXCEPT ![k] = u]
  /\ items' = [i \in Items |->
       IF i \in ItemOf[k] THEN [items[i] EXCEPT !.available = @ - 1] ELSE items[i]]
  /\ UNCHANGED <<orders, open, view>>

\* An order on the legacy marketplace stays when its token is moved.
Transfer(k, u) ==
  /\ owner[k] \notin {Nobody, u}
  /\ owner' = [owner EXCEPT ![k] = u]
  /\ UNCHANGED <<items, orders, open, view>>

PlaceOrder(k, p) ==
  /\ owner[k] # Nobody
  /\ orders' = [orders EXCEPT ![k] = {[owner |-> owner[k], price |-> p]}]
  /\ UNCHANGED <<items, owner, open, view>>

EndOrder(k) ==
  /\ orders[k] # {}
  /\ orders' = [orders EXCEPT ![k] = {}]
  /\ UNCHANGED <<items, owner, open, view>>

\* addTrade. An item or a token may have several open orders: the duplicate check is passed
\* by two requests at once, by an address in capitals (see AddTrade), and by a trade of several
\* uses that the check takes for sold and the view does not (see TradeStatus).
StoreTrade(t) ==
  /\ ~IsItemOrder(t) => owner[t.sent] = t.signer
  /\ open' = open \cup {t}
  /\ UNCHANGED <<items, owner, orders, view>>

\* A trade is sold, cancelled or expires.
EndTrade(t) ==
  /\ t \in open
  /\ open' = open \ {t}
  /\ UNCHANGED <<items, owner, orders, view>>

\* A refresh, whenever one is due.
RefreshView ==
  /\ view' = OpenRows
  /\ UNCHANGED <<items, owner, orders, open>>

Next ==
  \/ \E i \in Items : SetMinters(i) \/ SetApproval(i)
  \/ \E k \in Tokens : \/ \E u \in Users : Mint(k, u) \/ Transfer(k, u)
                       \/ \E p \in Prices : PlaceOrder(k, p)
                       \/ EndOrder(k)
  \/ \E t \in Trades : StoreTrade(t) \/ EndTrade(t)
  \/ RefreshView

Spec == Init /\ [][Next]_vars
=============================================================================
