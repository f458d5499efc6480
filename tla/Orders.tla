------------------------------- MODULE Orders -------------------------------
(***************************************************************************)
(* GET /v1/orders: the open orders of tokens, those of the legacy          *)
(* marketplace and those that are trades, on a page; and their total, from *)
(* a query of its own that runs at the same time.                          *)
(***************************************************************************)
EXTENDS Market, Paging

VARIABLE expired  \* the trades whose time has passed, which a row of the view may not tell yet

\* What is asked: [owner, token], sets of at most one; {} asks for all.
Asked(S, x) == S # {} => x \in S

\* As a bug would have it: whoever is asked for.
TradeOrdersOfAll(f) ==
  {r \in view : ~IsItemOrder(r.trade) /\ r.trade.signer \in r.owner /\ r.trade \notin expired}

\* getTradesOrdersQuery: signer, owner and the time it expires are columns of the view.
TradeOrders(f) ==
  {r \in view : /\ ~IsItemOrder(r.trade)
                /\ r.trade.signer \in r.owner
                /\ r.trade \notin expired
                /\ Asked(f.owner, r.trade.signer)}

\* getLegacyOrdersQuery: an order counts while whoever placed it owns the token.
LegacyRows == UNION {{<<k, o>> : o \in orders[k]} : k \in Tokens}
LegacyOrders(f) ==
  {n \in LegacyRows : n[2].owner = owner[n[1]] /\ Asked(f.owner, n[2].owner)}

\* The rows of both, as the union of the two queries has them; trade {} is a legacy order.
OrderRows(f) ==
  {[token |-> r.trade.sent, owner |-> r.trade.signer, price |-> r.trade.price, trade |-> {r.trade}] :
     r \in {q \in TradeOrders(f) : Asked(f.token, q.trade.sent)}}
  \cup
  {[token |-> n[1], owner |-> n[2].owner, price |-> n[2].price, trade |-> {}] :
     n \in {m \in LegacyOrders(f) : Asked(f.token, m[1])}}

\* getOrdersCountQuery: joins no token, and asks for no token.
OrdersTotal(f) ==
  Cardinality(TradeOrders(f)) + Cardinality({n \in LegacyRows : Asked(f.owner, n[2].owner)})

\* Each part of the union is cut to what the page may need of it, then the union is.
\* (Not, as a bug would have it, to the size of the page.)
InnerLimitOfPage(first, skip) == first
InnerLimit(first, skip) == first + skip
OrdersPage(rows, first, skip, Before(_, _)) ==
  LET Inner(R) == RowsOnPage(R, InnerLimit(first, skip), 0, Before)
      both == Inner({r \in rows : r.trade # {}}) \cup Inner({r \in rows : r.trade = {}})
  IN  RowsOnPage(both, first, skip, Before)
=============================================================================
