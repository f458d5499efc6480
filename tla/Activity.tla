------------------------------ MODULE Activity ------------------------------
(***************************************************************************)
(* GET /v1/activity: what a user did and met, newest first, put together   *)
(* from seven queries.  Each is cut, may fail and then counts as empty.    *)
(* Times are whole seconds, so that many deals may share one.  A client    *)
(* reads page after page while deals go on.                                *)
(***************************************************************************)
EXTENDS Paging

CONSTANTS
  Goods,      \* the tokens that are dealt in: 1, 2, ...
  Me, Peer,   \* the user, and whoever deals with the user
  FetchCap,   \* INTERNAL_FETCH_CAP
  Limit,      \* the page that is asked for
  MaxDeals,   \* bound on the deals
  MaxFailing  \* bound on the queries that fail at once

ASSUME ActivityAssumption ==
  /\ Me # Peer
  /\ FetchCap \in Nat \ {0} /\ Limit \in Nat \ {0}
  /\ MaxDeals \in Nat /\ MaxFailing \in Nat

\* The queries, in the order their events are put together.
Sources == <<"sale_buyer", "sale_seller", "bid_placed", "bid_received",
             "order_created", "order_filled", "trade_created">>
EventKinds == {Sources[n] : n \in DOMAIN Sources}
Other(u) == IF u = Me THEN Peer ELSE Me

VARIABLES
  holder, \* of each token
  sales,  \* [id, at, good, buyer, seller], id that of the transaction
  legacy, \* orders of the legacy marketplace: [id, at, good, owner, buyer, until], buyer {} while open
  bids,   \* bids of the legacy marketplace: [id, at, good, signer, seller]
  trades, \* [id, at, good, signer, bid, state], state open, closed or (its time has passed) over
  shown,  \* the trades that mv_trades, as last refreshed, has as open orders of owners
  deals,  \* the deals so far
  now,    \* the second it is
  pages   \* the client's pages

actvars == <<holder, sales, legacy, bids, trades, shown, deals, now, pages>>

-----------------------------------------------------------------------------
(* The queries. *)

SalesAs(role) == {s \in sales : IF role = "buyer" THEN s.buyer = Me ELSE s.seller = Me}

\* The seller of a bid that is a trade is whoever has the token now.
BidTrades(role) ==
  {t \in trades : t.bid /\ t.state # "over" /\ IF role = "bidder" THEN t.signer = Me ELSE holder[t.good] = Me}
LegacyBids(role) == {b \in bids : IF role = "bidder" THEN b.signer = Me ELSE b.seller = Me}
BidsAs(role) == BidTrades(role) \cup LegacyBids(role)

\* getOrders asks for no status: of the legacy orders all, while who placed it has the token.
LegacyOf(R) == {o \in R : o.owner = holder[o.good]}
OrdersAsOwner ==
  LegacyOf({o \in legacy : o.owner = Me})
  \cup {t \in trades : t.id \in shown /\ t.state # "over" /\ t.signer = Me}
\* The trades have no buyer.
OrdersAsBuyer == LegacyOf({o \in legacy : o.buyer = {Me}})

\* Nobody else benefits from a trade here.
TradesOf == {t \in trades : t.signer = Me}

RowsOfSource(type) ==
  CASE type = "sale_buyer" -> SalesAs("buyer")
    [] type = "sale_seller" -> SalesAs("seller")
    [] type = "bid_placed" -> BidsAs("bidder")
    [] type = "bid_received" -> BidsAs("seller")
    [] type = "order_created" -> OrdersAsOwner
    [] type = "order_filled" -> OrdersAsBuyer
    [] type = "trade_created" -> TradesOf

\* What a query may answer: its newest rows; which of one second are cut is not said.
Answers(type) ==
  LET R == RowsOfSource(type) IN PagesOf(R, FetchCap, 0, [row \in R |-> now - row.at])

\* The events made of rows: tx is that of a sale, which has its time; at is the time shown.
\* A bid on a token of the user by the user is left out.
SaleKinds == {"sale_buyer", "sale_seller"}
Event(type, row) ==
  [type |-> type, good |-> row.good, id |-> row.id,
   at   |-> IF type = "order_filled" THEN row.until ELSE row.at,
   tx   |-> IF type \in SaleKinds THEN {<<row.id, row.at>>} ELSE {}]
EventsOf(type, R) ==
  {Event(type, row) : row \in {r \in R : type = "bid_received" => r.signer # Me}}
\* What there may be to tell, whatever two events of it have in common.
Facts == UNION {EventsOf(type, UNION Answers(type)) : type \in EventKinds}

-----------------------------------------------------------------------------
(* getUserActivity. *)

Fetched(type) == {EventsOf(type, R) : R \in Answers(type)}
AllFetched ==
  {E1 \cup E2 \cup E3 \cup E4 \cup E5 \cup E6 \cup E7 :
     E1 \in Fetched("sale_buyer"), E2 \in Fetched("sale_seller"), E3 \in Fetched("bid_placed"),
     E4 \in Fetched("bid_received"), E5 \in Fetched("order_created"),
     E6 \in Fetched("order_filled"), E7 \in Fetched("trade_created")}

\* As a bug would have it: the kind of event does not matter.
KeyOfDeal(e) == <<e.tx, IF e.tx # {} THEN {} ELSE {<<e.good, e.at>>}, "">>
\* Of events of a kind with one transaction or, without one, of one token and second, one is
\* kept (the first, which of those of a source is as the source has them).
KeyOf(e) == <<e.tx, IF e.tx # {} THEN {} ELSE {<<e.good, e.at>>}, e.type>>
DedupeEvents(E) == {CHOOSE e \in E : KeyOf(e) = key : key \in {KeyOf(e) : e \in E}}

\* safeFetch: a query that fails has no rows.  (One with none may as well not fail.)
Failures(E) == {F \in SUBSET {e.type : e \in E} : Cardinality(F) <= MaxFailing}
UserActivity(E, failed) == DedupeEvents({e \in E : e.type \notin failed})

\* sortByTimestampDesc: the newest first; those of one second in the order of their sources
\* and, of one source, as the source has them.
SourceOf(type) == CHOOSE n \in DOMAIN Sources : Sources[n] = type
Turn(e) == SourceOf(e.type) - Len(Sources) * e.at

-----------------------------------------------------------------------------
NoPages == [at |-> "idle"]

ActivityInit ==
  /\ holder \in [Goods -> {Me, Peer}]
  /\ sales = {} /\ legacy = {} /\ bids = {} /\ trades = {} /\ shown = {}
  /\ deals = 0 /\ now = 0 /\ pages = NoPages

\* Rows that a query may return in either order (but for the sales of one transaction), and
\* orders that were filled at once.
RowsTie ==
  \E type \in EventKinds : \E r, s \in RowsOfSource(type) :
    /\ r # s /\ ~(type \in SaleKinds /\ r.id = s.id)
    /\ r.at = s.at \/ (type = "order_filled" /\ r.until = s.until)
\* What a deal means to a client that is reading: see the property.
WatchedPages ==
  LET was == Facts
      is == Facts'
  IN  IF pages.at # "reading" THEN pages
      ELSE [pages EXCEPT !.kept = @ \cap is, !.left = @ \/ ~(was \subseteq is),
                         !.came = @ \/ ~(is \subseteq was), !.tied = @ \/ RowsTie']
\* The first deal is of second 1, and many may be of one second.  What comes after the client's
\* last page is of no account.
Deal == /\ deals < MaxDeals /\ pages.at # "done"
        /\ deals' = deals + 1 /\ now' \in {now, now + 1} \ {0}

PlaceLegacyOrder(g) ==
  /\ Deal
  /\ \A o \in legacy : o.good = g => o.buyer # {}
  /\ legacy' = legacy \cup {[id |-> deals', at |-> now', good |-> g, owner |-> holder[g],
                             buyer |-> {}, until |-> now']}
  /\ UNCHANGED <<holder, sales, bids, trades, shown>>
  /\ pages' = WatchedPages
PlaceLegacyBid(g) ==
  /\ Deal
  /\ \A b \in bids : b.good = g => b.seller # holder[g]
  /\ bids' = bids \cup {[id |-> deals', at |-> now', good |-> g,
                         signer |-> Other(holder[g]), seller |-> holder[g]]}
  /\ UNCHANGED <<holder, sales, legacy, trades, shown>>
  /\ pages' = WatchedPages
SignTrade(g, u) ==
  /\ Deal
  /\ trades' = trades \cup {[id |-> deals', at |-> now', good |-> g, signer |-> u,
                             bid |-> u # holder[g], state |-> "open"]}
  /\ UNCHANGED <<holder, sales, legacy, bids, shown>>
  /\ pages' = WatchedPages
\* It is cancelled, or its time passes.
EndTrade(t) ==
  /\ Deal
  /\ \E state \in {"closed", "over"} :
       /\ t.state \notin {state, "over"}
       /\ trades' = (trades \ {t}) \cup {[t EXCEPT !.state = state]}
  /\ UNCHANGED <<holder, sales, legacy, bids, shown>>
  /\ pages' = WatchedPages
\* The queries leave out legacy orders and bids whose time has passed.
Lapse(o, b) ==
  /\ Deal
  /\ legacy' = legacy \ o /\ bids' = bids \ b
  /\ UNCHANGED <<holder, sales, trades, shown>>
  /\ pages' = WatchedPages
\* External to the deals: see TradesView.
RefreshShown ==
  /\ pages.at # "done"
  /\ shown' = {t.id : t \in {x \in trades : ~x.bid /\ x.state = "open" /\ x.signer = holder[x.good]}}
  /\ UNCHANGED <<holder, sales, legacy, bids, trades, deals, now>>
  /\ pages' = WatchedPages
SaleOf(g) == [id |-> deals', at |-> now', good |-> g, buyer |-> Other(holder[g]), seller |-> holder[g]]
Sell(S) ==
  /\ sales' = sales \cup {SaleOf(g) : g \in S}
  /\ holder' = [g \in Goods |-> IF g \in S THEN Other(holder[g]) ELSE holder[g]]
ExecuteOrder(o) ==
  /\ Deal
  /\ o.buyer = {} /\ o.owner = holder[o.good]
  /\ legacy' = (legacy \ {o}) \cup {[o EXCEPT !.buyer = {Other(o.owner)}, !.until = now']}
  /\ Sell({o.good})
  /\ UNCHANGED <<bids, trades, shown>>
  /\ pages' = WatchedPages
\* One transaction may accept several trades.
AcceptTrades(T) ==
  /\ Deal
  /\ T # {} /\ \A t \in T : t.state = "open" /\ ~t.bid /\ t.signer = holder[t.good]
  /\ \A t, v \in T : t.signer = v.signer /\ (t # v => t.good # v.good)
  /\ trades' = (trades \ T) \cup {[t EXCEPT !.state = "closed"] : t \in T}
  /\ Sell({t.good : t \in T})
  /\ UNCHANGED <<legacy, bids, shown>>
  /\ pages' = WatchedPages

AskActivity ==
  /\ pages = NoPages
  /\ pages' = [at |-> "reading", offset |-> 0, got |-> {}, kept |-> Facts,
               left |-> FALSE, came |-> FALSE, failed |-> FALSE, tied |-> RowsTie]
  /\ UNCHANGED <<holder, sales, legacy, bids, trades, shown, deals, now>>

\* "Paginating clients should stop when offset + data.length >= total."
ReadActivity ==
  /\ pages.at = "reading"
  /\ \E E \in AllFetched : \E failed \in Failures(E) :
     LET all == UserActivity(E, failed) IN
     \E data \in PagesOf(all, Limit, pages.offset, [e \in all |-> Turn(e)]) :
       pages' = [pages EXCEPT
                   !.got = @ \cup {[page |-> pages.offset, event |-> e] : e \in data},
                   !.offset = @ + Limit,
                   !.failed = @ \/ failed # {},
                   !.at = IF pages.offset + Cardinality(data) >= Cardinality(all)
                          THEN "done" ELSE @]
  /\ UNCHANGED <<holder, sales, legacy, bids, trades, shown, deals, now>>

ActivityNext ==
  \/ AskActivity \/ ReadActivity
  \/ \E g \in Goods : PlaceLegacyOrder(g) \/ PlaceLegacyBid(g) \/ \E u \in {Me, Peer} : SignTrade(g, u)
  \/ \E o \in legacy : ExecuteOrder(o)
  \/ \E t \in trades : EndTrade(t)
  \/ \E o \in legacy : Lapse({o}, {})
  \/ \E b \in bids : Lapse({}, {b})
  \/ RefreshShown
  \/ \E T \in SUBSET trades : AcceptTrades(T)

ActivitySpec == ActivityInit /\ [][ActivityNext]_actvars

-----------------------------------------------------------------------------
\* An event tells a fact when it is of its kind, and of its row or its transaction.
Tells(e, fact) == e.type = fact.type /\ (e = fact \/ (e.tx # {} /\ e.tx = fact.tx))

(* A client that reads to the total is told of every fact that held all    *)
(* the while, in an event of its kind, and of none twice, unless a query   *)
(* with something to say failed meanwhile, facts went (an order of a       *)
(* token that is sold, a bid on it) or came, or two rows of one query were *)
(* of one second: those have no order, and two bids on one token are told  *)
(* as one.                                                                 *)
ActivityTold ==
  pages.at = "done" /\ ~pages.failed /\ ~pages.tied =>
    /\ ~pages.left => \A fact \in pages.kept : \E g \in pages.got : Tells(g.event, fact)
    /\ ~pages.came => \A g, h \in pages.got : Tells(g.event, h.event) => g = h

(* Not so.  "The same on-chain tx can legitimately emit distinct semantic  *)
(* events for the same user, e.g. sale_seller AND order_filled [...] so    *)
(* both must survive": of an order that is executed, the buyer is told.    *)
FilledOrdersTold ==
  \A o \in legacy : o.buyer = {Me} => \E e \in Facts : e.type = "order_filled" /\ e.id = o.id
=============================================================================
