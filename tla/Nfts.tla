-------------------------------- MODULE Nfts --------------------------------
(***************************************************************************)
(* GET /v1/nfts: a request asks the rentals service, then one of four      *)
(* queries for a page of tokens, then the orders of those tokens, then the *)
(* rentals service again; the tables and the rentals move in between.      *)
(* A row is a token with the set of the offers (at most one) joined to it. *)
(***************************************************************************)
EXTENDS Orders

CONSTANTS
  Category,  \* of each token: wearable, parcel or ens
  Requests,  \* what may be asked
  Served,    \* those of them that are followed through their steps
  Age,       \* of each token: how long ago it was minted, the same for those of one block
  Custodian  \* the contract that holds the land that is leased

Flags == {{}, {TRUE}, {FALSE}}
IsLand(k) == Category[k] = "parcel"

ASSUME NftsAssumption ==
  /\ Category \in [Tokens -> {"wearable", "parcel", "ens"}]
  /\ IsFiniteSet(Tokens) /\ IsFiniteSet(Trades)
  /\ Age \in [Tokens -> Nat]
  /\ Custodian \notin Users \cup {Nobody}
  /\ Served \subseteq Requests
  /\ Requests \subseteq [category : {{}, {"wearable"}, {"parcel"}, {"ens"}}, onSale : Flags,
                         onRent : BOOLEAN, sort : {"none", "newest", "recent"}, owner : {{}} \cup {{u} : u \in Users},
                         min : Nat, max : Nat, first : Nat \ {0}, skip : Nat]
  /\ \A f \in Requests : f.sort = "recent" =>
       /\ f.category \notin {{"parcel"}, {"ens"}}
       /\ f.skip = 0 /\ f.first >= Cardinality(Trades) + Cardinality(Tokens)

VARIABLES
  lapsed,  \* per token: its order whose time has passed, which nobody has ended yet
  closed,  \* the trades that were cancelled, sold or expired
  past,    \* the rows of mv_trades whose status is not open
  listed,  \* per land: who offers it for rent (the rentals service), a set
  lessor,  \* per land: who leased it to its tenant (the rentals subgraph), a set
  req      \* the request under way

tables == <<vars, expired, lapsed, closed, past, listed, lessor>>
nvars == <<tables, req>>

Idle == [phase |-> "idle"]

-----------------------------------------------------------------------------
(* Pages and rows. *)

\* ORDER BY created_at DESC, that is by the age of the token, whose rows tie.  Land falls
\* back on it; the others have no order unless one is asked for.
Ordered(f) == f.sort = "newest" \/ f.category = {"parcel"}
Turn(f, k) == IF Ordered(f) THEN Age[k] ELSE 0
CutTokens(K, f) == PagesOf(K, f.first, f.skip, [k \in K |-> Turn(f, k)])
CutRows(R, f) == PagesOf(R, f.first, f.skip, [row \in R |-> Turn(f, row.token)])

Offer(p, signer, trade) == [price |-> p, signer |-> signer, trade |-> trade]
OfferOf(o) == Offer(o.price, o.owner, {})
OrderOffers(k) == {OfferOf(o) : o \in orders[k]}
\* The columns search_order_price and search_order_status stay when an order's time passes.
SearchOffers(k) == {OfferOf(o) : o \in orders[k] \cup lapsed[k]}
OffersIn(T, k) ==
  {Offer(t.price, t.signer, {t}) : t \in {u \in T : ~IsItemOrder(u) /\ u.sent = k}}
OpenTrades == {r.trade : r \in view}
TradeOffers(k) == OffersIn(OpenTrades, k)

\* JOIN and LEFT JOIN: a row for each offer, or one without.
InnerJoin(k, O) == {[token |-> k, offer |-> {o}] : o \in O}
Join(k, O) == IF O = {} THEN {[token |-> k, offer |-> {}]} ELSE InnerJoin(k, O)

\* Each limit may be met by another offer; with no offer no limit is met.
Meets(O, f) ==
  /\ f.min # 0 => \E o \in O : o.price >= f.min
  /\ f.max # 0 => \E o \in O : o.price <= f.max
InLimits(O, f) == {o \in O : Meets({o}, f)}

Answer(R, total) == [rows |-> R, total |-> total]
\* The total is a column of the rows: 0 without rows.
Windowed(R, n) == Answer(R, IF R = {} THEN 0 ELSE n)

-----------------------------------------------------------------------------
(* getNFTsQuery: four queries. ids {} filters nothing. *)

ByIds(k, ids) == ids # {} => k \in ids

\* The page is cut among the tokens before the joins unless an owner is asked for.
Candidates(f, ids) ==
  {k \in Tokens : /\ Asked(f.category, Category[k]) /\ Asked(f.owner, owner[k])
                  /\ ByIds(k, ids) /\ Meets(SearchOffers(k), f)}
OnSaleWhere(row, f) ==
  /\ f.onSale = {TRUE} => row.offer # {} \/ orders[row.token] # {}
  /\ f.onSale = {FALSE} => row.offer = {} /\ SearchOffers(row.token) = {}
JoinedRows(K, f) ==
  {row \in UNION {Join(k, {o \in TradeOffers(k) : o.signer = owner[k]}) : k \in K} :
     Meets(row.offer \cup SearchOffers(row.token), f) /\ OnSaleWhere(row, f)}
CutBefore(f, ids) ==
  {LET R == JoinedRows(K, f) IN Windowed(R, Cardinality(R)) : K \in CutTokens(Candidates(f, ids), f)}
CutAfter(R, f) == {Windowed(P, Cardinality(R)) : P \in CutRows(R, f)}
\* As a bug would have it: what is cut before the joins is cut after them, too.
PageCutTwice(f, ids) ==
  UNION {CutAfter(JoinedRows(K, f), f) : K \in CutTokens(Candidates(f, ids), f)}
DefaultPages(f, ids) ==
  IF f.owner = {} THEN CutBefore(f, ids) ELSE CutAfter(JoinedRows(Candidates(f, ids), f), f)

\* getRecentlyListedNFTsQuery: the trades of mv_trades whatever their status.  What is asked
\* here fits a page: the query cuts its trades, its two parts and their union to the page.
RecentTrades == OpenTrades \cup past
RecentAmong(f, ids) ==
  {k \in Tokens : Asked(f.category, Category[k]) /\ Asked(f.owner, owner[k]) /\ ByIds(k, ids)}
RecentTraded(f, ids) == {k \in RecentAmong(f, ids) : InLimits(OffersIn(RecentTrades, k), f) # {}}
RecentOrdered(f, ids) == {k \in RecentAmong(f, ids) : orders[k] # {} /\ Meets(SearchOffers(k), f)}
RecentPage(f, ids) ==
  Answer((UNION {Join(k, OffersIn(RecentTrades, k)) : k \in RecentTraded(f, ids)})
           \cup (UNION {Join(k, {}) : k \in RecentOrdered(f, ids)}), 0)

\* getLandsOnSaleQuery: a row per offer; ids are not looked at.
SaleRows(f) ==
  UNION {InnerJoin(k, InLimits(OrderOffers(k) \cup TradeOffers(k), f)) :
           k \in {m \in Tokens : IsLand(m) /\ Asked(f.owner, owner[m])}}
LandsOnSale(f) == CutAfter(SaleRows(f), f)

\* getAllLANDsQuery: the owner's, and those the owner leased; cut before the joins.
\* As a bug would have it: the ids, which a comment has "check this ones out", are left out.
LandsOfAnyId(f, ids, assets) ==
  {k \in Tokens : IsLand(k) /\ Meets(SearchOffers(k), f) /\ (Asked(f.owner, owner[k]) \/ k \in assets)}
LandsOf(f, ids, assets) ==
  {k \in Tokens : /\ IsLand(k) /\ ByIds(k, ids) /\ Meets(SearchOffers(k), f)
                  /\ Asked(f.owner, owner[k]) \/ k \in assets}
LandRows(K, f) == UNION {Join(k, OrderOffers(k) \cup InLimits(TradeOffers(k), f)) : k \in K}
\* The ids' page is cut after the joins.
AllLands(f, ids, assets) ==
  LET K == LandsOf(f, ids, assets)
      pages == IF ids = {} THEN {LandRows(L, f) : L \in CutTokens(K, f)} ELSE CutRows(LandRows(K, f), f)
  IN  {Windowed(R, Cardinality(K)) : R \in pages}

\* getENSs, getENSsCount: the trade of whoever signed it.
EnsRows(f, ids) ==
  {row \in UNION {Join(k, TradeOffers(k)) :
                    k \in {m \in Tokens : Category[m] = "ens" /\ ByIds(m, ids)}} :
     /\ Asked(f.owner, owner[row.token])
     /\ Meets(row.offer \cup SearchOffers(row.token), f)
     /\ f.onSale = {TRUE} => row.offer # {} \/ orders[row.token] # {}}
\* As a bug would have it: the count of before there were trades.
EnsCountedByOrders(f, ids) ==
  {k \in Tokens : /\ Category[k] = "ens" /\ Asked(f.owner, owner[k])
                  /\ IF f.onSale = {TRUE} THEN orders[k] # {} ELSE ByIds(k, ids)}
EnsCounted(f, ids) ==
  {k \in Tokens :
     /\ Category[k] = "ens" /\ Asked(f.owner, owner[k])
     /\ IF f.onSale = {TRUE} THEN InLimits(TradeOffers(k), f) # {} \/ orders[k] # {}
        ELSE ByIds(k, ids)}
EnsPages(f, ids) ==
  {Answer(R, Cardinality(EnsCounted(f, ids))) : R \in CutRows(EnsRows(f, ids), f)}

\* The count joins no trade: PostgreSQL refuses a limit on the price unless on sale is asked.
RefusesNfts(f) == f.category = {"ens"} /\ f.onSale # {TRUE} /\ (f.min # 0 \/ f.max # 0)

\* The answers a query may give.
NftsPages(f, ids, assets) ==
  CASE f.category = {"parcel"} /\ f.onSale = {TRUE} -> LandsOnSale(f)
    [] f.category = {"parcel"} /\ f.onSale # {TRUE} -> AllLands(f, ids, assets)
    [] f.category = {"ens"} -> EnsPages(f, ids)
    [] f.sort = "recent" -> {RecentPage(f, ids)}
    [] OTHER -> DefaultPages(f, ids)

-----------------------------------------------------------------------------
(* getNFTs: one action per answer awaited. *)

\* The tokens are minted and no item is looked at here.
NInit ==
  /\ owner \in [Tokens -> Users]
  /\ items = <<>> /\ orders = [k \in Tokens |-> {}] /\ open = {} /\ view = {}
  /\ expired = {} /\ lapsed = orders /\ closed = {} /\ past = {}
  /\ listed = [k \in Tokens |-> {}] /\ lessor = [k \in Tokens |-> {}]
  /\ req = Idle

\* getNFTFilters: with isOnRent, the ids are those of the open rentals of the lessor asked.
AskNfts(f) ==
  /\ req.phase = "idle"
  /\ ~RefusesNfts(f)
  /\ req' = [phase |-> IF f.owner = {} THEN "page" ELSE "assets", f |-> f,
             assets |-> {},
             rentals |-> IF f.onRent /\ f.category = {"parcel"}
                         THEN {{k \in Tokens : \E u \in listed[k] : Asked(f.owner, u)}} ELSE {}]
  /\ UNCHANGED tables

\* getRentalAssets, for the owner asked.
GetRentalAssets ==
  /\ req.phase = "assets"
  /\ req' = [req EXCEPT !.phase = "page",
                        !.assets = {k \in Tokens : IsLand(k) /\ req.f.owner \cap lessor[k] # {}}]
  /\ UNCHANGED tables

\* The query for the page (and, for names, the count in the same breath).
QueryPage ==
  /\ req.phase = "page"
  /\ \E answer \in NftsPages(req.f, UNION req.rentals, req.assets) :
         req' = [phase |-> "orders", f |-> req.f, rentals |-> req.rentals,
                 rows |-> answer.rows, calm |-> TRUE]
  /\ UNCHANGED tables

\* The open orders of the page's tokens, of the owner asked; the first found of each is taken.
TokensOf(R) == {row.token : row \in R}
OrdersOfPage(f, K) ==
  {r \in OrderRows([owner |-> f.owner, token |-> {}]) : r.token \in K}
QueryOrders ==
  /\ req.phase = "orders"
  /\ LET found == OrdersOfPage(req.f, TokensOf(req.rows))
     IN  \E pick \in [TokensOf(req.rows) -> {{}} \cup {{r} : r \in found}] :
           /\ \A k \in DOMAIN pick :
                LET ofK == {r \in found : r.token = k}
                IN  pick[k] \subseteq ofK /\ (ofK # {} => pick[k] # {})
           /\ req' = [phase |-> "listings", f |-> req.f, rentals |-> req.rentals,
                      rows |-> req.rows, orders |-> pick]
  /\ UNCHANGED tables

\* getRentalsListingsOfNFTs, unless the rentals were asked for before; then the answer goes
\* out, with the rental of each token that has one.
RentalsOfPage ==
  {k \in TokensOf(req.rows) :
     IsLand(k) /\ k \in IF req.rentals = {} THEN {m \in Tokens : listed[m] # {}} ELSE UNION req.rentals}
Respond ==
  /\ req.phase = "listings"
  /\ req' = Idle
  /\ UNCHANGED tables

-----------------------------------------------------------------------------
(* What goes on meanwhile. *)

\* `calm' is said of a request between its page and its orders, for the properties alone.
Disturb == req' = IF req.phase = "orders" THEN [req EXCEPT !.calm = FALSE] ELSE req

Aside == <<closed, past, listed, lessor>>
\* Terms are signed once.
MarketMoves ==
  /\ \/ \E k \in Tokens, u \in Users : lessor[k] = {} /\ Transfer(k, u)
     \/ \E t \in Trades \ closed : StoreTrade(t)
  /\ UNCHANGED <<Aside, lapsed, expired>>
  /\ Disturb
\* An order is placed, is ended in time, or is not; one that was not is ended at last.
OrderMoves(k) ==
  /\ \/ \E p \in Prices : /\ lessor[k] = {}
                          /\ PlaceOrder(k, p)
                          /\ lapsed' = [lapsed EXCEPT ![k] = {}]
     \/ EndOrder(k) /\ lapsed' \in {lapsed, [lapsed EXCEPT ![k] = orders[k]]}
     \/ lapsed[k] # {} /\ lapsed' = [lapsed EXCEPT ![k] = {}] /\ UNCHANGED vars
  /\ UNCHANGED <<Aside, expired>>
  /\ Disturb
\* A trade is sold, cancelled, or its time passes; the view tells after its next refresh.
CloseTrade ==
  /\ \E t \in Trades :
       /\ closed' = closed \cup {t}
       /\ \/ EndTrade(t) /\ expired' \in {expired, expired \cup {t}}
          \/ t \in closed /\ expired' = expired \cup {t} /\ UNCHANGED vars
  /\ UNCHANGED <<lapsed, past, listed, lessor>>
  /\ Disturb
RefreshAll ==
  /\ RefreshView
  /\ past' = {t \in closed : OwnerOk(t)}
  /\ UNCHANGED <<expired, lapsed, closed, listed, lessor>>
  /\ Disturb

\* An owner offers land for rent, or no longer; a tenant takes it, and gives it back.
OfferRent(k) ==
  /\ IsLand(k) /\ owner[k] \in Users
  /\ listed' = [listed EXCEPT ![k] = IF @ = {} THEN {owner[k]} ELSE {}]
  /\ UNCHANGED <<vars, expired, lapsed, closed, past, lessor>>
  /\ Disturb
Lease(k) ==
  /\ owner[k] \in listed[k]
  /\ lessor' = [lessor EXCEPT ![k] = {owner[k]}]
  /\ listed' = [listed EXCEPT ![k] = {}]
  /\ owner' = [owner EXCEPT ![k] = Custodian]
  /\ UNCHANGED <<items, orders, open, view, expired, lapsed, closed, past>>
  /\ Disturb
EndLease(k) ==
  /\ \E u \in lessor[k] : owner' = [owner EXCEPT ![k] = u]
  /\ lessor' = [lessor EXCEPT ![k] = {}]
  /\ UNCHANGED <<items, orders, open, view, expired, lapsed, closed, past, listed>>
  /\ Disturb

NNext ==
  \/ \E f \in Served : AskNfts(f)
  \/ GetRentalAssets \/ QueryPage \/ QueryOrders \/ Respond
  \/ MarketMoves \/ CloseTrade \/ RefreshAll
  \/ \E k \in Tokens : OrderMoves(k) \/ OfferRent(k) \/ Lease(k) \/ EndLease(k)

NSpec == NInit /\ [][NNext]_nvars

-----------------------------------------------------------------------------
(* What a page and an answer owe.  What is said of pages alone is said between requests: a *)
(* request does not touch the tables, so nothing is left out.                              *)

WholeOf(f) == [f EXCEPT !.first = Cardinality(Tokens) + Cardinality(Trades), !.skip = 0]
\* The order leaves nothing open where what is cut has no two of one age.
Settled(f) ==
  LET Apart(R) == \A a, b \in R : a # b => Age[a.token] # Age[b.token]
      TokensApart(K) == \A k, m \in K : k # m => Age[k] # Age[m]
  IN  /\ Ordered(f)
      /\ CASE f.category = {"parcel"} /\ f.onSale = {TRUE} -> Apart(SaleRows(f))
           [] f.category = {"parcel"} /\ f.onSale # {TRUE} -> TokensApart(LandsOf(f, {}, {}))
           [] f.category = {"ens"} -> Apart(EnsRows(f, {}))
           [] OTHER -> IF f.owner = {} THEN TokensApart(Candidates(f, {}))
                       ELSE Apart(JoinedRows(Candidates(f, {}), f))

\* The page a client asks next begins where the last one was cut: where the order is settled
\* each row of the whole answer is on one of the pages, and on no other, and there is nothing
\* else on them, although some are cut before the joins drop rows and some after.
PagesLoseNothing ==
  req = Idle => \A f \in Requests : Settled(f) =>
    LET N == 0 .. Cardinality(Tokens) - 1
        Page(n) == NftsPages([f EXCEPT !.first = 1, !.skip = n], {}, {})
    IN  \A whole \in NftsPages(WholeOf(f), {}, {}) :
          /\ \A n \in N : \A page \in Page(n) : page.rows \subseteq whole.rows
          /\ \A row \in whole.rows : \E n \in N : \A m \in N : \A page \in Page(m) :
               row \in page.rows <=> m = n

\* The total of names and of land is no less than what there is to page through: the count
\* of names is another query, and that of land is taken before the offers are joined.  (But
\* for a name found by the price of an order whose time has passed: see below.)
TotalCoversTokens ==
  req = Idle => \A f \in Requests : f.category # {} /\ f.sort # "recent" /\ ~RefusesNfts(f) =>
    \A whole \in NftsPages(WholeOf(f), {}, {}) :
      whole.total >= Cardinality({k \in TokensOf(whole.rows) :
                                    Category[k] = "ens" /\ lapsed[k] # {} => f.min = 0 /\ f.max = 0})

\* When nothing moves between the page and the orders, a token shown on sale by an order of its
\* present owner, or by such a trade whose time has not passed, comes with its order; and no
\* order is of another owner than the one asked, nor of a token that is not on the page,
\* whatever moved.
OrderGoesWithRow ==
  [][req.phase = "orders" /\ req'.phase = "listings" =>
       /\ \A k \in DOMAIN req'.orders : \A r \in req'.orders[k] :
            r.token = k /\ Asked(req.f.owner, r.owner)
       /\ req.calm => \A row \in req.rows :
            (\E o \in row.offer \cup OrderOffers(row.token) :
               o.signer = owner[row.token] /\ Asked(req.f.owner, o.signer)
               /\ (o.trade # {} => o \in TradeOffers(row.token) /\ o.trade \cap expired = {}))
              => req'.orders[row.token] # {}]_nvars

\* When some land is for rent, a request for what is for rent gets nothing else, with the
\* rental of each (on sale and for rent at once apart: that query takes no ids).
RentedOnly ==
  req.phase = "listings" /\ req.f.onSale # {TRUE} =>
    \A rented \in req.rentals : rented # {} => TokensOf(req.rows) \subseteq RentalsOfPage

\* /v1/orders: each page, of a union whose parts are cut before it, is that of the whole
\* union; and the total, from another query, leaves no order out.
CheaperOrder(a, b) == a.price < b.price
OrdersPaged ==
  req = Idle => \A of \in {{}} \cup {{u} : u \in Users} :
    LET R == OrderRows([owner |-> of, token |-> {}])
    IN  /\ (\A a, b \in R : a # b => a.price # b.price) =>
             \A first \in 1 .. 2, skip \in 0 .. 3 :
               OrdersPage(R, first, skip, CheaperOrder) = RowsOnPage(R, first, skip, CheaperOrder)
        /\ Cardinality(R) <= OrdersTotal([owner |-> of, token |-> {}])

-----------------------------------------------------------------------------
(* Not so: what the documentation promises, and the code does not do. *)

\* "Filter by whether NFT (LAND) is available for rent".
OnlyForRent ==
  req.phase = "listings" => \A rented \in req.rentals : TokensOf(req.rows) \subseteq rented

\* "Filter by whether NFT is currently on sale".
OnlyOnSale ==
  \A f \in Requests : f.onSale = {TRUE} => \A page \in NftsPages(f, {}, {}) :
    \A k \in TokensOf(page.rows) : OrderOffers(k) \cup TradeOffers(k) # {}

\* (Not among the runs.)  A name that an order whose time has passed lets through the limits,
\* beside a trade that is outside them, is on a page and not in the total; a trade whose time
\* has passed is on sale on the page and has no order, until the view is refreshed.
EveryNameIsCounted ==
  \A f \in Requests : f.category = {"ens"} /\ ~RefusesNfts(f) =>
    \A whole \in NftsPages(WholeOf(f), {}, {}) : whole.total >= Cardinality(TokensOf(whole.rows))
=============================================================================
