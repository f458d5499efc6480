# Formal model of the marketplace server

This directory holds TLA+ modules that model `marketplace-server`: what changes its
state, and the queries by which it answers. With them are the TLC configurations that
check them on small instances, and proofs, checked by TLAPS, of what they say for every
value of their constants. Source paths are those of the repository under `src/` (so the
code is in `src/src`, the documentation in `src/docs`). The correspondence between
definitions and lines is in `PROJECT.json` (`map`); this file says how to read it.

The project covers today:

| module | what it is | runs | proofs |
|---|---|---|---|
| `ListingsView` | abstract: a view that lags behind the tables and never goes back | - | - |
| `TradesView` | the refresh of `mv_trades`: triggers, gate, flush job, recreation | `trades_view` | `TradesViewProofs` |
| `AddTrade` (`MCAddTrade`) | `POST /v1/trades` with its checks, event and Shop ping | `add_trade`, `add_trade_orders` | `AddTradeProofs` |
| `Favorites` (`MCFavorites`) | lists, grants, picks and voting power | `favorites` | `FavoritesProofs` |
| `TradeStatus` (`MCTradeStatus`) | the two queries that compute a trade's status | `trade_status` | `TradeStatusProofs` |
| `AccessToken` | the shared Transak token and its lock | `access_token` | `AccessTokenProofs` |
| `Market` | the tables the reads are about, and the events that change them | | `MarketProofs` |
| `Catalog` | `/v1/catalog`, `/v2/catalog`: page, total, search, mapping | | `MarketProofs` |
| `Items` | `/v1/items`, `/v3/catalog/items` | | `MarketProofs` |
| `Shop` | the feeds of the Shop, in credits | | `MarketProofs` |
| `Feeds` (`MCMarket`) | `Catalog`, `Items` and `Shop` on one `Market`, and what they owe one another | `market`, `items_category` | `MarketProofs` |
| `Paging` | ORDER BY, LIMIT and OFFSET | | `PagingProofs` |
| `Orders` | `/v1/orders` | | `MarketProofs` |
| `Nfts` (`MCNfts`) | `/v1/nfts`, with its orders and rentals | `nfts`, `nfts_on_rent`, `nfts_recently_listed` | `MarketProofs` |
| `Job` | the loop that flushes, and its stop | `workers` | `WorkersProofs` |
| `ManaRate` | the rate the Shop's credits are priced by | `workers` | `WorkersProofs` |
| `Contracts` | the list of collections, read in pages and cached | `workers` | `WorkersProofs` |
| `UserAssets` | what an address owns, on pages | `workers` | `WorkersProofs` |
| `Activity` | what a user did, merged from seven queries | `workers` | `WorkersProofs` |

Run one with `tlc -config TradesView.cfg TradesView`, a proof with
`tlapm TradesViewProofs.tla`.

## 1. The system and its parts

The server is one Node.js process per instance, several instances behind a load
balancer. It reads what the squid (an indexer of the chain) writes to PostgreSQL
and adds off-chain tables of its own: trades, favorites, rankings. Within a
process, handlers interleave at every `await`; between processes, only
PostgreSQL, the cache and the remote services are shared. Components are wired in
`src/src/components.ts`.

| component | state it keeps | operations that change state | talks to |
|---|---|---|---|
| trades (`ports/trades`) | `marketplace.trades`, `trade_assets*` | `addTrade`; the accepted event changes nothing | chain RPC, event publisher, Shop notifier |
| trades view (`logic/trades/materialized-view.ts`) | `mv_trades`, one row of `mv_trades_refresh_state` | trigger `refresh_trades_mv()`, flush job, `recreateTradesMaterializedView` | every writer of the trigger's tables |
| favorites (`ports/favorites`) | `lists`, `acl`, `picks`, `voting` | pick, unpick, bulk, list create/update/delete, grant, revoke | Snapshot, the items tables |
| transak (`ports/transak`) | cached access token and lock | `getOrRefreshAccessToken` | Transak, the cache |
| job (`ports/job`) | `shouldStop`, last run, timer | start, run, stop | used by the flush and by the builder's view |
| mana-rate (`ports/mana-rate`) | last rate, provider, timer | refresh, start, stop | a price feed over RPC |
| contracts (`ports/contracts`) | a cache of all collections, for an hour | fill | PostgreSQL |
| database (`ports/db`) | pools | `withTransaction`, `withAsyncContextTransaction` | PostgreSQL |
| shop-notifier, events | none | fire a message | the Shop, SNS |
| wert, rentals | none | sign, ask | remote services |
| orders, bids, sales, items, catalog, shop-catalog, nfts, user-assets, activity, prices, rankings, stats, trendings, volume, analytics, owners, accounts, ENS | none | none: they read | PostgreSQL; some ask rentals |
| HTTP layer (`controllers`, `logic/http`) | none | parse, authorise, answer | everything above |

**How they interact.** `addTrade` writes the tables whose statement triggers
refresh `mv_trades`; orders, bids, the catalog and the Shop ping read that view.
The flush job and the triggers share one row of state across processes. The
favorites handlers guard what the favorites port does. The Transak and Wert
handlers are requests that share one token. The catalog, the items and the Shop answer
from the same tables and view by queries written apart; `/v1/nfts` puts the answers of
the rentals service, of its own query and of the orders together; the activity does so
with those of sales, bids, orders and trades.

**What is hard.**

* *Trades view.* Triggers run inside transactions that may roll back; the flush
  runs as separate autocommitted statements; both refresh under PostgreSQL's
  snapshot rules. Correct means: readers never see uncommitted data, the view
  never goes back, refreshes are debounced, and every committed write is shown in
  the end without another write to help.
* *Trade creation.* Check, RPC calls and INSERT are separate steps; clients retry;
  the ping is not awaited and decides on a stale view. Correct means: duplicates
  are refused up to the race, one trade and one event result from any number of
  retries, an answer never waits for the Shop.
* *Favorites.* Authorisation is checked in one statement and used in another; a
  remote score is fetched in between. Correct means: only owners change lists and
  grants, nothing is orphaned, whoever picks has a power, a failure resets nobody.
* *Access token.* The lock is a lease in a cache. Correct means: one refresh at a
  time, newer tokens only, none issued in vain, no request waits for ever.
* *Jobs and rates.* Stop during a run, a failed last run, answers out of order.
* *Lists in pages.* A count and pages that are separate statements, over tables that
  change, in orders with ties. Correct means: what was there all the while is missing, or
  there twice, only if something else went or came.
* *Catalog, items, Shop.* The same price, stock and "on sale" computed by queries written
  apart, under filters that combine. Correct means: totals count what pages show, limits on
  prices hold of prices that can be paid, and the feeds tell the same price, or each the one
  it chooses among several open orders.
* *NFTs, orders, activity.* Limits pushed into the parts of a union, answers put together
  from queries made one after the other, of which some fail. Correct means: the pages
  together are the whole, each order belongs to its row and to whom was asked.

All hazards, each at its line with the properties that cover it or the reason why
none does, are in `PROJECT.json` (`hazards`).

## 2. The plan

In this order; the first nine steps are done.

1. **`ListingsView`, `TradesView`, `TradesViewProofs`**: most components read this
   view, and its refresh is the most concurrent code of the repository. The abstract
   specification is worth stating because `AddTrade` uses it.
2. **`AddTrade`**: composed with `ListingsView` (`Facts` for its statements), so what
   `TradesView` implements is what `AddTrade` assumes.
3. **`Favorites`**: several requests over shared tables.
4. **`AccessToken`**: a lease, with time.
5. **`TradeStatus`**: the two `CASE` expressions over histories of executions, cancellations
   and raised signature indices, each against what the chain accepts.
6. **`Job`**, **`ManaRate`**, **`Contracts`**: the workers, one state machine each.
7. **`Market`, `Catalog`, `Items`, `Shop`, `Feeds`**: the tables and their events, the queries
   on them as operators, what the queries owe one another as invariants.
8. **`Paging`, `Orders`, `Nfts`**: a request in steps, over the same tables.
9. **`UserAssets`, `Activity`**: clients that read page after page.
10. Proofs: every invariant and action property that a passing run checks is proved. To come: in
   `AddTrade`, that a trade once rejected was never stored; in `TradesView`, what a process
   that dies may lose.
11. Algorithms against reference definitions: the splitting of rentals URLs
   (`ports/rentals/utils.ts`), the pages of `logic/http/pagination.ts`; the rankings and
   trendings (`ports/rankings`, `ports/trendings`), which are sums over days.

## 3. The modules and the code

### ListingsView

`committed` is what committed transactions have written, `view` what readers see.
Its steps are `Write` (committed grows), `Refresh` (the view becomes a larger part
of it), or both. It promises that `view` is a part of `committed` that never
shrinks. `TradesView` implements it with `committed` and `view` as they are;
`AddTrade` instantiates it with its facts (*stored*, *closed*).

### TradesView

Data is the set of statements it contains: `<<w, i>>` is statement *i* of
transaction *w*. That is enough for every property about what is lost or goes back.

| model | code |
|---|---|
| `gate` (`dirty`, `age`) | the committed row of `mv_trades_refresh_state`; `age` is `now() - last_refresh` in ticks and stops at `MaxAge`, where every gate is open |
| `rowLock`, `pendingGate` | the row lock and the row version of the transaction that has updated it |
| `viewLock`, `pendingView` | the exclusive lock of a `REFRESH` in a transaction, and its result |
| `StatementClaims`, `StatementSkips` | the gating `UPDATE ... FOR UPDATE SKIP LOCKED` of the trigger; `txAge` is what a transaction's `now()` lags behind the clock, which matters because the trigger stamps with `clock_timestamp()` and compares with `now()` |
| `MarkDirty` | the `ELSE` branch: it waits for the row and holds it until the end |
| `TakeSnapshot`, `RefreshInTx` | `REFRESH`: the snapshot is taken before the wait for the view's lock |
| `Commit`, `Rollback` | the end of a transaction, `ROLLBACK` undoing the claim and the refresh |
| `FlushClaim`, `FlushSnapshot`, `FlushRefresh`, `FlushFails`, `FlushRemarks` | `flushTradesMaterializedViewIfDirty`: the claim commits alone, then the `REFRESH`, then on failure the catch block |
| `FlushDies` | the process dies; only in `NextWithDeaths` |
| `Recreate` | `recreateTradesMaterializedView`, one transaction |
| `Tick` | a tick of the clock, bounded by `MaxTxAge` and `MaxFlushAge` |

`NextWithDeaths` and `FairSpecWithDeaths` belong to no run; see section 7.
`RefreshAtOnce` is a variant that no specification uses: the body of a mutant. The
other modules have such variants too; each stands right before its definition.

### AddTrade

A trade is its signature: `Trades` are the bodies clients send, and a retry is a
second request with the same trade. `pc` follows `addTrade`; `Verify` stands for
estate fingerprint, signature and ownership, which change nothing and may refuse
(`Reject`). `Store` is the transaction; the unique constraint on the signature is
`SignatureTaken`. `Notify` is the awaited event, which only bids have, and may fail
silently. `Respond` starts the ping and answers. The ping is a second line of
control per request: `ResolveItem`, `CheckOtherOpen` on the lagging view, `SendPing`,
`PingFails`. `Close` is the squid (or time) closing a trade. `ComparesAddress` has the
difference between `getBidsQuery`, which lowers the address of the body, and the two
order queries, which do not. `seen` and `wasOnSale` are history variables.

### Favorites

`owner`, `acl`, `picks`, `power` are the four tables. A request is a call and how far
it is; each transaction is one step, since its statements all touch the row of the
list, and between check, Snapshot and write it yields. `Fail` is any refusal or
failure, at any stage. Foreign keys, the primary key of picks and the cascades are
guards and effects of the steps that rest on them. Names and descriptions of lists
are left out (their uniqueness is a refusal, so a `Fail`), as are the reading
queries and validation of items.

### AccessToken

`cached` and `lockedUntil` are the two keys of the cache; `now` is the clock. A
request tries the lock, reads, fetches, stores and leaves; `Throw` is any failure
under the lock, whose `finally` releases by key. The waits between the
`LOCK_RETRIES` attempts are abstracted: a request that finds the lock taken may give
up at any time, which includes giving up after the last attempt.

### TradeStatus

One trade and what the squid indexes about it: executions with their callers, a
cancellation, the signer's index on each network, the index of each marketplace. The
actions are the chain's; the trade may be signed with any index, since `addTrade` checks
none. `Usable` is the reference: what the marketplace contract accepts. Both queries
LEFT JOIN index rows and group by the values found, so a trade has a row per
combination: `ViewRows` for the view, `GroupCallers` times the joins for
`getTradesForTypeQuery`, whose `COUNT` also multiplies by assets and joined rows.
`ViewStatus` and `BaseStatus` are the `CASE` expressions, null handling and precedence
included. `LowerCase` are the marketplaces whose configured address is in lower case:
the view compares `LOWER(address)` with the addresses as `decentraland-transactions`
spells them, and finds no index row of another spelling. `Usable` leaves out the date from
which a trade is effective: neither query reads it (`addTrade` only asks that it be before the
expiration), so both show as open a trade that the contract accepts once it is effective.

### Market, Catalog, Items, Shop, Feeds

`Market` has items (approved, who may mint them, how many are left), the owners of tokens,
the legacy orders, the trades that are open and `view`, the rows of `mv_trades` that are.
Its actions are the squid's, `StoreTrade` (`addTrade`, with no checks of what the chain
says), `EndTrade` and `RefreshView`. So the view lags in every way `ListingsView` allows:
it may show a trade that has ended, an owner who has sold, stock that is gone. Each set of
terms is signed once at most, but an item or a token may have several open orders: the
duplicate check is passed by two requests at once and by an address in capitals (`AddTrade`),
and for trades of several uses it counts executions once for each asset
(`trades/queries.ts:149`), so it may take for sold what the view shows as open (`TradeStatus`).

The queries are operators on these variables: a filter is a record, a row is a record, NULL
is the empty set of a column that is a set. `Catalog` follows the two catalog queries clause
by clause (`SaleWhere`, `MinPriceCaseWithTrades`, ...), the count that `/v2/catalog` makes
with other joins (`SaleCounted`, `PriceCounted`, ...), the search by words, and the mapping
of rows. `Items` has the join of trades that both item endpoints use; `Shop` the branches
(native, legacy, primary, secondary), their USD wei and credits, the limits on prices, and
the grouping that chooses one listing per item. Names, rarities, categories and the like
only choose among items: a filter on them is a filter by ids. Prices are small numbers;
`MaxNumeric` is `MAX_NUMERIC_NUMBER`, which as the price of an item is no price. The
rounding up of credits is exact, `toRoundedWei` and floating point are not modelled.

`OnSaleInRange` asks for an offer of somebody who sells: the store where the store may mint,
an order, an open trade. The least price on a card is that of such an offer, unless only the
marketplace contract may mint: then the query counts the price of the store too, at which
nobody sells (`LeastPriceIsPaid`, section 7). `NoRowUncounted` excepts requests with
`isOnSale=false` (`NotOnSaleTotal`, section 7), and `onlyListing` together with a limit on the
price: the page then looks for an order of the item itself among those within the limits, the
count among all, so an item that the marketplace contract mints, whose own order is outside the
limits, is on the page and not in the total.

### Paging, Orders, Nfts

`Sorted` gives all the orders that a statement with ties may return its rows in; where no two
rows tie there is one, and `RowsOnPage` takes a page from it by the place of each row, which
is how many come before it. `PagesOf` has all the pages a statement may return when rows tie:
each row has a turn, and the rows of one turn come in any order, another one each time.
`Orders` is the union of legacy and trade orders with the limit that is pushed into each part
and the total of the separate query; `expired` are the trades whose time has passed, which the
view may still have as open and the query for orders leaves out.

`Nfts` adds trades that are closed (which `mv_trades` keeps), rentals and leases, and orders
whose time has passed (`lapsed`): `search_order_price` and `search_order_status` of their token
stay until somebody ends them, so limits on prices look at `SearchOffers`, and joins at
`OrderOffers`. Tokens are ordered by the block that minted them (`Age`), where the request or
the query orders them at all (`Ordered`): without `sortBy` only land has an ORDER BY, and two
rows of one token always tie. So a query has a set of answers (`NftsPages`), one for each way
its ties may come. `PagesLoseNothing` is about the requests where nothing ties (`Settled`):
elsewhere pages may repeat rows and lose others though nothing moves, since two statements need
not return ties in one order. There is one request: `AskNfts`,
`GetRentalAssets`, `QueryPage` (one of four queries: names, land on sale or all land,
recently listed, the rest), `QueryOrders`, `Respond` with the rentals; anything may happen in
between. What is said of pages alone is an invariant over all `Requests` between requests;
`Served` are those that are followed through their steps.

### Job, ManaRate, Contracts, UserAssets, Activity

Five modules without common state; `MCWorkers` follows one of them per behaviour. `Job` is the
loop with its sleeps, the promise of the last run and the call of `stop()`. `ManaRate` has a
record per refresh (begun, asking, served, settled), so that refreshes overlap;
`met` is a history variable: which were under way when one began. `Contracts` has loads
that count, read pages and store, while collections are approved and rejected; `kept`,
`came` and `gone` are history. `UserAssets` has the eight statements as units (tokens or
groups), their order and their counts, and a client that walks the pages. `Activity` has
the tables that the seven queries read, the deals that write them (external, except for
trades), the events made of the rows, and a client that pages to the total; a query that fails
has no rows. Times are whole seconds, as those of blocks are, and any number of deals may share
one: rows tie (`Answers`: which of them are cut at the cap, and in which order they come, is
open), and events without a transaction that share the token, the second and the kind are one
(`KeyOf`): two bids on a token in one block are told as one. The sort is stable, so the order
of the sources breaks ties between them (`Turn`). `dedupeEvents` also keeps one event per
transaction and kind, so several sales of one transaction are told as one: `Tells` says in
which sense a sale is told nevertheless. `ActivityTold` excepts clients that met two rows of one
query in one second (`tied`): there the code loses facts, or tells them twice, by itself.

## 4. The runs

| run | expects | bounds | what it shows |
|---|---|---|---|
| `trades_view` | pass | 2 transactions of 2 statements, 2 flush jobs, interval, transactions and flushes of at most 1 tick | `NothingLost`, `OneRefreshAtATime`, `Debounced`, `ImplementsListings`, `CatchesUp` |
| `add_trade` | pass | 2 requests; 5 trades: two orders of a token, two bids, an order of its item | `RivalsOnlyByRace`, `CreatedOnce`, `RedundantToAnother`, `EachAnswered` |
| `add_trade_orders` | violation of `OneOpenOrder` | two orders of one token, one spelled with capitals | the order queries miss a body with a mixed-case address |
| `favorites` | pass | 2 requests at a time, used again; 2 users, 1 item, the default list and one more, scores 0 and 7 | `EveryPickVotes`, `NothingOutlivesItsList`, `OnlyScoresChangePower`, `OnlyTheOwner` |
| `trade_status` | pass | trades of 1 to 3 uses, 2 callers, 2 marketplaces, 2 networks, indices up to 2, 2 assets | `ViewTellsUsable`, `SingleUseAgrees` |
| `access_token` | pass | 3 requests, lock of 2 ticks, work of 1, tokens of 2, 4 ticks, 3 tokens | `OneAtATime`, `NewerTokens`, `NoNeedlessRefresh`, `EachAnswered` |
| `market` | pass | 1 item with 2 units left at most, 1 token of it, 2 users, prices 1 to 3, 4 trades (item and token, MANA and pegged USD), all combinations of filters, rates 0, 2 and 3 at 2 wei per credit | `TotalIsExact`, `NoRowUncounted`, `OnSaleInRange`, `ItemsAndCatalogAgree`, `CreditsAsAsked`, `HeadlineIsItemPrice` |
| `items_category` | violation of `CategoryKeepsPrice` | the same | a category drops the first-hand trades from the join |
| `nfts` | pass | 2 parcels and a name, 2 users, 2 trades of prices 2 and 3 that may be past their time, orders of price 1 that may be, too, 11 requests, 3 of them followed through their steps | `PagesLoseNothing`, `TotalCoversTokens`, `OrdersPaged`, `RentedOnly`, `OrderGoesWithRow` |
| `nfts_on_rent` | violation of `OnlyForRent` | those of `nfts` | with nothing for rent, all land is for rent |
| `nfts_recently_listed` | violation of `OnlyOnSale` | those of `nfts`, 11 requests | cancelled trades are recently listed |
| `workers` | pass | `MaxRound` 2, `MaxRefresh` 3; 3 collections, pages of 2, 2 loads, `MaxChanges` 2; 5 tokens of 4 items, pages of 1 or 2, `MaxMoves` 2; 2 tokens dealt in, the first the user's at the start, `MaxDeals` 3, `FetchCap` 2, pages of 2, `MaxFailing` 1 | `StopAnswers`, `JobEnds`, `RateGoesBack`, `LoadsLoseNothing`, `WalksLoseNothing`, `ActivityTold` |

`trades_view`, `add_trade`, `favorites` and `access_token` also check the module's `TypeOK`;
those of `TradeStatus` and `Job` are proved. Every property is broken by a mutant of the
code's definitions (`mutants` in `PROJECT.json`).

**Why these bounds are enough.** *Trades view:* with two transactions and two jobs
every pair of refreshing parties meets (two triggers, trigger and job, two jobs); the
second statement of a transaction is what distinguishes a transaction that claims and
then marks from one that does not. One tick of interval keeps the order of ages that
matter: closed, open for the clock, open for an old transaction. The proofs remove
the bounds. *Trades:* a rival, a retry and another listing each need two requests and
no more; the proofs cover any number. *Favorites:* check and write of one request and
the whole of another between them. *Access token:* the holder, one that waits and one
that comes when the lock has expired, over two terms of the lock. *Trade status:* a trade
of several uses needs two callers to split them, and two index values to differ; the
proofs cover any number. *Market:* the queries join per item, so one item shows what they
do to each; it needs offers of every kind at once (store, two trades of the item, order and
two trades of a unit) on both sides of a limit, a stock that runs out, and a view that is behind
in any of them. A second item would only tell of pages, which go by item. *NFTs:* two
parcels and a name are a page and what follows it, in each of the queries; one parcel
(`plot`) stays with its owner and is only ever offered for rent, which keeps it small. A
behaviour of `MCNfts` is about pages and totals, between requests and without rentals, or about
the steps of a request: then the name is only sold by its trade, not by orders, to keep the
instance small, and no order is past its time, since only a limit on the price, which none of the
requests that are followed has, tells such an order from an ended one. The
request for recently listed tokens asks for more than there are: when it asks for fewer,
its parts are cut up to three times, tokens are lost, and it has no total to compare with.
*Workers:* three refreshes are one that is overtaken and one that is not; three collections
and pages of two are a page that is full and one that is not, and two changes are one to
shift the pages and one to shift them back; five tokens have ties, groups of two and both
kinds. *Activity:* a deal may be several facts of the user (a purchase and a filled order), so
three make more events than a page has and more rows of a query than its cap; two tokens let
one transaction have two sales, and a deal may share its second with the one before. `Followed`
only cuts behaviours of which the property says nothing any more.

**The slow flush is realistic.** The pool allows a statement 40 s
(`ports/db/component.ts:32`), the interval is 30 s, and the `REFRESH` also waits for a
lock that long transactions hold. So the passing run's `MaxFlushAge <= Interval` is
an assumption on the load, not a fact of the code; with `MaxFlushAge = 2` and one flush
job in `TradesView.cfg` TLC finds `NothingLost` violated. In the same way
`MaxHold < LockTTL` (`Timely`) is an assumption: nothing in `ports/transak` limits the time
of the fetch. With `MaxHold = LockTTL` in `AccessToken.cfg` TLC finds `OneAtATime` violated.

**Deadlock** is checked for `TradesView`, `Favorites` and `AccessToken`. The other runs say
`CHECK_DEADLOCK FALSE`: the requests of `AddTrade`, the events of `TradeStatus`, `Market` and
`Nfts` and the work of the workers are finite, and the system stops when all have happened.

## 5. Fairness

* `TradesView`: time passes (`WF(Tick)`); a transaction that is open goes on and ends
  (`WF` on its statements and its commit: the client driver sends the next statement or
  the connection is closed, which is a rollback); the job comes round (`WF` on the claim
  and on its following steps, from the loop of `ports/job`); and a `REFRESH` that is tried
  again and again succeeds in the end (`SF(FlushRefresh)`: it competes with failures and
  with the view's lock). No transaction has to begin, so a dirty row without further
  writes is covered.
* `AddTrade`: the handler of a submitted request goes on (`WF(Handle)`), each of its
  queries and RPC calls returning or throwing. Nothing is assumed of the ping, the Shop,
  the squid or the view.
* `AccessToken`: a request with a living process goes on (`WF(Serve)`): the retries are
  counted, and a fetch ends, by failing if in no other way. Time need not pass.
* `Job`: a timer that is set fires (`WF(Wake)`) and a run that began ends, with or without
  an error (`WF(RunEnds)`): the flush is bounded by the statement timeout of the pool.
  `start` and `stop` need not be called.
* The other modules have no liveness property and no fairness.

## 6. What is proved

All proofs are for any (finite or infinite) sets of processes and any values of the
numeric constants that the modules' `ASSUME`s allow.

* **`TradesViewProofs`.** `TypeCorrect`; `NothingIsLost`, `RefreshesAreExclusive` and
  `RefinesListings` under `MaxFlushAge <= Interval`; `RefreshesAreDebounced` without it.
  `NothingLost` is not inductive. `LockInv` adds that the row's lock serializes the
  transactions that have written and that a refresh in a transaction holds it; `AgeInv` that
  whoever has claimed the gate found it open and does not find it open again; `WriterInv`
  that what a transaction writes is in the view it has refreshed or marked dirty in the same
  transaction; `FlushInv` that a flush under way keeps the gate closed (this is what needs the
  assumption), so that it is alone, and that what its snapshot misses is marked dirty.
  `RefinesListings` takes each step to a step of `ListingsView` or a stutter.
* **`AddTradeProofs`.** `TypeCorrect`, `RivalsAreARace`, `TradesAreCreatedOnce`,
  `PingsAreRedundantToAnother`. The invariant (`SentInv`, `SeenInv`, `ViewInv`) says that a
  request past its duplicate check found no open rival among the rows it saw, and that
  those rows stay stored, that nothing is published before it is stored, and that the view
  shows facts only; closed trades stay closed, which keeps it inductive.
* **`FavoritesProofs`.** `TypeCorrect`, `PickersHavePower`, `DeletedListsLeaveNothing`,
  `ListsObeyTheirOwner`, `PowersFollowScores`. `ListsObeyTheirOwner` is an action property
  and needs the invariant that the default list is the default user's, who is no user, and
  that a request whose ownership was checked still names a list that is its user's or gone: a
  list never changes hands. `PowersFollowScores` is another: `insertVPQuery` changes one
  power, to the score it has.
* **`TradeStatusProofs`.** `TypeCorrect`, `ViewTells`, `SingleUsesAgree`. The invariant is that
  the executions are finitely many and well typed; the rest is an argument about the two
  expressions: a join that finds the trade's own index row, or none, finds one value
  (`OneRow`), and an execution is in some group of the base query, which counts it at least once.
* **`AccessTokenProofs`.** `TypeCorrect`; under `Timely`, `LockExcludes`,
  `TokensOnlyGetNewer`, `RefreshesAreNeeded`. The lock invariant: a request at work has the
  lock, until a time later than any at which it may still be at work, and no other is at work;
  the newest token is the one on its way to the cache, if there is one; and what a request
  found missing under the lock is still missing when it asks Transak.
* **`PagingProofs`.** No component's theorems, but the lemmas on orders and pages that the
  others need. The place of a row is how many rows come before it: places grow along the
  order (`PlacesGrow`), every number below the count is one (`PlacesFilled`), and
  `Sorted` and `RowsOnPage` put on a page just the rows with its places (`PageIsPlaces`).
  A part of the rows that has the first of them gives these the same places, and puts no
  other among them (`PartKeepsPlaces`), which is why limits may be pushed into a union.
* **`MarketProofs`, the feeds.** `ItemsAgreeWithCatalog`, `ShopFeedIsAsAsked`,
  `CardTellsItemPrice`, for any items, trades, prices, rates and size of a credit, and any
  number of open orders of an item. `FeedsInv` says that the view never shows less of an item
  than is left, since items only sell (`SupplyBehind`). So the query of the page and that of
  the catalog join the same trades (`SameTrades`), of which the catalog tells the dearest
  (`DearestOrder`); and the listings at first hand come before all others in the order of the
  Shop, the pegged ones first and then the cheaper, so one of them is its card
  (`SomeIsFirst`, `HeadlineAgrees`). `Ceiling` and
  `CeilingWithin` are the arithmetic of the limits in credits: comparing wei before rounding
  up is comparing the credits. `RowsAreCounted` and `TotalCountsRows`: a row that the page of
  `/v2/catalog` shows meets the conditions of the count, which joins other tables and states
  the prices apart, and in the requests that `TotalIsExact` names also the reverse.
  `OnSaleIsInRange`: a row on sale with limits on its price has an offer within them, of the
  store only where the store sells (`LimitsAreMet`), and the least price of a row is that of an
  offer (`LeastPriceIsOffered`). These rest on `PricesInv`, that prices are numbers in range.
* **`MarketProofs`, tokens and orders.** `RentedAreRented`, `RowsComeWithOrders` (an action
  property), `AnyOrderPageIsWhole` and its instance `OrderPagesAreWhole`, `PagesAreWhole`,
  `TotalsCover`. `TablesInv` says that no token has two legacy orders and no trade two rows
  of the view, and that a row of the view has the owner who signed it; `ReqInv` what a request
  holds between its queries: the assets the rentals service named for it filter its rows, and
  until a table moves, its orders are those of the tables. `PagesOf` takes of the rows of one
  turn as many as their places on the page (`PagesShare`); where every row has a turn of its
  own a page of one row is the row of that place and no other (`PagesOfOne`), for rows
  (`RowPages`) and for tokens cut before the joins (`TokenPages`), whose rows are those of the
  join of all (`RowsByToken`). The orders are finite and ranked, and a union of parts cut to
  first + skip rows gives the page of the whole (`PartsMakeThePage`). The run checks pages of
  1 or 2 orders; `AnyOrderPageIsWhole` has any.
* **`WorkersProofs`, job and rate.** `JobTypeCorrect`, `StopAnswersForTheLastRun`: the invariant
  ties the promise of the last run to the loop, pending just while it runs, and awaited only
  then. `OnlyOverlapsGoBack`: the refreshes begin in order (`InOrder`), and one that was not
  under way when a later one began had settled, with a round no later than whatever the later
  one is answered (`SettledBefore`), because the oracle's rounds only grow; the cached rate
  was read by a refresh that settled (`CachedInv`). So of two refreshes the later met the
  earlier or read nothing older.
* **`WorkersProofs`, contracts and assets.** `LoadsAreWhole`, `WalksAreWhole`, for any tables,
  page sizes and changes. Both have one argument (`WalkInv`, `ReadInv`): a walk at an offset
  has read, of what was there all the while, all whose place is below the offset unless
  something went, and nothing at or above it unless something came; what goes lowers places,
  what comes raises them, and a page reads the places from its offset on. `WalkInv` also
  balances the count with what came and went, so that the pages reach as far as the table.
* **`WorkersProofs`, activity.** `ActivityIsTold`. The events are ordered by their
  turns (time and source). Where no two rows of one query share a second, the facts of one turn
  are those of one key of `dedupeEvents`, and tell the same (`FactsKnown`, `TurnOfEvent`); so
  the deduplicated events are one of each turn (`Deduped`) and have the places of the turns
  (`DedupedPlaces`), whichever rows the queries return where they may choose (`FetchedTellsAll`).
  `ActivityInv` is then the argument of the walks: `NothingMissed` and `NothingAgain`.

**Only model-checked:** liveness (`CatchesUp`, both `EachAnswered`, `JobEnds`), which the
prover cannot reach, and that the four runs of section 7 find what they find. Every invariant
and every action property of a passing run is proved.

## 7. What disagrees with its documentation

Four runs find behaviour that a comment or a document of the repository says cannot be.
`findings` in `PROJECT.json` quotes the line for each of these, and for those found by
properties that are stated in the modules ("Not so") but belong to no run:

| what | stated as | run |
|---|---|---|
| the duplicate check of orders is case-sensitive | `OneOpenOrder` (`AddTrade`) | `add_trade_orders` |
| a category drops first-hand trades from `/v1/items` and `/v3/catalog/items` | `CategoryKeepsPrice` (`Feeds`) | `items_category` |
| `isOnRent` with nothing for rent gives all land | `OnlyForRent` (`Nfts`) | `nfts_on_rent` |
| recently listed tokens come from trades of any status | `OnlyOnSale` (`Nfts`) | `nfts_recently_listed` |
| of several open orders of an item the catalog tells the dearest | `CatalogTellsLeast` (`Feeds`) | - |
| the flush's lease is no lock: a slow flush overwrites a newer view | `NothingLost`, with `MaxFlushAge > Interval` | - |
| a flush that dies takes the dirty mark with it | `CatchesUp` under `FairSpecWithDeaths` (`TradesView`) | - |
| the staleness of the view can cost a ping, not only double one | `NoPingMissed` (`AddTrade`) | - |
| edit grants do not allow picking in bulk when the list has other grants | `EditorsMayPickInBulk` (`Favorites`) | - |
| a failure of Snapshot that is answered in JSON resets a power | `FailuresKeepPower` (`Favorites`) | - |
| two marketplaces with different indices make two rows of a trade | `OneRowPerTrade` (`TradeStatus`) | - |
| `isOnSale=false`: page and total of `/v2/catalog` disagree | `NotOnSaleTotal` (`Feeds`) | - |
| `isOnSale=false`, newest first: skip is applied twice | `NewestPages` (`Feeds`) | - |
| an order that is executed is told to nobody as `order_filled` | `FilledOrdersTold` (`Activity`) | - |
| the merged list of contracts is not sorted | - | - |

Smaller things met on the way, which no document contradicts:

* PostgreSQL refuses some requests: `minPrice` and `maxPrice` on `/v1/items`, where a cast
  stands outside the parentheses of an `AND` (`items/queries.ts:91-96`; not modelled); on
  `/v1/catalog` `sortBy=newest`, whose `offchain_orders` only `/v2/catalog` joins (sorting is
  not modelled); on `/v2/catalog` `onlyMinting` with `onlyListing` or `isOnSale=false`
  (`Refused` in `Catalog`).
* The total of orders counts legacy orders whose owner no longer has the token, and those of
  other tokens than the one asked for; the page leaves both out (`OrdersTotal` in `Orders`).
* Recently listed tokens are cut up to three times and have no total; several sales of one
  transaction are one event of the activity, and so are two bids on a token in one second.
* Where only the marketplace contract may mint an item, the least price on its card may be that
  of the store, which does not sell it (`catalog/queries.ts:519-550`; `LeastPriceIsPaid` in
  `Feeds`, not among the runs).
* The identifier and the price of the trade that the catalog tells of an item are two separate
  maxima (`catalog/queries.ts:683-684`), so they may be of two trades.
* A name with an order whose time has passed is found by the price of that order, beside a trade
  outside the limits; the count asks orders for their time and trades for the limits, so the
  name is on the page and not in the total (`EveryNameIsCounted` in `Nfts`, not among the runs).
* A trade whose time has passed is shown on sale until the view is refreshed, and without its
  order, which the query for orders leaves out at once (`nfts/queries.ts:340`,
  `orders/queries.ts:124`); `OrderGoesWithRow` excepts it.
* Land sorted by `cheapest` or `recently_listed` is sorted, in the part that chooses the page,
  by columns that part does not have (`nfts/landQueries.ts:15-18`, `:349`): not modelled.
* A URL that asks for the rentals of many tokens has a limit of 24 listings; the banned names
  are fetched for requests for names, whose query does not look at them; a page of user assets
  with a limit of 0 counts its pages as if the limit were 1 (none of these is modelled).

## 8. What is not modelled, and why

* Rankings, trendings, volume, stats, prices, analytics, owners, accounts, collections, ENS:
  one statement each over one table or a sum by day, and the formatting of its rows. They
  have no state, no order of steps, and no second query they would have to agree with.
* `logic/contracts.ts` (a table of addresses), `ports/wert` (a signature), server assembly.
* Filters on what an item or a token is like (rarity, wearable category, network, size of an
  estate): each narrows the rows by a column no other clause reads, as a filter by ids does.
* Sorting, where ties do not matter, and the JSON of an answer.
* Signatures (trades, Wert), estate fingerprints and ownership by RPC: pure checks of
  external data. Their refusal is modelled, their content is not.
* The squid's own writes, except as transactions that fire the triggers (`TradesView`), as
  the closing of trades (`AddTrade`) and as the events of `Market`, `Nfts` and `Activity`.
* PostgreSQL itself: read committed isolation, row and relation locks, triggers and
  foreign keys are modelled as the code relies on them. Each query is one atomic step over
  the tables of one moment; the queries of one answer are separate steps only where the code
  makes them one after the other. The seven of the activity are made at once, as one step.
* Pools and timeouts of the database: a statement that exceeds its time fails, which is a
  `Rollback`, `FlushFails`, `Reject`, `Fail` or a failed query of the activity.
* `expires_at`: a trade that expires changes no row, so nothing refreshes the view. The
  hazard is listed; `TradeStatus` is about a view that was just refreshed, in `Market` an
  expired trade is one that ended, and in `Nfts` and `Activity` it is also one that the view
  still has (`expired`, `shown`).
* Hazards known and without a model: bulk picks of the same lists in different orders may
  deadlock on the rows of the lists, which a trigger updates (PostgreSQL ends one of them); a
  `ROLLBACK` that fails hides the error it was for (`ports/db/component.ts:58`); an update of a
  list that says nothing of `private` makes it public (`favorites/lists/component.ts:183`).
