------------------------------ MODULE AddTrade ------------------------------
(***************************************************************************)
(* POST /v1/trades: addTrade of src/src/ports/trades/component.ts, several *)
(* requests at a time, with the Shop ping it leaves running.               *)
(*                                                                         *)
(* Between its queries and RPC calls a request yields; nothing locks the   *)
(* asset it lists.  The ping decides on marketplace.mv_trades, which lags  *)
(* behind the tables as ListingsView allows (TradesView implements it).    *)
(***************************************************************************)
EXTENDS Naturals, FiniteSets

CONSTANTS
    Requests,   \* POSTs, retries included
    Trades,     \* the signed trades clients send; a trade is its signature
    NoTrade,    \* a request that was not sent yet
    NoItem      \* the item of an asset that was not minted from one

TradeTypes == {"bid", "public_nft_order", "public_item_order"}

\* address: how the body spells the asset's contract, "lower" case or
\* "checksum" (mixed case); the tables keep lower case.
ASSUME TradesAssumption ==
    /\ NoTrade \notin Trades
    /\ \A t \in Trades : /\ t.type \in TradeTypes
                         /\ t.address \in {"lower", "checksum"}
                         /\ {"id", "asset", "item", "signer"} \subseteq DOMAIN t

VARIABLES
    trade,      \* the body of each request
    pc,         \* how far each addTrade is
    ping,       \* how far each notifyShopIfItemGoesOnSale is
    stored,     \* rows of marketplace.trades, with their assets
    closed,     \* trades cancelled, sold or expired
    view,       \* the facts about trades that mv_trades was computed from
    published,  \* requests whose creation event was published
    seen,       \* history: rows stored when each request looked for duplicates
    wasOnSale   \* history: requests that listed an item already on sale

requestVars == <<trade, pc, ping, published, seen, wasOnSale>>
vars == <<requestVars, stored, closed, view>>

Facts == {"stored", "closed"} \X Trades
facts == ({"stored"} \X stored) \cup ({"closed"} \X closed)

Listings == INSTANCE ListingsView WITH Statements <- Facts, committed <- facts

Answered == {"created", "rejected", "lost"}

TypeOK ==
    /\ trade \in [Requests -> Trades \cup {NoTrade}]
    /\ pc \in [Requests -> {"idle", "submitted", "unique", "verified", "stored",
                            "notified"} \cup Answered]
    /\ ping \in [Requests -> {"none", "resolving", "checking", "sending", "sent",
                              "skipped", "redundant", "failed"}]
    /\ stored \subseteq Trades /\ closed \subseteq Trades
    /\ view \subseteq Facts
    /\ published \subseteq Requests
    /\ seen \in [Requests -> SUBSET Trades]
    /\ wasOnSale \subseteq Requests

Init ==
    /\ trade = [r \in Requests |-> NoTrade]
    /\ pc = [r \in Requests |-> "idle"]
    /\ ping = [r \in Requests |-> "none"]
    /\ stored = {} /\ closed = {} /\ view = {}
    /\ published = {}
    /\ seen = [r \in Requests |-> {}]
    /\ wasOnSale = {}

-----------------------------------------------------------------------------
Open == stored \ closed
IsListing(t) == t.type \in {"public_nft_order", "public_item_order"}

\* Two trades that the marketplace would not have open together.
Rivals(t, u) ==
    /\ t # u
    /\ t.type = u.type /\ t.asset = u.asset
    /\ t.type = "bid" => t.signer = u.signer

\* getBidsQuery lowers the address of the body; getOpenNFTOrderQuery and
\* getOpenItemOrderQuery compare it as it came.
ComparesAddress(t) == t.type = "bid" \/ t.address = "lower"

FindsNothing(t) == FALSE

\* The queries of validateTradeByType.
FindsDuplicate(t) ==
    /\ ComparesAddress(t)
    /\ \E u \in Open : Rivals(t, u)

\* What mv_trades shows: listings only, open when it was last refreshed.
ShownOpen == {t \in Trades : /\ IsListing(t)
                             /\ <<"stored", t>> \in view
                             /\ <<"closed", t>> \notin view}

OnSale(item, others) == \E u \in others : IsListing(u) /\ u.item = item

Goes(r, from, to) == pc[r] = from /\ pc' = [pc EXCEPT ![r] = to]
Pings(r, from, to) == ping[r] = from /\ ping' = [ping EXCEPT ![r] = to]

\* The checks on dates and on the signer's address pass.
Submit(r, t) ==
    /\ Goes(r, "idle", "submitted")
    /\ trade' = [trade EXCEPT ![r] = t]
    /\ UNCHANGED <<ping, stored, closed, view, published, seen, wasOnSale>>

\* validateTradeByType: 409 when the trade has an open rival.
CheckDuplicate(r) ==
    /\ Goes(r, "submitted", IF FindsDuplicate(trade[r]) THEN "rejected" ELSE "unique")
    /\ seen' = [seen EXCEPT ![r] = stored]
    /\ UNCHANGED <<trade, ping, stored, closed, view, published, wasOnSale>>

\* Estate fingerprint, signature and, by RPC, ownership.
Verify(r) ==
    /\ Goes(r, "unique", "verified")
    /\ UNCHANGED <<trade, ping, stored, closed, view, published, seen, wasOnSale>>

\* A validation fails, a query, an RPC or the transaction throws: nothing stays.
Reject(r) ==
    /\ \E stage \in {"submitted", "unique", "verified"} : Goes(r, stage, "rejected")
    /\ UNCHANGED <<trade, ping, stored, closed, view, published, seen, wasOnSale>>

StoreAnyway(r) ==
    /\ Goes(r, "verified", "stored")
    /\ stored' = stored \cup {trade[r]}
    /\ UNCHANGED <<trade, ping, closed, published, seen>>
    /\ view' \in {view, facts'}
    /\ wasOnSale' = IF OnSale(trade[r].item, Open \ {trade[r]})
                    THEN wasOnSale \cup {r} ELSE wasOnSale

\* withTransaction inserts the trade and its assets, or the unique signature
\* makes it fail.  A trigger may refresh the view in the same transaction.
Store(r) ==
    /\ trade[r] \notin stored
    /\ StoreAnyway(r)

SignatureTaken(r) ==
    /\ trade[r] \in stored
    /\ Goes(r, "verified", "rejected")
    /\ UNCHANGED <<trade, ping, stored, closed, view, published, seen, wasOnSale>>

NotifyOfTrade(r) ==
    /\ Goes(r, "stored", "notified")
    /\ published' = published \cup {trade[r]}
    /\ UNCHANGED <<trade, ping, stored, closed, view, seen, wasOnSale>>

\* The awaited creation event, which only bids have; a failure is logged.
Notify(r) ==
    /\ Goes(r, "stored", "notified")
    /\ published' \in {published} \cup
           (IF trade[r].type = "bid" THEN {published \cup {r}} ELSE {})
    /\ UNCHANGED <<trade, ping, stored, closed, view, seen, wasOnSale>>

AwaitPing(r) ==
    /\ pc[r] = "notified"
    /\ \/ /\ IsListing(trade[r]) /\ Pings(r, "none", "resolving")
          /\ UNCHANGED pc
       \/ /\ ping[r] \in {"sent", "skipped", "redundant", "failed"} \/ ~IsListing(trade[r])
          /\ pc' = [pc EXCEPT ![r] = "created"]
          /\ UNCHANGED ping
    /\ UNCHANGED <<trade, stored, closed, view, published, seen, wasOnSale>>

\* addTrade starts the ping, does not await it, and returns: 201.
Respond(r) ==
    /\ Goes(r, "notified", "created")
    /\ ping' = [ping EXCEPT ![r] =
                   IF IsListing(trade[r]) THEN "resolving" ELSE "skipped"]
    /\ UNCHANGED <<trade, stored, closed, view, published, seen, wasOnSale>>

-----------------------------------------------------------------------------
(* notifyShopIfItemGoesOnSale                                              *)

ResolveItem(r) ==
    /\ Pings(r, "resolving", IF trade[r].item = NoItem THEN "skipped" ELSE "checking")
    /\ UNCHANGED <<trade, pc, stored, closed, view, published, seen, wasOnSale>>

\* getOtherOpenListingForItemQuery without its last condition, id <> excludeTradeId.
CheckAnyOpen(r) ==
    /\ Pings(r, "checking", IF OnSale(trade[r].item, ShownOpen)
                            THEN "redundant" ELSE "sending")
    /\ UNCHANGED <<trade, pc, stored, closed, view, published, seen, wasOnSale>>

\* getOtherOpenListingForItemQuery: no ping when another listing of the item
\* is open in the view.
CheckOtherOpen(r) ==
    /\ Pings(r, "checking", IF OnSale(trade[r].item, ShownOpen \ {trade[r]})
                            THEN "redundant" ELSE "sending")
    /\ UNCHANGED <<trade, pc, stored, closed, view, published, seen, wasOnSale>>

SendPing(r) ==
    /\ Pings(r, "sending", "sent")
    /\ UNCHANGED <<trade, pc, stored, closed, view, published, seen, wasOnSale>>

\* A query throws, or the Shop does not answer in NOTIFY_TIMEOUT_MS: logged.
PingFails(r) ==
    /\ \E stage \in {"resolving", "checking", "sending"} : Pings(r, stage, "failed")
    /\ UNCHANGED <<trade, pc, stored, closed, view, published, seen, wasOnSale>>

-----------------------------------------------------------------------------
(* The environment.                                                        *)

\* The squid indexes a cancellation or a sale, or the trade expires.
Close(t) ==
    /\ t \in stored \ closed
    /\ closed' = closed \cup {t}
    /\ UNCHANGED <<requestVars, stored>>
    /\ view' \in {view, facts'}

RefreshView ==
    /\ view' = facts
    /\ UNCHANGED <<requestVars, stored, closed>>
    /\ Listings!Refresh

\* The process dies under a request: its transaction is undone, its client
\* gets no answer, its ping is forgotten.
Die(r) ==
    /\ \/ pc[r] \notin {"idle"} \cup Answered /\ Goes(r, pc[r], "lost")
          /\ UNCHANGED ping
       \/ ping[r] \in {"resolving", "checking", "sending"} /\ Pings(r, ping[r], "failed")
          /\ UNCHANGED pc
    /\ UNCHANGED <<trade, stored, closed, view, published, seen, wasOnSale>>

Handle(r) ==
    \/ CheckDuplicate(r) \/ Verify(r) \/ Reject(r) \/ Store(r) \/ SignatureTaken(r)
    \/ Notify(r) \/ Respond(r)

PingShop(r) == ResolveItem(r) \/ CheckOtherOpen(r) \/ SendPing(r) \/ PingFails(r)

Next ==
    \/ \E r \in Requests, t \in Trades : Submit(r, t)
    \/ \E r \in Requests : Handle(r) \/ PingShop(r) \/ Die(r)
    \/ \E t \in Trades : Close(t)
    \/ RefreshView

Spec == Init /\ [][Next]_vars

\* Requests are handled; nothing is assumed of pings or of the Shop.
FairSpec == Spec /\ \A r \in Requests : WF_vars(Handle(r))

-----------------------------------------------------------------------------
(* Properties.                                                             *)

\* The requests whose transaction committed and that still have their process.
Created == {r \in Requests : pc[r] \in {"stored", "notified", "created"}}

\* The duplicate check works up to its race: when two rivals are open, neither
\* was stored before the other request looked.  Orders are excepted when the
\* body spells the address with capitals (OneOpenOrder).
RivalsOnlyByRace ==
    \A r, s \in Created :
        /\ Rivals(trade[r], trade[s])
        /\ trade[r] \in Open /\ trade[s] \in Open
        /\ ComparesAddress(trade[r])
        => trade[s] \notin seen[r]

\* However often a client retries, whether its first answer was lost or two
\* retries run at once, one request creates the trade and one event tells of it.
CreatedOnce ==
    /\ \A r, s \in Created \cup published : trade[r] = trade[s] => r = s
    /\ \A r \in Created \cup published : trade[r] \in stored

\* A listing never suppresses its own ping: a ping is only judged redundant for
\* another listing of the item, one that did commit.
RedundantToAnother ==
    \A r \in Requests : ping[r] = "redundant" =>
        OnSale(trade[r].item, stored \ {trade[r]})

\* A request is answered whatever the ping and the Shop do (the comment before
\* the call in addTrade), unless its process dies.
EachAnswered == \A r \in Requests : pc[r] = "submitted" ~> pc[r] \in Answered

\* What the message of DuplicateNFTOrderError says: there is one open order.
\* It is stated for orders that were stored before the second request looked.
OneOpenOrder ==
    \A r, s \in Created :
        /\ Rivals(trade[r], trade[s]) /\ IsListing(trade[r])
        /\ trade[r] \in Open /\ trade[s] \in Open
        => trade[s] \notin seen[r]

\* What the comment of getOtherOpenListingForItemQuery says: what the view lags
\* costs a duplicate ping at worst.  So when a request puts an item on sale, not
\* every listing of the item leaves the ping out.
NoPingMissed ==
    \A r \in Requests : ping[r] = "redundant" =>
        \/ r \in wasOnSale
        \/ \E s \in Requests : /\ trade[s] \in Trades /\ IsListing(trade[s])
                              /\ trade[s].item = trade[r].item
                              /\ ping[s] # "redundant"
=============================================================================
