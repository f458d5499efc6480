------------------------------ MODULE MCMarket ------------------------------
(***************************************************************************)
(* The feeds of items for TLC: an item with a token, legacy orders and     *)
(* trades of both, some priced in MANA and some in pegged USD.             *)
(***************************************************************************)
EXTENDS Feeds

CONSTANTS i1, k1, k2, u1, u2

MCItemOf == [k \in Tokens |-> {i1}]
MCItemPrice == [i \in Items |-> 2]
MCCategoryOf == [x \in Items \cup Tokens |-> "wearable"]
MCWords == [i \in Items |-> [name |-> {"hat"}, tags |-> {"red"}, utility |-> {"game"}]]
MCTrades ==
  {[type |-> "public_item_order", sent |-> i1, signer |-> u1, price |-> 1, pegged |-> FALSE],
   [type |-> "public_item_order", sent |-> i1, signer |-> u1, price |-> 3, pegged |-> TRUE],
   [type |-> "public_nft_order", sent |-> k1, signer |-> u1, price |-> 1, pegged |-> TRUE],
   [type |-> "public_nft_order", sent |-> k1, signer |-> u2, price |-> 3, pegged |-> FALSE]}

MCFilters ==
  {f \in [v2 : BOOLEAN, isOnSale : {EitherSale, OnSale, NotOnSale}, onlyMinting : BOOLEAN,
          onlyListing : BOOLEAN, soldOut : {FALSE}, min : {0, 2}, max : {0, 2},
          ids : {{}}, search : {{}, {"game"}, {"red"}, {"none"}}] :
     ~Refused(f) /\ (f.search # {} => f.min = 0 /\ f.max = 0 /\ ~f.onlyListing)}
MCAsks ==
  [min : {{}, {1}, {2}}, max : {{}, {1}, {2}}, source : {{}, {"native"}, {"legacy"}}]
=============================================================================
