------------------------------- MODULE MCNfts -------------------------------
(***************************************************************************)
(* /v1/nfts for TLC: two parcels and a name, two users, requests of each   *)
(* of the four queries with and without what sets their results apart.     *)
(* Pages and totals are looked at between requests and without rentals;    *)
(* the steps of a request without orders of the name, and without orders   *)
(* past their time, which only a limit on the price (none of those served) *)
(* tells from ended ones.  One parcel stays with its owner and is only     *)
(* ever offered for rent, to keep the instances small.                     *)
(***************************************************************************)
EXTENDS Nfts

CONSTANTS land, plot, name, u1, u2

MCItemOf == [k \in Tokens |-> {}]
MCItemPrice == [i \in Items |-> 1]
MCCategory == [k \in Tokens |-> IF k = name THEN "ens" ELSE "parcel"]
MCAge == (plot :> 1) @@ (land :> 2) @@ (name :> 3)
Sells(k, u, p) == [type |-> "public_nft_order", sent |-> k, signer |-> u, price |-> p, pegged |-> FALSE]
MCTrades == {Sells(land, u1, 2), Sells(name, u2, 3)}
Asks(c, onSale, onRent, sort, of, min) ==
  [category |-> c, onSale |-> onSale, onRent |-> onRent, sort |-> sort, owner |-> of,
   min |-> min, max |-> 0, first |-> IF sort = "recent" THEN 6 ELSE 2, skip |-> 0]
MCRequests ==
  {Asks({}, {TRUE}, FALSE, "newest", {}, 0), Asks({}, {TRUE}, FALSE, "newest", {u1}, 0),
   Asks({}, {TRUE}, FALSE, "none", {}, 0), Asks({}, {FALSE}, FALSE, "newest", {}, 0),
   Asks({}, {}, FALSE, "recent", {}, 2), Asks({}, {TRUE}, FALSE, "recent", {}, 0),
   Asks({"parcel"}, {TRUE}, FALSE, "none", {}, 2), Asks({"parcel"}, {}, TRUE, "none", {}, 0),
   Asks({"parcel"}, {}, FALSE, "none", {u2}, 0),
   Asks({"ens"}, {TRUE}, FALSE, "newest", {}, 2), Asks({"ens"}, {}, FALSE, "none", {u1}, 0)}
MCServed ==
  {Asks({}, {TRUE}, FALSE, "newest", {}, 0),
   Asks({"parcel"}, {}, TRUE, "none", {}, 0), Asks({"parcel"}, {}, FALSE, "none", {u2}, 0)}

\* Each part is followed on its own: the first state says which.
VARIABLE part
mcvars == <<nvars, part>>

MCInit == NInit /\ owner[plot] = u2 /\ part \in {"pages", "steps"}
Calm == owner'[plot] = owner[plot] /\ orders'[plot] = orders[plot]
MCNext ==
  /\ NNext /\ Calm /\ UNCHANGED part
  /\ part = "pages" => req' = Idle /\ UNCHANGED listed
  /\ part = "steps" => orders'[name] = orders[name] /\ UNCHANGED lapsed
MCSpec == MCInit /\ [][MCNext]_mcvars
=============================================================================
