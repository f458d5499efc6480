----------------------------- MODULE MCAddTrade -----------------------------
EXTENDS AddTrade

CONSTANTS seller, buyer, token, item

Trade(id, type, asset, by, address) ==
    [id |-> id, type |-> type, asset |-> asset, item |-> item, signer |-> by,
     address |-> address]

\* Two orders for a token, two bids on it by one buyer, and an order for the
\* item it was minted from.
MCTrades ==
    {Trade(1, "public_nft_order", token, seller, "lower"),
     Trade(2, "public_nft_order", token, seller, "checksum"),
     Trade(3, "bid", token, buyer, "lower"),
     Trade(4, "bid", token, buyer, "checksum"),
     Trade(5, "public_item_order", item, seller, "lower")}

\* Fewer trades, for the runs that look for one behaviour.
MCOrders == {t \in MCTrades : t.type = "public_nft_order"}
MCListings == {t \in MCTrades : t.address = "lower" /\ t.type # "bid"}
=============================================================================
