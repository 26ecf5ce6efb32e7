--------------------------- MODULE MCEventDelivery --------------------------
(* Small instances of EventDelivery: an order that opens a position in one  *)
(* asset and one that closes it.                                            *)
EXTENDS EventDelivery

MCAssets == { "BTC" }
MCCloids == { "open", "close" }
MCAssetOf == [ c \in MCCloids |-> "BTC" ]
MCDeltaOf == [ c \in MCCloids |-> IF c = "open" THEN 1 ELSE -1 ]
=============================================================================
