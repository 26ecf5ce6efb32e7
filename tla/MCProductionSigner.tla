------------------------- MODULE MCProductionSigner -------------------------
(* Two small instances of ProductionSigner in one run.  "orders": two orders *)
(* on one asset, the second reduce-only, and an intent that reuses the CLOID *)
(* of the first, with one crash.  "failures": one order, with two crashes, a *)
(* failing write and a longer clock.                                         *)
EXTENDS ProductionSigner

CONSTANT Scenarios      \* the instances to run
VARIABLE scenario       \* the instance that runs

MCIntents == { "grow", "shrink", "forged", "single" }
MCCloidOf == [ i \in MCIntents |-> CASE i = "shrink" -> "c2" [] i = "single" -> "c3" [] OTHER -> "c1" ]
MCAssetOf == [ i \in MCIntents |-> IF i = "forged" THEN "ETH" ELSE "BTC" ]
MCReduceOnly == { "shrink" }
MCExpiresAt == [ i \in MCIntents |-> IF i = "grow" THEN 1 ELSE 3 ]

\* The bounds of the instance that runs: the orders it may enter, and what
\* may fail.
Unused == IF scenario = "orders" THEN { "c3" } ELSE { "c1", "c2" }
WithinScenario ==
  /\ \A c \in Unused : Kind(reg, c) = "absent" /\ Kind(disk, c) = "absent"
  /\ scenario = "orders" =>
       /\ crashes <= 1 /\ ioFailures = 0 /\ now <= 3
       /\ \A c \in Cloids : orders[c].filled \in { 0, Lot }

ScenarioInit == Init /\ scenario \in Scenarios
ScenarioNext == Next /\ UNCHANGED scenario /\ WithinScenario'
ScenarioSpec == ScenarioInit /\ [][ScenarioNext]_<<vars, scenario>>
=============================================================================
