------------------------------- MODULE SourceGate -------------------------------
(* How the votes of the sources become the source sleeve of a target, for one *)
(* asset (construct_next_decision, live_shadow.rs): votes of high density     *)
(* wallets count only in the direction of the technical target; a sleeve may  *)
(* shrink at any time, but grows only when the signals of its direction that  *)
(* ended so far have, on their moving average, returned a multiple of what a  *)
(* round trip costs.  The averages survive a restart with the ledger.         *)
(*                                                                            *)
(* An exposure is in units, UnitExposure of them are the whole sleeve.  A     *)
(* notional is Gross times an exposure; a return is ReturnScale times its     *)
(* fraction, so that the prices and MaxSignals averages by a quarter divide   *)
(* it.  An order fills whole, or is superseded; how a fill in part is divided *)
(* is in DualLedger.                                                          *)
EXTENDS Integers

CONSTANTS
  UnitExposure,       \* an exposure of one
  Votes,              \* exposures that sources may agree on
  Gross,              \* available_gross, a multiple of ten
  SourceTenths,       \* source_budget_fraction, of ten
  TechnicalTenths,    \* technical_budget_fraction, of ten
  MarkPrices,         \* what the asset may cost
  ReturnScale,        \* a return of one
  RoundTripCost,      \* fees and slippage of an entry and an exit
  HourlyFunding,      \* funding of a unit of time
  CostMultiple,       \* minimum_cost_multiple
  MaxTicks,           \* bound on the instants of decisions
  MaxGateRestarts     \* bound on the restarts

ASSUME GateAssumption ==
  /\ {UnitExposure, Gross, ReturnScale, RoundTripCost, CostMultiple} \subseteq Nat \ {0}
  /\ {SourceTenths, TechnicalTenths, HourlyFunding, MaxTicks, MaxGateRestarts} \subseteq Nat
  /\ Votes \subseteq Int /\ MarkPrices \subseteq Nat \ {0}

VARIABLES
  quote,               \* the asset's price
  expectancy,         \* source_expectancy of the asset
  watermark,          \* source_expectancy_time_high_watermark
  timeOffset,         \* source_expectancy_time_offset
  holding,            \* quantity of each sleeve in the ledger
  aims,               \* quantity that each sleeve is to have, of the last decision
  sleeve,             \* the source target of the last decision, a notional
  earned,             \* history: directions with a signal that paid for itself
  snapshotOfGate,     \* the unsigned snapshot: what a restart restores
  ticks, gateRestarts

gateVars == <<quote, expectancy, watermark, timeOffset, holding, aims, sleeve, earned,
              snapshotOfGate, ticks, gateRestarts>>

Sleeves == {"source", "technical"}
Directions == {"long", "short"}

SignOf(x) == IF x > 0 THEN 1 ELSE IF x < 0 THEN -1 ELSE 0
SizeOf(x) == IF x < 0 THEN -x ELSE x
ClampTo(x, limit) == IF x > limit THEN limit ELSE IF x < -limit THEN -limit ELSE x
DirectionOf(x) == CASE x > 0 -> "long" [] x < 0 -> "short" [] OTHER -> "none"

NoEstimate == [count |-> 0, return |-> 0, lifetime |-> 0]
NoSignal == [direction |-> "none"]
NoExpectancy == [long |-> NoEstimate, short |-> NoEstimate, active |-> NoSignal]
Nowhere == [s \in Sleeves |-> 0]

Kept == [expectancy |-> expectancy, watermark |-> watermark, holding |-> holding,
         earned |-> earned, quote |-> quote]

GateInit ==
  /\ quote \in MarkPrices
  /\ expectancy = NoExpectancy /\ watermark = 0 /\ timeOffset = 0
  /\ holding = Nowhere /\ aims = Nowhere /\ sleeve = 0 /\ earned = {}
  /\ snapshotOfGate = Kept
  /\ ticks = 0 /\ gateRestarts = 0

GateTypeOK ==
  /\ quote \in MarkPrices
  /\ expectancy.active.direction \in Directions \cup {"none"}
  /\ holding \in [Sleeves -> Int] /\ aims \in [Sleeves -> Int]
  /\ earned \subseteq Directions

-----------------------------------------------------------------------------
\* technical_gated_source_exposure
Admitted(highDensity, score) ==
  IF SignOf(highDensity) = SignOf(score) THEN highDensity ELSE 0

\* The vote of the sources: the regular ones, and the gated ones that the
\* technical engine admits.
CombinedSource(regular, highDensity, score) ==
  ClampTo(ClampTo(regular, UnitExposure) + Admitted(ClampTo(highDensity, UnitExposure), score),
          UnitExposure)

\* The notional of an exposure within a budget.
NotionalOf(exposure, tenths) == (Gross * tenths * exposure) \div (10 * UnitExposure)

SourceCapacity == (Gross * SourceTenths) \div 10

\* The return of a signal that ends at a price.
GrossReturn(signal, price) ==
  LET rise == (ReturnScale * (price - signal.entry)) \div signal.entry
  IN  IF signal.direction = "long" THEN rise ELSE -rise

\* update_source_expectancy: a quarter of what was observed.
Averaged(estimate, return, lifetime) ==
  [count |-> estimate.count + 1,
   return |-> ((3 * estimate.return) + return) \div 4,
   lifetime |-> ((3 * estimate.lifetime) + (ReturnScale * lifetime)) \div 4]

\* observe_source_signal: a signal ends when the direction of the desired
\* target changes or is none, and one begins when there is none.
Observed(state, desired, price, at) ==
  LET signal == state.active
      direction == DirectionOf(desired)
      ends == signal # NoSignal /\ direction # signal.direction
      closed == IF ends
                THEN [state EXCEPT ![signal.direction] =
                        Averaged(@, GrossReturn(signal, price), at - signal.since),
                        !.active = NoSignal]
                ELSE state
  IN  IF direction = "none" \/ closed.active # NoSignal THEN closed
      ELSE [closed EXCEPT !.active = [direction |-> direction, entry |-> price, since |-> at]]

\* source_target_adds_risk
AddsRisk(current, desired) ==
  /\ desired # 0
  /\ SignOf(current) # SignOf(desired) \/ SizeOf(desired) > SizeOf(current)

\* expected_move_covers_round_trip_cost, funding for the expected lifetime
\* included.
CoversCost(estimate) ==
  estimate.return >= CostMultiple * (RoundTripCost + HourlyFunding * (estimate.lifetime \div ReturnScale))

\* Fault: what is held already need not cover its cost again.
GatedWhenFlat(current, desired, estimates) ==
  IF /\ current = 0 /\ AddsRisk(current, desired)
     /\ ~CoversCost(estimates[DirectionOf(desired)])
  THEN 0 ELSE desired

Retained(current, desired, estimates) ==
  AddsRisk(current, desired) /\ ~CoversCost(estimates[DirectionOf(desired)])

\* The cost gate: the desired target, or what is held, within the sleeve.
Gated(current, desired, estimates) ==
  IF Retained(current, desired, estimates) THEN ClampTo(current, SourceCapacity) ELSE desired

\* What each sleeve contributed, by which the order is divided: a share of the
\* budget; but a source sleeve that the gate has retained counts as the
\* notional that it holds.  Both times ten.
ContributionsOf(combined, score, retained, current) ==
  [s \in Sleeves |->
     CASE s = "technical" -> (TechnicalTenths * score) \div UnitExposure
       [] s = "source" -> IF retained THEN 10 * current
                          ELSE (SourceTenths * combined) \div UnitExposure]

\* absolute_directional_component_targets, of a quantity.
DividedBetween(quantity, weights) ==
  LET weight == [s \in Sleeves |-> IF SignOf(weights[s]) = SignOf(quantity) THEN SizeOf(weights[s]) ELSE 0]
      total == weight["source"] + weight["technical"]
      share == IF total = 0 THEN 0 ELSE (SizeOf(quantity) * weight["source"]) \div total
  IN  IF total = 0 THEN Nowhere
      ELSE [s \in Sleeves |->
              SignOf(quantity) * IF s = "source" THEN share ELSE SizeOf(quantity) - share]

WatermarkAt(at) == IF at > watermark THEN at ELSE watermark

-----------------------------------------------------------------------------
\* A signal ends that has paid for its round trips.
Pays(signal, desired, price) ==
  /\ signal # NoSignal /\ DirectionOf(desired) # signal.direction
  /\ GrossReturn(signal, price) >= CostMultiple * RoundTripCost

DecideGate(price, combined, score, desired, current) ==
  /\ expectancy' = Observed(expectancy, desired, price, timeOffset + ticks + 1)
  /\ quote' = price
  /\ sleeve' = Gated(current, desired, expectancy')
  /\ aims' = DividedBetween((sleeve' + NotionalOf(score, TechnicalTenths)) \div price,
                            ContributionsOf(combined, score,
                                            Retained(current, desired, expectancy'), current))
  /\ earned' = earned \cup {d \in Directions : expectancy.active.direction = d
                                              /\ Pays(expectancy.active, desired, price)}

\* A decision at some price, with the votes and the technical score of its
\* tick; the clock of a process starts again with it.
GateDecision ==
  /\ timeOffset + ticks < MaxTicks
  /\ \E price \in MarkPrices, score \in Votes :
       \E combined \in {CombinedSource(regular, highDensity, score) :
                          regular \in Votes, highDensity \in Votes} :
         DecideGate(price, combined, score, NotionalOf(combined, SourceTenths),
                    holding["source"] * price)
  /\ ticks' = ticks + 1
  /\ watermark' = WatermarkAt(timeOffset + ticks + 1)
  /\ UNCHANGED <<timeOffset, holding, snapshotOfGate, gateRestarts>>

\* The order of the last decision fills.
GateFill ==
  /\ holding # aims
  /\ holding' = aims
  /\ UNCHANGED <<quote, expectancy, watermark, timeOffset, aims, sleeve, earned,
                 snapshotOfGate, ticks, gateRestarts>>

GatePersist ==
  /\ snapshotOfGate' = Kept
  /\ UNCHANGED <<quote, expectancy, watermark, timeOffset, holding, aims, sleeve, earned,
                 ticks, gateRestarts>>

\* restore_unsigned_state: the clock of the new process starts at zero, behind
\* everything the old one has observed; pending orders are gone.
GateRestart ==
  /\ gateRestarts < MaxGateRestarts
  /\ gateRestarts' = gateRestarts + 1
  /\ expectancy' = snapshotOfGate.expectancy /\ watermark' = snapshotOfGate.watermark
  /\ timeOffset' = snapshotOfGate.watermark + 1
  /\ holding' = snapshotOfGate.holding /\ aims' = snapshotOfGate.holding
  /\ earned' = snapshotOfGate.earned /\ quote' = snapshotOfGate.quote
  /\ sleeve' = 0 /\ ticks' = 0
  /\ UNCHANGED snapshotOfGate

GateNext == GateDecision \/ GateFill \/ GatePersist \/ GateRestart
GateSpec == GateInit /\ [][GateNext]_gateVars

-----------------------------------------------------------------------------
\* A decision asks for more of a source sleeve, or for the other side, only
\* when some signal of that very direction has ended with a return that pays
\* for CostMultiple round trips, in this process or before the restart
\* ("A risk increase, including a direction reversal, must first show ...",
\* live_shadow.rs, construct_next_decision).
RiskIsEarned ==
  [][ticks' = ticks + 1 /\ AddsRisk(holding["source"] * quote', sleeve') =>
       DirectionOf(sleeve') \in earned']_gateVars

\* The order fills each sleeve to what the decision asked for it, when both
\* are on one side.  It does not hold: the contributions of a retained sleeve
\* are notionals, those of the technical one fractions, so that nearly all of
\* a technical increase is booked on the sources.
SleevesKeepTheirTargets ==
  [][holding' # holding /\ gateRestarts' = gateRestarts =>
       SizeOf(holding'["source"] * quote) <= SizeOf(sleeve)]_gateVars
=============================================================================
