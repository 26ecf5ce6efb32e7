--------------------------- MODULE MCTradingParts ---------------------------
(* The parts of the trading logic in one run.  They share no state, so each  *)
(* behaviour is that of one part, chosen at the start, while the others      *)
(* stand still.                                                              *)
EXTENDS ConfidenceLadder, SourceSnapshots, CohortVote, TechnicalSignals, SourceGate,
        Rebalancing, TradingEngine, OrderLifecycle, DualLedger

CONSTANT Parts          \* the parts to run
VARIABLE part           \* the part that runs

\* SourceSnapshots: a long and a short exposure, equal weights.
MCExposures == {-2, 1}
MCWeightOf == [c \in Candidates |-> 1]

\* CohortVote: horizons of the moving states, and net exposure already held.
MCHorizons == <<1, 2, 3>>
MCExisting == {-30, 60, 120}

\* TechnicalSignals: readings of the five intervals that take the asset
\* through its regimes and triggers.
Bull12 == [close |-> 9, ma7 |-> 8, ma14 |-> 7, ma21 |-> 6, ma50 |-> 5, ma100 |-> 4, ma200 |-> 3,
           pastMa21 |-> 6, pastMa50 |-> 5, slope50 |-> 1, slope100 |-> 1, rsi |-> 60, loud |-> TRUE]
TurnDown12 == [close |-> 4, ma7 |-> 4, ma14 |-> 5, ma21 |-> 6, ma50 |-> 7, ma100 |-> 6, ma200 |-> 6,
           pastMa21 |-> 7, pastMa50 |-> 7, slope50 |-> -1, slope100 |-> 0, rsi |-> 48, loud |-> TRUE]
Range12 == [Bull12 EXCEPT !.loud = FALSE]
MC12 == {Bull12, TurnDown12, Range12}
Up4 == [close |-> 9, ma21 |-> 8, ma50 |-> 7, ma100 |-> 6, slope21 |-> 1, slope50 |-> 0, rsi |-> 55, loud |-> TRUE]
Down4 == [close |-> 5, ma21 |-> 6, ma50 |-> 7, ma100 |-> 8, slope21 |-> -1, slope50 |-> 0, rsi |-> 45, loud |-> TRUE]
MC4 == {Up4, Down4}
Up1 == [close |-> 9, ma7 |-> 8, ma14 |-> 7, ma21 |-> 6, ma50 |-> 5, rsi |-> 50]
Down1 == [close |-> 4, ma7 |-> 5, ma14 |-> 6, ma21 |-> 7, ma50 |-> 8, rsi |-> 50]
MC1 == {Up1, Down1}
Pull30 == [close |-> 7, ma7 |-> 6, ma21 |-> 8, ma50 |-> 6, pastClose |-> 5, pastMa7 |-> 6, pastMa21 |-> 8, pastMa50 |-> 6, rsi |-> 52, pastRsi |-> {44}, volume |-> 0]
Drop30 == [close |-> 5, ma7 |-> 6, ma21 |-> 4, ma50 |-> 6, pastClose |-> 7, pastMa7 |-> 6, pastMa21 |-> 4, pastMa50 |-> 6, rsi |-> 48, pastRsi |-> {56}, volume |-> 10]
Break30 == [close |-> 9, ma7 |-> 7, ma21 |-> 8, ma50 |-> 6, pastClose |-> 7, pastMa7 |-> 6, pastMa21 |-> 8, pastMa50 |-> 6, rsi |-> 60, pastRsi |-> {50}, volume |-> 15]
Fall30 == [close |-> 3, ma7 |-> 5, ma21 |-> 4, ma50 |-> 6, pastClose |-> 5, pastMa7 |-> 5, pastMa21 |-> 4, pastMa50 |-> 6, rsi |-> 40, pastRsi |-> {50}, volume |-> 15]
Quiet30 == [Break30 EXCEPT !.volume = 0, !.rsi = 51, !.pastClose = 9]
MC30 == {Pull30, Drop30, Break30, Fall30, Quiet30}
MC15 == {[close |-> 7, ma7 |-> 6, rsi |-> 50], [close |-> 5, ma7 |-> 6, rsi |-> 50]}

\* SourceGate: the sources may vote on either side.
MCVotes == {-2, 0, 2}

\* Rebalancing: targets that fill the caps alone or together, on the same or
\* on opposite sides; an order needs one step, an opening two.
MCConsensus == -2..2
MCCaps == [asset |-> 40, gross |-> 60, net |-> 30]
MCWideCaps == [MCCaps EXCEPT !.gross = 120]
MCPolicy == [minimum |-> 10, buffer |-> 1, margin |-> 10, slippage |-> 2]

\* TradingEngine: one asset at one price; an order needs one step, an
\* opening three.
MCAgreements == {-2, -1, 0, 2}
MCEngineCaps == [asset |-> 40, gross |-> 40, net |-> 40]
MCEnginePolicy == [minimum |-> 10, buffer |-> 0, margin |-> 18, slippage |-> 0]

\* OrderLifecycle: every action is of one asset.
MCAssetOf == [a \in OrderActions |-> "asset"]

\* DualLedger: what a component may add to a target.
MCContributions == -2..2
-----------------------------------------------------------------------------
Runs(name) == part = name

\* Where a part does not run it has one initial state.
PartsInit ==
  /\ part \in Parts
  /\ LadderInit /\ (Runs("ConfidenceLadder") \/ base = 1)
  /\ SourcesInit /\ (Runs("SourceSnapshots") \/ source = [c \in Candidates |-> 1])
  /\ CohortInit
  /\ TechnicalInit
  /\ GateInit /\ (Runs("SourceGate") \/ quote = CHOOSE p \in MarkPrices : TRUE)
  /\ RebalancingInit /\ (Runs("Rebalancing") \/ mark = [a \in Assets |-> CHOOSE p \in Marks : TRUE])
  /\ EngineInit /\ (Runs("TradingEngine") \/ ~production)
  /\ LifecycleInit
  /\ LedgerInit

\* The other parts stand still.
Others(name) ==
  /\ UNCHANGED part
  /\ IF name = "ConfidenceLadder" THEN TRUE ELSE UNCHANGED ladderVars
  /\ IF name = "SourceSnapshots" THEN TRUE ELSE UNCHANGED sourceVars
  /\ IF name = "CohortVote" THEN TRUE ELSE UNCHANGED cohortVars
  /\ IF name = "TechnicalSignals" THEN TRUE ELSE UNCHANGED technicalVars
  /\ IF name = "SourceGate" THEN TRUE ELSE UNCHANGED gateVars
  /\ IF name = "Rebalancing" THEN TRUE ELSE UNCHANGED rebalancingVars
  /\ IF name = "TradingEngine" THEN TRUE ELSE UNCHANGED engineVars
  /\ IF name = "OrderLifecycle" THEN TRUE ELSE UNCHANGED lifeVars
  /\ IF name = "DualLedger" THEN TRUE ELSE UNCHANGED ledgerVars

PartsNext ==
  \/ Runs("ConfidenceLadder") /\ LadderNext /\ Others("ConfidenceLadder")
  \/ Runs("SourceSnapshots") /\ SourcesNext /\ Others("SourceSnapshots")
  \/ Runs("CohortVote") /\ CohortNext /\ Others("CohortVote")
  \/ Runs("TechnicalSignals") /\ TechnicalNext /\ Others("TechnicalSignals")
  \/ Runs("SourceGate") /\ GateNext /\ Others("SourceGate")
  \/ Runs("Rebalancing") /\ RebalancingNext /\ Others("Rebalancing")
  \/ Runs("TradingEngine") /\ EngineNext /\ Others("TradingEngine")
  \/ Runs("OrderLifecycle") /\ LifecycleNext /\ Others("OrderLifecycle")
  \/ Runs("DualLedger") /\ LedgerNext /\ Others("DualLedger")

partsVars == <<part, ladderVars, sourceVars, cohortVars, technicalVars, gateVars,
               rebalancingVars, engineVars, lifeVars, ledgerVars>>

PartsSpec == PartsInit /\ [][PartsNext]_partsVars
=============================================================================
