--------------------------- MODULE MCRuntimeParts ---------------------------
(* The parts of the observer's runtime, and the legacy bot, in one run.      *)
(* They share no state, so each behaviour is that of one part, chosen at the *)
(* start, while the others stand still.                                      *)
EXTENDS ReadBudget, RequestScheduler, SourceCadence, CandleReads, StateRoot,
        ReorderedEvents, MeasurementRun, ReplayJournal, WindowAggregate, CopyTradeBot

CONSTANT Parts          \* the parts to run
VARIABLE part           \* the part that runs

\* RequestScheduler: a source of each tier and a read of the follower.  Each
\* may be critical, so that the queue can be full of critical reads.
MCKeys == 1..3
MCClassOf == <<"source", "source", "critical">>
MCTierOf == <<"active", "inactive", "none">>
MCReadWeightOf == <<1, 1, 2>>
MCPrioritiesOf == <<{2, 3}, {1, 3}, {3}>>
MCLifetimeOf == <<2, 3, 3>>
MCTarget == [t \in Tiers |-> IF t = "active" THEN 2 ELSE 1]

\* CandleReads: the volumes of the assets the metadata may list.
MCUniverses == {1 :> 7 @@ 2 :> 5}

\* ReorderedEvents: an event of each kind, two fills with the same id.
MCPayloads ==
  {[kind |-> "IntentAccepted"], [kind |-> "OrderCancelled"],
   [kind |-> "Fill", id |-> 1, delta |-> 1, equity |-> 2],
   [kind |-> "Fill", id |-> 2, delta |-> -1, equity |-> 1],
   [kind |-> "Fill", id |-> 2, delta |-> 1, equity |-> 1],
   [kind |-> "Funding", id |-> 1, amount |-> -1],
   [kind |-> "PositionSnapshot", position |-> 1], [kind |-> "EquitySnapshot", equity |-> 2]}

\* MeasurementRun: two buckets in the four-hour stage, one and a half in the
\* short one.
MCRunLength == [s \in Stages |-> CASE s = "Profitability" -> 4 [] s = "MicroDensity" -> 3 [] OTHER -> 2]

\* CopyTradeBot: the traders oppose each other on the first coin and the
\* other one is of the first trader alone.
MCBooks == {<<<<1, -1>>, <<1, 0>>>>}
-----------------------------------------------------------------------------
Runs(name) == part = name

\* Where a part does not run it has one initial state.
PartsInit ==
  /\ part \in Parts
  /\ BudgetInit
  /\ QueueInit
  /\ CadenceInit /\ (Runs("SourceCadence") \/ candidates = CHOOSE n \in CandidateCounts : TRUE)
  /\ CandleInit
  /\ RootInit
  /\ EventsInit /\ (Runs("ReorderedEvents") \/ stream = [i \in 1..StreamLength |-> [kind |-> "OrderCancelled"]])
  /\ MeasurementInit /\ (Runs("MeasurementRun") \/ (stage = "Plain" /\ equity.mark = 1))
  /\ JournalInit /\ (Runs("ReplayJournal") \/ (~restored /\ engine.tier = "Inactive"))
  /\ AggregateInit
  /\ BotInit

\* The other parts stand still.
Others(name) ==
  /\ UNCHANGED part
  /\ IF name = "ReadBudget" THEN TRUE ELSE UNCHANGED budgetVars
  /\ IF name = "RequestScheduler" THEN TRUE ELSE UNCHANGED queueVars
  /\ IF name = "SourceCadence" THEN TRUE ELSE UNCHANGED cadenceVars
  /\ IF name = "CandleReads" THEN TRUE ELSE UNCHANGED candleVars
  /\ IF name = "StateRoot" THEN TRUE ELSE UNCHANGED rootVars
  /\ IF name = "ReorderedEvents" THEN TRUE ELSE UNCHANGED eventsVars
  /\ IF name = "MeasurementRun" THEN TRUE ELSE UNCHANGED measurementVars
  /\ IF name = "ReplayJournal" THEN TRUE ELSE UNCHANGED journalVars
  /\ IF name = "WindowAggregate" THEN TRUE ELSE UNCHANGED aggregateVars
  /\ IF name = "CopyTradeBot" THEN TRUE ELSE UNCHANGED botVars

PartsNext ==
  \/ Runs("ReadBudget") /\ BudgetNext /\ Others("ReadBudget")
  \/ Runs("RequestScheduler") /\ QueueNext /\ Others("RequestScheduler")
  \/ Runs("SourceCadence") /\ CadenceNext /\ Others("SourceCadence")
  \/ Runs("CandleReads") /\ CandleNext /\ Others("CandleReads")
  \/ Runs("StateRoot") /\ RootNext /\ Others("StateRoot")
  \/ Runs("ReorderedEvents") /\ EventsNext /\ Others("ReorderedEvents")
  \/ Runs("MeasurementRun") /\ MeasurementNext /\ Others("MeasurementRun")
  \/ Runs("ReplayJournal") /\ JournalNext /\ Others("ReplayJournal")
  \/ Runs("WindowAggregate") /\ AggregateNext /\ Others("WindowAggregate")
  \/ Runs("CopyTradeBot") /\ BotNext /\ Others("CopyTradeBot")

partsVars == <<part, budgetVars, queueVars, cadenceVars, candleVars, rootVars,
               eventsVars, measurementVars, journalVars, aggregateVars, botVars>>

PartsSpec == PartsInit /\ [][PartsNext]_partsVars
=============================================================================
