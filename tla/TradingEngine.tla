----------------------------- MODULE TradingEngine ----------------------------
(* What the engine keeps between a decision and its execution, for one asset *)
(* (LiveShadowEngine, live_shadow.rs): the action that waits for a book late *)
(* enough to execute against, the intent that waits for any book, and the    *)
(* continuation that links an order to the one it finishes.  A book executes *)
(* the old action first and is then used to decide again.                    *)
(*                                                                           *)
(* In shadow mode an execution is a walk through the book; in production it  *)
(* is an intent for the signer, whose fill is known later and whose action   *)
(* stays where it is.  The entries of the engine's maps belong to one asset  *)
(* each; what assets share, the caps, is in Rebalancing.                     *)
EXTENDS PortfolioPlanning

CONSTANTS
  Modes,              \* is this production? a subset of BOOLEAN
  Agreements,         \* what the sources may agree on, of AgreementUnit
  AgreementUnit,
  EngineCaps,         \* [asset, gross, net]
  EnginePolicy,       \* [minimum, buffer, margin, slippage]
  EngineCushion,
  Price, PriceTick, LotSize,
  Depths,             \* quantities of the levels of a book
  Latency,            \* latency_timeout_ms, in ticks
  BookAge,            \* 40,000 ms, in ticks
  MaxHeld,            \* bound on the position
  MaxDecisions,       \* bound on the decisions
  MaxRestarts         \* bound on the restarts

ASSUME EngineAssumption ==
  /\ Modes \subseteq BOOLEAN /\ Agreements \subseteq Int /\ Depths \subseteq Nat \ {0}
  /\ AgreementUnit \in Nat \ {0} /\ EngineCaps \in [asset : Nat, gross : Nat, net : Nat]
  /\ Price \in Nat \ {0} /\ PriceTick \in Nat \ {0} /\ PriceTick <= Price
  /\ LotSize \in Nat \ {0}
  /\ Latency \in Nat /\ BookAge \in Nat /\ MaxHeld \in Nat
  /\ MaxDecisions \in Nat /\ MaxRestarts \in Nat

VARIABLES
  production,         \* production_identity is set
  held,               \* the authoritative position, a quantity
  engine,             \* the engine's entries for the asset
  stored,             \* what persist_unsigned_state wrote last
  bookAge,            \* ticks since the last book, or NoBook
  flying,             \* production: intents sent whose fills are not known
  made,               \* decisions made, restarts included
  restarts,           \* restarts so far
  engineEnded         \* the error that left the loop, or "no"

engineVars == <<production, held, engine, stored, bookAge, flying, made, restarts, engineEnded>>

One == {1}
NoBook == BookAge + 1
NoAction == [id |-> 0]
NoIntent == [root |-> 0]
NoChain == [root |-> 0, next |-> 0]
MarketRules == [mark |-> Price, tick |-> PriceTick, step |-> LotSize]

\* The engine as it is created: no target, nothing pending, nothing executed.
FreshEngine ==
  [target |-> [raw |-> 0, num |-> 0, den |-> 1, seconded |-> FALSE], version |-> 0,
   action |-> NoAction, awaiting |-> NoIntent, chain |-> NoChain,
   executed |-> <<>>, emitted |-> {}]

\* Fault: the continuation that is saved counts the attempt it has not made.
PersistedAhead(e) ==
  [FreshEngine EXCEPT !.target = [e.target EXCEPT !.seconded = FALSE], !.version = e.version,
                      !.chain = IF e.action.id # 0 /\ e.action.generation > 0
                                THEN [root |-> e.action.root, parent |-> e.action.parent,
                                      next |-> e.action.generation + 1, kind |-> e.action.kind]
                                ELSE e.chain,
                      !.executed = e.executed]

\* The payload of a snapshot: an action that continues another goes back to
\* being a continuation, any other action and every waiting intent is lost.
Persisted(e) ==
  LET kept == IF e.action.id # 0 /\ e.action.generation > 0
              THEN [root |-> e.action.root, parent |-> e.action.parent,
                    next |-> e.action.generation, kind |-> e.action.kind]
              ELSE e.chain
  IN  [FreshEngine EXCEPT !.target = [e.target EXCEPT !.seconded = FALSE], !.version = e.version,
                          !.chain = kept, !.executed = e.executed]

\* The shadow's position is in the snapshot, production's in its own ledger.
Snapshot(e, quantity) == [engine |-> Persisted(e), held |-> IF production THEN 0 ELSE quantity]

EngineTypeOK ==
  /\ production \in BOOLEAN /\ held \in Int
  /\ engine.version \in 0 .. MaxDecisions /\ made \in 0 .. MaxDecisions
  /\ engine.action.id \in 0 .. MaxDecisions
  /\ engine.awaiting.root \in 0 .. MaxDecisions /\ engine.chain.root \in 0 .. MaxDecisions
  /\ engine.emitted \subseteq 1 .. MaxDecisions
  /\ bookAge \in 0 .. NoBook /\ restarts \in 0 .. MaxRestarts
  /\ \A i \in flying : i.id \in 1 .. MaxDecisions /\ i.quantity \in Nat \ {0}

EngineInit ==
  /\ production \in Modes
  /\ held = 0 /\ engine = FreshEngine /\ stored = Snapshot(FreshEngine, 0)
  /\ bookAge = NoBook /\ flying = {} /\ made = 0 /\ restarts = 0
  /\ engineEnded = "no"

-----------------------------------------------------------------------------
(* construct_next_decision, from the decision on.                             *)

\* The same side and less than a step apart: the action stays as it is.
Immaterial(old, new) ==
  /\ old.id # 0
  /\ old.side = new.side /\ old.reduceOnly = new.reduceOnly
  /\ Size(old.notional - new.notional) < Price * LotSize

\* An intent nobody needs any more goes, with the action beside it, once a
\* fresh book shows that it is not needed; so does a continuation, at once.
WithoutNeed(e, freshBook) ==
  LET invalid == e.awaiting.root # 0 /\ freshBook
  IN  [e EXCEPT !.awaiting = IF invalid THEN NoIntent ELSE @,
                !.action = IF invalid THEN NoAction ELSE @,
                !.chain = NoChain]

\* The action of a new decision waits for a book if there is no fresh one, and
\* the intent that waits longest is the one that is remembered.
Awaiting(e, id) == [e EXCEPT !.awaiting = IF @.root # 0 THEN @ ELSE [root |-> id]]

\* The action replaces the one before; it continues the chain, or inherits the
\* identity of the intent that waited.
Replaced(e, x, id, base) ==
  LET root == IF e.chain.root # 0 THEN e.chain.root
              ELSE IF e.awaiting.root # 0 THEN e.awaiting.root ELSE id
      chained == e.chain.root # 0
  IN  [e EXCEPT !.awaiting = NoIntent, !.chain = NoChain,
                !.action = [id |-> id, side |-> x.side, notional |-> x.notional,
                            reduceOnly |-> x.reduceOnly, root |-> root,
                            parent |-> IF chained THEN e.chain.parent ELSE 0,
                            generation |-> IF chained THEN e.chain.next ELSE 0,
                            kind |-> IF chained THEN e.chain.kind ELSE "none",
                            age |-> 0, base |-> base]]

\* The decision for a position and an agreement: the target, and the actions.
AsDecided(d, filled) ==
  [raw |-> d.raw[1], num |-> d.projection.targets.num[1], den |-> d.projection.targets.den,
   violation |-> d.projection.violation, actions |-> ExecutableActions(d, filled, FALSE)]

DecisionFor(quantity, agreement) ==
  LET filled == [a \in One |-> quantity * Price]
  IN  AsDecided(ConstructDecision(filled, [a \in One |-> [buy |-> 0, sell |-> 0]],
                                  [a \in One |-> agreement], AgreementUnit,
                                  [a \in One |-> MarketRules], EnginePolicy, EngineCaps, 0),
                filled)

Decisions == [p \in (-MaxHeld .. MaxHeld) \X Agreements |-> DecisionFor(p[1], p[2])]

\* What a decision with actions makes of the engine's.
Taken(decided, x, quantity, freshBook, id) ==
  IF ~freshBook THEN Awaiting(decided, id)
  ELSE IF Immaterial(decided.action, x) THEN decided
  ELSE Replaced(decided, x, id, quantity)

WithDecision(e, d, decided, quantity, freshBook, id) ==
  IF d.violation # "none" THEN [e |-> e, error |-> d.violation]
  ELSE [error |-> "no",
        e |-> IF d.actions = {} THEN WithoutNeed(decided, freshBook)
              ELSE Taken(decided, CHOOSE y \in d.actions : TRUE, quantity, freshBook, id)]

Targeting(e, d, quantity, seconded, freshBook, id) ==
  WithDecision(e, d, [e EXCEPT !.version = id,
                               !.target = [raw |-> d.raw, num |-> d.num, den |-> d.den,
                                           seconded |-> seconded]],
               quantity, freshBook, id)

\* One decision on what the sources agree on; seconded: the technical
\* strategies want the same side.
Recomputed(e, quantity, agreement, seconded, freshBook, id) ==
  Targeting(e, Decisions[<<quantity, agreement>>], quantity, seconded, freshBook, id)

-----------------------------------------------------------------------------
(* try_execute_pending.                                                       *)

\* An exit that emptied the position is followed by the other side at once, if
\* the strategies still want it.
CloseFirstCompleted(e, before, after, fill) ==
  /\ e.action.reduceOnly /\ after = 0 /\ fill.filled # 0 /\ fill.remaining = 0
  /\ Opposed(e.target.raw, before) /\ e.target.seconded

\* The shadow execution: a remainder, or a completed close, is continued by an
\* order of the next generation.
Executed(e, before, fill) ==
  LET x == e.action
      after == PositionAfter(x.side, before, fill)
      kind == IF fill.remaining # 0 THEN "PartialIocRemainder"
              ELSE IF CloseFirstCompleted(e, before, after, fill) THEN "CloseFirstReversal"
              ELSE "none"
  IN  [e EXCEPT !.action = NoAction,
                !.executed = Append(@, [id |-> x.id, root |-> x.root, parent |-> x.parent,
                                        generation |-> x.generation]),
                !.chain = IF kind = "none" THEN @
                          ELSE [root |-> x.root, parent |-> x.id, next |-> x.generation + 1,
                                kind |-> kind]]

\* The outcome for the engine, the position and the signer; again: an order is
\* to be continued.
Nothing(e, quantity) == [e |-> e, held |-> quantity, sent |-> {}, error |-> "no", again |-> FALSE]

Outcome(executed, quantity, side, fill) ==
  [e |-> executed, held |-> PositionAfter(side, quantity, fill), sent |-> {}, error |-> "no",
   again |-> executed.chain # NoChain]
Filled(e, quantity, side, fill) == Outcome(Executed(e, quantity, fill), quantity, side, fill)

\* The order meets the book, or is one for the signer.
Priced(e, quantity, order, ioc, levels) ==
  LET x == e.action
  IN  IF order.quantity * ioc.limit < ExecutionFloor(order.side, MarketRules, EnginePolicy).order
      THEN Nothing([e EXCEPT !.action = NoAction], quantity)
      ELSE IF production /\ x.id \in e.emitted THEN Nothing(e, quantity)
      ELSE IF production
           THEN [Nothing([e EXCEPT !.emitted = @ \cup {x.id}], quantity) EXCEPT
                   !.sent = {[id |-> x.id, side |-> order.side, quantity |-> order.quantity,
                              reduceOnly |-> x.reduceOnly, base |-> x.base]}]
      ELSE Filled(e, quantity, order.side,
                  ShadowFill(order.side, order.quantity, ioc.limit, levels))

OnLevels(e, quantity, order, levels) ==
  Priced(e, quantity, order,
         MarketableIoc(order.side, order.quantity, levels, Price, EngineCushion,
                       EnginePolicy.slippage, PriceTick),
         levels)

Ordered(e, quantity, order, first, second) ==
  IF IsPlan(order) THEN OnLevels(e, quantity, order,
                                 BookSide(Price, order.side, first, second, PriceTick))
  ELSE IF order.blocked = "BelowExchangeMinimum"
       THEN Nothing([e EXCEPT !.action = NoAction], quantity)
  ELSE [Nothing(e, quantity) EXCEPT !.error = order.blocked]

TryExecute(e, quantity, first, second) ==
  LET x == e.action
  IN  IF x.id = 0 \/ x.age < Latency THEN Nothing(e, quantity)
      ELSE Ordered(e, quantity,
                   PlannedOrder([notional |-> x.notional, reduceOnly |-> x.reduceOnly,
                                 side |-> x.side],
                                [num |-> e.target.num, den |-> e.target.den],
                                quantity, MarketRules, EnginePolicy),
                   first, second)

-----------------------------------------------------------------------------
(* The loop's steps.  A step persists before the next one starts, unless the  *)
(* process stops first.                                                       *)

Persist ==
  /\ stored # Snapshot(engine, held) /\ engineEnded = "no"
  /\ stored' = Snapshot(engine, held)
  /\ UNCHANGED <<production, held, engine, bookAge, flying, made, restarts, engineEnded>>

Ready == engineEnded = "no" /\ stored = Snapshot(engine, held)

\* The decision tick: nothing is decided without a fresh market snapshot.
DecisionTick ==
  /\ Ready /\ made < MaxDecisions
  /\ \E agreement \in Agreements, seconded \in BOOLEAN :
       \E r \in {Recomputed(engine, held, agreement, seconded, bookAge <= BookAge, made + 1)} :
         engine' = r.e /\ engineEnded' = r.error
  /\ made' = made + 1
  /\ UNCHANGED <<production, held, stored, bookAge, flying, restarts>>

\* A book arrives: the old action first; then a new decision, if an intent
\* waited for this book or an order is to be continued, and the market snapshot
\* is fresh.  An intent that finds no room in the outbox is dropped and may be
\* emitted again.
Sent(e, t, queued) == [e EXCEPT !.emitted = @ \ {i.id : i \in t.sent \ queued}]

DecideAgain(t, queued) ==
  /\ engine.awaiting.root # 0 \/ t.again
  /\ t.error = "no" /\ made < MaxDecisions
  /\ made' = made + 1
  /\ \E agreement \in Agreements, seconded \in BOOLEAN :
       \E r \in {Recomputed(t.e, t.held, agreement, seconded, TRUE, made + 1)} :
         engine' = Sent(r.e, t, queued) /\ engineEnded' = r.error

BookArrives ==
  /\ Ready
  /\ \E first \in Depths, second \in Depths :
       \E t \in {TryExecute(engine, held, first, second)} : \E queued \in {{}, t.sent} :
         /\ t.held \in -MaxHeld .. MaxHeld
         /\ held' = t.held
         /\ flying' = flying \cup queued
         /\ \/ /\ engine' = Sent(t.e, t, queued) /\ engineEnded' = t.error
               /\ UNCHANGED made
            \/ DecideAgain(t, queued)
  /\ bookAge' = 0
  /\ UNCHANGED <<production, stored, restarts>>

\* The fill of an intent is reported and the position synchronised.  The replan
\* that follows is asked for at the time of the exchange's event, which no
\* market snapshot of the engine's own clock is fresh at: it decides nothing.
FillReported ==
  \E i \in flying : \E filled \in 0 .. i.quantity :
    LET q == IF ~i.reduceOnly THEN filled
             ELSE IF Opposed(held, IF i.side = "Buy" THEN 1 ELSE -1) /\ filled > Size(held)
                  THEN Size(held)
             ELSE IF Opposed(held, IF i.side = "Buy" THEN 1 ELSE -1) THEN filled ELSE 0
    IN  /\ Ready
        /\ held' = IF i.side = "Buy" THEN held + q ELSE held - q
        /\ held' \in -MaxHeld .. MaxHeld
        /\ flying' = flying \ {i}
        /\ UNCHANGED <<production, engine, stored, bookAge, made, restarts, engineEnded>>

\* A tick of the clock.
EngineTick ==
  /\ Ready
  /\ \/ bookAge < NoBook
     \/ engine.action.id # 0 /\ engine.action.age < Latency
  /\ bookAge' = IF bookAge < NoBook THEN bookAge + 1 ELSE NoBook
  /\ engine' = IF engine.action.id # 0 /\ engine.action.age < Latency
               THEN [engine EXCEPT !.action.age = @ + 1] ELSE engine
  /\ UNCHANGED <<production, held, stored, flying, made, restarts, engineEnded>>

\* The process stops, or has ended by itself, and is started again: the engine
\* continues from its snapshot, production from the positions it has verified.
Restart ==
  /\ restarts < MaxRestarts
  /\ restarts' = restarts + 1
  /\ engine' = stored.engine
  /\ held' = IF production THEN held ELSE stored.held
  /\ bookAge' = NoBook
  /\ engineEnded' = "no"
  /\ UNCHANGED <<production, stored, flying, made>>

EngineNext ==
  DecisionTick \/ BookArrives \/ Persist \/ FillReported \/ EngineTick \/ Restart
EngineSpec == EngineInit /\ [][EngineNext]_engineVars

-----------------------------------------------------------------------------
\* What ends the engine is an exit that a later decision, or a fill reported in
\* production, has made unnecessary: its action is still there when the next
\* book comes.  An exit of the latest decision can always be planned from the
\* position it was made on, an increase unless the tick makes it smaller than
\* a step.  A decision is refused only in production, for a position that its
\* fills have taken out of the caps.
EndsForAnOldExit ==
  engineEnded # "no" =>
    \/ /\ engineEnded \in {"AlreadySatisfied", "ExposureIncreasing"}
       /\ engine.action.reduceOnly
       /\ engine.action.id # engine.version \/ (production /\ engine.action.base # held)
    \/ /\ engineEnded = "ZeroQuantity"
       /\ ~engine.action.reduceOnly /\ Price % PriceTick # 0
    \/ /\ engineEnded = "ExistingRiskIncreased"
       /\ production /\ ~WithinCaps([a \in One |-> held * Price], EngineCaps)

\* Every order of a later generation finishes the order before it: there is
\* one with the same root, a generation less, which it names as its parent,
\* and no generation of a root is executed twice; also across restarts
\* (ContinuationIntent, persist_unsigned_state).
ContinuationsAreLinked ==
  \A i \in DOMAIN engine.executed :
    LET x == engine.executed[i] IN
    /\ x.generation > 0 => \E j \in 1 .. i - 1 :
         LET y == engine.executed[j] IN
         x.parent = y.id /\ x.root = y.root /\ x.generation = y.generation + 1
    /\ \A j \in 1 .. i - 1 :
         engine.executed[j].root = x.root => engine.executed[j].generation # x.generation
=============================================================================
