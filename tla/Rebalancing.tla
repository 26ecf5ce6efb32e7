----------------------------- MODULE Rebalancing ------------------------------
(* One portfolio under a sequence of decisions and of the fills that their   *)
(* orders get (construct_decision and try_execute_pending, one decision at a *)
(* time): the sources may want anything, books are deep or thin, orders of a *)
(* decision execute in any order, and the price moves between them.          *)
EXTENDS PortfolioPlanning

CONSTANTS
  Assets,             \* ordered, as the keys of a BTreeMap are
  Marks,              \* the prices of an asset
  Consensus,          \* what the sources may agree on for an asset, of ConsensusUnit
  ConsensusUnit,
  Caps,               \* [asset, gross, net]
  Policy,             \* [minimum, buffer, margin, slippage]
  Cushion,            \* slippage_buffer, percent
  Hysteresis,         \* slot_rank_hysteresis
  Tick, Step,
  BookSizes,          \* quantities of the levels of a book
  MaxMoves,           \* bound on the moves of the price
  MaxPosition         \* bound on a position, in steps

ASSUME RebalancingAssumption ==
  /\ IsFiniteSet(Assets) /\ Assets \subseteq Nat
  /\ Marks \subseteq Nat \ {0} /\ Consensus \subseteq Int /\ ConsensusUnit \in Nat \ {0}
  /\ Caps \in [asset : Nat, gross : Nat, net : Nat]
  /\ \A price \in Marks : Tick <= price
  /\ Tick \in Nat \ {0} /\ Step \in Nat \ {0} /\ BookSizes \subseteq Nat
  /\ MaxMoves \in Nat /\ MaxPosition \in Nat

VARIABLES
  position,           \* quantity held of each asset
  mark,               \* price of each asset
  decision,           \* the last decision and the portfolio it was made on, or NoDecision
  pendingOrders,            \* its actions that have not met a book
  moves,              \* moves of the price so far
  steady,             \* history: there is a decision and no price has moved since
  failed              \* history: why the engine ended, or "no"

rebalancingVars == <<position, mark, decision, pendingOrders, moves, steady, failed>>

NoDecision == [none |-> TRUE]
NoOpen == [a \in Assets |-> [buy |-> 0, sell |-> 0]]
Rules(a, price) == [mark |-> price, tick |-> Tick, step |-> Step]
Notional(pos, m) == [a \in Assets |-> pos[a] * m[a]]

RebalancingInit ==
  /\ position = [a \in Assets |-> 0]
  /\ mark \in [Assets -> Marks]
  /\ decision = NoDecision
  /\ pendingOrders = {}
  /\ moves = 0
  /\ steady = FALSE
  /\ failed = "no"

-----------------------------------------------------------------------------
\* A decision on whatever the sources agree on.  An error of the projection
\* leaves the engine; it is not retried.
Decide ==
  /\ failed = "no" /\ pendingOrders = {}
  /\ \E consensus \in [Assets -> Consensus] :
       LET filled == Notional(position, mark)
           rules == [a \in Assets |-> Rules(a, mark[a])]
       IN  \E d \in {ConstructDecision(filled, NoOpen, consensus, ConsensusUnit, rules, Policy,
                                       Caps, Hysteresis)} :
             IF d.projection.violation = "none"
             THEN /\ decision' = [targets |-> d.projection.targets, delta |-> d.projection.delta,
                                  filled |-> filled]
                  /\ pendingOrders' = ExecutableActions(d, filled, FALSE)
                  /\ steady' = TRUE
                  /\ UNCHANGED failed
             ELSE /\ failed' = d.projection.violation
                  /\ UNCHANGED <<decision, pendingOrders, steady>>
  /\ UNCHANGED <<position, mark, moves>>

\* try_execute_pending on the first book that is late enough: the order, its
\* limit, its walk through the book.  An order below the minimum is dropped, any
\* other block ends the engine.
ExecuteOn(x, first, second) ==
  LET price == mark[x.asset]
      target == [num |-> decision.targets.num[x.asset], den |-> decision.targets.den]
      order == PlannedOrder(x, target, position[x.asset], Rules(x.asset, price), Policy)
      levels == BookSide(price, order.side, first, second, Tick)
      ioc == MarketableIoc(order.side, order.quantity, levels, price, Cushion,
                           Policy.slippage, Tick)
      required == ExecutionFloor(order.side, Rules(x.asset, price), Policy).order
      fill == ShadowFill(order.side, order.quantity, ioc.limit, levels)
      after == PositionAfter(order.side, position[x.asset], fill)
  IN  \/ /\ ~IsPlan(order)
         /\ order.blocked = "BelowExchangeMinimum"
         /\ pendingOrders' = pendingOrders \ {x}
         /\ UNCHANGED <<position, failed>>
      \/ /\ ~IsPlan(order)
         /\ order.blocked # "BelowExchangeMinimum"
         /\ failed' = order.blocked
         /\ UNCHANGED <<position, pendingOrders>>
      \/ /\ IsPlan(order)
         /\ pendingOrders' = pendingOrders \ {x}
         /\ UNCHANGED failed
         /\ IF order.quantity * ioc.limit < required
            THEN UNCHANGED position
            ELSE /\ after \in -MaxPosition .. MaxPosition
                 /\ position' = [position EXCEPT ![x.asset] = after]

Execute ==
  /\ failed = "no"
  /\ \E x \in pendingOrders, first \in BookSizes, second \in BookSizes : ExecuteOn(x, first, second)
  /\ UNCHANGED <<mark, decision, moves, steady>>

\* The price moves, at any time.
Move ==
  \E a \in Assets, price \in Marks :
    /\ price # mark[a]
    /\ moves < MaxMoves /\ failed = "no"
    /\ mark' = [mark EXCEPT ![a] = price]
    /\ moves' = moves + 1
    /\ steady' = FALSE
    /\ UNCHANGED <<position, decision, pendingOrders, failed>>

RebalancingNext == Decide \/ Execute \/ Move
RebalancingSpec == RebalancingInit /\ [][RebalancingNext]_rebalancingVars

-----------------------------------------------------------------------------
\* An exit is sized by the target at the book, not by the change that the
\* projection checked; the two differ where the projection took the change
\* out, and construct_planned_actions put it back, or where the price is not
\* on its tick and the change was valued at the tick.
SizedAgain(a) ==
  LET now == Notional(position, mark)
  IN  /\ Opposed(decision.filled[a], now[a] - decision.filled[a])
      /\ decision.delta[a] = 0 \/ mark[a] % Tick # 0

\* While the price stands still, the orders of a decision may execute in any
\* order and in part: from a portfolio within its caps no portfolio outside is
\* reached, from one outside none that is further out, for no asset and not in
\* net.  (portfolio_risk.rs: the projection must count an order as filled and
\* as not filled.)  The net position is that without the exits that are sized
\* again: those may take it out of its cap.
CapsAreKept ==
  steady =>
    LET now == Notional(position, mark)
        checked == [a \in Assets |-> IF SizedAgain(a) THEN decision.filled[a] ELSE now[a]]
    IN  IF WithinCaps(decision.filled, Caps)
        THEN /\ \A a \in Assets : Size(now[a]) <= Caps.asset
             /\ GrossOf(now) <= Caps.gross
             /\ Size(Total(checked)) <= Caps.net
        ELSE /\ \A a \in Assets : Size(now[a]) <= Size(decision.filled[a])
             /\ Size(Total(checked)) <= Size(Total(decision.filled))

\* Reductions that worsen the net exposure are pruned "until both projected
\* net endpoints are no worse than the current portfolio"
\* (portfolio_risk.rs:254): no order takes the net position out of its cap.
NetCapIsKept ==
  steady /\ WithinCaps(decision.filled, Caps) =>
    Total(Notional(position, mark)) \in -Caps.net .. Caps.net

\* A decision is refused only for a portfolio that is already outside its
\* caps; an order fails only if the price moved since its decision, or if it
\* is an increase that the tick makes smaller than a step; everything else is
\* planned, from whatever the earlier fills left.
FailsForACause ==
  \/ failed = "no"
  \/ failed = "ExistingRiskIncreased" /\ ~WithinCaps(Notional(position, mark), Caps)
  \/ failed \in {"ExposureIncreasing", "AlreadySatisfied", "ZeroQuantity"} /\ ~steady
  \/ failed = "ZeroQuantity" /\ \E a \in Assets : mark[a] % Tick # 0
=============================================================================
