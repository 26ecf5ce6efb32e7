-------------------------- MODULE ExecutionPlanning ---------------------------
(* How an order is sized and priced: the floor an asset's orders must reach  *)
(* (execution_floor.rs), the order that takes risk off (exit_planning.rs),   *)
(* the limit of an immediate-or-cancel order and its walk through the book   *)
(* (shadow.rs).  Everything here is a function of its arguments.             *)
(*                                                                           *)
(* Prices, quantities and notionals are integers in units fine enough for    *)
(* the instance, fractions are percentages; the quotients of the code are    *)
(* exact here, and rounded where the code rounds them to a tick or a step.   *)
EXTENDS Integers, Sequences, SequencesExt

Smaller(a, b) == IF a <= b THEN a ELSE b
Larger(a, b) == IF a >= b THEN a ELSE b
Size(x) == IF x < 0 THEN -x ELSE x
Opposed(x, y) == (x > 0 /\ y < 0) \/ (x < 0 /\ y > 0)
SameSide(x, y) == (x > 0 /\ y > 0) \/ (x < 0 /\ y < 0)
RoundUp(num, den, step) == -((-num) \div (den * step)) * step      \* ceil(num/den/step)*step
RoundDown(num, den, step) == (num \div (den * step)) * step        \* floor(num/den/step)*step

\* A failure of a planning function: a value no plan is equal to.
Blocked(why) == [blocked |-> why]
IsPlan(p) == "blocked" \notin DOMAIN p

-----------------------------------------------------------------------------
(* The execution floor.  rules: [mark, tick, step]; policy: [minimum, buffer, *)
(* margin, slippage], slippage in percent.                                    *)

Outward(side, num, den, tick) ==
  IF side = "Buy" THEN RoundUp(num, den, tick) ELSE RoundDown(num, den, tick)

\* The worst price a slippage of some percent allows, from any reference.
WorstPrice(side, reference, percent, tick) ==
  Outward(side, reference * (IF side = "Buy" THEN 100 + percent ELSE 100 - percent), 100, tick)

QuantityFor(notional, price, step) == RoundUp(notional, price, step)

ExecutionFloor(side, rules, policy) ==
  LET price == WorstPrice(side, rules.mark, policy.slippage, rules.tick)
      order == QuantityFor(policy.minimum + policy.buffer, price, rules.step)
      opening == QuantityFor(policy.minimum + policy.buffer + policy.margin, price, rules.step)
  IN  [price |-> price, quantity |-> order,
       order |-> order * price, opening |-> opening * price]

-----------------------------------------------------------------------------
(* The order that reduces a position towards its target.                     *)

\* What a change from the committed notional to the desired one is.
ResidualClass(committed, desired) ==
  CASE committed = desired -> "AlreadySatisfied"
    [] committed # desired /\ committed = 0 -> "ExposureIncrease"
    [] committed # 0 /\ desired = 0 -> "FullExit"
    [] Opposed(committed, desired) -> "DirectionFlipCloseLeg"
    [] SameSide(committed, desired) /\ Size(desired) < Size(committed) -> "RiskReduction"
    [] OTHER -> "ExposureIncrease"

\* The quantity a reduction takes off: all of it, or what is above the target
\* at the reference price; in whole steps, never more than there is.
ReducingQuantity(class, quantity, desired, price, step) ==
  LET whole == Size(quantity)
      over == IF class = "RiskReduction"
              THEN RoundDown(Larger(whole * price * desired.den - Size(desired.num), 0),
                             desired.den * price, step)
              ELSE RoundDown(whole, 1, step)
  IN  Smaller(over, whole)

\* plan_risk_reducing_ioc up to the pricing of the order: what is in flight
\* for the asset must be reconciled before anything is planned.  The target is
\* a quotient, num over den.
ExitPlan(desired, quantity, outstanding, rules, policy) ==
  LET filled == quantity * rules.mark
      class == ResidualClass((filled + outstanding) * desired.den, desired.num)
      side == IF filled > 0 THEN "Sell" ELSE "Buy"
      q == ReducingQuantity(class, quantity, desired, rules.mark, rules.step)
      floor == ExecutionFloor(side, rules, policy)
  IN  CASE class = "AlreadySatisfied" -> Blocked("AlreadySatisfied")
        [] class = "ExposureIncrease" -> Blocked("ExposureIncreasing")
        [] class \notin {"AlreadySatisfied", "ExposureIncrease"} /\ outstanding # 0 ->
             Blocked("OutstandingExposureRequiresReconciliation")
        [] class \notin {"AlreadySatisfied", "ExposureIncrease"} /\ outstanding = 0
           /\ (q = 0 \/ q * floor.price < floor.order) -> Blocked("BelowExchangeMinimum")
        [] OTHER -> [side |-> side, class |-> class, quantity |-> q, notional |-> q * floor.price]

-----------------------------------------------------------------------------
(* The price of the order and its walk through the book.  A side of a book is *)
(* a sequence of levels, [price, quantity], best first.                       *)

Within(side, price, limit) == IF side = "Buy" THEN price <= limit ELSE price >= limit

\* What lies in the book up to and including the i-th level.
Depth(levels, i) ==
  FoldLeft(LAMBDA sum, level : sum + level.quantity, 0, SubSeq(levels, 1, i))

\* The levels that cover the quantity decide the limit, with a cushion; if the
\* whole book does not cover it, the bound on the slippage does.
MarketableIoc(side, quantity, levels, reference, cushion, slippage, tick) ==
  LET covering == {i \in DOMAIN levels : Depth(levels, i) >= quantity}
  IN  [limit |-> IF covering # {}
                 THEN LET worst == CHOOSE i \in covering : \A j \in covering : i <= j
                      IN  WorstPrice(side, levels[worst].price, cushion, tick)
                 ELSE WorstPrice(side, reference, slippage, tick)]

\* execute_shadow_ioc: take from the best level on while the limit allows.
Taking(fill, side, limit, level) ==
  LET q == IF Within(side, level.price, limit) THEN Smaller(fill.remaining, level.quantity) ELSE 0
  IN  [remaining |-> fill.remaining - q, filled |-> fill.filled + q]

ShadowFill(side, quantity, limit, levels) ==
  LET after[i \in 0 .. Len(levels)] ==
        IF i = 0 THEN [remaining |-> quantity, filled |-> 0]
        ELSE Taking(after[i - 1], side, limit, levels[i])
  IN  after[Len(levels)]

PositionAfter(side, position, fill) ==
  IF side = "Buy" THEN position + fill.filled ELSE position - fill.filled
=============================================================================
