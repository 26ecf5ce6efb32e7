-------------------------- MODULE PortfolioPlanning ---------------------------
(* From the targets that the sources agree on to the orders of a decision:   *)
(* the admission of targets one by one (allocation.rs), the projection of    *)
(* the portfolio onto its caps (portfolio_risk.rs), and the decision with    *)
(* its planned actions (decision.rs, live_shadow.rs).                        *)
(*                                                                           *)
(* A portfolio is a function from assets to notionals, zero where the code   *)
(* has no entry.  caps: [asset, gross, net], the products with the equity.   *)
EXTENDS ExecutionPlanning, FiniteSets, FiniteSetsExt

Clamped(x, bound) == IF x > bound THEN bound ELSE IF x < -bound THEN -bound ELSE x
Total(f) == SumFunction(f)
GrossOf(f) == Total([a \in DOMAIN f |-> Size(f[a])])

WithinCaps(f, caps) ==
  /\ \A a \in DOMAIN f : Size(f[a]) <= caps.asset
  /\ GrossOf(f) <= caps.gross
  /\ Size(Total(f)) <= caps.net

-----------------------------------------------------------------------------
(* Admission of targets: allocate_sparse_portfolio.                           *)

\* 0 a required exit, 1 a reduction or a flip, 2 an increase, 3 a new position.
TransitionClass(current, desired) ==
  CASE current # 0 /\ desired = 0 -> 0
    [] current # 0 /\ desired # 0 /\ (Opposed(current, desired) \/ Size(desired) < Size(current)) -> 1
    [] current # 0 /\ SameSide(current, desired) /\ Size(desired) >= Size(current) -> 2
    [] OTHER -> 3

\* The changes worth considering; a flip whose new side could be opened on its
\* own is staged: it closes first.
AllocationCandidates(filled, raw, floors, caps) ==
  LET Desired(a) == Clamped(raw[a], caps.asset)
      Class(a) == TransitionClass(filled[a], Desired(a))
      Required(a) == IF filled[a] = 0 THEN floors[a].opening ELSE floors[a].order
      Admissible(a) == /\ Desired(a) # filled[a]
                       /\ ~(Class(a) >= 2 /\ Size(Desired(a) - filled[a]) < Required(a))
      Flips(a) == /\ Class(a) = 1 /\ Opposed(filled[a], Desired(a))
                  /\ Size(Desired(a)) >= floors[a].opening
  IN  {[asset |-> a, class |-> Class(a), current |-> filled[a],
        desired |-> IF Flips(a) THEN 0 ELSE Desired(a)] : a \in {b \in DOMAIN filled : Admissible(b)}}

\* compare_candidates: reductions before increases before new positions, then
\* the stronger conviction, then the larger change, then the name.  Convictions
\* are compared in absolute value; weights of agreement are taken to be equal.
Precedes(c, d, conviction) ==
  LET v(x) == Size(conviction[x.asset])
      change(x) == Size(x.desired - x.current)
  IN  \/ c.class < d.class
      \/ c.class = d.class /\ v(c) > v(d)
      \/ c.class = d.class /\ v(c) = v(d) /\ change(c) > change(d)
      \/ c.class = d.class /\ v(c) = v(d) /\ change(c) = change(d) /\ c.asset < d.asset

\* The filled position with the least conviction, if one is weaker than the
\* newcomer by more than the hysteresis; at most one asset.
WeakestDisplaceable(admitted, filled, conviction, newcomer, hysteresis) ==
  LET weaker == {a \in DOMAIN filled :
                   /\ admitted[a] # 0 /\ filled[a] # 0
                   /\ Size(conviction[a]) < Size(conviction[newcomer]) - hysteresis}
  IN  {a \in weaker : \A b \in weaker \ {a} :
         \/ Size(conviction[a]) < Size(conviction[b])
         \/ Size(conviction[a]) = Size(conviction[b]) /\ a < b}

\* A candidate is admitted if all caps still hold, always if it reduces, and a
\* newcomer without room closes the weakest position.
WithCandidate(admitted, filled, c, conviction, caps, hysteresis) ==
  LET proposed == [admitted EXCEPT ![c.asset] = c.desired]
      victim == WeakestDisplaceable(admitted, filled, conviction, c.asset, hysteresis)
  IN  IF WithinCaps(proposed, caps) \/ c.class <= 1 THEN proposed
      ELSE IF c.class = 3 THEN [a \in DOMAIN admitted |-> IF a \in victim THEN 0 ELSE admitted[a]]
      ELSE admitted

\* One candidate after the other, in their order.
Allocate(filled, raw, conviction, floors, caps, hysteresis) ==
  LET candidates == AllocationCandidates(filled, raw, floors, caps)
      First(left) == CHOOSE c \in left : \A d \in left \ {c} : Precedes(c, d, conviction)
      after[n \in 0 .. Cardinality(candidates)] ==
        IF n = 0 THEN [admitted |-> filled, left |-> candidates]
        ELSE LET c == First(after[n - 1].left)
             IN  [admitted |-> WithCandidate(after[n - 1].admitted, filled, c, conviction, caps, hysteresis),
                  left |-> after[n - 1].left \ {c}]
  IN  after[Cardinality(candidates)].admitted

-----------------------------------------------------------------------------
(* Projection onto the caps: project_and_validate_portfolio.  Scaled targets  *)
(* are quotients num/den with one denominator for the portfolio; the residual *)
(* that the code trims is one of decimal digits and does not arise.           *)

GrossScaled(t, cap) ==
  LET gross == GrossOf(t) IN
  IF gross <= cap THEN [num |-> t, den |-> 1]
  ELSE [num |-> [a \in DOMAIN t |-> t[a] * cap], den |-> gross]

\* The side that is too heavy is scaled to what the other side and the cap allow.
NetScaled(t, cap) ==
  LET positive == Total([a \in DOMAIN t.num |-> Larger(t.num[a], 0)])
      negative == Total([a \in DOMAIN t.num |-> Larger(-t.num[a], 0)])
      limit == cap * t.den
      Scale(heavy, allowed, sign) ==
        [num |-> [a \in DOMAIN t.num |->
                    IF SameSide(t.num[a], sign) THEN t.num[a] * allowed ELSE t.num[a] * heavy],
         den |-> t.den * heavy]
  IN  CASE positive - negative > limit -> Scale(positive, negative + limit, 1)
        [] negative - positive > limit -> Scale(negative, positive + limit, -1)
        [] OTHER -> t

ConstrainedTargets(unconstrained, caps) ==
  NetScaled(GrossScaled([a \in DOMAIN unconstrained |-> Clamped(unconstrained[a], caps.asset)],
                        caps.gross), caps.net)

\* A change in whole steps, valued at the price the rounded order carries.
RoundDelta(num, den, rules) ==
  LET price == IF num > 0 THEN RoundUp(rules.mark, 1, rules.tick)
                          ELSE RoundDown(rules.mark, 1, rules.tick)
      notional == RoundDown(Size(num), den * price, rules.step) * price
  IN  IF num > 0 THEN notional ELSE -notional

\* Fault: an order is valued as filled only.
RangesFilled(filled, open, delta) ==
  [a \in DOMAIN filled |-> [min |-> filled[a] + delta[a], max |-> filled[a] + delta[a]]]

\* What a position may become: every open or proposed order may fill or not.
Ranges(filled, open, delta) ==
  [a \in DOMAIN filled |-> [min |-> filled[a] - open[a].sell - Larger(-delta[a], 0),
                            max |-> filled[a] + open[a].buy + Larger(delta[a], 0)]]
Magnitude(r) == Larger(Size(r.min), Size(r.max))
RangeGross(rs) == Total([a \in DOMAIN rs |-> Magnitude(rs[a])])
MinNet(rs) == Total([a \in DOMAIN rs |-> rs[a].min])
MaxNet(rs) == Total([a \in DOMAIN rs |-> rs[a].max])
WorstNet(rs) == Larger(Size(MinNet(rs)), Size(MaxNet(rs)))
RangesWithin(rs, caps) ==
  /\ \A a \in DOMAIN rs : Magnitude(rs[a]) <= caps.asset
  /\ RangeGross(rs) <= caps.gross
  /\ WorstNet(rs) <= caps.net

NoDelta(f) == [a \in DOMAIN f |-> 0]

\* Fault: without a reduction that is safe the original changes stay.
StagedDeltasOriginal(filled, open, delta) == delta

\* stage_risk_reducing_deltas: only the changes that make their own asset no
\* worse; then, smallest first, those that make the net position worse go too.
SafeDeltas(filled, open, delta) ==
  LET alone(a) == Ranges(filled, open, [NoDelta(filled) EXCEPT ![a] = delta[a]])[a]
  IN  [a \in DOMAIN delta |->
         IF Magnitude(alone(a)) <= Magnitude(Ranges(filled, open, NoDelta(filled))[a])
         THEN delta[a] ELSE 0]

NetPruned(filled, open, staged) ==
  LET rs == Ranges(filled, open, staged)
      sign == IF Size(MinNet(rs)) >= Size(MaxNet(rs)) /\ MinNet(rs) < 0 THEN -1 ELSE 1
      offending == {a \in DOMAIN staged : SameSide(staged[a], sign)}
      removed == CHOOSE a \in offending : \A b \in offending \ {a} :
                   \/ Size(staged[a]) < Size(staged[b])
                   \/ Size(staged[a]) = Size(staged[b]) /\ a < b
  IN  IF WorstNet(rs) <= WorstNet(Ranges(filled, open, NoDelta(filled))) THEN staged
      ELSE [staged EXCEPT ![removed] = 0]

StagedDeltas(filled, open, delta) ==
  LET after[n \in 0 .. Cardinality(DOMAIN delta)] ==
        IF n = 0 THEN SafeDeltas(filled, open, delta) ELSE NetPruned(filled, open, after[n - 1])
  IN  after[Cardinality(DOMAIN delta)]

\* validate_final_ranges: within the caps, or, from a portfolio that is already
\* outside, with reductions only and no worse than it is.
FinalRangesViolation(filled, open, delta, caps) ==
  LET ranges == Ranges(filled, open, delta)
      baseline == Ranges(filled, open, NoDelta(filled))
      worse == {a \in DOMAIN delta :
                  /\ delta[a] # 0
                  /\ \/ filled[a] = 0 \/ SameSide(delta[a], filled[a])
                     \/ Size(delta[a]) > Size(filled[a])
                     \/ Magnitude(ranges[a]) > Magnitude(baseline[a])}
  IN  CASE WithinCaps(filled, caps) /\ RangesWithin(ranges, caps) -> "none"
        [] WithinCaps(filled, caps) /\ ~RangesWithin(ranges, caps) -> "CapExceeded"
        [] ~WithinCaps(filled, caps) /\ worse # {} -> "ExistingRiskIncreased"
        [] ~WithinCaps(filled, caps) /\ worse = {}
           /\ (RangeGross(ranges) > RangeGross(baseline) \/ WorstNet(ranges) > WorstNet(baseline)) ->
             "GrossCapExceeded"
        [] OTHER -> "none"

\* The changes that are left of the proposed ones, and what is wrong with them.
Validated(filled, open, targets, proposed, delta, caps) ==
  [targets |-> targets, proposed |-> proposed, delta |-> delta,
   violation |-> FinalRangesViolation(filled, open, delta, caps)]

StagedIfNeeded(filled, open, rounded, caps) ==
  IF RangesWithin(Ranges(filled, open, rounded), caps) THEN rounded
  ELSE StagedDeltas(filled, open, rounded)

Rounded(filled, open, targets, proposed, rules, caps) ==
  Validated(filled, open, targets, proposed,
            StagedIfNeeded(filled, open,
                           [a \in DOMAIN filled |-> RoundDelta(proposed[a], targets.den, rules[a])],
                           caps),
            caps)

ProjectOnto(filled, open, targets, rules, caps) ==
  Rounded(filled, open, targets,
          [a \in DOMAIN filled |->
             targets.num[a] - (filled[a] + open[a].buy - open[a].sell) * targets.den],
          rules, caps)

Project(filled, open, unconstrained, rules, caps) ==
  ProjectOnto(filled, open, ConstrainedTargets(unconstrained, caps), rules, caps)

-----------------------------------------------------------------------------
(* The decision and its actions.                                              *)

\* construct_decision from the consensus on: raw targets, floors by the side
\* each asset must move to, admission, projection.
WithAllocation(filled, open, raw, floors, consensus, rules, caps, hysteresis) ==
  [raw |-> raw, floors |-> floors,
   projection |-> Project(filled, open,
                          Allocate(filled, raw, consensus, floors, caps, hysteresis),
                          rules, caps)]

OnTargets(filled, open, raw, consensus, rules, policy, caps, hysteresis) ==
  WithAllocation(filled, open, raw,
           [a \in DOMAIN filled |->
              ExecutionFloor(IF raw[a] >= filled[a] THEN "Buy" ELSE "Sell", rules[a], policy)],
           consensus, rules, caps, hysteresis)

ConstructDecision(filled, open, consensus, unit, rules, policy, caps, hysteresis) ==
  OnTargets(filled, open, [a \in DOMAIN filled |-> (caps.gross * consensus[a]) \div unit],
            consensus, rules, policy, caps, hysteresis)

\* Fault: every change of an open position may only reduce it.
RequiresReduceOnlyAny(filled, delta, destination) == filled # 0 /\ delta # 0

\* A change that only moves a position towards zero, never through it.
RequiresReduceOnly(filled, delta, destination) ==
  Opposed(filled, delta) /\ (destination = 0 \/ SameSide(destination, filled))

\* The action for an asset: the rounded change, or, for a reduction that was
\* rounded away, the whole of it as a trigger.  None if there is no change.
PlannedAction(decision, filled, a) ==
  LET p == decision.projection
      reduceOnly == RequiresReduceOnly(filled[a], p.proposed[a], p.targets.num[a])
      sign == IF p.delta[a] = 0 /\ reduceOnly THEN p.proposed[a] ELSE p.delta[a]
  IN  [asset |-> a, reduceOnly |-> reduceOnly,
       side |-> IF sign > 0 THEN "Buy" ELSE "Sell",
       notional |-> IF p.delta[a] = 0 /\ reduceOnly THEN Size(p.proposed[a]) \div p.targets.den
                    ELSE Size(p.delta[a]),
       none |-> sign = 0]

\* What may be sent: every reduction, and increases that reach their floor
\* unless production has blocked them.
ExecutableActions(decision, filled, blocked) ==
  {x \in {PlannedAction(decision, filled, a) : a \in DOMAIN filled} :
     /\ ~x.none
     /\ x.reduceOnly \/ (/\ ~blocked
                         /\ x.notional >= IF filled[x.asset] = 0
                                          THEN decision.floors[x.asset].opening
                                          ELSE decision.floors[x.asset].order)}

-----------------------------------------------------------------------------
(* An action meets a book: try_execute_pending up to the execution.           *)

\* A side of a book around a price: one level at it, one a tick worse.
BookSide(price, side, first, second, tick) ==
  << [price |-> price, quantity |-> first],
     [price |-> IF side = "Buy" THEN price + tick ELSE price - tick, quantity |-> second] >>

\* The order an action becomes: a reduction is planned again from the position
\* and the target, an increase is sized by its notional.
PlannedOrder(x, target, quantity, rules, policy) ==
  LET q == RoundDown(x.notional, rules.mark, rules.step)
  IN  IF x.reduceOnly THEN ExitPlan(target, quantity, 0, rules, policy)
      ELSE IF q = 0 THEN Blocked("ZeroQuantity")
           ELSE [side |-> x.side, quantity |-> q]
=============================================================================
