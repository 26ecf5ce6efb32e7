--------------------------- MODULE TechnicalSignals ---------------------------
(* The technical engine of one asset (technical.rs) and the decisions        *)
(* recorded of it (live_shadow.rs).  Closed candles are accepted into a      *)
(* series with a retention; every recompute of the portfolio evaluates the   *)
(* asset and moves its score through the hysteresis; a decision is recorded  *)
(* when the target has moved enough from the last one recorded.  The values  *)
(* of the indicators on each interval are readings, given.                   *)
EXTENDS Integers, Sequences, SequencesExt, FiniteSets, TLC

CONSTANTS
  Opens, CandlePayloads,  \* opening times and contents of candles
  CandleRetention,              \* 500 candles
  Warmup,                 \* candles an interval needs
  Readings12h, Readings4h, Readings1h, Readings30m, Readings15m,
  Enter, Maintain, Reduce, Flatten,   \* thresholds, of 100
  PullbackVolume, BreakoutVolume,     \* of 10 deviations
  Moves,                  \* expected_atr_fraction * ATR / price
  CostFloor,              \* minimum_cost_multiple * round_trip
  Grosses,                \* available_gross * technical_budget_fraction
  RecordTolerance,        \* rebalance_tolerance, of 100
  MaxRecords              \* bound

ASSUME ThresholdAssumption ==
  /\ 100 >= Enter /\ Enter > Maintain /\ Maintain > Reduce /\ Reduce > Flatten /\ Flatten >= 0
  /\ {Enter, Maintain, Reduce, Flatten, Warmup, CandleRetention} \subseteq Nat
  /\ Warmup <= CandleRetention /\ RecordTolerance \in 0..100
  /\ Grosses \subseteq Nat

VARIABLES
  technicalState,     \* "Running", or "Failed" on an invalid candle
  series, identities, \* candles retained; AssetCandles::accepted
  score,              \* current_score, of 100
  targeted,           \* has technical_targets an entry of the asset?
  technicalTarget,    \* its desired_notional, 0 without an entry
  recorded,           \* technical_decision_state: target and version
  records             \* technical_decision_records

technicalVars ==
  <<technicalState, series, identities, score, targeted, technicalTarget, recorded, records>>

ScoreSize(x) == IF x < 0 THEN -x ELSE x
Side(x) == IF x > 0 THEN 1 ELSE IF x < 0 THEN -1 ELSE 0
NeverRecorded == [target |-> 0, version |-> 0]

TechnicalInit ==
  /\ technicalState = "Running" /\ series = <<>> /\ identities = {}
  /\ score = 0 /\ targeted = FALSE /\ technicalTarget = 0
  /\ recorded = NeverRecorded /\ records = <<>>

-----------------------------------------------------------------------------
\* regime_12h.
Regime(r) ==
  CASE /\ r.close > r.ma21 /\ r.ma7 > r.ma14 /\ r.ma14 > r.ma21 /\ r.ma21 > r.ma50
       /\ r.ma50 > r.ma100 /\ r.ma100 > r.ma200 /\ r.slope50 > 0 /\ r.slope100 > 0
       /\ r.rsi >= 55 /\ r.loud -> "StrongBull"
    [] /\ r.close < r.ma21 /\ r.ma7 < r.ma14 /\ r.ma14 < r.ma21 /\ r.ma21 < r.ma50
       /\ r.ma50 < r.ma100 /\ r.ma100 < r.ma200 /\ r.slope50 < 0 /\ r.slope100 < 0
       /\ r.rsi <= 45 /\ r.loud -> "StrongBear"
    [] /\ r.ma7 > r.ma14 /\ r.ma14 > r.ma21 /\ r.pastMa21 <= r.pastMa50 /\ r.ma21 > r.ma50
       /\ r.slope50 >= 0 /\ r.rsi > 50 /\ r.loud -> "TransitionUp"
    [] /\ r.ma7 < r.ma14 /\ r.ma14 < r.ma21 /\ r.pastMa21 >= r.pastMa50 /\ r.ma21 < r.ma50
       /\ r.slope50 <= 0 /\ r.rsi < 50 /\ r.loud -> "TransitionDown"
    [] OTHER -> "Range"
DirectionOfRegime(regime) ==
  IF regime \in {"StrongBull", "TransitionUp"} THEN 1
  ELSE IF regime \in {"StrongBear", "TransitionDown"} THEN -1 ELSE 0

\* trend_4h.
Trend4h(r) ==
  IF /\ r.close > r.ma21 /\ r.ma21 > r.ma50 /\ r.ma50 > r.ma100
     /\ r.slope21 > 0 /\ r.slope50 >= 0 /\ r.rsi > 50 /\ r.loud THEN 1
  ELSE IF /\ r.close < r.ma21 /\ r.ma21 < r.ma50 /\ r.ma50 < r.ma100
          /\ r.slope21 < 0 /\ r.slope50 <= 0 /\ r.rsi < 50 /\ r.loud THEN -1 ELSE 0

\* trend_1h.
Trend1h(r) ==
  IF r.ma7 > r.ma14 /\ r.ma14 > r.ma21 /\ r.close > r.ma50 /\ r.rsi >= 50 THEN 1
  ELSE IF r.ma7 < r.ma14 /\ r.ma14 < r.ma21 /\ r.close < r.ma50 /\ r.rsi <= 50 THEN -1 ELSE 0

\* trigger_30m: the archetypes in the order the code tries them, up before down.
Trigger30m(r, regime, trend4, trend1) ==
  LET votes == <<DirectionOfRegime(regime), trend4, trend1>>
      Majority(side) == Cardinality({i \in 1..3 : votes[i] = side}) >= 2
      BreakoutContext(side) ==
        \/ regime = (IF side = 1 THEN "TransitionUp" ELSE "TransitionDown")
        \/ regime = "Range" /\ trend4 = side
      Washout(side) == \E past \in r.pastRsi : IF side = 1 THEN past < 45 ELSE past > 55
      Participates == r.volume >= PullbackVolume
      FromBelow == r.pastClose <= r.pastMa7
      Pulled(side) == IF side = 1 THEN FromBelow ELSE r.pastClose >= r.pastMa7
      Reclaimed(side) == IF side = 1 THEN r.rsi > 50 /\ r.close > r.ma7 ELSE r.rsi < 50 /\ r.close < r.ma7
      Broken(side) ==
        IF side = 1 THEN /\ r.pastClose <= r.pastMa21 \/ r.pastClose <= r.pastMa50
                         /\ r.close > r.ma21 /\ r.close > r.ma50
        ELSE /\ r.pastClose >= r.pastMa21 \/ r.pastClose >= r.pastMa50
             /\ r.close < r.ma21 /\ r.close < r.ma50
      Breakout(side) == BreakoutContext(side) /\ Broken(side) /\ r.volume >= BreakoutVolume
      Pullback(side) == Majority(side) /\ (Washout(side) \/ (Pulled(side) /\ Participates)) /\ Reclaimed(side)
      Reversion(side) == regime = "Range" /\ (Washout(side) \/ Participates) /\ Pulled(side) /\ Reclaimed(side)
  IN  CASE Breakout(1) -> 1 [] ~Breakout(1) /\ Breakout(-1) -> -1
        [] ~Breakout(1) /\ ~Breakout(-1) ->
             CASE Pullback(1) -> 1 [] ~Pullback(1) /\ Pullback(-1) -> -1
               [] ~Pullback(1) /\ ~Pullback(-1) ->
                    IF Reversion(1) THEN 1 ELSE IF Reversion(-1) THEN -1 ELSE 0

\* trigger_15m: the faster interval confirms the direction only.
Trigger15m(r, primary) ==
  IF primary = 1 /\ r.close > r.ma7 /\ r.rsi >= 50 THEN 1
  ELSE IF primary = -1 /\ r.close < r.ma7 /\ r.rsi <= 50 THEN -1 ELSE 0

\* primary_exit_30m for a score that is held.
ExitTiming(r, held) ==
  CASE held = 0 -> "Hold"
    [] held > 0 -> IF (r.close < r.ma21 /\ r.pastClose >= r.pastMa21) \/ r.rsi <= 42 THEN "Flatten"
                   ELSE IF r.close < r.ma7 \/ r.rsi < 50 THEN "Reduce" ELSE "Hold"
    [] held < 0 -> IF (r.close > r.ma21 /\ r.pastClose <= r.pastMa21) \/ r.rsi >= 58 THEN "Flatten"
                   ELSE IF r.close > r.ma7 \/ r.rsi > 50 THEN "Reduce" ELSE "Hold"

\* classify: what the readings of the five intervals say.
Classified(r12, r4, r1, r30, r15) ==
  LET regime == Regime(r12)
      trigger30 == Trigger30m(r30, regime, Trend4h(r4), Trend1h(r1))
  IN  [direction |-> DirectionOfRegime(regime), trend4 |-> Trend4h(r4), trend1 |-> Trend1h(r1),
       trigger30 |-> trigger30, trigger15 |-> Trigger15m(r15, trigger30)]

\* What an evaluation may meet.
Situations ==
  {[state |-> Classified(r12, r4, r1, r30, r15), reading |-> r30] :
     r12 \in Readings12h, r4 \in Readings4h, r1 \in Readings1h, r30 \in Readings30m, r15 \in Readings15m}

\* confirmed_trigger_direction, 0 when the triggers do not agree.
Confirmed(state) == IF state.trigger30 = state.trigger15 THEN state.trigger30 ELSE 0

\* technical_score: a confirmed trigger enters whatever the slow intervals say.
TechnicalScore(state) ==
  LET contextual == 40 * state.direction + 25 * state.trend4 + 20 * state.trend1
                    + 10 * state.trigger30 + 5 * state.trigger15
      direction == Confirmed(state)
  IN  IF direction = 0 \/ contextual * direction >= Enter THEN contextual ELSE direction * Enter

\* A new side is entered at the threshold and with both triggers.
AdmittedSide(held, candidate, state) ==
  IF ScoreSize(candidate) >= Enter /\ Side(candidate) = Confirmed(state) THEN candidate ELSE 0

\* The hysteresis of evaluate: a side already held is maintained, reduced or
\* flattened by the strength of the score.
HeldSide(held, candidate, state) ==
  LET strength == ScoreSize(candidate)
  IN  CASE held = 0 \/ (Side(held) # Side(candidate) /\ candidate # 0) -> AdmittedSide(held, candidate, state)
        [] held # 0 /\ Side(held) = Side(candidate) ->
             IF strength < Flatten THEN 0
             ELSE IF strength < Reduce THEN Side(held) * Flatten
             ELSE IF strength < Maintain THEN held ELSE candidate
        [] held # 0 /\ candidate = 0 -> held

\* The exit timing of the held side, then the admission by cost.
ScoreAfter(held, state, timing, move) ==
  LET candidate == HeldSide(held, TechnicalScore(state), state)
      timed == CASE timing = "Flatten" -> 0
                 [] timing = "Reduce" /\ held # 0 /\ Side(candidate) = Side(held) -> Side(held) * Reduce
                 [] OTHER -> candidate
  IN  IF timing = "Flatten" \/ move < CostFloor THEN 0 ELSE timed

\* material_technical_change_reason: none is "".
Reason(previous, current) ==
  LET delta == ScoreSize(current - previous)
      reference == IF ScoreSize(previous) > ScoreSize(current) THEN ScoreSize(previous) ELSE ScoreSize(current)
  IN  CASE previous = 0 /\ current = 0 -> ""
        [] previous # 0 /\ current = 0 -> "SignalNeutralized"
        [] previous = 0 /\ current # 0 -> "InitialActivation"
        [] Side(previous) * Side(current) = -1 -> "DirectionReversal"
        [] OTHER -> IF delta * 100 <= reference * RecordTolerance THEN ""
                    ELSE IF ScoreSize(current) > ScoreSize(previous) THEN "MaterialIncrease"
                    ELSE "MaterialReduction"

\* Fault: the drift is measured from the last target seen.
RecordedSeen(previous, target) ==
  IF Reason(previous.target, target) = "" THEN [previous EXCEPT !.target = target]
  ELSE [target |-> target, version |-> previous.version + 1]
\* record_material_technical_decisions: the drift is measured from the last
\* target that was recorded.
Recorded(previous, target) ==
  IF Reason(previous.target, target) = "" THEN previous
  ELSE [target |-> target, version |-> previous.version + 1]

-----------------------------------------------------------------------------
\* CandleRetention forgets an expired candle and its identity.
Expired(accepted, expired) == accepted \ {candle.open : candle \in expired}

\* accept_closed_candle: any error ends the engine.
AcceptClosedCandle ==
  \E open \in Opens, payload \in CandlePayloads :
    LET candle == [open |-> open, payload |-> payload]
        grown == Append(series, candle)
        excess == IF Len(grown) > CandleRetention THEN Len(grown) - CandleRetention ELSE 0
        known == open \in identities
        duplicate == known /\ \E i \in DOMAIN series : series[i] = candle
        invalid == IF known THEN ~duplicate ELSE series # <<>> /\ open <= Last(series).open
    IN  /\ technicalState = "Running"
        /\ technicalState' = IF invalid THEN "Failed" ELSE "Running"
        /\ IF known \/ invalid THEN UNCHANGED <<series, identities>>
           ELSE /\ series' = SubSeq(grown, excess + 1, Len(grown))
                /\ identities' = Expired(identities, {grown[i] : i \in 1..excess}) \cup {open}
        /\ UNCHANGED <<score, targeted, technicalTarget, recorded, records>>

\* A recompute without a mid of the asset: the targets of the last recompute are
\* cleared and the asset is skipped, so its target counts as none, while its
\* score stays and nothing is recorded.
SkipUnquoted ==
  /\ technicalState = "Running" /\ targeted
  /\ targeted' = FALSE /\ technicalTarget' = 0
  /\ UNCHANGED <<technicalState, series, identities, score, recorded, records>>

\* One recompute: evaluate and record_material_technical_decisions.
Evaluate ==
  \E situation \in Situations, move \in Moves, gross \in Grosses :
    LET after == ScoreAfter(score, situation.state, ExitTiming(situation.reading, score), move)
        reason == Reason(recorded.target, gross * after)
    IN  /\ technicalState = "Running" /\ Len(series) >= Warmup /\ Len(records) < MaxRecords
        /\ score' = after
        /\ targeted' = TRUE /\ technicalTarget' = gross * after
        /\ recorded' = Recorded(recorded, gross * after)
        /\ records' = IF reason = "" THEN records
                      ELSE Append(records, [target |-> gross * after, version |-> recorded'.version, reason |-> reason])
        /\ UNCHANGED <<technicalState, series, identities>>

TechnicalNext == AcceptClosedCandle \/ SkipUnquoted \/ Evaluate
TechnicalSpec == TechnicalInit /\ [][TechnicalNext]_technicalVars

-----------------------------------------------------------------------------
\* The last decision recorded stays true of the target there is: it has its
\* side, and its size within the tolerance, so that small moves cannot add up
\* unrecorded, also over recomputes that skip the asset; and the versions count
\* the decisions (record_material_technical_decisions).
RecordsFollowTargets ==
  /\ targeted => Reason(IF records = <<>> THEN 0 ELSE Last(records).target, technicalTarget) = ""
  /\ \A i \in DOMAIN records : records[i].version = i
=============================================================================
