----------------------------- MODULE SourceCadence -----------------------------
(* How the qualification loop spreads its reads of the sources               *)
(* (qualification.rs): the dispatch plan derived from the read budget before *)
(* the loop starts, the two tiers that the plan fills, and the deadlines of  *)
(* each candidate as tiers are rebalanced and iterations come late.  A       *)
(* candidate is a number, its place in the configuration.                    *)
EXTENDS Integers, FiniteSets, FiniteSetsExt

CONSTANTS
  CandidateCounts,    \* sizes of the configuration
  PolicyWindow, ActiveCadence, InactiveCadence,
  CallCapacity,       \* source_polling_weight_per_window \div the weight of a read
  ActiveTarget,       \* source_tier_dispatch_targets_per_window of the active tier
  MaxActive,          \* MAX_ACTIVE_SOURCE_CANDIDATES
  FirstRebalance,     \* inactive_freshness
  RebalanceCadence,
  Latencies,          \* time an iteration of the loop may take
  MaxCadenceTime      \* bound

ASSUME CadenceAssumption ==
  /\ {PolicyWindow, ActiveCadence, InactiveCadence, RebalanceCadence} \subseteq Nat \ {0}
  /\ ActiveCadence <= RebalanceCadence
  /\ Latencies \subseteq Nat \ {0}

VARIABLES
  candidates,         \* how many are configured
  cadencePhase,       \* "Starting", "Looping" or "Refused"
  activeCount,        \* SourceDispatchPlan::active_candidate_count
  loopTime,
  activeTier,         \* candidates of the active tier
  dueAt,              \* source_due
  rebalanceDue,       \* tier_rebalance_due
  polledAt            \* history: when a read of each was last enqueued

cadenceVars == <<candidates, cadencePhase, activeCount, loopTime, activeTier, dueAt, rebalanceDue, polledAt>>

Numbers == 1..candidates
ActivePerWindow == PolicyWindow \div ActiveCadence
InactivePerWindow == PolicyWindow \div InactiveCadence

CadenceInit ==
  /\ candidates \in CandidateCounts
  /\ cadencePhase = "Starting" /\ activeCount = 0 /\ loopTime = 0
  /\ activeTier = {} /\ rebalanceDue = FirstRebalance
  /\ dueAt = [c \in Numbers |-> 0] /\ polledAt = [c \in Numbers |-> 0]

-----------------------------------------------------------------------------
\* What the budget leaves for the active tier once every candidate is read
\* as an inactive one.
BudgetActive(n) == (CallCapacity - n * InactivePerWindow) \div (ActivePerWindow - InactivePerWindow)

CadencesFit == PolicyWindow % ActiveCadence = 0 /\ PolicyWindow % InactiveCadence = 0 /\ ActivePerWindow > InactivePerWindow
PolicyActive == ActiveTarget \div ActivePerWindow
Demand(n, active) == active * ActivePerWindow + (n - active) * InactivePerWindow

\* derive_source_dispatch_plan: -1 when it refuses.
PlannedActive(n) ==
  IF n = 0 \/ ~CadencesFit \/ n * InactivePerWindow > CallCapacity THEN -1
  ELSE LET active == Min({n, MaxActive, PolicyActive, BudgetActive(n)})
       IN  IF Demand(n, active) > CallCapacity THEN -1 ELSE active

\* phase_deadline: the place of an ordinal in an interval.
PhaseDeadline(start, interval, ordinal, count) == start + (interval * ordinal) \div count

\* next_cadence_deadline: late iterations skip deadlines, they do not shift them.
NextDeadline(due, now, interval) == due + (((now - due) \div interval) + 1) * interval

\* assign_source_tiers: the candidates with positions first, in the order of
\* the configuration, then the others.
AssignedTiers(withPositions, capacity) ==
  LET first == {c \in withPositions : Cardinality({d \in withPositions : d < c}) < capacity}
      others == Numbers \ withPositions
      room == capacity - Cardinality(first)
  IN  first \cup {c \in others : Cardinality({d \in others : d < c}) < room}

\* Fault: a rebalance gives every active candidate a new phase.
RephasedAll(before, after) == after
\* Candidates whose deadline a rebalance replaces: those promoted.
Rephased(before, after) == after \ before

-----------------------------------------------------------------------------
\* The plan, the first tiers and phase_staggered_source_due.
StartCadence ==
  LET active == PlannedActive(candidates)
  IN  /\ cadencePhase = "Starting"
      /\ IF active = -1 THEN cadencePhase' = "Refused" /\ UNCHANGED <<activeCount, activeTier, dueAt>>
         ELSE /\ cadencePhase' = "Looping" /\ activeCount' = active
              /\ activeTier' = {c \in Numbers : c <= active}
              /\ dueAt' = [c \in Numbers |->
                    IF c <= active THEN PhaseDeadline(loopTime, ActiveCadence, c - 1, active)
                    ELSE PhaseDeadline(loopTime, InactiveCadence, c - 1 - active, candidates - active)]
      /\ UNCHANGED <<candidates, loopTime, rebalanceDue, polledAt>>

\* One iteration at `loopTime': the rebalance when it is due, then the reads
\* that are due; the positions are those the engine has last accepted.
Iterate ==
  \E withPositions \in SUBSET Numbers, latency \in Latencies :
    LET rebalances == loopTime >= rebalanceDue
        tier == IF rebalances THEN AssignedTiers(withPositions, activeCount) ELSE activeTier
        fresh == IF rebalances THEN Rephased(activeTier, tier) ELSE {}
        due == [c \in Numbers |->
                  IF c \in fresh
                  THEN PhaseDeadline(loopTime, ActiveCadence, Cardinality({d \in fresh : d < c}), Cardinality(fresh))
                  ELSE dueAt[c]]
        polled == {c \in Numbers : due[c] <= loopTime}
    IN  /\ cadencePhase = "Looping" /\ loopTime < MaxCadenceTime
        /\ rebalances \/ withPositions = {}
        /\ activeTier' = tier
        /\ rebalanceDue' = IF rebalances THEN NextDeadline(rebalanceDue, loopTime, RebalanceCadence) ELSE rebalanceDue
        /\ dueAt' = [c \in Numbers |->
                       IF c \notin polled THEN due[c]
                       ELSE NextDeadline(due[c], loopTime, IF c \in tier THEN ActiveCadence ELSE InactiveCadence)]
        /\ polledAt' = [c \in Numbers |-> IF c \in polled THEN loopTime ELSE polledAt[c]]
        /\ loopTime' = loopTime + latency
        /\ UNCHANGED <<candidates, cadencePhase, activeCount>>

CadenceNext == StartCadence \/ Iterate
CadenceSpec == CadenceInit /\ [][CadenceNext]_cadenceVars

-----------------------------------------------------------------------------
\* No candidate is left unread for longer than the two cadences and the time
\* of the iterations, however often it changes its tier: a promotion may put
\* its read off by less than an active cadence, and cannot do so twice
\* before it is read (the rebalance and the polls of run_qualification).
PollsKeepComing ==
  cadencePhase = "Looping" =>
    \A c \in Numbers : loopTime - polledAt[c] <= InactiveCadence + ActiveCadence + Max(Latencies)
=============================================================================
