------------------------------- MODULE CohortVote -------------------------------
(* The vote of the cohort of wallets on one asset (cohort.rs, and             *)
(* apply_very_profitable_cohort of live_shadow.rs).  Each decision adds up    *)
(* the positions of the members with a fresh state into a frame, stamped with *)
(* the latest of their own times; compares it with earlier frames; and keeps  *)
(* the target of the sources unless it has changed materially.  Members'      *)
(* states arrive at different times, go stale, and return.                    *)
(*                                                                            *)
(* Members hold one unit or none, long or short, and are of full quality and  *)
(* weight, so that their biases by notional and by count, and their quality,  *)
(* are the same number.  A fraction of one is Whole = 20 (twentieths), a      *)
(* score or target is of 100 * Whole.                                         *)
EXTENDS Integers, Sequences, SequencesExt, FiniteSets, FiniteSetsExt

CONSTANTS
  Members,            \* qualified members, two at most
  StatesOf,           \* positions a member may show: -1, 0 or 1
  Horizons,           \* the three horizons of an impulse, rising
  Retention,          \* HISTORY_RETENTION_MS
  MemberMaxAge,       \* source_snapshot_max_age_ms
  HydratedAt,         \* hydrated_at_ms of the layer
  Tolerance,          \* rebalance_tolerance, of 100 * Whole
  Activation,         \* COHORT_ACTIVATION_SCORE, of 100 * Whole
  PenaltySums,        \* penalties of a decision, of 100 * Whole
  Existing,           \* the other sources' consensus, of 100 * Whole
  MaxCohortTime,      \* bound on the clock
  MaxVersions         \* bound on the versions of the target

ASSUME CohortAssumption ==
  /\ IsFiniteSet(Members) /\ Cardinality(Members) \in 1..2
  /\ StatesOf \subseteq -1..1
  /\ Horizons \in [1..3 -> Nat \ {0}]
  /\ {Retention, MemberMaxAge, HydratedAt, Tolerance, Activation, MaxCohortTime, MaxVersions} \subseteq Nat
  /\ PenaltySums \subseteq Nat /\ Existing \subseteq Int

VARIABLES
  cohortClock,
  members,            \* the accepted state of each member: its time and position
  frames,             \* history of the asset
  material,           \* the MaterialTargetState, or NoTarget
  vote                \* what the last decision made of it

cohortVars == <<cohortClock, members, frames, material, vote>>

Whole == 20
Full == 100 * Whole
NoState == [at |-> 0, position |-> 0]
NoTarget == [version |-> -1]
NoVote == [version |-> -1, cohort |-> 0, source |-> 0, candidate |-> 0,
           wanted |-> 0, complete |-> FALSE, evaluated |-> FALSE]

Sgn(x) == IF x > 0 THEN 1 ELSE IF x < 0 THEN -1 ELSE 0
Magn(x) == IF x < 0 THEN -x ELSE x
Bounded(x, limit) == IF x > limit THEN limit ELSE IF x < -limit THEN -limit ELSE x

CohortInit ==
  /\ cohortClock = HydratedAt
  /\ members = [m \in Members |-> NoState]
  /\ frames = <<>> /\ material = NoTarget /\ vote = NoVote

CohortTypeOK ==
  /\ cohortClock \in HydratedAt..MaxCohortTime
  /\ \A m \in Members : members[m].at \in 0..cohortClock /\ members[m].position \in StatesOf \cup {0}
  /\ material = NoTarget \/ material.version \in Nat

-----------------------------------------------------------------------------
\* Members whose state is fresh now.
FreshMembers ==
  {m \in Members : members[m] # NoState /\ cohortClock - members[m].at <= MemberMaxAge}

NetHeld(S) == Cardinality({m \in S : members[m].position > 0})
              - Cardinality({m \in S : members[m].position < 0})
GrossHeld(S) == Cardinality({m \in S : members[m].position # 0})

\* aggregate_authoritative_positions, as the frame of the evaluation.
Aggregate(S) ==
  [at |-> Max({members[m].at : m \in S}), net |-> NetHeld(S), gross |-> GrossHeld(S)]

\* The frame of this instant, if a member is fresh.
Aggregates == {Aggregate(S) : S \in {FreshMembers} \ {{}}}

\* cohort_position, of Whole.
CohortPosition(f) == IF f.gross = 0 THEN 0 ELSE (Whole * f.net) \div f.gross

\* impulse_at: the change since the latest frame that is a horizon old, when
\* it is not much older.
ImpulseAt(f, horizon) ==
  LET cutoff == IF f.at > horizon THEN f.at - horizon ELSE 0
      old == {i \in DOMAIN frames : /\ frames[i].at <= cutoff
                                    /\ cutoff - frames[i].at <= MemberMaxAge}
      before == frames[Max(old)]
      larger == IF before.gross > f.gross THEN before.gross ELSE f.gross
  IN  IF old = {} \/ larger = 0 THEN 0
      ELSE Bounded((Whole * (f.net - before.net)) \div larger, Whole)

Impulse(f) ==
  Bounded((2 * ImpulseAt(f, Horizons[1]) + 5 * ImpulseAt(f, Horizons[2])
             + 3 * ImpulseAt(f, Horizons[3])) \div 10, Whole)

\* bounded_additive_consensus of the members' own exposures, of Whole.
FilteredConsensus(f) == Bounded(f.net * Whole, Whole)

\* attenuate_magnitude
Attenuated(score, penalty) ==
  IF Magn(score) <= penalty THEN 0 ELSE Sgn(score) * (Magn(score) - penalty)

\* The three components of the signal.
Signal(f) == [position |-> CohortPosition(f), impulse |-> Impulse(f),
              consensus |-> FilteredConsensus(f)]

\* The score before and after the penalties; nothing is executing in slices,
\* and the technical score of the tick confirms or not.
Score(signal, confirmation, penalty) ==
  Attenuated((45 * signal.position) + (20 * signal.impulse) + (20 * signal.consensus)
               + (5 * Whole * confirmation), penalty)

DirectionalAgreement(signal) ==
  \E d \in {-1, 1} : \A part \in DOMAIN signal : Sgn(signal[part]) = d

ProposedDirection(signal, score) ==
  IF DirectionalAgreement(signal) /\ Magn(score) >= Activation THEN Sgn(score) ELSE 0

\* Covering a short is not opening one.
ShortCovering(f) ==
  /\ frames # <<>> /\ Last(frames).net < 0 /\ f.net < 0 /\ f.net > Last(frames).net

\* What was added to reach the last target has been taken off again.
AdditionsUnwound(impulse) ==
  /\ material # NoTarget
  /\ \/ material.direction > 0 /\ 100 * impulse < -Tolerance
     \/ material.direction < 0 /\ 100 * impulse > Tolerance

\* Fault: a target that is small enough is kept, whatever became of it.
MaterialByTolerance(old, new) ==
  \/ Magn(100 * (old.impulse - new.impulse)) > Tolerance
  \/ Magn(100 * (old.consensus - new.consensus)) > Tolerance
  \/ \E part \in {"existing", "cohort", "source"} : Magn(old[part] - new[part]) > Tolerance

\* material_change
MaterialChange(old, new) ==
  \/ old.direction # new.direction
  \/ Sgn(old.impulse) # Sgn(new.impulse) \/ Sgn(old.consensus) # Sgn(new.consensus)
  \/ \E part \in {"existing", "cohort", "source"} :
       Sgn(old[part]) # Sgn(new[part]) \/ Magn(old[part] - new[part]) > Tolerance
  \/ Magn(100 * (old.impulse - new.impulse)) > Tolerance
  \/ Magn(100 * (old.consensus - new.consensus)) > Tolerance

\* Fault: a target that is kept takes over what was proposed.
RetargetedDrifting(new) ==
  IF material = NoTarget THEN [new EXCEPT !.version = 0]
  ELSE [new EXCEPT !.version = material.version + IF MaterialChange(material, new) THEN 1 ELSE 0]

\* The state of the targets after a proposal.
Retargeted(new) ==
  IF material = NoTarget THEN [new EXCEPT !.version = 0]
  ELSE IF MaterialChange(material, new) THEN [new EXCEPT !.version = material.version + 1]
  ELSE material

\* The frames afterwards: one of each instant; those in front that are past
\* the retention go.
Remembered(f) ==
  LET grown == IF frames # <<>> /\ Last(frames) = f THEN frames ELSE Append(frames, f)
      first == Min({i \in DOMAIN grown : grown[i].at + Retention >= f.at})
  IN  SubSeq(grown, first, Len(grown))

-----------------------------------------------------------------------------
\* A member's state arrives; those of one member arrive in order.
MemberState ==
  \E m \in Members, p \in StatesOf :
    /\ members[m].at < cohortClock
    /\ members' = [members EXCEPT ![m] = [at |-> cohortClock, position |-> p]]
    /\ UNCHANGED <<cohortClock, frames, material, vote>>

\* A frame that the engine takes: hydrated, and in order.
CanEvaluate(f) ==
  /\ f.at >= HydratedAt
  /\ frames # <<>> => f.at >= Last(frames).at /\ (f.at = Last(frames).at => f = Last(frames))

\* record_cohort_runtime_rejection: only the other sources vote.  The frame
\* may be older than the last one, when the latest member went stale, or
\* contradict it, when another member moved.
CohortRejected ==
  \E existing \in Existing, available \in BOOLEAN :
    /\ ~(available /\ \E f \in Aggregates : CanEvaluate(f))
    /\ vote' = [NoVote EXCEPT !.source = existing, !.candidate = existing,
                              !.version = material.version]
    /\ UNCHANGED <<cohortClock, members, frames, material>>

\* VeryProfitableCohortEngine::evaluate, and the vote that follows from it.
\* "market" stands for a chase, a dominant wallet, adverse funding, a missing
\* entry, and a move that does not cover its cost; "profit" for positions that
\* are mostly unrealised profit.
Target(signal, existing, admitted) ==
  [version |-> 0, direction |-> Sgn(signal.position), impulse |-> signal.impulse,
   consensus |-> signal.consensus, existing |-> existing, cohort |-> admitted,
   source |-> Bounded(existing + admitted, Full)]

Evaluated(f, signal, score, existing, market, profit) ==
  LET complete == FreshMembers = Members
      eligible == /\ ProposedDirection(signal, score) # 0 /\ complete /\ ~market
                  /\ ~ShortCovering(f) /\ ~AdditionsUnwound(signal.impulse)
                  /\ ~(profit /\ 100 * Magn(signal.impulse) <= Tolerance)
      new == Target(signal, existing, IF eligible THEN score ELSE 0)
  IN  /\ material' = Retargeted(new)
      /\ vote' = [version |-> material'.version, cohort |-> material'.cohort,
                  source |-> material'.source, candidate |-> new.source,
                  wanted |-> IF eligible THEN ProposedDirection(signal, score) ELSE 0,
                  complete |-> complete, evaluated |-> TRUE]

CohortEvaluated ==
  /\ material.version < MaxVersions
  /\ \E f \in Aggregates :
       /\ CanEvaluate(f)
       /\ \E signal \in {Signal(f)} :
            \E existing \in Existing, market \in BOOLEAN, profit \in BOOLEAN,
               penalty \in PenaltySums, confirmation \in {-1, 1} :
              Evaluated(f, signal, Score(signal, confirmation, penalty), existing, market, profit)
       /\ frames' = Remembered(f)
  /\ UNCHANGED <<cohortClock, members>>

CohortTick ==
  /\ cohortClock < MaxCohortTime
  /\ cohortClock' = cohortClock + 1
  /\ UNCHANGED <<members, frames, material, vote>>

CohortNext == MemberState \/ CohortRejected \/ CohortEvaluated \/ CohortTick
CohortSpec == CohortInit /\ [][CohortNext]_cohortVars

-----------------------------------------------------------------------------
\* The cohort votes in a decision only in a direction for which that very
\* decision has found no reason against it, with the state of every member
\* fresh, although the target itself may be one kept from an earlier decision;
\* and what is kept is never further than the tolerance from, or opposite to,
\* what the decision proposed, however often it was kept (cohort.rs, evaluate).
CohortVoteIsCurrent ==
  /\ vote.cohort # 0 => vote.complete /\ Sgn(vote.cohort) = vote.wanted
  /\ Sgn(vote.source) = Sgn(vote.candidate) /\ Magn(vote.source - vote.candidate) <= Tolerance

\* A version names one target for ever, and later targets have higher ones:
\* what is recorded of a version says what was voted under it.
VersionsNameTargets ==
  [][/\ material'.version >= material.version
     /\ material'.version = material.version => material' = material]_cohortVars
=============================================================================
