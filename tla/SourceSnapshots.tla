--------------------------- MODULE SourceSnapshots ----------------------------
(* What the engine knows of its sources: the snapshot store (scheduler.rs),  *)
(* the book of exposures beside it (consensus.rs), the ingestion of a source *)
(* state that feeds both, and the consensus that reads both                  *)
(* (live_shadow.rs).  A source is read by one request at a time; answers     *)
(* wait in a channel before they are ingested.                               *)
EXTENDS Integers, Sequences, FiniteSets, FiniteSetsExt, Functions, TLC

CONSTANTS
  Candidates,         \* enabled sources
  WeightOf,           \* allocation_weight of each, of Unit
  Exposures,          \* signed exposures a source may show, of Unit
  Unit,               \* an exposure of one
  MaxSourceExposure,  \* of Unit
  MaxAge,             \* configured_max_age_ms and source_snapshot_max_age_ms
  FreshFor,           \* deadline of the scheduling tier
  Lifetime,           \* valid_until is received_at plus this
  MaxSourceTime,            \* bound on the clock
  MaxReads            \* bound on the reads of one source

ASSUME SourcesAssumption ==
  /\ MaxAge \in Nat \ {0} /\ FreshFor \in Nat /\ Lifetime \in Nat /\ MaxSourceTime \in Nat /\ MaxReads \in Nat
  /\ Unit \in Nat \ {0} /\ MaxSourceExposure \in Nat
  /\ WeightOf \in [Candidates -> Nat]
  /\ Exposures \subseteq Int

VARIABLES
  clock,              \* monotonic time
  source,             \* external: the exposure each source has now
  inFlight,           \* candidates with a read requested and not answered
  channel,            \* answers that wait to be ingested
  sequences,          \* source_sequences
  store,              \* source_store: the accepted snapshot of each source
  book                \* source_exposure_book

sourceVars == <<clock, source, inFlight, channel, sequences, store, book>>

NoSnapshot == [sequence |-> 0]
Accepted(c) == store[c] # NoSnapshot

SourcesTypeOK ==
  /\ clock \in 0..MaxSourceTime
  /\ source \in [Candidates -> Exposures]
  /\ inFlight \subseteq Candidates
  /\ \A c \in Candidates :
       /\ sequences[c] \in Nat
       /\ Accepted(c) => /\ store[c].received \in 0..MaxSourceTime
                         /\ store[c].sequence \in 1..sequences[c]
                         /\ store[c].payload \in Exposures

SourcesInit ==
  /\ clock = 0
  /\ source \in [Candidates -> Exposures]
  /\ inFlight = {} /\ channel = <<>>
  /\ sequences = [c \in Candidates |-> 0]
  /\ store = [c \in Candidates |-> NoSnapshot]
  /\ book = [c \in Candidates |-> NoSnapshot]

-----------------------------------------------------------------------------
\* SnapshotStore::accept for a payload that is valid; source states carry no
\* time of their own.
Acceptance(snapshot, now) ==
  CASE \/ now > snapshot.validUntil
       \/ now - snapshot.received > MaxAge -> "Expired"
    [] /\ now <= snapshot.validUntil /\ now - snapshot.received <= MaxAge
       /\ Accepted(snapshot.candidate)
       /\ \/ snapshot.sequence <= store[snapshot.candidate].sequence
          \/ snapshot.received < store[snapshot.candidate].received -> "OutOfOrder"
    [] OTHER -> "Accepted"

\* Fault: an equal payload is taken for an old one.
ExposureAfterEqual(current, sequence, payload) ==
  IF current # NoSnapshot /\ (sequence <= current.sequence \/ payload = current.payload) THEN current
  ELSE [sequence |-> sequence, payload |-> payload]

\* accept_source_exposure_state: an equal payload only moves the sequence on.
ExposureAfter(current, sequence, payload) ==
  IF current # NoSnapshot /\ sequence <= current.sequence THEN current
  ELSE [sequence |-> sequence, payload |-> payload]

\* SnapshotStore::fresh with the deadline of the tier (fresh_source).
Fresh(c) ==
  /\ Accepted(c)
  /\ clock <= store[c].validUntil
  /\ clock - store[c].received <= MaxAge
  /\ clock - store[c].received <= FreshFor

ClampedExposure(e) ==
  IF e > MaxSourceExposure THEN MaxSourceExposure
  ELSE IF e < -MaxSourceExposure THEN -MaxSourceExposure ELSE e

\* bounded_additive_consensus over the fresh sources, of Unit * Unit.
SourceConsensus ==
  LET voters == {c \in Candidates : Fresh(c) /\ WeightOf[c] # 0}
      sum == SumFunctionOnSet([c \in Candidates |->
               IF c \in voters THEN WeightOf[c] * ClampedExposure(book[c].payload) ELSE 0], voters)
      one == Unit * Unit
  IN  IF sum > one THEN one ELSE IF sum < -one THEN -one ELSE sum

-----------------------------------------------------------------------------
\* External: a source trades.
Trade ==
  \E c \in Candidates, e \in Exposures :
    /\ source' = [source EXCEPT ![c] = e]
    /\ UNCHANGED <<clock, inFlight, channel, sequences, store, book>>

\* The scheduler dispatches a read of a source: one at a time for each.
Request ==
  \E c \in Candidates \ inFlight :
    /\ \A i \in DOMAIN channel : channel[i].candidate # c
    /\ sequences[c] < MaxReads
    /\ inFlight' = inFlight \cup {c}
    /\ UNCHANGED <<clock, source, channel, sequences, store, book>>

\* External: the answer shows the source as it is, or the read fails.
Answer ==
  \E c \in inFlight, lost \in BOOLEAN :
    /\ inFlight' = inFlight \ {c}
    /\ channel' = IF lost THEN channel
                  ELSE Append(channel, [candidate |-> c, payload |-> source[c],
                                        received |-> clock, validUntil |-> clock + Lifetime])
    /\ UNCHANGED <<clock, source, sequences, store, book>>

\* LiveShadow::ingest of a source state: the sequence is taken whether the
\* snapshot is accepted or not; the book follows the store.
IngestSourceState ==
  LET answer == Head(channel)
      c == answer.candidate
      snapshot == [candidate |-> c, payload |-> answer.payload, received |-> answer.received,
                   validUntil |-> answer.validUntil, sequence |-> sequences[c] + 1]
  IN  /\ channel # <<>>
      /\ channel' = Tail(channel)
      /\ sequences' = [sequences EXCEPT ![c] = @ + 1]
      /\ IF Acceptance(snapshot, clock) = "Accepted"
         THEN /\ store' = [store EXCEPT ![c] = snapshot]
              /\ book' = [book EXCEPT ![c] = ExposureAfter(@, snapshot.sequence, snapshot.payload)]
         ELSE UNCHANGED <<store, book>>
      /\ UNCHANGED <<clock, source, inFlight>>

PassTime ==
  /\ clock < MaxSourceTime
  /\ clock' = clock + 1
  /\ UNCHANGED <<source, inFlight, channel, sequences, store, book>>

SourcesNext == Trade \/ Request \/ Answer \/ IngestSourceState \/ PassTime
SourcesSpec == SourcesInit /\ [][SourcesNext]_sourceVars

-----------------------------------------------------------------------------
\* The vote of a source is the exposure of the very snapshot whose freshness
\* admits it: the decision never meets the "exposure state sequence mismatch"
\* that would end the engine (live_shadow.rs, construct_next_decision), and no
\* vote is older than MaxAge or the deadline of its tier.
VotesMatchSnapshots ==
  \A c \in Candidates : Fresh(c) =>
    /\ book[c].sequence = store[c].sequence
    /\ book[c].payload = store[c].payload
    /\ clock - store[c].received <= MaxAge
=============================================================================
