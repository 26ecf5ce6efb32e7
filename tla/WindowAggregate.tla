---------------------------- MODULE WindowAggregate ----------------------------
(* The aggregate of the four-hour windows (railway_aggregate.rs): the bundle *)
(* a window leaves, its later finalization (finalize_qualification), and the *)
(* command that turns a bundle into a durable record and the records into a  *)
(* summary, each written to a temporary file and renamed.  The command, or   *)
(* the machine, may stop between the two.                                    *)
(*                                                                           *)
(* The windows of one trading state follow each other: the ledger of the     *)
(* next one is that of the one before, so a bundle holds every episode       *)
(* closed so far.  Time is counted in return buckets, which tile a window    *)
(* (MeasurementRun); the wall clock of the host may be set back between two  *)
(* windows.  The windows are unsigned and their books agree.                 *)
EXTENDS Integers, Sequences, FiniteSets, Functions

CONSTANTS
  WindowBuckets,      \* 48: the buckets of four hours
  HourBuckets,        \* 12
  Releases,           \* the identities a window may run under
  Episodes,           \* the portfolio episodes, by id
  Results,            \* net results an episode may close with
  MinimumObserved,    \* minimum_observation_seconds, in buckets
  MinimumEpisodes,    \* minimum_closed_episodes
  MaxWindows,         \* bound
  MaxSetBacks,        \* bound
  MaxAggregateStops   \* bound

ASSUME AggregateAssumption ==
  /\ WindowBuckets \in Nat \ {0} /\ HourBuckets \in Nat \ {0}
  /\ Results \subseteq Int /\ IsFiniteSet(Episodes)

VARIABLES
  hostClock,
  settled,            \* the ledger's closed episodes: their net results
  bundles,
  records,            \* the durable records, by window
  summary,            \* the durable summary, or NoSummary
  call,               \* the window whose record is written but not the summary, or 0
  setBacks,
  aggregateStops

aggregateVars == <<hostClock, settled, bundles, records, summary, call, setBacks, aggregateStops>>

NoSummary == [windows |-> {}]
Windows == DOMAIN bundles

AggregateInit ==
  /\ hostClock = 1 /\ settled = <<>>
  /\ bundles = <<>> /\ records = <<>> /\ summary = NoSummary
  /\ call = 0 /\ setBacks = 0 /\ aggregateStops = 0

-----------------------------------------------------------------------------
\* The window that starts now runs for `elapsed' and closes some of the
\* episodes.  A window that is cut off leaves what its last checkpoint wrote
\* and no terminal summary; the trading state is saved before a checkpoint, so
\* what the bundle holds is never ahead of the state.
WindowRuns ==
  /\ Len(bundles) < MaxWindows
  /\ \E elapsed \in 1..WindowBuckets, release \in Releases, ended \in BOOLEAN,
        closing \in SUBSET (Episodes \ DOMAIN settled) :
     \E results \in [closing -> Results] :
       /\ settled' = [e \in DOMAIN settled \union closing |-> IF e \in closing THEN results[e] ELSE settled[e]]
       /\ bundles' = Append(bundles,
            [start |-> hostClock, release |-> release, ended |-> ended, finalized |-> FALSE, report |-> FALSE,
             elapsed |-> IF ended THEN elapsed ELSE 0,
             closed |-> IF ended THEN settled' ELSE settled])
       /\ hostClock' = hostClock + elapsed
  /\ UNCHANGED <<records, summary, call, setBacks, aggregateStops>>

\* The clock of the host is set back by one bucket.
ClockSetBack ==
  /\ setBacks < MaxSetBacks
  /\ setBacks' = setBacks + 1 /\ hostClock' = hostClock - 1
  /\ UNCHANGED <<settled, bundles, records, summary, call, aggregateStops>>

\* finalize_qualification verifies the evidence of a bundle with a terminal
\* summary, rewrites that summary, and then copies the isolation report.
FinalizeTerminal(w) ==
  /\ bundles[w].ended
  /\ bundles' = [bundles EXCEPT ![w].finalized = TRUE]
  /\ UNCHANGED <<hostClock, settled, records, summary, call, setBacks, aggregateStops>>

FinalizeReport(w) ==
  /\ bundles[w].finalized
  /\ bundles' = [bundles EXCEPT ![w].report = TRUE]
  /\ UNCHANGED <<hostClock, settled, records, summary, call, setBacks, aggregateStops>>

-----------------------------------------------------------------------------
\* load_window_record: the hash of the record covers every file of the bundle.
RecordOf(w) ==
  LET bundle == bundles[w]
  IN  [bundle |-> bundle,
       verified |-> bundle.finalized,
       completed |-> bundle.finalized /\ bundle.elapsed >= WindowBuckets]

\* load_window_records, sort_window_records: the order of the windows, and
\* which of them are next to each other in it.
StartsBefore(found, v, w) ==
  \/ found[v].bundle.start < found[w].bundle.start
  \/ found[v].bundle.start = found[w].bundle.start /\ v < w
Neighbours(found, v, w) ==
  StartsBefore(found, v, w) /\ ~\E u \in DOMAIN found : StartsBefore(found, v, u) /\ StartsBefore(found, u, w)

\* The windows whose episodes count.
VerifiedWindows(found) == {w \in DOMAIN found : found[w].verified}

\* insert_identical: the episodes of all verified windows, each once.
ClosedOf(found) ==
  UNION {{<<e, found[w].bundle.closed[e]>> : e \in DOMAIN found[w].bundle.closed} : w \in VerifiedWindows(found)}

\* The checks of summarize: one identity, neighbours that do not
\* overlap, and no episode with two contents.
Summarizable(found) ==
  /\ \A v, w \in DOMAIN found : found[v].bundle.release = found[w].bundle.release
  /\ \A v, w \in DOMAIN found :
       Neighbours(found, v, w) => found[v].bundle.start + found[v].bundle.elapsed <= found[w].bundle.start
  /\ \A p, q \in ClosedOf(found) : p[1] = q[1] => p = q

\* Fault: the results of every verified window are added up.
NetOfWindows(found) ==
  SumFunction([w \in VerifiedWindows(found) |-> SumFunction(found[w].bundle.closed)])
\* cumulative_net_pnl
NetOf(found) == SumFunction([episode \in ClosedOf(found) |-> episode[2]])

\* completed_observation_seconds
Observed(found) == WindowBuckets * Cardinality({w \in DOMAIN found : found[w].completed})
\* one_hour_return_count: the full hours of the verified windows.
FullHours(found) ==
  SumFunction([w \in VerifiedWindows(found) |-> found[w].bundle.elapsed \div HourBuckets])

Summarized(found) ==
  [windows |-> DOMAIN found, observed |-> Observed(found), hours |-> FullHours(found),
   episodes |-> Cardinality(ClosedOf(found)), net |-> NetOf(found),
   recordComplete |-> Observed(found) >= MinimumObserved /\ Cardinality(ClosedOf(found)) >= MinimumEpisodes]

-----------------------------------------------------------------------------
\* Fault: the record is made durable before it is checked.
WrittenUnchecked(before, candidate) == candidate
\* What is on disk after the first write: a refused candidate is not written.
RecordsWritten(before, candidate) == IF Summarizable(candidate) THEN candidate ELSE before

\* aggregate_window_record for a bundle not seen before, up to its first write.
AggregateNew(w) ==
  /\ call = 0 /\ w \notin DOMAIN records
  /\ LET candidate == [v \in DOMAIN records \union {w} |-> IF v = w THEN RecordOf(w) ELSE records[v]]
     IN  /\ records' = RecordsWritten(records, candidate)
         /\ call' = IF Summarizable(candidate) THEN w ELSE 0
  /\ UNCHANGED <<hostClock, settled, bundles, summary, setBacks, aggregateStops>>

\* A recorded window must be the very same; only the summary is written again.
KnownIdentical(w) == w \in DOMAIN records /\ records[w] = RecordOf(w)

AggregateAgain(w) ==
  /\ call = 0 /\ KnownIdentical(w) /\ Summarizable(records)
  /\ call' = w
  /\ UNCHANGED <<hostClock, settled, bundles, records, summary, setBacks, aggregateStops>>

WriteSummary ==
  /\ call # 0
  /\ summary' = Summarized(records) /\ call' = 0
  /\ UNCHANGED <<hostClock, settled, bundles, records, setBacks, aggregateStops>>

\* The command stops before its second write.
StopAggregate ==
  /\ call # 0 /\ aggregateStops < MaxAggregateStops
  /\ aggregateStops' = aggregateStops + 1 /\ call' = 0
  /\ UNCHANGED <<hostClock, settled, bundles, records, summary, setBacks>>

AggregateNext ==
  \/ WindowRuns
  \/ ClockSetBack
  \/ \E w \in Windows : FinalizeTerminal(w)
  \/ \E w \in Windows : FinalizeReport(w)
  \/ \E w \in Windows : AggregateNew(w)
  \/ \E w \in Windows : AggregateAgain(w)
  \/ WriteSummary
  \/ StopAggregate

AggregateSpec == AggregateInit /\ [][AggregateNext]_aggregateVars

-----------------------------------------------------------------------------
\* "A bad candidate must not poison every later aggregate attempt": whatever
\* is aggregated, and wherever a command stopped, any two windows on disk are
\* of one release and did not run at the same time, and no episode is there
\* with two results, so the next aggregate can be made.
RecordsStaySound ==
  /\ \A v, w \in DOMAIN records :
       v # w => /\ records[v].bundle.release = records[w].bundle.release
                /\ \/ records[v].bundle.start + records[v].bundle.elapsed <= records[w].bundle.start
                   \/ records[w].bundle.start + records[w].bundle.elapsed <= records[v].bundle.start
  /\ \A e \in Episodes, v, w \in VerifiedWindows(records) :
       e \in DOMAIN records[v].bundle.closed \intersect DOMAIN records[w].bundle.closed
         => records[v].bundle.closed[e] = records[w].bundle.closed[e]

\* Every window repeats the episodes of those before it, a window may be left
\* out or refused, and a summary may be older than the records: the episodes
\* and the result of a summary are always those the trading really closed by
\* the end of the last verified window in it.
SummaryCountsEpisodesOnce ==
  summary.windows # {} =>
    LET verified == {w \in summary.windows : records[w].verified}
        last == CHOOSE w \in verified : \A v \in verified : v <= w
        closed == IF verified = {} THEN <<>> ELSE bundles[last].closed
    IN  /\ summary.windows \subseteq DOMAIN records
        /\ \A e \in DOMAIN closed : closed[e] = settled[e]
        /\ summary.episodes = Cardinality(DOMAIN closed)
        /\ summary.net = SumFunction(closed)
=============================================================================
