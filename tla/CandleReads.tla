------------------------------ MODULE CandleReads ------------------------------
(* The candles that the public transport reads on the back of a source state *)
(* (public_mainnet.rs): one asset per batch, requested before it is read,    *)
(* and handed to the technical engine (technical.rs) only when the scheduler *)
(* still accepts the answer it came with.  Assets are numbered in the order  *)
(* of their names; an interval is its duration; a candle is its place k in   *)
(* its interval, opening at k * interval, and what it said when it was read. *)
EXTENDS Integers, FiniteSets, FiniteSetsExt, TLC

CONSTANTS
  Sources, Holdings,   \* candidates, and sets of assets they may hold
  Intervals,           \* CandleInterval::ALL
  History,             \* warmup_candles + 2
  FinalityDelay,       \* CLOSED_CANDLE_FINALITY_DELAY_MS
  BatchInterval,       \* TECHNICAL_BATCH_INTERVAL_MS
  Universes,           \* metadata: volume of each asset, -1 when it has none
  UniverseLimit,       \* TECHNICAL_UNIVERSE_LIMIT
  SourceValidity,      \* source_deadline_ms
  FutureSkew,          \* five seconds
  RequestLifetime,     \* expires_at - created_at
  FirstWallTime, MaxWallTime, MaxSourceReads   \* bounds

ASSUME CandleAssumption ==
  /\ Intervals \subseteq Nat \ {0} /\ History \in Nat \ {0}
  /\ FinalityDelay \in Nat /\ BatchInterval \in Nat /\ UniverseLimit \in Nat
  /\ FirstWallTime \in Nat
  /\ \A i \in Intervals : FinalityDelay <= (History - 2) * i + 1   \* 5 s; minutes and hours

VARIABLES
  wallTime,
  listed,             \* market_assets
  technicalAssets,    \* TechnicalCandleFetchState::technical_assets
  heldBySource,       \* source_assets_by_candidate
  requested,          \* requested_buckets, -1 when absent
  lastBatch,          \* last_batch_started_ms, or -1
  sourceReads,        \* the read of each source
  readsSent,
  candles,            \* accepted by the engine, of each asset and interval
  candlesEnded,       \* an invalid candle has ended the run
  discarded           \* history: bucket last read in an answer that came too late

candleVars == <<wallTime, listed, technicalAssets, heldBySource, requested, lastBatch, sourceReads,
                readsSent, candles, candlesEnded, discarded>>

AssetNumbers == UNION {DOMAIN u : u \in Universes} \cup UNION Holdings
Series == AssetNumbers \X Intervals
Idle == [phase |-> "Idle", sent |-> 0, asset |-> 0, intervals |-> {}, at |-> 0, received |-> 0, brought |-> {}]

\* The bucket of an interval: how many of its candles are final.
CloseBucket(interval, now) == (IF now > FinalityDelay THEN now - FinalityDelay ELSE 0) \div interval

AllAssets(technical, held) == technical \cup UNION {held[s] : s \in Sources}
Kept(marks, assets) == [x \in Series |-> IF x[1] \in assets THEN marks[x] ELSE -1]

CandleInit ==
  /\ wallTime = FirstWallTime /\ listed = {} /\ technicalAssets = {}
  /\ heldBySource = [s \in Sources |-> {}]
  /\ requested = [x \in Series |-> -1] /\ lastBatch = -1
  /\ sourceReads = [s \in Sources |-> Idle] /\ readsSent = 0
  /\ candles = [x \in Series |-> {}] /\ candlesEnded = FALSE
  /\ discarded = [x \in Series |-> -1]

-----------------------------------------------------------------------------
\* ranked_technical_assets: by volume, those without one last, ties by name.
Ranked(volumes) ==
  LET Before(a, b) == volumes[a] > volumes[b] \/ (volumes[a] = volumes[b] /\ a < b)
  IN  {a \in DOMAIN volumes : Cardinality({b \in DOMAIN volumes : Before(b, a)}) < UniverseLimit}

\* parse_payload of the metadata.
ReadMetadata ==
  /\ ~candlesEnded
  /\ \E volumes \in Universes :
       /\ listed' = DOMAIN volumes /\ technicalAssets' = Ranked(volumes)
       /\ requested' = Kept(requested, AllAssets(technicalAssets', heldBySource))
  /\ UNCHANGED <<wallTime, readsSent, heldBySource, lastBatch, sourceReads, candles, candlesEnded, discarded>>

SendSourceRead(s) ==
  /\ ~candlesEnded /\ sourceReads[s].phase = "Idle" /\ readsSent < MaxSourceReads
  /\ readsSent' = readsSent + 1
  /\ sourceReads' = [sourceReads EXCEPT ![s] = [Idle EXCEPT !.phase = "Sent", !.sent = wallTime]]
  /\ UNCHANGED <<wallTime, listed, technicalAssets, heldBySource, requested, lastBatch, candles, candlesEnded, discarded>>

\* parse_source_state_with_metadata, and the age that perform allows.
Admissible(held, equity, sourceTime) ==
  /\ sourceTime <= wallTime + FutureSkew
  /\ listed # {} => held \subseteq listed
  /\ equity >= 0 /\ (equity = 0 => held = {})
  /\ wallTime - sourceTime <= SourceValidity

\* The transport, the status of the answer, its length or its contents, also
\* contents that are not admissible, end the read before it touches anything.
SourceReadFails(s) ==
  /\ sourceReads[s].phase = "Sent"
  /\ sourceReads' = [sourceReads EXCEPT ![s] = Idle]
  /\ UNCHANGED <<wallTime, readsSent, listed, technicalAssets, heldBySource, requested, lastBatch, candles, candlesEnded, discarded>>

\* Intervals of an asset whose bucket has moved on since it was requested.
Due(marks, asset) == {i \in Intervals : marks[<<asset, i>>] < CloseBucket(i, wallTime)}

\* fetch_due_source_candles up to its first request: the positions replace
\* those known of the source, and the first asset that is due is requested.
SourceStateArrives(s) ==
  /\ sourceReads[s].phase = "Sent"
  /\ \E held \in {h \in Holdings : \E equity \in {0, 1}, sourceTime \in 0..(wallTime + FutureSkew + 1) :
                      Admissible(h, equity, sourceTime)} :
       LET known == [heldBySource EXCEPT ![s] = held]
           assets == AllAssets(technicalAssets, known)
           marks == Kept(requested, assets)
           due == {a \in assets : Due(marks, a) # {}}
           waits == lastBatch # -1 /\ wallTime - lastBatch < BatchInterval
       IN  /\ heldBySource' = known
           /\ IF waits \/ due = {}
              THEN /\ requested' = marks
                   /\ sourceReads' = [sourceReads EXCEPT ![s].phase = "Answered", ![s].received = wallTime]
                   /\ UNCHANGED lastBatch
              ELSE LET asset == Min(due)
                       intervals == Due(marks, asset)
                   IN  /\ requested' = [x \in Series |->
                             IF x[1] = asset /\ x[2] \in intervals THEN CloseBucket(x[2], wallTime) ELSE marks[x]]
                       /\ lastBatch' = wallTime
                       /\ sourceReads' = [sourceReads EXCEPT ![s] =
                             [@ EXCEPT !.phase = "Fetching", !.asset = asset, !.intervals = intervals, !.at = wallTime]]
  /\ UNCHANGED <<wallTime, readsSent, listed, technicalAssets, candles, candlesEnded, discarded>>

-----------------------------------------------------------------------------
\* parse_candle_snapshot: a candle counts some time after it has closed.
FinalAt(interval, k, now) == (k + 1) * interval + FinalityDelay <= now

\* The exchange's candles from `History' intervals before the reservation: a
\* candle may still be corrected for as long as FinalityDelay.
Snapshot(interval, reserved) ==
  LET start == reserved - interval * History
  IN  {[k |-> k, corrected |-> (k + 1) * interval + FinalityDelay <= wallTime] :
         k \in {k \in 0..(wallTime \div interval) : k * interval >= start /\ FinalAt(interval, k, reserved)}}

\* Fault: what could not be read stays requested.
StillMarked(marks, asset, failed) == marks
\* What could not be read is due again.
Unmarked(marks, asset, failed) == [x \in Series |-> IF x[1] = asset /\ x[2] \in failed THEN -1 ELSE marks[x]]

\* The rest of fetch_due_source_candles: a snapshot of each interval, any of
\* which may fail.
CandlesArrive(s) ==
  LET read == sourceReads[s]
  IN  /\ read.phase = "Fetching"
      /\ \E failed \in SUBSET read.intervals :
           /\ sourceReads' = [sourceReads EXCEPT ![s].phase = "Answered", ![s].received = wallTime,
                 ![s].brought = UNION {{[i |-> i, k |-> c.k, corrected |-> c.corrected] :
                                          c \in Snapshot(i, read.at)} : i \in read.intervals \ failed}]
           /\ requested' = Unmarked(requested, read.asset, failed)
      /\ UNCHANGED <<wallTime, readsSent, listed, technicalAssets, heldBySource, lastBatch, candles, candlesEnded, discarded>>

\* accept_closed_candle refuses another content of a candle it has, and one
\* older than the last that it does not have.
Refused(asset, c) ==
  LET series == candles[<<asset, c.i>>]
  IN  \/ \E d \in series : d.k = c.k /\ d.corrected # c.corrected
      \/ (\A d \in series : d.k # c.k) /\ (\E d \in series : d.k > c.k)

\* finish, and the ingestion of what it accepts.
FinishSourceRead(s) ==
  LET read == sourceReads[s]
      fresh == wallTime <= read.received + SourceValidity /\ wallTime < read.sent + RequestLifetime
  IN  /\ read.phase = "Answered" /\ ~candlesEnded
      /\ sourceReads' = [sourceReads EXCEPT ![s] = Idle]
      /\ \E superseded \in BOOLEAN :
           IF fresh /\ ~superseded
           THEN /\ candlesEnded' = \E c \in read.brought : Refused(read.asset, c)
                /\ candles' = [x \in Series |->
                      IF x[1] # read.asset \/ candlesEnded' THEN candles[x]
                      ELSE candles[x] \cup {[k |-> c.k, corrected |-> c.corrected] : c \in {b \in read.brought : b.i = x[2]}}]
                /\ UNCHANGED discarded
           ELSE /\ discarded' = [x \in Series |->
                      IF x[1] = read.asset /\ x[2] \in read.intervals
                      THEN Max({discarded[x], CloseBucket(x[2], read.at)}) ELSE discarded[x]]
                /\ UNCHANGED <<candles, candlesEnded>>
      /\ UNCHANGED <<wallTime, readsSent, listed, technicalAssets, heldBySource, requested, lastBatch>>

WallTimePasses ==
  /\ wallTime < MaxWallTime
  /\ wallTime' = wallTime + 1
  /\ UNCHANGED <<readsSent, listed, technicalAssets, heldBySource, requested, lastBatch, sourceReads, candles, candlesEnded, discarded>>

CandleNext ==
  \/ ReadMetadata \/ WallTimePasses
  \/ \E s \in Sources : \/ SendSourceRead(s) \/ SourceReadFails(s) \/ SourceStateArrives(s)
                        \/ CandlesArrive(s) \/ FinishSourceRead(s)
CandleSpec == CandleInit /\ [][CandleNext]_candleVars

-----------------------------------------------------------------------------
\* A series that is requested as read has its last final candle in the engine,
\* in a read under way, or in an answer that the scheduler discarded: a
\* failed request, an asset that comes and goes, or two reads at once never
\* leave it requested and unread (fetch_due_source_candles).
MarkedCandlesArrive ==
  \A x \in Series : requested[x] > 0 /\ ~candlesEnded =>
    \/ \E c \in candles[x] : c.k = requested[x] - 1
    \/ \E s \in Sources :
         LET read == sourceReads[s]
         IN  /\ read.asset = x[1] /\ x[2] \in read.intervals
             /\ \/ read.phase = "Fetching" /\ CloseBucket(x[2], read.at) = requested[x]
                \/ read.phase = "Answered" /\ \E c \in read.brought : c.i = x[2] /\ c.k = requested[x] - 1
    \/ discarded[x] >= requested[x]
=============================================================================
