----------------------------- MODULE MeasurementRun -----------------------------
(* The clock side of a qualification run (qualification.rs): the turns of    *)
(* its loop, the equity boundaries that cut the run into return buckets, the *)
(* draining of the reads still in flight, the gate of its stage and the      *)
(* later finalization of its bundle.  The engine is reduced to what its      *)
(* equity depends on (live_shadow.rs): the mark of one unit held throughout, *)
(* and the funding charged on it at a rate of one per unit of time.          *)
EXTENDS Integers, Sequences, FiniteSets, SequencesExt

CONSTANTS
  Stages,           \* subset of {"Profitability", "MicroDensity", "Transport", "Plain"}
  RunLength,        \* duration_seconds of each stage
  BucketLength,     \* five minutes
  BucketTarget,     \* 48
  DecisionCadence,  \* 20 seconds
  DecisionGrace,    \* 40 seconds
  Marks,            \* prices a read may bring
  MaxReadsMade,     \* bound
  MaxRunTime        \* bound

ASSUME MeasurementAssumption ==
  /\ BucketLength \in Nat \ {0} /\ BucketTarget \in Nat \ {0} /\ DecisionCadence \in Nat \ {0}
  /\ RunLength \in [Stages -> Nat \ {0}] /\ Marks \subseteq Int
  /\ "Profitability" \in Stages => RunLength["Profitability"] = BucketTarget * BucketLength

VARIABLES
  stage,
  runPhase,         \* "Top", "Waiting", "Draining", "Ended", "Finalized"
  runTime,
  reads,            \* those in flight: kind, mark, the time of the answer or -1
  readsMade,
  equity,           \* [mark, charged, chargedUntil, rated]: last_funding_accrual is -1 when None
  bucketDue,        \* profitability_bucket_due
  decisionDue,
  boundaries,       \* the equity boundaries: [at, worth]; two neighbours are a bucket
  interrupted,
  verdict           \* [gate, ok, elapsed, passed] of the ended run

measurementVars == <<stage, runPhase, runTime, reads, readsMade, equity, bucketDue, decisionDue,
                     boundaries, interrupted, verdict>>

Deadline == RunLength[stage]
Buckets == Len(boundaries) - 1
Worth(e) == e.mark - e.charged
TakesBoundaries == stage \in {"Profitability", "MicroDensity"}
\* Only the four-hour stage takes a boundary before its loop: the first bucket
\* of the other begins with the first boundary of the loop.
FirstAt == IF stage = "Profitability" THEN 0 ELSE BucketLength

-----------------------------------------------------------------------------
\* accrue_funding: nothing before the first accrual, before the rates are
\* known, or for a time that is not later than the last accrual.
Accrued(e, now) ==
  IF e.chargedUntil = -1 \/ (now > e.chargedUntil /\ ~e.rated) THEN [e EXCEPT !.chargedUntil = now]
  ELSE IF now <= e.chargedUntil THEN e
  ELSE [e EXCEPT !.charged = @ + (now - e.chargedUntil), !.chargedUntil = now]

\* ingest of an answer that arrived at `at': mids, rates, or an answer that
\* makes the engine decide (a book, a closed candle).
Ingested(e, read) ==
  CASE read.kind = "Mids" -> [e EXCEPT !.mark = read.mark]
    [] read.kind = "Metadata" -> [Accrued(e, read.at) EXCEPT !.rated = TRUE, !.chargedUntil = read.at]
    [] read.kind = "Deciding" -> Accrued(e, read.at)

\* Fault: the boundary is dated with the time at which it is taken.
BoundaryLate(due, now) == now
\* The date of a boundary taken in the loop at `now'.
BoundaryDate(due, now) == due

MeasurementInit ==
  /\ stage \in Stages
  /\ runPhase = "Top" /\ runTime = 0 /\ reads = {} /\ readsMade = 0
  /\ bucketDue = BucketLength /\ decisionDue = 0
  /\ \E mark \in Marks :
       equity = [mark |-> mark, charged |-> 0, chargedUntil |-> IF FirstAt = 0 THEN 0 ELSE -1, rated |-> FALSE]
  /\ boundaries = IF FirstAt = 0 THEN <<[at |-> 0, worth |-> Worth(equity)]>> ELSE <<>>
  /\ interrupted = FALSE
  /\ verdict = [gate |-> FALSE, ok |-> FALSE, elapsed |-> 0, passed |-> FALSE]

\* The condition of the loop; what is due is then read, within the budget.
LoopTop ==
  /\ runPhase = "Top"
  /\ runPhase' = IF runTime < Deadline THEN "Waiting" ELSE "Draining"
  /\ \E kinds \in {k \in SUBSET {"Mids", "Metadata", "Deciding"} : readsMade + Cardinality(k) <= MaxReadsMade} :
       /\ runTime >= Deadline => kinds = {}
       /\ kinds \cap {r.kind : r \in reads} = {}
       /\ reads' = reads \cup {[kind |-> k, mark |-> 0, at |-> -1] : k \in kinds}
       /\ readsMade' = readsMade + Cardinality(kinds)
  /\ UNCHANGED <<stage, runTime, equity, bucketDue, decisionDue, boundaries, interrupted, verdict>>

\* A task of the transport has its answer; the loop takes it later.
Answered ==
  /\ runPhase \in {"Waiting", "Draining"}
  /\ \E r \in reads : r.at = -1 /\ \E mark \in IF r.kind = "Mids" THEN Marks ELSE {0} :
       reads' = (reads \ {r}) \cup {[r EXCEPT !.mark = mark, !.at = runTime]}
  /\ UNCHANGED <<stage, runPhase, runTime, readsMade, equity, bucketDue, decisionDue, boundaries, interrupted, verdict>>

RunTimePasses ==
  /\ runPhase \in {"Waiting", "Draining"} /\ runTime < MaxRunTime
  /\ runTime' = runTime + 1
  /\ UNCHANGED <<stage, runPhase, reads, readsMade, equity, bucketDue, decisionDue, boundaries, interrupted, verdict>>

\* The rest of a turn once its wait is over: an answer or the sleep, then the
\* decision, then one boundary when it is due.
Turn ==
  \E taken \in {{}} \cup {{r} : r \in {r \in reads : r.at # -1}} :
    LET ingested == IF taken = {} THEN equity ELSE Ingested(equity, CHOOSE r \in taken : TRUE)
        decides == runTime >= decisionDue /\ runTime + DecisionGrace < Deadline
        decided == IF decides THEN Accrued(ingested, runTime) ELSE ingested
        cuts == TakesBoundaries /\ runTime >= bucketDue
        date == BoundaryDate(bucketDue, runTime)
        cut == Accrued(decided, date)
    IN  /\ runPhase = "Waiting"
        /\ reads' = reads \ taken
        /\ equity' = IF cuts THEN cut ELSE decided
        /\ decisionDue' = IF decides THEN runTime + DecisionCadence ELSE decisionDue
        /\ bucketDue' = IF cuts THEN bucketDue + BucketLength ELSE bucketDue
        /\ boundaries' = IF cuts THEN Append(boundaries, [at |-> date, worth |-> Worth(cut)]) ELSE boundaries
        /\ runPhase' = "Top"
        /\ UNCHANGED <<stage, runTime, readsMade, interrupted, verdict>>

\* ctrl_c ends the loop from within the wait.
Interrupt ==
  /\ runPhase = "Waiting"
  /\ interrupted' = TRUE /\ runPhase' = "Draining"
  /\ UNCHANGED <<stage, runTime, reads, readsMade, equity, bucketDue, decisionDue, boundaries, verdict>>

\* The reads in flight are awaited one by one and ingested.
Drain ==
  /\ runPhase = "Draining"
  /\ \E r \in reads : r.at # -1 /\ reads' = reads \ {r} /\ equity' = Ingested(equity, r)
  /\ UNCHANGED <<stage, runPhase, runTime, readsMade, bucketDue, decisionDue, boundaries, interrupted, verdict>>

-----------------------------------------------------------------------------
\* The last boundary is taken only of a run that was not interrupted.
ClosesTheWindow == TakesBoundaries /\ ~interrupted

LastAt == IF boundaries = <<>> THEN -1 ELSE Last(boundaries).at

\* The last boundary; an error when there was none before, or when the last
\* lies after the deadline.
CannotClose == ClosesTheWindow /\ (boundaries = <<>> \/ LastAt > Deadline)
ClosesNow == ClosesTheWindow /\ ~CannotClose /\ LastAt < Deadline
Closed(e) == IF ClosesNow THEN Accrued(e, Deadline) ELSE e
ClosedBoundaries(e) ==
  IF ClosesNow THEN Append(boundaries, [at |-> Deadline, worth |-> Worth(Closed(e))])
  ELSE boundaries

\* The gate of each stage; `measured' stands for the conditions on coverage,
\* budget, roots and episodes that this module does not model.
GatePasses(measured, cuts, e) ==
  CASE stage = "Profitability" -> /\ measured /\ runTime >= BucketTarget * BucketLength
                                  /\ Len(cuts) - 1 = BucketTarget
                                  /\ Last(cuts).worth = Worth(e)   \* terminal_equity_matches_final_bucket
    [] stage = "MicroDensity" -> measured /\ runTime >= RunLength["MicroDensity"]
    [] stage = "Transport" -> measured
    [] stage = "Plain" -> TRUE

\* From the end of the drain to the end of run_qualification.
EndRun ==
  \E measured \in BOOLEAN :
    LET last == Closed(equity)
        cuts == ClosedBoundaries(equity)
        gate == GatePasses(measured, cuts, last)
    IN  /\ runPhase = "Draining" /\ reads = {}
        /\ runPhase' = IF CannotClose THEN "Finalized" ELSE "Ended"   \* without a terminal summary
        /\ equity' = last /\ boundaries' = cuts
        /\ verdict' = [gate |-> gate, ok |-> gate /\ ~interrupted /\ ~CannotClose, elapsed |-> runTime, passed |-> FALSE]
        /\ UNCHANGED <<stage, runTime, reads, readsMade, bucketDue, decisionDue, interrupted>>

\* finalize_qualification: the summaries are read again, days later.  The
\* gate of the transport stage is not among them.
FinalPasses(holds) ==
  /\ holds /\ verdict.elapsed >= Deadline
  /\ stage \in {"Profitability", "MicroDensity"} => verdict.gate

Finalize ==
  /\ runPhase = "Ended"
  /\ runPhase' = "Finalized"
  /\ \E holds \in BOOLEAN : verdict' = [verdict EXCEPT !.passed = FinalPasses(holds)]
  /\ UNCHANGED <<stage, runTime, reads, readsMade, equity, bucketDue, decisionDue, boundaries, interrupted>>

MeasurementNext ==
  LoopTop \/ Answered \/ RunTimePasses \/ Turn \/ Interrupt \/ Drain \/ EndRun \/ Finalize
MeasurementSpec == MeasurementInit /\ [][MeasurementNext]_measurementVars

-----------------------------------------------------------------------------
\* The buckets of a run tile its window however late the turns come: every
\* boundary but the last lies on the grid, each follows the one before it,
\* and a run that ends undisturbed is covered up to its deadline
\* (profitability_bucket_due, the final boundary of run_qualification).
BucketsTileTheWindow ==
  TakesBoundaries =>
    /\ \A i \in 1..(Len(boundaries) - 1) :
         boundaries[i].at = FirstAt + (i - 1) * BucketLength /\ boundaries[i].at < boundaries[i + 1].at
    /\ verdict.ok => LastAt = Deadline
=============================================================================
