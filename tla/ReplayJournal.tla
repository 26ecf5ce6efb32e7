------------------------------ MODULE ReplayJournal ------------------------------
(* The journal of a qualification run (qualification_evidence.rs), what the  *)
(* run writes to it and when (qualification.rs), and the replay that feeds   *)
(* it to a new engine and compares the decisions (replay.rs).  The engine is *)
(* an operator on records, used by the run and by the replay alike: one      *)
(* source with its tier and snapshot, and the decisions it has recorded.     *)
EXTENDS Integers, Sequences

CONSTANTS
  ActiveFreshness, InactiveFreshness,  \* source_deadline_ms of each tier
  SourceVotes,                         \* votes a read may bring
  MaxJournal, MaxJournalTime           \* bounds

ASSUME JournalAssumption ==
  /\ ActiveFreshness \in Nat /\ InactiveFreshness \in Nat
  /\ ActiveFreshness <= InactiveFreshness
  /\ 0 \notin SourceVotes

VARIABLES
  engine,          \* the engine of the run
  restored,        \* the run began with the state of an earlier one
  reading,         \* the read in flight, or NoReading
  overtaken,       \* history: the tier changed while a read was in flight
  journal,         \* replay-events.jsonl
  synced,          \* events that survive a crash of the machine
  journalPhase,    \* "Running", "Ended", "Crashed", "Accepted", "Rejected"
  headFile,        \* replay-event-chain-head.txt: the length it seals, or -1
  torn,            \* the last line on disk is incomplete
  journalClock

journalVars == <<engine, restored, reading, overtaken, journal, synced, journalPhase, headFile, torn, journalClock>>

SourceTiers == {"Active", "Inactive"}
FreshnessOf(tier) == IF tier = "Active" THEN ActiveFreshness ELSE InactiveFreshness
NoReading == [tier |-> "Inactive", at |-> -1, vote |-> 0, made |-> -1]
NoSnapshotYet == [at |-> -1, until |-> -1, vote |-> 0]

\* LiveShadowEngine::new, and its decision state after restore_unsigned_state:
\* the versions go on, the records begin again.
NewEngine(version, vote) ==
  [tier |-> "Inactive", snapshot |-> NoSnapshotYet, version |-> version, vote |-> vote, records |-> <<>>]

WithTier(e, tier) == [e EXCEPT !.tier = tier]

\* ingest of a source: the store refuses what has expired by then.
WithResponse(e, response, now) ==
  LET until == response.at + FreshnessOf(response.tier)
  IN  IF now > until THEN e
      ELSE [e EXCEPT !.snapshot = [at |-> response.at, until |-> until, vote |-> response.vote]]

\* fresh_source: valid by its own tier's deadline and by that of the tier now.
VoteNow(e, now) ==
  IF e.snapshot.at # -1 /\ now <= e.snapshot.until /\ now - e.snapshot.at <= FreshnessOf(e.tier)
  THEN e.snapshot.vote ELSE 0

\* construct_next_decision: a decision that differs from the last has a new
\* version; each is recorded.
Decided(e, now) ==
  LET vote == VoteNow(e, now)
      version == IF vote = e.vote THEN e.version ELSE e.version + 1
  IN  [tier |-> e.tier, snapshot |-> e.snapshot, version |-> version, vote |-> vote,
       records |-> Append(e.records, [version |-> version, vote |-> vote])]

TierSet(tier, now) == [kind |-> "TierSet", at |-> now, response |-> NoReading, tier |-> tier]
AcceptedResponse(response, now) == [kind |-> "Accepted", at |-> now, response |-> response, tier |-> "Inactive"]
DecisionTick(now) == [kind |-> "Tick", at |-> now, response |-> NoReading, tier |-> "Inactive"]

\* One event in replay_density_rungs: a response first sets the tier of its
\* source to the tier it was requested with.
ReplayedEvent(e, event) ==
  CASE event.kind = "TierSet" -> WithTier(e, event.tier)
    [] event.kind = "Accepted" -> WithResponse(WithTier(e, event.response.tier), event.response, event.at)
    [] event.kind = "Tick" -> Decided(e, event.at)

\* What a new engine is after the events, one after the other.
Replayed(events) ==
  LET after[n \in 0..Len(events)] ==
        IF n = 0 THEN NewEngine(0, 0) ELSE ReplayedEvent(after[n - 1], events[n])
  IN  after[Len(events)]

-----------------------------------------------------------------------------
JournalInit ==
  /\ restored \in BOOLEAN
  /\ \E tier \in SourceTiers :
       /\ engine = WithTier(IF restored THEN NewEngine(1, CHOOSE v \in SourceVotes : TRUE) ELSE NewEngine(0, 0), tier)
       /\ journal = <<TierSet(tier, 0)>>
  /\ reading = NoReading /\ overtaken = FALSE
  /\ synced = 0 /\ headFile = -1 /\ torn = FALSE /\ journalPhase = "Running" /\ journalClock = 0

Running == journalPhase = "Running" /\ Len(journal) < MaxJournal
KeepsFiles == UNCHANGED <<synced, journalPhase, headFile, torn>>

\* Fault: only the first tier of a source is written.
WithoutTheTier(events, tier, now) == events
\* A changed tier is written before the engine gets it.
WithTheTier(events, tier, now) == Append(events, TierSet(tier, now))

\* A rebalance of the tiers: only a change is written.
SetTier ==
  \E tier \in SourceTiers \ {engine.tier} :
    /\ Running
    /\ engine' = WithTier(engine, tier)
    /\ journal' = WithTheTier(journal, tier, journalClock)
    /\ overtaken' = (overtaken \/ reading # NoReading)
    /\ UNCHANGED <<restored, reading, journalClock>> /\ KeepsFiles

\* enqueue and begin_next: the request carries the tier of its source.
RequestSource ==
  /\ Running /\ reading = NoReading
  /\ reading' = [NoReading EXCEPT !.tier = engine.tier, !.made = journalClock]
  /\ UNCHANGED <<engine, restored, overtaken, journal, journalClock>> /\ KeepsFiles

SourceAnswers ==
  /\ reading.made # -1 /\ reading.at = -1
  /\ \E vote \in SourceVotes : reading' = [reading EXCEPT !.at = journalClock, !.vote = vote]
  /\ UNCHANGED <<engine, restored, overtaken, journal, journalClock>> /\ KeepsFiles

TakeResponse ==
  /\ Running /\ reading.at # -1
  /\ journal' = Append(journal, AcceptedResponse(reading, journalClock))
  /\ engine' = WithResponse(engine, reading, journalClock)
  /\ reading' = NoReading
  /\ UNCHANGED <<restored, overtaken, journalClock>> /\ KeepsFiles

Tick ==
  /\ Running
  /\ journal' = Append(journal, DecisionTick(journalClock))
  /\ engine' = Decided(engine, journalClock)
  /\ UNCHANGED <<restored, reading, overtaken, journalClock>> /\ KeepsFiles

JournalTimePasses ==
  /\ journalPhase = "Running" /\ journalClock < MaxJournalTime
  /\ journalClock' = journalClock + 1
  /\ UNCHANGED <<engine, restored, reading, overtaken, journal>> /\ KeepsFiles

\* append_checkpoint flushes the journal before it adds to its own chain.
Checkpoint ==
  /\ journalPhase = "Running" /\ synced # Len(journal)
  /\ synced' = Len(journal)
  /\ UNCHANGED <<engine, restored, reading, overtaken, journal, journalPhase, headFile, torn, journalClock>>

\* flush_replay_events once the reads in flight have been drained.
EndJournal ==
  /\ journalPhase = "Running" /\ reading = NoReading
  /\ synced' = Len(journal) /\ headFile' = Len(journal) /\ journalPhase' = "Ended"
  /\ UNCHANGED <<engine, restored, reading, overtaken, journal, torn, journalClock>>

\* The machine stops: what was not synced is lost, or the first lines of it
\* reached the disk and the next is cut.
CrashMachine ==
  /\ journalPhase = "Running"
  /\ \E kept \in synced..Len(journal) :
       /\ journal' = SubSeq(journal, 1, kept)
       /\ torn' \in {t \in BOOLEAN : t => kept < Len(journal)}
  /\ journalPhase' = "Crashed"
  /\ UNCHANGED <<engine, restored, reading, overtaken, synced, headFile, journalClock>>

\* verify_replay_event_chain and the comparison with the head file.
Verified == ~torn /\ journal # <<>> /\ headFile = Len(journal)

\* finalize_qualification, on the bundle of an ended run or of one that a
\* crash left behind.
FinalizeBundle ==
  /\ journalPhase \in {"Ended", "Crashed"}
  /\ journalPhase' = IF Verified THEN "Accepted" ELSE "Rejected"
  /\ UNCHANGED <<engine, restored, reading, overtaken, journal, synced, headFile, torn, journalClock>>

JournalNext ==
  \/ SetTier \/ RequestSource \/ SourceAnswers \/ TakeResponse \/ Tick
  \/ JournalTimePasses \/ Checkpoint \/ EndJournal \/ CrashMachine \/ FinalizeBundle
JournalSpec == JournalInit /\ [][JournalNext]_journalVars

-----------------------------------------------------------------------------
\* The journal of a run that began empty, in which no tier changed under a
\* read, reproduces the run's decisions at every moment: what is written
\* before each call of the engine, and the time written with it, suffice
\* (append_replay_event before ingest and construct_next_decision).
UndisturbedRunsReplay ==
  journalPhase \in {"Running", "Ended"} /\ ~restored /\ ~overtaken =>
    Replayed(journal).records = engine.records
=============================================================================
