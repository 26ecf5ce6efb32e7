------------------------- MODULE TradingPartsProofs -------------------------
(* What holds of seven parts of the trading side, for all their constants.   *)
(* ConfidenceLadder: a candidate's type, and that every rung was earned.     *)
(* SourceSnapshots: the types, and that a vote is of the snapshot that       *)
(* admits it.  SourceGate: the types, and that no sleeve takes on risk in a  *)
(* direction that has not earned it.  TradingEngine: every continuation      *)
(* finishes an order that was executed, also across restarts, and the engine *)
(* ends for nothing but an exit that is no longer needed, an increase that   *)
(* rounds to nothing or a position out of the caps.  CohortVote: the vote in *)
(* force is one the last decision would cast, and a version names one        *)
(* target.  TechnicalSignals: what was recorded last is still true of the    *)
(* target.  Rebalancing: the orders of a decision, however they fill, keep   *)
(* the caps that it was projected onto.                                      *)
EXTENDS ConfidenceLadder, SourceSnapshots, SourceGate, TradingEngine, CohortVote,
        TechnicalSignals, Rebalancing, SequenceTheorems, SetLemmas

\* What a candidate can be.
LadderCandidates == [state : CandidateStates, rung : Rungs, closed : Nat,
                     days : Nat, changedAt : Nat, windows : 0..ReentryWindows]

\* The candidate c, which started on rung b, has earned its rung.
Earned(c, b) ==
  /\ c.rung * RungEpisodes <= b * RungEpisodes + c.changedAt
  /\ c.changedAt <= c.closed
  /\ c.rung = 0 <=> c.state \notin Contributing

\* A rung is worth RungEpisodes (apply_confidence_review, RungEpisodes).
LEMMA RungWorth ==
  ASSUME NEW r \in Nat
  PROVE  /\ r * RungEpisodes \in Nat
         /\ (r + 1) * RungEpisodes = r * RungEpisodes + RungEpisodes
         /\ r > 0 => (r - 1) * RungEpisodes = r * RungEpisodes - RungEpisodes
         /\ r > 0 => RungEpisodes <= r * RungEpisodes
         /\ 0 * RungEpisodes = 0 /\ 1 * RungEpisodes = RungEpisodes
PROOF
  BY LadderAssumption

\* The state that Climbed and Held give a rung agrees with it.
LEMMA RungState ==
  ASSUME NEW r \in Rungs
  PROVE  /\ StateOfRung(r) \in CandidateStates
         /\ r = 0 <=> StateOfRung(r) \notin Contributing
PROOF
  BY LadderAssumption DEF StateOfRung, Rungs, CandidateStates, Contributing, BlockedStates

\* A candidate on another rung, in another state, and one with other counts.
Moved(c, r, s) == [c EXCEPT !.rung = r, !.state = s, !.changedAt = c.closed]
Counted(c, n, d) == [c EXCEPT !.closed = n, !.days = d]

\* What a change of rung assigns (apply_confidence_review).
LEMMA MovedFields ==
  ASSUME NEW c \in LadderCandidates, NEW r \in Rungs, NEW s \in CandidateStates
  PROVE  /\ Moved(c, r, s) \in LadderCandidates
         /\ Moved(c, r, s).rung = r /\ Moved(c, r, s).state = s
         /\ Moved(c, r, s).changedAt = c.closed /\ Moved(c, r, s).closed = c.closed
PROOF
  BY DEF LadderCandidates, Moved

\* What the counts of a review assign.
IsCounted(t, c, n) ==
  /\ t \in LadderCandidates /\ t.state = c.state /\ t.rung = c.rung
  /\ t.closed = n /\ t.changedAt = c.changedAt

LEMMA CountedFields ==
  ASSUME NEW c \in LadderCandidates, NEW n \in Nat, NEW d \in Nat
  PROVE  IsCounted(Counted(c, n, d), c, n)
PROOF
  BY DEF LadderCandidates, Counted, IsCounted

\* A change of rung by a review keeps a candidate earned: it climbs only with
\* RungEpisodes closed since the last change (increase_confidence).
LEMMA ClimbedEarned ==
  ASSUME NEW c \in LadderCandidates, NEW b \in Rungs \ {0}, Earned(c, b),
         c.closed - c.changedAt >= RungEpisodes
  PROVE  Climbed(c) \in LadderCandidates /\ Earned(Climbed(c), b)
PROOF
<1> DEFINE r == IF c.rung < TopRung THEN c.rung + 1 ELSE TopRung
<1>1. r \in Rungs /\ r \in Nat /\ r > 0 /\ r <= c.rung + 1 /\ c.rung \in Nat
  BY LadderAssumption DEF LadderCandidates, Rungs
<1>2. r = c.rung + 1 \/ r = c.rung
  BY LadderAssumption DEF LadderCandidates, Rungs
<1>3. Climbed(c) = Moved(c, r, StateOfRung(r))
  BY DEF Climbed, Moved
<1> HIDE DEF r
<1>4. b \in Nat /\ b * RungEpisodes \in Nat /\ c.rung * RungEpisodes \in Nat /\ r * RungEpisodes \in Nat
  <2>1. b \in Nat
    BY LadderAssumption DEF Rungs
  <2> QED BY <2>1, <1>1, RungWorth
<1>5. c.closed \in Nat /\ c.changedAt \in Nat /\ RungEpisodes \in Nat
  BY LadderAssumption DEF LadderCandidates
<1>6. r * RungEpisodes <= b * RungEpisodes + c.closed
  <2>1. CASE r = c.rung + 1
    <3>1. r * RungEpisodes = c.rung * RungEpisodes + RungEpisodes
      BY <2>1, <1>1, RungWorth
    <3> QED BY <3>1, <1>4, <1>5 DEF Earned
  <2>2. CASE r = c.rung
    BY <2>2, <1>4, <1>5 DEF Earned
  <2> QED BY <1>2, <2>1, <2>2
<1>7. /\ Climbed(c) \in LadderCandidates
      /\ Climbed(c).rung = r /\ Climbed(c).state = StateOfRung(r)
      /\ Climbed(c).changedAt = c.closed /\ Climbed(c).closed = c.closed
  <2>1. StateOfRung(r) \in CandidateStates
    BY <1>1, RungState
  <2> QED BY <2>1, <1>1, <1>3, MovedFields
<1> QED BY <1>1, <1>5, <1>6, <1>7, RungState DEF Earned

\* A descent gives a rung back and earns nothing (decrease_confidence).
LEMMA DescendedEarned ==
  ASSUME NEW c \in LadderCandidates, NEW b \in Rungs \ {0}, Earned(c, b)
  PROVE  Descended(c) \in LadderCandidates /\ Earned(Descended(c), b)
PROOF
<1> DEFINE r == IF c.rung > 0 THEN c.rung - 1 ELSE 0
           s == IF r = 0 THEN "Quarantined" ELSE "Decayed"
<1>1. r \in Rungs /\ r \in Nat /\ c.rung \in Nat
  BY LadderAssumption DEF LadderCandidates, Rungs
<1>2. c.rung > 0 => r = c.rung - 1
  BY LadderAssumption DEF LadderCandidates, Rungs
<1>3. c.rung = 0 => r = c.rung
  BY DEF LadderCandidates
<1>4. Descended(c) = Moved(c, r, s)
  BY DEF Descended, Moved
<1>5. c.closed \in Nat /\ c.changedAt \in Nat
  BY DEF LadderCandidates
<1>6. s \in CandidateStates /\ (r = 0 <=> s \notin Contributing)
  BY DEF CandidateStates, Contributing
<1> HIDE DEF r, s
<1>7. b \in Nat /\ b * RungEpisodes \in Nat /\ c.rung * RungEpisodes \in Nat /\ r * RungEpisodes \in Nat
  <2>1. b \in Nat
    BY LadderAssumption DEF Rungs
  <2> QED BY <2>1, <1>1, RungWorth
<1>8. r * RungEpisodes <= c.rung * RungEpisodes
  <2>1. CASE c.rung > 0
    <3>1. r * RungEpisodes = c.rung * RungEpisodes - RungEpisodes
      BY <2>1, <1>1, <1>2, RungWorth
    <3> QED BY <3>1, <1>7, LadderAssumption
  <2>2. CASE c.rung = 0
    BY <2>2, <1>3, <1>7
  <2> QED BY <2>1, <2>2, <1>1
<1>9. r * RungEpisodes <= b * RungEpisodes + c.closed
  BY <1>5, <1>7, <1>8 DEF Earned
<1>10. /\ Descended(c) \in LadderCandidates
       /\ Descended(c).rung = r /\ Descended(c).state = s
       /\ Descended(c).changedAt = c.closed /\ Descended(c).closed = c.closed
  BY <1>1, <1>4, <1>6, MovedFields
<1> QED BY <1>5, <1>6, <1>9, <1>10 DEF Earned

\* What a review makes of a candidate that is not blocked is earned again.
LEMMA ReviewedEarned ==
  ASSUME NEW c \in LadderCandidates, NEW b \in Rungs \ {0}, Earned(c, b),
         c.state \notin BlockedStates, NEW losing \in BOOLEAN, NEW sharpe \in SharpeClasses
  PROVE  Reviewed(c, losing, sharpe) \in LadderCandidates /\ Earned(Reviewed(c, losing, sharpe), b)
PROOF
<1> DEFINE eligible == c.closed - c.changedAt >= RungEpisodes
<1>1. Held(c) \in LadderCandidates /\ (c.state # "Quarantined" => Earned(Held(c), b))
  <2>1. c.rung \in Rungs
    BY DEF LadderCandidates
  <2>2. Held(c) = [c EXCEPT !.state = StateOfRung(c.rung)]
    BY DEF Held
  <2> QED BY <2>1, <2>2, RungState DEF LadderCandidates, Earned
<1>2. Quarantine(c) \in LadderCandidates /\ Earned(Quarantine(c), b)
  <2>1. /\ Quarantine(c) \in LadderCandidates
        /\ Quarantine(c).rung = 0 /\ Quarantine(c).state = "Quarantined"
        /\ Quarantine(c).changedAt = c.closed /\ Quarantine(c).closed = c.closed
    <3>1. /\ Moved(c, 0, "Quarantined") \in LadderCandidates
          /\ Moved(c, 0, "Quarantined").rung = 0 /\ Moved(c, 0, "Quarantined").state = "Quarantined"
          /\ Moved(c, 0, "Quarantined").changedAt = c.closed /\ Moved(c, 0, "Quarantined").closed = c.closed
      <4>1. 0 \in Rungs /\ "Quarantined" \in CandidateStates
        BY LadderAssumption DEF Rungs, CandidateStates
      <4> QED BY <4>1, MovedFields
    <3>2. Quarantine(c) = [Moved(c, 0, "Quarantined") EXCEPT !.windows = 0]
      BY DEF Quarantine, Moved, LadderCandidates
    <3>3. 0 \in 0..ReentryWindows
      BY LadderAssumption
    <3> HIDE DEF Moved
    <3> QED BY <3>1, <3>2, <3>3 DEF LadderCandidates
  <2>2. b * RungEpisodes \in Nat /\ 0 * RungEpisodes = 0
    BY RungWorth, LadderAssumption DEF Rungs
  <2>3. c.closed \in Nat
    BY DEF LadderCandidates
  <2> QED BY <2>1, <2>2, <2>3 DEF Contributing, Earned
<1>3. c.state # "Quarantined" => /\ [c EXCEPT !.state = "Warmup"] \in LadderCandidates
                                 /\ Earned([c EXCEPT !.state = "Warmup"], b)
  BY DEF LadderCandidates, CandidateStates, BlockedStates, Contributing, Earned
<1>4. eligible => Climbed(c) \in LadderCandidates /\ Earned(Climbed(c), b)
  BY ClimbedEarned
<1>5. Descended(c) \in LadderCandidates /\ Earned(Descended(c), b)
  BY DescendedEarned
<1>6. \/ Reviewed(c, losing, sharpe) \in {c, Descended(c), Quarantine(c)}
      \/ /\ c.state # "Quarantined"
         /\ Reviewed(c, losing, sharpe) \in {Held(c), [c EXCEPT !.state = "Warmup"]}
      \/ eligible /\ Reviewed(c, losing, sharpe) = Climbed(c)
  <2>1. CASE c.state = "Quarantined"
    BY <2>1 DEF Reviewed
  <2>2. CASE c.state # "Quarantined" /\ c.closed < WarmupEpisodes
    BY <2>2 DEF Reviewed
  <2>3. CASE /\ c.state # "Quarantined" /\ c.closed >= WarmupEpisodes
             /\ (c.closed < FullEpisodes \/ c.days < MinDays)
    BY <2>3, LadderAssumption DEF Reviewed, LadderCandidates
  <2>4. CASE /\ c.state # "Quarantined" /\ c.closed >= WarmupEpisodes
             /\ ~(c.closed < FullEpisodes \/ c.days < MinDays)
    BY <2>4, LadderAssumption DEF Reviewed, LadderCandidates, SharpeClasses
  <2> QED BY <2>1, <2>2, <2>3, <2>4, LadderAssumption DEF LadderCandidates
<1> QED BY <1>1, <1>2, <1>3, <1>4, <1>5, <1>6

-----------------------------------------------------------------------------
\* The two parts are one inductive invariant.
LadderInv == candidate \in LadderCandidates /\ base \in Rungs \ {0} /\ Earned(candidate, base)

\* The candidate and the rung it started on (base) are related by Earned.
\* It is so at the start (CandidateConfidence::new) ...
LEMMA LadderInvInit == LadderInit => LadderInv
PROOF
<1> SUFFICES ASSUME LadderInit PROVE LadderInv OBVIOUS
<1>1. base \in Nat /\ base * RungEpisodes \in Nat
  BY RungWorth, LadderAssumption DEF LadderInit, Rungs
<1>2. candidate \in LadderCandidates
  BY LadderAssumption DEF LadderInit, LadderCandidates, Rungs, CandidateStates, Contributing
<1> QED BY <1>1, <1>2 DEF LadderInit, LadderInv, Earned, Rungs, Contributing

\* ... and after every review, block and re-entry window.
LEMMA LadderInvStep == LadderInv /\ [LadderNext]_ladderVars => LadderInv'
PROOF
<1> SUFFICES ASSUME LadderInv, [LadderNext]_ladderVars PROVE LadderInv' OBVIOUS
<1> USE DEF LadderInv
<1>1. CASE ApplyConfidenceReview
  <2>1. PICK jump \in Jumps, days \in {MinDays - 1, MinDays},
             losing \in BOOLEAN, sharpe \in SharpeClasses :
          /\ candidate.state \notin BlockedStates
          /\ candidate' = Reviewed([candidate EXCEPT !.closed = @ + jump, !.days = days], losing, sharpe)
          /\ base' = base
    BY <1>1 DEF ApplyConfidenceReview
  <2> DEFINE n == candidate.closed + jump
             c == Counted(candidate, n, days)
  <2>2. jump \in Nat /\ days \in Nat /\ n \in Nat
    <3>1. jump \in Nat /\ days \in Nat
      BY LadderAssumption
    <3>2. candidate.closed \in Nat
      BY DEF LadderCandidates
    <3> QED BY <3>1, <3>2
  <2>8. candidate' = Reviewed(c, losing, sharpe)
    BY <2>1 DEF Counted
  <2>9. candidate \in LadderCandidates
    OBVIOUS
  <2> HIDE DEF c, n
  <2>10. IsCounted(c, candidate, n)
    BY <2>2, <2>9, CountedFields DEF c
  <2>3. /\ c.state = candidate.state /\ c.rung = candidate.rung
        /\ c.closed = n /\ c.changedAt = candidate.changedAt
    BY <2>10 DEF IsCounted
  <2>4. c \in LadderCandidates
    BY <2>10 DEF IsCounted
  <2>5. Earned(c, base)
    <3>1. candidate.closed \in Nat /\ candidate.changedAt \in Nat
      BY DEF LadderCandidates
    <3> QED BY <2>2, <2>3, <3>1 DEF Earned, n
  <2>6. c.state \notin BlockedStates
    BY <2>1, <2>3
  <2>7. Reviewed(c, losing, sharpe) \in LadderCandidates /\ Earned(Reviewed(c, losing, sharpe), base)
    BY <2>4, <2>5, <2>6, ReviewedEarned
  <2> QED BY <2>1, <2>7, <2>8
<1>2. CASE ObserveReentryWindow
  <2>1. PICK sharpe \in SharpeClasses, windows \in Nat :
          /\ windows = (IF sharpe = "good" THEN candidate.windows + 1 ELSE 0)
          /\ candidate.state = "Quarantined"
          /\ candidate' = IF windows >= ReentryWindows
                          THEN [candidate EXCEPT !.state = "Warmup", !.rung = 1, !.windows = 0,
                                                 !.changedAt = candidate.closed]
                          ELSE [candidate EXCEPT !.windows = windows]
          /\ base' = base
    BY <1>2, LadderAssumption DEF ObserveReentryWindow, LadderCandidates
  <2>2. CASE windows >= ReentryWindows
    <3>1. candidate' = [state |-> "Warmup", rung |-> 1, closed |-> candidate.closed,
                        days |-> candidate.days, changedAt |-> candidate.closed, windows |-> 0]
      BY <2>1, <2>2 DEF LadderCandidates
    <3>2. 1 \in Rungs /\ 0 \in 0..ReentryWindows /\ candidate.closed \in Nat /\ candidate.days \in Nat
      BY LadderAssumption DEF Rungs, LadderCandidates
    <3>3. base \in Nat /\ base > 0 /\ base * RungEpisodes \in Nat /\ RungEpisodes <= base * RungEpisodes
          /\ 1 * RungEpisodes = RungEpisodes
      BY RungWorth, LadderAssumption DEF Rungs
    <3>4. candidate' \in LadderCandidates
      BY <3>1, <3>2 DEF LadderCandidates, CandidateStates, Contributing
    <3>5. Earned(candidate', base)
      BY <3>1, <3>2, <3>3, LadderAssumption DEF Earned, Contributing
    <3> QED BY <2>1, <3>4, <3>5
  <2>3. CASE ~(windows >= ReentryWindows)
    <3>1. windows \in 0..ReentryWindows
      BY <2>1, <2>3, LadderAssumption
    <3> QED BY <2>1, <2>3, <3>1 DEF LadderCandidates, Earned
  <2> QED BY <2>2, <2>3
<1>3. CASE Block
  <2>1. PICK s \in BlockedStates :
          candidate' = [candidate EXCEPT !.state = s, !.rung = 0] /\ base' = base
    BY <1>3 DEF Block
  <2>2. candidate' = [state |-> s, rung |-> 0, closed |-> candidate.closed, days |-> candidate.days,
                      changedAt |-> candidate.changedAt, windows |-> candidate.windows]
    BY <2>1 DEF LadderCandidates
  <2>3. base * RungEpisodes \in Nat /\ 0 * RungEpisodes = 0 /\ 0 \in Rungs
    BY RungWorth, LadderAssumption DEF Rungs
  <2>4. candidate' \in LadderCandidates
    BY <2>2, <2>3 DEF LadderCandidates, CandidateStates
  <2>5. Earned(candidate', base)
    BY <2>2, <2>3 DEF Earned, Contributing, BlockedStates, LadderCandidates
  <2> QED BY <2>1, <2>4, <2>5
<1>4. CASE UNCHANGED ladderVars
  BY <1>4 DEF ladderVars
<1> QED BY <1>1, <1>2, <1>3, <1>4 DEF LadderNext

\* A rung of the ladder is always one of its places, and the good windows of a
\* quarantine never exceed those that end it (CandidateConfidence).
THEOREM LadderTypeCorrect == LadderSpec => []LadderTypeOK
PROOF
<1>1. LadderInv => LadderTypeOK
  BY DEF LadderInv, LadderTypeOK, LadderCandidates
<1> QED BY <1>1, LadderInvInit, LadderInvStep, PTL DEF LadderSpec

\* Every rung above the first was earned by RungEpisodes closed episodes of
\* the candidate's own (apply_confidence_review), for every ladder.
THEOREM RungsEarned == LadderSpec => []RungsAreEarned
PROOF
<1>1. LadderInv => RungsAreEarned
  BY DEF LadderInv, RungsAreEarned, Earned
<1> QED BY <1>1, LadderInvInit, LadderInvStep, PTL DEF LadderSpec

-----------------------------------------------------------------------------
(* The snapshots of the sources.                                             *)

\* What the channel, the store and the book hold.
Answers == [candidate : Candidates, payload : Exposures, received : 0..MaxSourceTime, validUntil : Nat]
Snapshots == [candidate : Candidates, payload : Exposures, received : 0..MaxSourceTime, validUntil : Nat,
              sequence : Nat \ {0}]
ExposureStates == [sequence : Nat \ {0}, payload : Exposures]

\* The typing of the variables, with what is in the channel.
Typed ==
  /\ clock \in 0..MaxSourceTime /\ source \in [Candidates -> Exposures]
  /\ inFlight \subseteq Candidates /\ channel \in Seq(Answers)
  /\ sequences \in [Candidates -> Nat]
  /\ store \in [Candidates -> Snapshots \cup {NoSnapshot}]
  /\ book \in [Candidates -> ExposureStates \cup {NoSnapshot}]

\* The book and the store are of the same answer, which was counted.
Agree(c) ==
  IF Accepted(c)
  THEN /\ store[c].sequence <= sequences[c]
       /\ book[c] = [sequence |-> store[c].sequence, payload |-> store[c].payload]
  ELSE book[c] = NoSnapshot

\* The inductive invariant.
SourcesInv == Typed /\ \A c \in Candidates : Agree(c)

\* Nothing is stored and nothing is booked at the start.
LEMMA SourcesInvInit == SourcesInit => SourcesInv
PROOF
  BY SourcesAssumption DEF SourcesInit, SourcesInv, Typed, Agree, Accepted, NoSnapshot

\* What is in the channel is an answer about a candidate.
LEMMA AnswersTyped ==
  ASSUME Typed, Answer
  PROVE  channel' \in Seq(Answers) /\ inFlight' \subseteq Candidates
PROOF
<1>1. PICK c \in inFlight, lost \in BOOLEAN :
        /\ inFlight' = inFlight \ {c}
        /\ channel' = IF lost THEN channel
                      ELSE Append(channel, [candidate |-> c, payload |-> source[c],
                                            received |-> clock, validUntil |-> clock + Lifetime])
  BY DEF Answer
<1>2. inFlight' \subseteq Candidates
  BY <1>1 DEF Typed
<1>3. c \in Candidates /\ source[c] \in Exposures /\ clock + Lifetime \in Nat
  BY SourcesAssumption DEF Typed
<1>4. [candidate |-> c, payload |-> source[c], received |-> clock, validUntil |-> clock + Lifetime] \in Answers
  BY <1>3 DEF Answers, Typed
<1>5. channel' \in Seq(Answers)
  BY <1>1, <1>4, AppendProperties DEF Typed
<1> QED BY <1>2, <1>5

\* An ingested state is counted whether it is accepted or not, and an accepted
\* one goes into both the store and the book (ingest of a source state).
LEMMA IngestKeeps == SourcesInv /\ IngestSourceState => SourcesInv'
PROOF
<1> SUFFICES ASSUME SourcesInv, IngestSourceState PROVE SourcesInv' OBVIOUS
<1>1. PICK answer \in Answers : answer = Head(channel) /\ channel # <<>> /\ Tail(channel) \in Seq(Answers)
  BY HeadTailProperties DEF SourcesInv, Typed, IngestSourceState
<1> DEFINE c == answer.candidate
<1>2. c \in Candidates /\ answer.payload \in Exposures /\ sequences[c] \in Nat
  BY DEF Answers, SourcesInv, Typed
<1>3. PICK n \in Nat \ {0} : n = sequences[c] + 1
  BY <1>2
<1> DEFINE snapshot == [candidate |-> c, payload |-> answer.payload, received |-> answer.received,
                        validUntil |-> answer.validUntil, sequence |-> n]
<1>4. snapshot \in Snapshots /\ snapshot.sequence = n /\ snapshot.payload = answer.payload
  BY <1>2 DEF Answers, Snapshots
<1>5. snapshot # NoSnapshot
  <2>1. NoSnapshot.sequence = 0
    BY DEF NoSnapshot
  <2> QED BY <1>4, <2>1
<1>10. /\ channel' = Tail(channel) /\ sequences' = [sequences EXCEPT ![c] = n]
       /\ clock' = clock /\ source' = source /\ inFlight' = inFlight
       /\ \/ /\ store' = [store EXCEPT ![c] = snapshot]
             /\ book' = [book EXCEPT ![c] = ExposureAfter(book[c], n, answer.payload)]
          \/ store' = store /\ book' = book
  BY <1>1, <1>2, <1>3 DEF IngestSourceState, SourcesInv, Typed
<1>6. /\ sequences' \in [Candidates -> Nat] /\ sequences'[c] = n
      /\ \A d \in Candidates : sequences'[d] >= sequences[d]
  BY <1>2, <1>3, <1>10 DEF SourcesInv, Typed
<1> HIDE DEF c, snapshot
<1>7. CASE store' = store /\ book' = book
  <2>1. Typed'
    BY <1>1, <1>10, <1>6, <1>7 DEF SourcesInv, Typed
  <2>2. ASSUME NEW d \in Candidates PROVE Agree(d)'
    <3>1. store[d] \in Snapshots \cup {NoSnapshot}
      BY DEF SourcesInv, Typed
    <3>2. CASE store[d] = NoSnapshot
      BY <1>7, <3>2 DEF SourcesInv, Agree, Accepted
    <3>3. CASE store[d] # NoSnapshot
      <4>1. store[d].sequence \in Nat /\ sequences[d] \in Nat /\ sequences'[d] \in Nat
        BY <1>6, <3>1, <3>3 DEF Snapshots, SourcesInv, Typed
      <4> QED BY <1>6, <1>7, <3>3, <4>1 DEF SourcesInv, Agree, Accepted
    <3> QED BY <3>2, <3>3
  <2> QED BY <2>1, <2>2 DEF SourcesInv
<1>8. CASE /\ store' = [store EXCEPT ![c] = snapshot]
           /\ book' = [book EXCEPT ![c] = ExposureAfter(book[c], n, answer.payload)]
  <2>1. ExposureAfter(book[c], n, answer.payload) = [sequence |-> n, payload |-> snapshot.payload]
    <3>1. CASE Accepted(c)
      <4>1. store[c] \in Snapshots
        BY <1>2, <3>1 DEF Accepted, SourcesInv, Typed
      <4>2. store[c].sequence <= sequences[c] /\ book[c].sequence = store[c].sequence
        <5>1. Agree(c)
          BY <1>2 DEF SourcesInv
        <5> QED BY <3>1, <5>1 DEF Agree
      <4>3. ~(n <= book[c].sequence)
        BY <1>2, <1>3, <4>1, <4>2 DEF Snapshots
      <4> QED BY <1>4, <4>3 DEF ExposureAfter
    <3>2. CASE ~Accepted(c)
      <4>1. Agree(c)
        BY <1>2 DEF SourcesInv
      <4> QED BY <1>4, <3>2, <4>1 DEF Agree, ExposureAfter
    <3> QED BY <3>1, <3>2
  <2>2. [sequence |-> n, payload |-> snapshot.payload] \in ExposureStates
    BY <1>2, <1>3, <1>4 DEF ExposureStates
  <2>3. /\ store' \in [Candidates -> Snapshots \cup {NoSnapshot}] /\ store'[c] = snapshot
        /\ \A d \in Candidates \ {c} : store'[d] = store[d]
    BY <1>2, <1>4, <1>8 DEF SourcesInv, Typed
  <2>4. /\ book' \in [Candidates -> ExposureStates \cup {NoSnapshot}]
        /\ book'[c] = [sequence |-> n, payload |-> snapshot.payload]
        /\ \A d \in Candidates \ {c} : book'[d] = book[d]
    BY <1>2, <1>8, <2>1, <2>2 DEF SourcesInv, Typed
  <2>5. Typed'
    BY <1>1, <1>10, <1>6, <2>3, <2>4 DEF SourcesInv, Typed
  <2>6. Agree(c)'
    BY <1>2, <1>4, <1>5, <1>6, <2>3, <2>4 DEF Agree, Accepted
  <2>7. ASSUME NEW d \in Candidates \ {c} PROVE Agree(d)'
    <3>1. sequences'[d] = sequences[d]
      BY <1>2, <1>10 DEF SourcesInv, Typed
    <3> QED BY <2>3, <2>4, <2>7, <3>1 DEF SourcesInv, Agree, Accepted
  <2> QED BY <2>5, <2>6, <2>7 DEF SourcesInv
<1> QED BY <1>4, <1>7, <1>8, <1>10

\* Every step of a source state keeps store and book in agreement.
LEMMA SourcesInvStep == SourcesInv /\ [SourcesNext]_sourceVars => SourcesInv'
PROOF
<1> SUFFICES ASSUME SourcesInv, [SourcesNext]_sourceVars PROVE SourcesInv' OBVIOUS
<1>0. ASSUME UNCHANGED <<sequences, store, book>> PROVE \A c \in Candidates : Agree(c)'
  BY <1>0 DEF SourcesInv, Agree, Accepted
<1>1. CASE Trade
  <2>1. Typed'
    BY <1>1 DEF Trade, SourcesInv, Typed
  <2> QED BY <1>0, <1>1, <2>1 DEF Trade, SourcesInv
<1>2. CASE Request
  <2>1. PICK c \in Candidates : inFlight' = inFlight \cup {c}
    BY <1>2 DEF Request
  <2>2. inFlight' \subseteq Candidates
    BY <2>1 DEF SourcesInv, Typed
  <2>3. Typed'
    BY <1>2, <2>2 DEF Request, SourcesInv, Typed
  <2> QED BY <1>0, <1>2, <2>3 DEF Request, SourcesInv
<1>3. CASE Answer
  <2>1. Typed'
    BY <1>3, AnswersTyped DEF Answer, SourcesInv, Typed
  <2> QED BY <1>0, <1>3, <2>1 DEF Answer, SourcesInv
<1>4. CASE IngestSourceState
  BY <1>4, IngestKeeps
<1>5. CASE PassTime
  <2>1. Typed'
    BY <1>5, SourcesAssumption DEF PassTime, SourcesInv, Typed
  <2> QED BY <1>0, <1>5, <2>1 DEF PassTime, SourcesInv
<1>6. CASE UNCHANGED sourceVars
  <2>1. Typed'
    BY <1>6 DEF sourceVars, SourcesInv, Typed
  <2> QED BY <1>0, <1>6, <2>1 DEF sourceVars, SourcesInv
<1> QED BY <1>1, <1>2, <1>3, <1>4, <1>5, <1>6 DEF SourcesNext

-----------------------------------------------------------------------------
\* An accepted snapshot is of a state that was ingested (SnapshotStore).
THEOREM SourcesTypeCorrect == SourcesSpec => []SourcesTypeOK
PROOF
<1>1. SourcesInv => SourcesTypeOK
  <2> SUFFICES ASSUME SourcesInv, NEW c \in Candidates
               PROVE  /\ sequences[c] \in Nat
                      /\ Accepted(c) => /\ store[c].received \in 0..MaxSourceTime
                                        /\ store[c].sequence \in 1..sequences[c]
                                        /\ store[c].payload \in Exposures
    BY DEF SourcesInv, Typed, SourcesTypeOK
  <2>1. Accepted(c) => store[c] \in Snapshots
    BY DEF SourcesInv, Typed, Accepted
  <2>2. Accepted(c) => store[c].sequence <= sequences[c]
    BY DEF SourcesInv, Agree
  <2>3. sequences[c] \in Nat
    BY DEF SourcesInv, Typed
  <2> QED BY <2>1, <2>2, <2>3 DEF Snapshots
<1> QED BY <1>1, SourcesInvInit, SourcesInvStep, PTL DEF SourcesSpec

\* The exposure that votes is the one of the snapshot whose freshness admits
\* it, so the sequences that construct_next_decision compares never differ.
THEOREM VotesMatch == SourcesSpec => []VotesMatchSnapshots
PROOF
<1>1. SourcesInv => VotesMatchSnapshots
  <2> SUFFICES ASSUME SourcesInv, NEW c \in Candidates, Fresh(c)
               PROVE  /\ book[c].sequence = store[c].sequence
                      /\ book[c].payload = store[c].payload
                      /\ clock - store[c].received <= MaxAge
    BY DEF VotesMatchSnapshots
  <2>1. Agree(c) /\ Accepted(c) /\ clock - store[c].received <= MaxAge
    BY DEF Fresh, SourcesInv
  <2> QED BY <2>1 DEF Agree
<1> QED BY <1>1, SourcesInvInit, SourcesInvStep, PTL DEF SourcesSpec

-----------------------------------------------------------------------------
(* The cost gate and the sleeves.  A direction not yet earned has a moving   *)
(* average below what its signals have to return, and an average of such     *)
(* returns stays below it; a decision opens risk only where the average is at *)
(* or above it.  The same holds of the snapshot a restart restores.          *)

\* What a signal has to return to pay for its round trips.
Breakeven == CostMultiple * RoundTripCost

Estimates == [count : Nat, return : Int, lifetime : Nat]
Signals == [direction : Directions, entry : Nat \ {0}, since : Nat]
Expectancies == [long : Estimates, short : Estimates, active : Signals \cup {NoSignal}]

\* The averages x of a process whose clock has reached `time': a direction that
\* was never earned has an average below its price, and the signal that is
\* active began in the past.
AveragesTrue(x, e, time) ==
  /\ x \in Expectancies /\ e \subseteq Directions /\ time \in Nat
  /\ x.active # NoSignal => x.active.since <= time
  /\ "long" \notin e => x.long.return < Breakeven
  /\ "short" \notin e => x.short.return < Breakeven

Holdings == [Sleeves -> Int]

\* The inductive invariant.
GateInv ==
  /\ quote \in MarkPrices /\ holding \in Holdings /\ aims \in Holdings
  /\ ticks \in Nat /\ timeOffset \in Nat /\ watermark <= timeOffset + ticks
  /\ AveragesTrue(expectancy, earned, watermark)
  /\ snapshotOfGate.quote \in MarkPrices /\ snapshotOfGate.holding \in Holdings
  /\ AveragesTrue(snapshotOfGate.expectancy, snapshotOfGate.earned, snapshotOfGate.watermark)

-----------------------------------------------------------------------------
LEMMA BreakevenType == Breakeven \in Nat \ {0}
<1>1. \A a, b \in Nat \ {0} : a * b \in Nat \ {0}
  OBVIOUS
<1> QED BY <1>1, GateAssumption DEF Breakeven

\* An average of returns that are too small is too small.
LEMMA AverageBelow ==
  ASSUME NEW r \in Int, NEW x \in Int, NEW c \in Int, r < c, x < c
  PROVE  ((3 * r) + x) \div 4 \in Int /\ ((3 * r) + x) \div 4 < c
OBVIOUS

LEMMA QuotientType ==
  ASSUME NEW a \in Int, NEW b \in Nat \ {0}
  PROVE  a \div b \in Int
OBVIOUS

LEMMA ReturnType ==
  ASSUME NEW signal \in Signals, NEW price \in Nat
  PROVE  GrossReturn(signal, price) \in Int
<1> DEFINE gain == ReturnScale * (price - signal.entry)
           rise == gain \div signal.entry
<1>1. signal.entry \in Nat \ {0}
  BY DEF Signals
<1>2. gain \in Int
  BY <1>1, GateAssumption
<1> HIDE DEF gain
<1>3. rise \in Int
  BY <1>1, <1>2, QuotientType
<1>4. GrossReturn(signal, price) = IF signal.direction = "long" THEN rise ELSE -rise
  BY DEF GrossReturn, rise, gain
<1> HIDE DEF rise
<1> QED BY <1>3, <1>4

\* A new average.
LEMMA AveragedType ==
  ASSUME NEW s \in Estimates, NEW r \in Int, NEW t \in Nat
  PROVE  /\ Averaged(s, r, t) \in Estimates
         /\ s.return < Breakeven /\ r < Breakeven => Averaged(s, r, t).return < Breakeven
<1>1. s.count \in Nat /\ s.return \in Int /\ s.lifetime \in Nat
  BY DEF Estimates
<1>2. ((3 * s.return) + r) \div 4 \in Int
  BY <1>1
<1>3. ReturnScale * t \in Nat
  BY GateAssumption
<1>4. ((3 * s.lifetime) + (ReturnScale * t)) \div 4 \in Nat
  <2> DEFINE u == ReturnScale * t
  <2>1. u \in Nat
    BY <1>3
  <2> HIDE DEF u
  <2>2. ((3 * s.lifetime) + u) \div 4 \in Nat
    BY <1>1, <2>1
  <2> QED BY <2>2 DEF u
<1>5. Averaged(s, r, t) \in Estimates
  BY <1>1, <1>2, <1>4 DEF Averaged, Estimates
<1>6. Averaged(s, r, t).return = ((3 * s.return) + r) \div 4
  BY DEF Averaged
<1> QED BY <1>1, <1>5, <1>6, AverageBelow, BreakevenType

\* What observe_source_signal does to the averages.
Learnt(e, x, desired, price) ==
  e \cup {d \in Directions : x.active.direction = d /\ Pays(x.active, desired, price)}

Closed(x, desired, price, at) ==
  IF x.active # NoSignal /\ DirectionOf(desired) # x.active.direction
  THEN [x EXCEPT ![x.active.direction] =
          Averaged(@, GrossReturn(x.active, price), at - x.active.since),
          !.active = NoSignal]
  ELSE x

LEMMA ClosedTrue ==
  ASSUME NEW x, NEW e, NEW t, AveragesTrue(x, e, t), NEW desired \in Int,
         NEW price \in Nat \ {0}, NEW at \in Nat, t <= at
  PROVE  AveragesTrue(Closed(x, desired, price, at), Learnt(e, x, desired, price), at)
<1> DEFINE c == Closed(x, desired, price, at)
           l == Learnt(e, x, desired, price)
           a == x.active
<1>1. /\ x \in Expectancies /\ e \subseteq Directions /\ t \in Nat
      /\ a # NoSignal => a.since <= t
      /\ "long" \notin e => x.long.return < Breakeven
      /\ "short" \notin e => x.short.return < Breakeven
  BY DEF AveragesTrue
<1>2. l \subseteq Directions /\ e \subseteq l
  BY <1>1 DEF Learnt
<1>3. CASE ~(a # NoSignal /\ DirectionOf(desired) # a.direction)
  <2>1. c = x
    BY <1>3 DEF Closed
  <2> HIDE DEF c, l
  <2> QED BY <1>1, <1>2, <2>1 DEF AveragesTrue, Expectancies, Signals, c, l
<1>4. CASE a # NoSignal /\ DirectionOf(desired) # a.direction
  <2> DEFINE r == GrossReturn(a, price)
             n == at - a.since
  <2>1. /\ a \in Signals /\ x.long \in Estimates /\ x.short \in Estimates
        /\ a.direction \in {"long", "short"} /\ a.since \in Nat
    BY <1>1, <1>4 DEF Expectancies, Signals, Directions
  <2>2. r \in Int /\ n \in Nat
    BY <1>1, <1>4, <2>1, ReturnType
  <2>3. a.direction \notin l => r < Breakeven
    <3>1. a.direction \notin l => ~Pays(a, desired, price)
      BY <2>1 DEF Learnt, Directions
    <3> QED BY <1>4, <2>2, <3>1, BreakevenType DEF Pays, Breakeven
  <2>4. c = [x EXCEPT ![a.direction] = Averaged(@, r, n), !.active = NoSignal]
    BY <1>4 DEF Closed
  <2>5. x = [long |-> x.long, short |-> x.short, active |-> x.active]
    BY <1>1 DEF Expectancies
  <2> HIDE DEF c, l, r, n
  <2>6. CASE a.direction = "long"
    <3>1. c = [long |-> Averaged(x.long, r, n), short |-> x.short, active |-> NoSignal]
      BY <2>4, <2>5, <2>6
    <3>2. /\ Averaged(x.long, r, n) \in Estimates
          /\ "long" \notin l => Averaged(x.long, r, n).return < Breakeven
      BY <1>1, <1>2, <2>1, <2>2, <2>3, <2>6, AveragedType
    <3>3. c \in Expectancies
      BY <2>1, <3>1, <3>2 DEF Expectancies
    <3>4. c.active = NoSignal /\ c.long = Averaged(x.long, r, n) /\ c.short = x.short
      BY <3>1
    <3> QED BY <1>1, <1>2, <3>2, <3>3, <3>4 DEF AveragesTrue, c, l
  <2>7. CASE a.direction = "short"
    <3>1. c = [long |-> x.long, short |-> Averaged(x.short, r, n), active |-> NoSignal]
      BY <2>4, <2>5, <2>7
    <3>2. /\ Averaged(x.short, r, n) \in Estimates
          /\ "short" \notin l => Averaged(x.short, r, n).return < Breakeven
      BY <1>1, <1>2, <2>1, <2>2, <2>3, <2>7, AveragedType
    <3>3. c \in Expectancies
      BY <2>1, <3>1, <3>2 DEF Expectancies
    <3>4. c.active = NoSignal /\ c.short = Averaged(x.short, r, n) /\ c.long = x.long
      BY <3>1
    <3> QED BY <1>1, <1>2, <3>2, <3>3, <3>4 DEF AveragesTrue, c, l
  <2> QED BY <2>1, <2>6, <2>7
<1> QED BY <1>3, <1>4

\* A signal begins when there is none.
LEMMA ObservedTrue ==
  ASSUME NEW x, NEW e, NEW t, AveragesTrue(x, e, t), NEW desired \in Int,
         NEW price \in Nat \ {0}, NEW at \in Nat, t <= at
  PROVE  AveragesTrue(Observed(x, desired, price, at), Learnt(e, x, desired, price), at)
<1> DEFINE c == Closed(x, desired, price, at)
           l == Learnt(e, x, desired, price)
           d == DirectionOf(desired)
           s == [direction |-> d, entry |-> price, since |-> at]
           o == Observed(x, desired, price, at)
<1>1. AveragesTrue(c, l, at)
  BY ClosedTrue
<1>2. o = IF d = "none" \/ c.active # NoSignal THEN c ELSE [c EXCEPT !.active = s]
  BY DEF Observed, Closed
<1>3. CASE d = "none" \/ c.active # NoSignal
  BY <1>1, <1>2, <1>3
<1>4. CASE ~(d = "none" \/ c.active # NoSignal)
  <2>1. d \in Directions
    BY <1>4 DEF DirectionOf, Directions
  <2>2. s \in Signals /\ s.since = at
    BY <2>1 DEF Signals
  <2> HIDE DEF c, l, s, o
  <2>3. c \in Expectancies
    BY <1>1 DEF AveragesTrue
  <2>4. c = [long |-> c.long, short |-> c.short, active |-> c.active]
    BY <2>3 DEF Expectancies
  <2>5. o = [long |-> c.long, short |-> c.short, active |-> s]
    BY <1>2, <1>4, <2>4
  <2>6. o.long = c.long /\ o.short = c.short /\ o.active = s
    BY <2>5
  <2>7. o \in Expectancies
    BY <2>2, <2>3, <2>5 DEF Expectancies
  <2> QED BY <1>1, <2>2, <2>6, <2>7 DEF AveragesTrue, o, l
<1> QED BY <1>3, <1>4

\* A direction that covers its cost was earned.
LEMMA CoveredIsEarned ==
  ASSUME NEW x, NEW e, NEW t, AveragesTrue(x, e, t), NEW d \in Directions, CoversCost(x[d])
  PROVE  d \in e
<1>1. x[d] \in Estimates
  BY DEF AveragesTrue, Expectancies, Directions
<1>2. x[d].return \in Int /\ x[d].lifetime \in Nat
  BY <1>1 DEF Estimates
<1>3. x[d].lifetime \div ReturnScale \in Nat
  <2>1. \A a \in Nat, b \in Nat \ {0} : a \div b \in Nat
    OBVIOUS
  <2> QED BY <1>2, <2>1, GateAssumption
<1>4. x[d].return >= Breakeven
  <2> DEFINE h == HourlyFunding * (x[d].lifetime \div ReturnScale)
  <2>1. \A a, b \in Nat : a * b \in Nat
    OBVIOUS
  <2>2. h \in Nat
    BY <1>3, <2>1, GateAssumption
  <2>3. x[d].return >= CostMultiple * (RoundTripCost + h)
    BY DEF CoversCost
  <2> HIDE DEF h
  <2>4. CostMultiple * (RoundTripCost + h) = CostMultiple * RoundTripCost + CostMultiple * h
    BY <2>2, GateAssumption
  <2>5. CostMultiple * h \in Nat
    BY <2>1, <2>2, GateAssumption
  <2> QED BY <1>2, <2>3, <2>4, <2>5, BreakevenType DEF Breakeven
<1>5. d = "long" \/ d = "short"
  BY DEF Directions
<1> QED BY <1>2, <1>4, <1>5, BreakevenType DEF AveragesTrue

\* What is held already does not add risk, and less of it neither.
LEMMA ClampAddsNothing ==
  ASSUME NEW current \in Int, NEW limit \in Nat
  PROVE  ~AddsRisk(current, ClampTo(current, limit)) /\ ClampTo(current, limit) \in Int
BY DEF AddsRisk, ClampTo, SignOf, SizeOf

LEMMA CapacityType == SourceCapacity \in Nat
<1>1. \A a, b \in Nat : a * b \in Nat
  OBVIOUS
<1>2. Gross * SourceTenths \in Nat
  BY <1>1, GateAssumption
<1> QED BY <1>2 DEF SourceCapacity

\* The gate lets a target pass that adds risk only if its direction covers
\* its cost.
LEMMA GatedCovers ==
  ASSUME NEW current \in Int, NEW desired \in Int, NEW x
  PROVE  /\ Gated(current, desired, x) \in Int
         /\ AddsRisk(current, Gated(current, desired, x)) =>
              /\ DirectionOf(Gated(current, desired, x)) \in Directions
              /\ CoversCost(x[DirectionOf(Gated(current, desired, x))])
<1>1. CASE Retained(current, desired, x)
  <2>1. Gated(current, desired, x) = ClampTo(current, SourceCapacity)
    BY <1>1 DEF Gated
  <2> QED BY <2>1, ClampAddsNothing, CapacityType
<1>2. CASE ~Retained(current, desired, x)
  <2>1. Gated(current, desired, x) = desired
    BY <1>2 DEF Gated
  <2>2. AddsRisk(current, desired) => CoversCost(x[DirectionOf(desired)])
    BY <1>2 DEF Retained
  <2>3. AddsRisk(current, desired) => DirectionOf(desired) \in Directions
    BY DEF AddsRisk, DirectionOf, Directions
  <2> QED BY <2>1, <2>2, <2>3
<1> QED BY <1>1, <1>2

-----------------------------------------------------------------------------
\* The parts of a division are quantities.
LEMMA DividedType ==
  ASSUME NEW q \in Int, NEW w \in [Sleeves -> Int]
  PROVE  DividedBetween(q, w) \in Holdings
<1> DEFINE weight == [s \in Sleeves |-> IF SignOf(w[s]) = SignOf(q) THEN SizeOf(w[s]) ELSE 0]
           total == weight["source"] + weight["technical"]
           share == IF total = 0 THEN 0 ELSE (SizeOf(q) * weight["source"]) \div total
<1>1. weight["source"] \in Nat /\ weight["technical"] \in Nat
  BY DEF Sleeves, SizeOf
<1> HIDE DEF weight
<1>2. SizeOf(q) \in Nat /\ SignOf(q) \in Int
  BY DEF SizeOf, SignOf
<1>3. total \in Nat /\ SizeOf(q) * weight["source"] \in Int
  BY <1>1, <1>2
<1>4. share \in Int
  BY <1>3, QuotientType
<1>5. DividedBetween(q, w) = IF total = 0 THEN Nowhere
        ELSE [s \in Sleeves |-> SignOf(q) * IF s = "source" THEN share ELSE SizeOf(q) - share]
  BY DEF DividedBetween, weight
<1> HIDE DEF total, share
<1>6. \A s \in Sleeves : SignOf(q) * (IF s = "source" THEN share ELSE SizeOf(q) - share) \in Int
  BY <1>2, <1>4
<1> QED BY <1>5, <1>6 DEF Nowhere, Holdings

LEMMA ExposureType ==
  ASSUME NEW x \in Int, NEW limit \in Nat
  PROVE  ClampTo(x, limit) \in Int
BY DEF ClampTo

LEMMA CombinedType ==
  ASSUME NEW r \in Int, NEW h \in Int, NEW points \in Int
  PROVE  CombinedSource(r, h, points) \in Int
<1>1. UnitExposure \in Nat
  BY GateAssumption
<1>2. ClampTo(r, UnitExposure) \in Int /\ ClampTo(h, UnitExposure) \in Int
  BY <1>1, ExposureType
<1>3. Admitted(ClampTo(h, UnitExposure), points) \in Int
  BY <1>2 DEF Admitted
<1>4. ClampTo(r, UnitExposure) + Admitted(ClampTo(h, UnitExposure), points) \in Int
  BY <1>2, <1>3
<1> QED BY <1>1, <1>4, ExposureType DEF CombinedSource

LEMMA NotionalType ==
  ASSUME NEW x \in Int, NEW tenths \in Nat
  PROVE  NotionalOf(x, tenths) \in Int
<1>1. \A a, b \in Int : a * b \in Int
  OBVIOUS
<1>2. Gross \in Int /\ tenths \in Int
  BY GateAssumption
<1>3. Gross * tenths * x \in Int
  BY <1>1, <1>2
<1>4. 10 * UnitExposure \in Nat \ {0}
  BY GateAssumption
<1> QED BY <1>3, <1>4, QuotientType DEF NotionalOf

LEMMA ContributionsType ==
  ASSUME NEW combined \in Int, NEW points \in Int, NEW retained, NEW current \in Int
  PROVE  ContributionsOf(combined, points, retained, current) \in [Sleeves -> Int]
<1>1. \A a, b \in Int : a * b \in Int
  OBVIOUS
<1>2. TechnicalTenths * points \in Int /\ SourceTenths * combined \in Int /\ UnitExposure \in Nat \ {0}
  BY <1>1, GateAssumption
<1>3. /\ (TechnicalTenths * points) \div UnitExposure \in Int
      /\ (SourceTenths * combined) \div UnitExposure \in Int /\ 10 * current \in Int
  BY <1>2, QuotientType
<1> QED BY <1>3 DEF ContributionsOf, Sleeves

-----------------------------------------------------------------------------
(* The steps.                                                              *)

LEMMA GateInitTrue == GateInit => GateInv
<1> SUFFICES ASSUME GateInit PROVE GateInv
  OBVIOUS
<1>1. quote \in MarkPrices
  BY DEF GateInit
<1>2. /\ expectancy = NoExpectancy /\ earned = {} /\ watermark = 0
      /\ snapshotOfGate.expectancy = NoExpectancy /\ snapshotOfGate.earned = {}
      /\ snapshotOfGate.watermark = 0 /\ snapshotOfGate.quote = quote
      /\ snapshotOfGate.holding = holding
      /\ holding = Nowhere /\ aims = Nowhere /\ ticks = 0 /\ timeOffset = 0
  BY DEF GateInit, Kept
<1>3. AveragesTrue(NoExpectancy, {}, 0)
  <2>1. NoExpectancy \in Expectancies
    BY DEF NoExpectancy, Expectancies, NoEstimate, Estimates
  <2> QED BY <2>1, BreakevenType DEF AveragesTrue, NoExpectancy, NoEstimate
<1>4. Nowhere \in Holdings
  BY DEF Nowhere, Holdings
<1> QED BY <1>1, <1>2, <1>3, <1>4 DEF GateInv

\* A decision learns before it asks, and what it asks for was earned.
LEMMA DecisionKeeps ==
  ASSUME GateInv, GateDecision
  PROVE  /\ GateInv'
         /\ AddsRisk(holding["source"] * quote', sleeve') => DirectionOf(sleeve') \in earned'
<1> DEFINE at == timeOffset + ticks + 1
<1>1. PICK price \in MarkPrices, points \in Votes :
        \E combined \in {CombinedSource(regular, highDensity, points) :
                           regular \in Votes, highDensity \in Votes} :
          DecideGate(price, combined, points, NotionalOf(combined, SourceTenths),
                     holding["source"] * price)
  BY DEF GateDecision
<1>2. PICK regular \in Votes, highDensity \in Votes :
        DecideGate(price, CombinedSource(regular, highDensity, points), points,
                   NotionalOf(CombinedSource(regular, highDensity, points), SourceTenths),
                   holding["source"] * price)
  BY <1>1
<1> DEFINE combined == CombinedSource(regular, highDensity, points)
           desired == NotionalOf(combined, SourceTenths)
           current == holding["source"] * price
           weights == ContributionsOf(combined, points, Retained(current, desired, expectancy'), current)
           quantity == (sleeve' + NotionalOf(points, TechnicalTenths)) \div price
<1>3. price \in Nat \ {0} /\ points \in Int /\ combined \in Int
  BY GateAssumption, CombinedType
<1>4. desired \in Int
  BY <1>3, NotionalType, GateAssumption
<1>5. current \in Int
  <2>1. holding["source"] \in Int
    BY DEF GateInv, Holdings, Sleeves
  <2> QED BY <1>3, <2>1
<1>6. /\ expectancy' = Observed(expectancy, desired, price, at)
      /\ quote' = price
      /\ sleeve' = Gated(current, desired, expectancy')
      /\ aims' = DividedBetween(quantity, weights)
      /\ earned' = Learnt(earned, expectancy, desired, price)
  BY <1>2 DEF DecideGate, Learnt
<1>7. /\ ticks' = ticks + 1 /\ watermark' = WatermarkAt(at)
      /\ UNCHANGED <<timeOffset, holding, snapshotOfGate, gateRestarts>>
  BY DEF GateDecision
<1> HIDE DEF combined, desired, current, weights, quantity
<1>8. ticks \in Nat /\ timeOffset \in Nat /\ watermark \in Nat /\ watermark <= timeOffset + ticks
  BY DEF GateInv, AveragesTrue
<1>9. at \in Nat /\ watermark <= at /\ watermark' = at
  BY <1>7, <1>8 DEF WatermarkAt
<1>10. AveragesTrue(expectancy', earned', watermark')
  <2>1. AveragesTrue(expectancy, earned, watermark)
    BY DEF GateInv
  <2> HIDE DEF at
  <2> QED BY <1>3, <1>4, <1>6, <1>9, <2>1, ObservedTrue
<1>11. /\ sleeve' \in Int
       /\ AddsRisk(current, sleeve') =>
            DirectionOf(sleeve') \in Directions /\ CoversCost(expectancy'[DirectionOf(sleeve')])
  BY <1>4, <1>5, <1>6, GatedCovers
<1>12. AddsRisk(current, sleeve') => DirectionOf(sleeve') \in earned'
  BY <1>10, <1>11, CoveredIsEarned
<1>13. AddsRisk(holding["source"] * quote', sleeve') => DirectionOf(sleeve') \in earned'
  BY <1>6, <1>12 DEF current
<1>14. aims' \in Holdings
  <2>1. NotionalOf(points, TechnicalTenths) \in Int
    BY <1>3, NotionalType, GateAssumption
  <2>2. quantity \in Int
    BY <1>3, <1>11, <2>1, QuotientType DEF quantity
  <2>3. weights \in [Sleeves -> Int]
    BY <1>3, <1>5, ContributionsType DEF weights
  <2> QED BY <1>6, <2>2, <2>3, DividedType
<1>15. quote' \in MarkPrices /\ ticks' \in Nat /\ watermark' <= timeOffset' + ticks'
  BY <1>3, <1>6, <1>7, <1>8, <1>9
<1> QED BY <1>7, <1>10, <1>13, <1>14, <1>15 DEF GateInv

LEMMA OthersKeep ==
  ASSUME GateInv, GateFill \/ GatePersist \/ GateRestart \/ UNCHANGED gateVars
  PROVE  GateInv' /\ ticks' # ticks + 1
<1>0. ticks \in Nat /\ timeOffset \in Nat
  BY DEF GateInv
<1>1. CASE GateFill
  BY <1>0, <1>1 DEF GateInv, GateFill
<1>2. CASE GatePersist
  <2>1. /\ snapshotOfGate'.expectancy = expectancy /\ snapshotOfGate'.earned = earned
        /\ snapshotOfGate'.watermark = watermark /\ snapshotOfGate'.quote = quote
        /\ snapshotOfGate'.holding = holding
    BY <1>2 DEF GatePersist, Kept
  <2>2. UNCHANGED <<quote, expectancy, watermark, timeOffset, holding, aims, earned, ticks>>
    BY <1>2 DEF GatePersist
  <2> QED BY <1>0, <2>1, <2>2 DEF GateInv
<1>3. CASE GateRestart
  <2>1. /\ expectancy' = snapshotOfGate.expectancy /\ watermark' = snapshotOfGate.watermark
        /\ timeOffset' = snapshotOfGate.watermark + 1
        /\ holding' = snapshotOfGate.holding /\ aims' = snapshotOfGate.holding
        /\ earned' = snapshotOfGate.earned /\ quote' = snapshotOfGate.quote
        /\ ticks' = 0 /\ snapshotOfGate' = snapshotOfGate
    BY <1>3 DEF GateRestart
  <2>2. snapshotOfGate.watermark \in Nat
    BY DEF GateInv, AveragesTrue
  <2>3. ticks' \in Nat /\ timeOffset' \in Nat /\ watermark' <= timeOffset' + ticks' /\ ticks' # ticks + 1
    BY <1>0, <2>1, <2>2
  <2> QED BY <2>1, <2>3 DEF GateInv
<1>4. CASE UNCHANGED gateVars
  BY <1>0, <1>4 DEF GateInv, gateVars
<1> QED BY <1>1, <1>2, <1>3, <1>4

LEMMA GateIsTrue == GateSpec => []GateInv
<1>1. GateInv /\ [GateNext]_gateVars => GateInv'
  BY DecisionKeeps, OthersKeep DEF GateNext
<1> QED BY <1>1, GateInitTrue, PTL DEF GateSpec

\* Prices, quantities and what was earned keep their types.
THEOREM GateTypeCorrect == GateSpec => []GateTypeOK
<1>1. ASSUME GateInv PROVE GateTypeOK
  <2>1. /\ quote \in MarkPrices /\ holding \in Holdings /\ aims \in Holdings
        /\ expectancy \in Expectancies /\ earned \subseteq Directions
    BY <1>1 DEF GateInv, AveragesTrue
  <2>2. expectancy.active.direction \in Directions \cup {"none"}
    BY <2>1 DEF Expectancies, Signals, NoSignal
  <2> QED BY <2>1, <2>2 DEF GateTypeOK, Holdings
<1> QED BY <1>1, GateIsTrue, PTL

\* A sleeve grows, or changes sides, only in a direction with a signal that
\* has paid for its round trips, for any votes, prices, budgets and costs and
\* any number of restarts (construct_next_decision, restore_unsigned_state).
THEOREM RiskEarned == GateSpec => RiskIsEarned
<1>1. GateInv /\ [GateNext]_gateVars =>
        [ticks' = ticks + 1 /\ AddsRisk(holding["source"] * quote', sleeve') =>
           DirectionOf(sleeve') \in earned']_gateVars
  BY DecisionKeeps, OthersKeep DEF GateNext
<1> QED BY <1>1, GateIsTrue, PTL DEF GateSpec, RiskIsEarned

-----------------------------------------------------------------------------
(* TradingEngine: the orders that continue one another.                       *)

\* What an executed order is remembered by.
Orders == [id : Nat, root : Nat, parent : Nat, generation : Nat]

\* The property, of any sequence of orders.
LinkedOrders(s) ==
  \A i \in DOMAIN s :
    /\ s[i].generation > 0 =>
         \E j \in 1 .. i - 1 :
           /\ s[i].parent = s[j].id /\ s[i].root = s[j].root
           /\ s[i].generation = s[j].generation + 1
    /\ \A j \in 1 .. i - 1 : s[j].root = s[i].root => s[j].generation # s[i].generation

\* An order that may come next: it finishes one that is there, and there is
\* none of its root that has come as far.
MayFollow(s, root, parent, generation) ==
  /\ generation > 0 => \E j \in DOMAIN s :
                         parent = s[j].id /\ root = s[j].root /\ generation = s[j].generation + 1
  /\ \A j \in DOMAIN s : s[j].root = root => s[j].generation < generation

\* The entries of the engine of which n decisions are made.
Entered(e) ==
  e = [target |-> e.target, version |-> e.version, action |-> e.action,
       awaiting |-> e.awaiting, chain |-> e.chain, executed |-> e.executed,
       emitted |-> e.emitted]

ExecutedTrue(e, n) ==
  /\ e.executed \in Seq(Orders) /\ LinkedOrders(e.executed)
  /\ \A i \in DOMAIN e.executed : e.executed[i].root <= n

ActionOf(x) ==
  x = [id |-> x.id, side |-> x.side, notional |-> x.notional, reduceOnly |-> x.reduceOnly,
       root |-> x.root, parent |-> x.parent, generation |-> x.generation, kind |-> x.kind,
       age |-> x.age, base |-> x.base]

\* The pending action, the chain and the intent: at most one of the first two,
\* and the third of another root.
ActionTrue(e, n) ==
  \/ e.action = NoAction
  \/ /\ ActionOf(e.action) /\ e.chain = NoChain
     /\ e.action.id \in 1 .. n /\ e.action.root \in 1 .. n
     /\ e.action.parent \in Nat /\ e.action.generation \in Nat
     /\ MayFollow(e.executed, e.action.root, e.action.parent, e.action.generation)

ChainTrue(e, n) ==
  \/ e.chain = NoChain
  \/ /\ e.action = NoAction
     /\ e.chain.root \in 1 .. n /\ e.chain.parent \in Nat /\ e.chain.next \in Nat \ {0}
     /\ MayFollow(e.executed, e.chain.root, e.chain.parent, e.chain.next)

AwaitingTrue(e, n) ==
  \/ e.awaiting = NoIntent
  \/ /\ e.awaiting.root \in 1 .. n
     /\ \A j \in DOMAIN e.executed : e.executed[j].root # e.awaiting.root
     /\ e.action = NoAction \/ e.action.root # e.awaiting.root
     /\ e.chain = NoChain \/ e.chain.root # e.awaiting.root

EngineTrue(e, n) ==
  Entered(e) /\ ExecutedTrue(e, n) /\ ActionTrue(e, n) /\ ChainTrue(e, n) /\ AwaitingTrue(e, n)

\* The inductive invariant.
EngineInv ==
  made \in Nat /\ EngineTrue(engine, made) /\ EngineTrue(stored.engine, made)

-----------------------------------------------------------------------------
LEMMA NothingThere == NoAction.id = 0 /\ NoIntent.root = 0 /\ NoChain.root = 0
BY DEF NoAction, NoIntent, NoChain

\* What is absent is known by its number.
LEMMA Absent ==
  ASSUME NEW e, NEW n \in Nat, EngineTrue(e, n)
  PROVE  /\ e.action.id = 0 <=> e.action = NoAction
         /\ e.awaiting.root = 0 <=> e.awaiting = NoIntent
         /\ e.chain.root = 0 <=> e.chain = NoChain
<1>1. e.action # NoAction => e.action.id \in 1 .. n
  BY DEF EngineTrue, ActionTrue
<1>2. e.awaiting # NoIntent => e.awaiting.root \in 1 .. n
  BY DEF EngineTrue, AwaitingTrue
<1>3. e.chain # NoChain => e.chain.root \in 1 .. n
  BY DEF EngineTrue, ChainTrue
<1> QED BY <1>1, <1>2, <1>3, NothingThere

LEMMA OrderFields ==
  ASSUME NEW s \in Seq(Orders)
  PROVE  /\ Len(s) \in Nat /\ DOMAIN s = 1 .. Len(s)
         /\ \A i \in DOMAIN s : /\ s[i] \in Orders /\ s[i].id \in Nat /\ s[i].root \in Nat
                               /\ s[i].parent \in Nat /\ s[i].generation \in Nat
<1>1. Len(s) \in Nat /\ DOMAIN s = 1 .. Len(s)
  BY LenProperties
<1>2. \A i \in DOMAIN s : s[i] \in Orders
  BY <1>1, ElementOfSeq
<1> QED BY <1>1, <1>2 DEF Orders

\* The roots of executed orders are not new.
LEMMA OldRoots ==
  ASSUME NEW e, NEW n \in Nat, EngineTrue(e, n)
  PROVE  \A j \in DOMAIN e.executed : e.executed[j].root <= n + 1 /\ e.executed[j].root # n + 1
<1>1. /\ e.executed \in Seq(Orders)
      /\ \A i \in DOMAIN e.executed : e.executed[i].root <= n
  BY DEF EngineTrue, ExecutedTrue
<1>2. \A i \in DOMAIN e.executed : e.executed[i].root \in Nat
  BY <1>1, OrderFields
<1> QED BY <1>1, <1>2

\* More decisions change nothing of it.
LEMMA MoreDecisions ==
  ASSUME NEW e, NEW n \in Nat, EngineTrue(e, n)
  PROVE  EngineTrue(e, n + 1)
<1>1. 1 .. n \subseteq 1 .. (n + 1)
  OBVIOUS
<1>2. ExecutedTrue(e, n + 1)
  BY OldRoots DEF EngineTrue, ExecutedTrue
<1>3. ActionTrue(e, n + 1) /\ ChainTrue(e, n + 1) /\ AwaitingTrue(e, n + 1)
  BY <1>1 DEF EngineTrue, ActionTrue, ChainTrue, AwaitingTrue
<1> QED BY <1>2, <1>3 DEF EngineTrue

\* Nothing is pending, nothing to be continued: what is left of e.
LEMMA Dropped ==
  ASSUME NEW e, NEW n \in Nat, EngineTrue(e, n), NEW f, Entered(f),
         f.executed = e.executed,
         f.action \in {e.action, NoAction}, f.chain \in {e.chain, NoChain},
         f.awaiting \in {e.awaiting, NoIntent}
  PROVE  EngineTrue(f, n)
<1>1. ExecutedTrue(f, n)
  BY DEF EngineTrue, ExecutedTrue
<1>2. ActionTrue(f, n)
  BY DEF EngineTrue, ActionTrue
<1>3. ChainTrue(f, n)
  BY DEF EngineTrue, ChainTrue
<1>4. AwaitingTrue(f, n)
  BY DEF EngineTrue, AwaitingTrue
<1> QED BY <1>1, <1>2, <1>3, <1>4 DEF EngineTrue

LEMMA EmittedKeeps ==
  ASSUME NEW e, NEW n \in Nat, EngineTrue(e, n), NEW m
  PROVE  EngineTrue([e EXCEPT !.emitted = m], n)
<1> DEFINE f == [e EXCEPT !.emitted = m]
<1>1. /\ Entered(f) /\ f.executed = e.executed /\ f.awaiting = e.awaiting
      /\ f.action = e.action /\ f.chain = e.chain
  BY DEF Entered, EngineTrue
<1> HIDE DEF f
<1>2. EngineTrue(f, n)
  BY <1>1, Dropped
<1> QED BY <1>2 DEF f

LEMMA SentKeeps ==
  ASSUME NEW e, NEW n \in Nat, EngineTrue(e, n), NEW t, NEW queued
  PROVE  EngineTrue(Sent(e, t, queued), n)
<1>1. Sent(e, t, queued) = [e EXCEPT !.emitted = e.emitted \ {i.id : i \in t.sent \ queued}]
  BY Zenon DEF Sent
<1> QED BY <1>1, EmittedKeeps

-----------------------------------------------------------------------------
(* A decision.                                                             *)

LEMMA AwaitingKeeps ==
  ASSUME NEW e, NEW n \in Nat, EngineTrue(e, n)
  PROVE  EngineTrue(Awaiting(e, n + 1), n + 1)
<1> DEFINE f == Awaiting(e, n + 1)
<1> DEFINE w == IF e.awaiting.root # 0 THEN e.awaiting ELSE [root |-> n + 1]
<1>0. f = [e EXCEPT !.awaiting = w] /\ w \in {e.awaiting, [root |-> n + 1]}
  BY Zenon DEF Awaiting
<1> SUFFICES EngineTrue(f, n + 1)
  OBVIOUS
<1> HIDE DEF w, f
<1>1. /\ Entered(f) /\ f.executed = e.executed /\ f.action = e.action /\ f.chain = e.chain
      /\ f.awaiting = w
  BY <1>0 DEF Entered, EngineTrue
<1>2. EngineTrue(e, n + 1)
  BY MoreDecisions
<1>3. CASE f.awaiting = e.awaiting
  BY <1>1, <1>2, <1>3, n + 1 \in Nat, Dropped
<1>4. CASE f.awaiting = [root |-> n + 1]
  <2>1. f.awaiting.root = n + 1
    BY <1>4
  <2>2. \A j \in DOMAIN e.executed : e.executed[j].root # n + 1
    BY OldRoots
  <2>3. e.action = NoAction \/ e.action.root # n + 1
    BY DEF EngineTrue, ActionTrue
  <2>4. e.chain = NoChain \/ e.chain.root # n + 1
    BY DEF EngineTrue, ChainTrue
  <2>5. AwaitingTrue(f, n + 1)
    BY <1>1, <2>1, <2>2, <2>3, <2>4 DEF AwaitingTrue
  <2>6. ExecutedTrue(f, n + 1) /\ ActionTrue(f, n + 1) /\ ChainTrue(f, n + 1)
    BY <1>1, <1>2 DEF EngineTrue, ExecutedTrue, ActionTrue, ChainTrue
  <2> QED BY <1>1, <2>5, <2>6 DEF EngineTrue
<1> QED BY <1>0, <1>1, <1>3, <1>4

LEMMA ReplacedKeeps ==
  ASSUME NEW e, NEW n \in Nat, EngineTrue(e, n), NEW x, NEW at
  PROVE  EngineTrue(Replaced(e, x, n + 1, at), n + 1)
<1> DEFINE f == Replaced(e, x, n + 1, at)
           chained == e.chain.root # 0
           root == IF e.chain.root # 0 THEN e.chain.root
                   ELSE IF e.awaiting.root # 0 THEN e.awaiting.root ELSE n + 1
           parent == IF chained THEN e.chain.parent ELSE 0
           generation == IF chained THEN e.chain.next ELSE 0
<1> DEFINE kind == IF chained THEN e.chain.kind ELSE "none"
           a == [id |-> n + 1, side |-> x.side, notional |-> x.notional,
                 reduceOnly |-> x.reduceOnly, root |-> root, parent |-> parent,
                 generation |-> generation, kind |-> kind, age |-> 0, base |-> at]
<1>0. f = [e EXCEPT !.awaiting = NoIntent, !.chain = NoChain, !.action = a]
  BY Zenon DEF Replaced
<1> HIDE DEF kind, root, parent, generation, f
<1>2. /\ ActionOf(a) /\ a.id = n + 1 /\ a.root = root /\ a.parent = parent
      /\ a.generation = generation
  BY DEF ActionOf
<1> HIDE DEF a
<1>1. /\ Entered(f) /\ f.executed = e.executed /\ f.chain = NoChain /\ f.awaiting = NoIntent
      /\ f.action = a
  BY <1>0 DEF Entered, EngineTrue
<1> USE DEF root, parent, generation
<1>3. EngineTrue(e, n + 1)
  BY MoreDecisions
<1>4. root \in 1 .. n + 1 /\ parent \in Nat /\ generation \in Nat
      /\ MayFollow(e.executed, root, parent, generation)
  <2>1. CASE chained
    <3>1. e.chain # NoChain
      BY <2>1, Absent
    <3> QED BY <2>1, <3>1 DEF EngineTrue, ChainTrue
  <2>2. CASE ~chained /\ e.awaiting.root # 0
    <3>1. e.awaiting # NoIntent
      BY <2>2, Absent
    <3>2. root = e.awaiting.root /\ parent = 0 /\ generation = 0
      BY <2>2
    <3>3. /\ e.awaiting.root \in 1 .. n
          /\ \A j \in DOMAIN e.executed : e.executed[j].root # e.awaiting.root
      BY <3>1 DEF EngineTrue, AwaitingTrue
    <3> HIDE DEF root, parent, generation
    <3> QED BY <3>2, <3>3 DEF MayFollow
  <2>3. CASE ~chained /\ e.awaiting.root = 0
    <3>1. root = n + 1 /\ parent = 0 /\ generation = 0
      BY <2>3
    <3>2. \A j \in DOMAIN e.executed : e.executed[j].root # n + 1
      BY OldRoots
    <3> HIDE DEF root, parent, generation
    <3> QED BY <3>1, <3>2 DEF MayFollow
  <2> QED BY <2>1, <2>2, <2>3
<1> HIDE DEF root, parent, generation
<1>5. ActionTrue(f, n + 1)
  BY <1>1, <1>2, <1>4 DEF ActionTrue
<1>6. ExecutedTrue(f, n + 1)
  BY <1>1, <1>3 DEF EngineTrue, ExecutedTrue
<1> QED BY <1>1, <1>5, <1>6 DEF EngineTrue, ChainTrue, AwaitingTrue, f

LEMMA NeedlessKeeps ==
  ASSUME NEW e, NEW n \in Nat, EngineTrue(e, n), NEW freshBook
  PROVE  EngineTrue(WithoutNeed(e, freshBook), n)
<1> DEFINE invalid == e.awaiting.root # 0 /\ freshBook
           w == IF invalid THEN NoIntent ELSE e.awaiting
           a == IF invalid THEN NoAction ELSE e.action
           f == WithoutNeed(e, freshBook)
<1>1. w \in {e.awaiting, NoIntent} /\ a \in {e.action, NoAction}
  OBVIOUS
<1>2. f = [e EXCEPT !.awaiting = w, !.action = a, !.chain = NoChain]
  BY Zenon DEF WithoutNeed
<1> HIDE DEF w, a, f
<1>3. /\ Entered(f) /\ f.executed = e.executed /\ f.awaiting = w /\ f.action = a
      /\ f.chain = NoChain
  BY <1>2 DEF Entered, EngineTrue
<1>4. EngineTrue(f, n)
  BY <1>1, <1>3, Dropped
<1> QED BY <1>4 DEF f

LEMMA AimedKeeps ==
  ASSUME NEW e, NEW n \in Nat, EngineTrue(e, n), NEW v, NEW t
  PROVE  EngineTrue([e EXCEPT !.version = v, !.target = t], n)
<1> DEFINE f == [e EXCEPT !.version = v, !.target = t]
<1>0. f = [e EXCEPT !.version = v, !.target = t]
  OBVIOUS
<1> HIDE DEF f
<1>1. /\ Entered(f) /\ f.executed = e.executed /\ f.awaiting = e.awaiting
      /\ f.action = e.action /\ f.chain = e.chain
  BY <1>0 DEF Entered, EngineTrue
<1>2. EngineTrue(f, n)
  BY <1>1, Dropped
<1> QED BY <1>2 DEF f

LEMMA DecisionKeepsOrders ==
  ASSUME NEW e, NEW n \in Nat, EngineTrue(e, n), NEW quantity, NEW agreement, NEW seconded,
         NEW freshBook
  PROVE  EngineTrue(Recomputed(e, quantity, agreement, seconded, freshBook, n + 1).e, n + 1)
<1>1. ASSUME NEW d
      PROVE  EngineTrue(Targeting(e, d, quantity, seconded, freshBook, n + 1).e, n + 1)
  <2> DEFINE x == CHOOSE y \in d.actions : TRUE
             t == [raw |-> d.raw, num |-> d.num, den |-> d.den, seconded |-> seconded]
             decided == [e EXCEPT !.version = n + 1, !.target = t]
             after == WithDecision(e, d, decided, quantity, freshBook, n + 1).e
  <2>1. Targeting(e, d, quantity, seconded, freshBook, n + 1).e = after
    BY Zenon DEF Targeting
  <2> HIDE DEF t
  <2>2. EngineTrue(decided, n)
    BY AimedKeeps
  <2> HIDE DEF x, decided
  <2>3. after \in {e, WithoutNeed(decided, freshBook), Taken(decided, x, quantity, freshBook, n + 1)}
    BY DEF WithDecision, x
  <2>4. EngineTrue(e, n + 1) /\ EngineTrue(decided, n + 1)
    BY <2>2, MoreDecisions
  <2>5. EngineTrue(WithoutNeed(decided, freshBook), n + 1)
    BY <2>4, NeedlessKeeps
  <2>6. EngineTrue(Taken(decided, x, quantity, freshBook, n + 1), n + 1)
    BY <2>2, <2>4, AwaitingKeeps, ReplacedKeeps DEF Taken
  <2> HIDE DEF after
  <2> QED BY <2>1, <2>3, <2>4, <2>5, <2>6
<1> QED BY <1>1, Zenon DEF Recomputed

-----------------------------------------------------------------------------
(* An execution.                                                           *)

LEMMA ExecutedKeeps ==
  ASSUME NEW e, NEW n \in Nat, EngineTrue(e, n), e.action # NoAction, NEW before, NEW fill
  PROVE  EngineTrue(Executed(e, before, fill), n)
<1> DEFINE x == e.action
           done == [id |-> x.id, root |-> x.root, parent |-> x.parent, generation |-> x.generation]
           s == e.executed
           grown == Append(s, done)
           after == PositionAfter(x.side, before, fill)
           kind == IF fill.remaining # 0 THEN "PartialIocRemainder"
                   ELSE IF CloseFirstCompleted(e, before, after, fill) THEN "CloseFirstReversal"
                   ELSE "none"
           next == [root |-> x.root, parent |-> x.id, next |-> x.generation + 1, kind |-> kind]
           chain == IF kind = "none" THEN e.chain ELSE next
           f == Executed(e, before, fill)
<1>1. f = [e EXCEPT !.action = NoAction, !.executed = grown, !.chain = chain]
  BY Zenon DEF Executed
<1>2. chain \in {e.chain, next}
  OBVIOUS
<1>3. /\ next.root = x.root /\ next.parent = x.id /\ next.next = x.generation + 1
  OBVIOUS
<1> HIDE DEF chain, next, kind, after, f
<1>4. /\ x.id \in 1 .. n /\ x.root \in 1 .. n /\ x.parent \in Nat /\ x.generation \in Nat
      /\ MayFollow(s, x.root, x.parent, x.generation) /\ e.chain = NoChain
      /\ s \in Seq(Orders) /\ LinkedOrders(s) /\ \A i \in DOMAIN s : s[i].root <= n
  BY DEF EngineTrue, ActionTrue, ExecutedTrue
<1>5. /\ done \in Orders /\ done.id = x.id /\ done.root = x.root /\ done.parent = x.parent
      /\ done.generation = x.generation
  BY <1>4 DEF Orders
<1> HIDE DEF done
<1>6. /\ grown \in Seq(Orders) /\ DOMAIN s = 1 .. Len(s) /\ Len(s) \in Nat
      /\ DOMAIN grown = 1 .. Len(s) + 1 /\ grown[Len(s) + 1] = done
      /\ \A i \in 1 .. Len(s) : grown[i] = s[i]
  BY <1>4, <1>5, AppendProperties, LenProperties
<1> HIDE DEF grown, s, x
<1>7. /\ Entered(f) /\ f.action = NoAction /\ f.executed = grown /\ f.chain = chain
      /\ f.awaiting = e.awaiting
  BY <1>1 DEF Entered, EngineTrue
<1>8. LinkedOrders(grown)
  <2> SUFFICES ASSUME NEW i \in DOMAIN grown
               PROVE  /\ grown[i].generation > 0 =>
                           \E j \in 1 .. i - 1 :
                             /\ grown[i].parent = grown[j].id /\ grown[i].root = grown[j].root
                             /\ grown[i].generation = grown[j].generation + 1
                      /\ \A j \in 1 .. i - 1 :
                           grown[j].root = grown[i].root => grown[j].generation # grown[i].generation
    BY DEF LinkedOrders
  <2>1. CASE i \in 1 .. Len(s)
    <3>1. grown[i] = s[i] /\ \A j \in 1 .. i - 1 : grown[j] = s[j]
      BY <1>6, <2>1
    <3>2. i \in DOMAIN s
      BY <1>6, <2>1
    <3>3. /\ s[i].generation > 0 =>
               \E j \in 1 .. i - 1 :
                 /\ s[i].parent = s[j].id /\ s[i].root = s[j].root
                 /\ s[i].generation = s[j].generation + 1
          /\ \A j \in 1 .. i - 1 : s[j].root = s[i].root => s[j].generation # s[i].generation
      BY ONLY <1>4, <3>2 DEF LinkedOrders
    <3> QED BY ONLY <3>1, <3>3
  <2>2. CASE i = Len(s) + 1
    <3>1. grown[i] = done /\ 1 .. i - 1 = DOMAIN s /\ \A j \in DOMAIN s : grown[j] = s[j]
      BY <1>6, <2>2
    <3>2. \A j \in DOMAIN s : s[j].generation \in Nat
      BY <1>4, OrderFields
    <3>3. /\ x.generation > 0 => \E j \in DOMAIN s :
               x.parent = s[j].id /\ x.root = s[j].root /\ x.generation = s[j].generation + 1
          /\ \A j \in DOMAIN s : s[j].root = x.root => s[j].generation < x.generation
      BY ONLY <1>4 DEF MayFollow
    <3>4. \A j \in 1 .. i - 1 : j \in DOMAIN s /\ grown[j] = s[j] /\ s[j].generation \in Nat
      BY ONLY <3>1, <3>2
    <3>5. \A j \in 1 .. i - 1 : grown[j].root = grown[i].root => grown[j].generation # grown[i].generation
      BY ONLY <1>4, <1>5, <3>1, <3>3, <3>4
    <3>6. grown[i].generation > 0 =>
            \E j \in 1 .. i - 1 :
              /\ grown[i].parent = grown[j].id /\ grown[i].root = grown[j].root
              /\ grown[i].generation = grown[j].generation + 1
      BY ONLY <1>4, <1>5, <3>1, <3>3
    <3> QED BY ONLY <3>5, <3>6
  <2> QED BY <1>6, <2>1, <2>2
<1>9. ExecutedTrue(f, n)
  BY <1>4, <1>5, <1>6, <1>7, <1>8 DEF ExecutedTrue
<1>10. MayFollow(grown, x.root, x.id, x.generation + 1)
  <2>1. \A j \in DOMAIN s : s[j].generation \in Nat
    BY <1>4, OrderFields
  <2>2. \A j \in DOMAIN grown : grown[j].root = x.root => grown[j].generation < x.generation + 1
    BY <1>4, <1>5, <1>6, <2>1 DEF MayFollow
  <2>3. Len(s) + 1 \in DOMAIN grown
    BY <1>6
  <2> QED BY <1>4, <1>5, <1>6, <2>2, <2>3 DEF MayFollow
<1>11. ChainTrue(f, n)
  <2>1. CASE chain = e.chain
    BY <1>4, <1>7, <2>1 DEF ChainTrue
  <2>2. CASE chain = next
    BY <1>3, <1>4, <1>7, <1>10, <2>2 DEF ChainTrue
  <2> QED BY <1>2, <2>1, <2>2
<1>12. AwaitingTrue(f, n)
  <2>1. CASE e.awaiting = NoIntent
    BY <1>7, <2>1 DEF AwaitingTrue
  <2>2. CASE e.awaiting # NoIntent
    <3>1. /\ e.awaiting.root \in 1 .. n /\ x.root # e.awaiting.root
          /\ \A j \in DOMAIN s : s[j].root # e.awaiting.root
      BY <2>2 DEF EngineTrue, AwaitingTrue, s, x
    <3>2. \A j \in DOMAIN grown : grown[j].root # e.awaiting.root
      BY <1>5, <1>6, <3>1
    <3>3. chain = NoChain \/ chain.root # e.awaiting.root
      BY <1>2, <1>3, <1>4, <3>1
    <3> QED BY <1>7, <3>1, <3>2, <3>3 DEF AwaitingTrue
  <2> QED BY <2>1, <2>2
<1>13. ActionTrue(f, n)
  BY <1>7 DEF ActionTrue
<1>14. EngineTrue(f, n)
  BY <1>7, <1>9, <1>11, <1>12, <1>13 DEF EngineTrue
<1> QED BY <1>14 DEF f

LEMMA GivenUp ==
  ASSUME NEW e, NEW n \in Nat, EngineTrue(e, n)
  PROVE  EngineTrue([e EXCEPT !.action = NoAction], n)
<1> DEFINE f == [e EXCEPT !.action = NoAction]
<1>1. /\ Entered(f) /\ f.executed = e.executed /\ f.awaiting = e.awaiting
      /\ f.action = NoAction /\ f.chain = e.chain
  BY DEF Entered, EngineTrue
<1> HIDE DEF f
<1>2. EngineTrue(f, n)
  BY <1>1, Dropped
<1> QED BY <1>2 DEF f


\* try_execute_pending executes the order, gives it up, or leaves it.
LEMMA TryExecuteKeeps ==
  ASSUME NEW e, NEW n \in Nat, EngineTrue(e, n), NEW quantity, NEW first, NEW second
  PROVE  EngineTrue(TryExecute(e, quantity, first, second).e, n)
<1>1. EngineTrue([e EXCEPT !.action = NoAction], n)
  BY GivenUp
<1>2. \A f, q : Nothing(f, q).e = f
  BY DEF Nothing
<1>3. CASE e.action.id = 0 \/ e.action.age < Latency
  BY <1>2, <1>3 DEF TryExecute
<1>4. CASE ~(e.action.id = 0 \/ e.action.age < Latency)
  <2>1. e.action # NoAction
    BY <1>4, NothingThere
  <2>2. ASSUME NEW order, NEW ioc, NEW levels
        PROVE  EngineTrue(Priced(e, quantity, order, ioc, levels).e, n)
    <3> DEFINE m == e.emitted \cup {e.action.id}
               t == [e EXCEPT !.emitted = m]
               fill == ShadowFill(order.side, order.quantity, ioc.limit, levels)
               sent == {[id |-> e.action.id, side |-> order.side, quantity |-> order.quantity,
                         reduceOnly |-> e.action.reduceOnly, base |-> e.action.base]}
    <3>1. t = [e EXCEPT !.emitted = e.emitted \cup {e.action.id}] /\ EngineTrue(t, n)
      BY EmittedKeeps
    <3>2. [Nothing(t, quantity) EXCEPT !.sent = sent].e = t
      BY DEF Nothing
    <3>3. /\ Filled(e, quantity, order.side, fill).e = Executed(e, quantity, fill)
          /\ EngineTrue(Executed(e, quantity, fill), n)
      BY <2>1, ExecutedKeeps DEF Filled, Outcome
    <3> DEFINE P == Priced(e, quantity, order, ioc, levels)
               none == [e EXCEPT !.action = NoAction]
               u == [Nothing(t, quantity) EXCEPT !.sent = sent]
               v == Filled(e, quantity, order.side, fill)
    <3>4. P = Nothing(none, quantity) \/ P = Nothing(e, quantity) \/ P = u \/ P = v
      BY Zenon DEF Priced
    <3>5. u.e = t /\ v.e = Executed(e, quantity, fill)
      BY <3>2, <3>3
    <3> HIDE DEF t, sent, fill, none, u, v, P
    <3>6. P.e = none \/ P.e = e \/ P.e = t \/ P.e = Executed(e, quantity, fill)
      BY <1>2, <3>4, <3>5, Zenon
    <3> QED BY <1>1, <3>1, <3>3, <3>6, Zenon DEF P, none
  <2>3. ASSUME NEW order
        PROVE  EngineTrue(Ordered(e, quantity, order, first, second).e, n)
    <3>1. \A b : [Nothing(e, quantity) EXCEPT !.error = b].e = e
      BY DEF Nothing
    <3>2. \A levels : EngineTrue(OnLevels(e, quantity, order, levels).e, n)
      BY <2>2, Zenon DEF OnLevels
    <3>3. \/ \E levels : Ordered(e, quantity, order, first, second)
                           = OnLevels(e, quantity, order, levels)
          \/ Ordered(e, quantity, order, first, second)
               = Nothing([e EXCEPT !.action = NoAction], quantity)
          \/ Ordered(e, quantity, order, first, second)
               = [Nothing(e, quantity) EXCEPT !.error = order.blocked]
      BY Zenon DEF Ordered
    <3>4. ASSUME NEW levels,
                 Ordered(e, quantity, order, first, second) = OnLevels(e, quantity, order, levels)
          PROVE  EngineTrue(Ordered(e, quantity, order, first, second).e, n)
      BY <3>2, <3>4, Zenon
    <3>5. ASSUME Ordered(e, quantity, order, first, second)
                   \in {Nothing([e EXCEPT !.action = NoAction], quantity),
                        [Nothing(e, quantity) EXCEPT !.error = order.blocked]}
          PROVE  EngineTrue(Ordered(e, quantity, order, first, second).e, n)
      BY <1>1, <1>2, <3>1, <3>5, Zenon
    <3> QED BY <3>3, <3>4, <3>5, Zenon
  <2>4. \E order : TryExecute(e, quantity, first, second) = Ordered(e, quantity, order, first, second)
    BY <1>4, Zenon DEF TryExecute
  <2> QED BY <2>3, <2>4
<1> QED BY <1>3, <1>4

-----------------------------------------------------------------------------
(* The loop.                                                               *)

\* What goes into a snapshot: an order that continues another one is to be
\* continued again, and every other one is forgotten.
LEMMA PersistedKeeps ==
  ASSUME NEW e, NEW n \in Nat, EngineTrue(e, n)
  PROVE  EngineTrue(Persisted(e), n)
<1> DEFINE x == e.action
           again == [root |-> x.root, parent |-> x.parent, next |-> x.generation, kind |-> x.kind]
           kept == IF x.id # 0 /\ x.generation > 0 THEN again ELSE e.chain
           t == [e.target EXCEPT !.seconded = FALSE]
           f == Persisted(e)
<1>1. f = [FreshEngine EXCEPT !.target = t, !.version = e.version, !.chain = kept,
                              !.executed = e.executed]
  BY Zenon DEF Persisted
<1> SUFFICES EngineTrue(f, n)
  OBVIOUS
<1> HIDE DEF t, kept, f
<1>2. /\ Entered(f) /\ f.executed = e.executed /\ f.action = NoAction
      /\ f.awaiting = NoIntent /\ f.chain = kept
  BY <1>1 DEF FreshEngine, Entered
<1>3. ExecutedTrue(f, n) /\ ActionTrue(f, n) /\ AwaitingTrue(f, n)
  BY <1>2 DEF EngineTrue, ExecutedTrue, ActionTrue, AwaitingTrue
<1>4. ChainTrue(f, n)
  <2>1. CASE x.id # 0 /\ x.generation > 0
    <3>1. x # NoAction
      BY <2>1, NothingThere
    <3>2. /\ x.root \in 1 .. n /\ x.parent \in Nat /\ x.generation \in Nat \ {0}
          /\ MayFollow(e.executed, x.root, x.parent, x.generation)
      BY <2>1, <3>1 DEF EngineTrue, ActionTrue
    <3>3. kept.root = x.root /\ kept.parent = x.parent /\ kept.next = x.generation
      BY <2>1 DEF kept
    <3> HIDE DEF x
    <3> QED BY <1>2, <3>2, <3>3 DEF ChainTrue
  <2>2. CASE ~(x.id # 0 /\ x.generation > 0)
    <3>1. kept = e.chain
      BY <2>2, Zenon DEF kept
    <3> HIDE DEF x
    <3> QED BY <1>2, <3>1 DEF EngineTrue, ChainTrue
  <2> QED BY <2>1, <2>2
<1> QED BY <1>2, <1>3, <1>4 DEF EngineTrue

LEMMA FreshIsTrue == EngineTrue(FreshEngine, 0)
<1>1. /\ Entered(FreshEngine) /\ FreshEngine.action = NoAction
      /\ FreshEngine.awaiting = NoIntent /\ FreshEngine.chain = NoChain
      /\ FreshEngine.executed = << >>
  BY DEF FreshEngine, Entered
<1>2. << >> \in Seq(Orders) /\ DOMAIN << >> = {}
  BY EmptySeq
<1>3. ExecutedTrue(FreshEngine, 0)
  BY <1>1, <1>2 DEF ExecutedTrue, LinkedOrders
<1> QED BY <1>1, <1>3 DEF EngineTrue, ActionTrue, ChainTrue, AwaitingTrue

LEMMA EngineInitTrue == EngineInit => EngineInv
<1>1. Snapshot(FreshEngine, 0).engine = Persisted(FreshEngine)
  BY DEF Snapshot
<1> QED BY <1>1, FreshIsTrue, PersistedKeeps DEF EngineInit, EngineInv

LEMMA AgedKeeps ==
  ASSUME NEW e, NEW n \in Nat, EngineTrue(e, n), e.action # NoAction
  PROVE  EngineTrue([e EXCEPT !.action.age = @ + 1], n)
<1> DEFINE x == e.action
           a == [x EXCEPT !.age = x.age + 1]
           f == [e EXCEPT !.action = a]
<1>1. [e EXCEPT !.action.age = @ + 1] = f
  BY Zenon
<1>2. /\ ActionOf(x) /\ e.chain = NoChain /\ x.id \in 1 .. n /\ x.root \in 1 .. n
      /\ x.parent \in Nat /\ x.generation \in Nat
      /\ MayFollow(e.executed, x.root, x.parent, x.generation)
  BY DEF EngineTrue, ActionTrue
<1>3. /\ ActionOf(a) /\ a.id = x.id /\ a.root = x.root /\ a.parent = x.parent
      /\ a.generation = x.generation
  BY <1>2 DEF ActionOf
<1> HIDE DEF a
<1>4. /\ Entered(f) /\ f.executed = e.executed /\ f.action = a /\ f.chain = e.chain
      /\ f.awaiting = e.awaiting
  BY DEF Entered, EngineTrue
<1> HIDE DEF f
<1>5. ActionTrue(f, n)
  BY <1>2, <1>3, <1>4 DEF ActionTrue
<1>6. AwaitingTrue(f, n)
  BY <1>3, <1>4 DEF EngineTrue, AwaitingTrue
<1>7. ExecutedTrue(f, n) /\ ChainTrue(f, n)
  BY <1>2, <1>4 DEF EngineTrue, ExecutedTrue, ChainTrue
<1>8. EngineTrue(f, n)
  BY <1>4, <1>5, <1>6, <1>7 DEF EngineTrue
<1> QED BY <1>1, <1>8

LEMMA TickDecides == EngineInv /\ DecisionTick => EngineInv'
<1> SUFFICES ASSUME EngineInv, DecisionTick PROVE EngineInv'
  OBVIOUS
<1>1. PICK agreement \in Agreements, seconded \in BOOLEAN :
        engine' = Recomputed(engine, held, agreement, seconded, bookAge <= BookAge, made + 1).e
  BY DEF DecisionTick
<1>2. /\ made \in Nat /\ made' = made + 1 /\ stored' = stored
      /\ EngineTrue(engine, made) /\ EngineTrue(stored.engine, made)
  BY DEF DecisionTick, EngineInv
<1>3. EngineTrue(engine', made + 1)
  BY <1>1, <1>2, DecisionKeepsOrders
<1>4. EngineTrue(stored.engine, made + 1)
  BY <1>2, MoreDecisions
<1> QED BY <1>2, <1>3, <1>4 DEF EngineInv

LEMMA BookKeeps == EngineInv /\ BookArrives => EngineInv'
<1> SUFFICES ASSUME EngineInv, BookArrives PROVE EngineInv'
  OBVIOUS
<1>1. /\ made \in Nat /\ stored' = stored
      /\ EngineTrue(engine, made) /\ EngineTrue(stored.engine, made)
  BY DEF BookArrives, EngineInv
<1>2. PICK first \in Depths, second \in Depths :
        \E t \in {TryExecute(engine, held, first, second)} : \E queued \in {{}, t.sent} :
           \/ engine' = Sent(t.e, t, queued) /\ made' = made
           \/ DecideAgain(t, queued)
  BY DEF BookArrives
<1>3. PICK t, queued :
        /\ t = TryExecute(engine, held, first, second)
        /\ \/ engine' = Sent(t.e, t, queued) /\ made' = made
           \/ DecideAgain(t, queued)
  BY <1>2
<1>4. EngineTrue(t.e, made)
  BY <1>1, <1>3, TryExecuteKeeps
<1>5. CASE engine' = Sent(t.e, t, queued) /\ made' = made
  BY <1>1, <1>4, <1>5, SentKeeps DEF EngineInv
<1>6. CASE DecideAgain(t, queued)
  <2>1. PICK agreement \in Agreements, seconded \in BOOLEAN :
          engine' = Sent(Recomputed(t.e, t.held, agreement, seconded, TRUE, made + 1).e, t, queued)
    BY <1>6 DEF DecideAgain
  <2>2. made' = made + 1 /\ made + 1 \in Nat
    BY <1>1, <1>6 DEF DecideAgain
  <2>3. EngineTrue(Recomputed(t.e, t.held, agreement, seconded, TRUE, made + 1).e, made + 1)
    BY <1>1, <1>4, DecisionKeepsOrders
  <2>4. EngineTrue(engine', made + 1)
    BY <2>1, <2>2, <2>3, SentKeeps
  <2>5. EngineTrue(stored.engine, made + 1)
    BY <1>1, MoreDecisions
  <2> QED BY <1>1, <2>2, <2>4, <2>5 DEF EngineInv
<1> QED BY <1>3, <1>5, <1>6

LEMMA LoopKeeps ==
  EngineInv /\ (Persist \/ FillReported \/ EngineTick \/ Restart \/ UNCHANGED engineVars) => EngineInv'
<1>1. ASSUME EngineInv, Persist PROVE EngineInv'
  <2>1. /\ stored'.engine = Persisted(engine) /\ engine' = engine /\ made' = made
    BY <1>1 DEF Persist, Snapshot
  <2> QED BY <1>1, <2>1, PersistedKeeps DEF EngineInv
<1>2. ASSUME EngineInv, FillReported \/ UNCHANGED engineVars PROVE EngineInv'
  BY <1>2 DEF FillReported, engineVars, EngineInv
<1>3. ASSUME EngineInv, Restart PROVE EngineInv'
  BY <1>3 DEF Restart, EngineInv
<1>4. ASSUME EngineInv, EngineTick PROVE EngineInv'
  <2>1. /\ made' = made /\ stored' = stored
        /\ \/ engine' = engine
           \/ engine.action.id # 0 /\ engine' = [engine EXCEPT !.action.age = @ + 1]
    BY <1>4, Zenon DEF EngineTick
  <2>2. engine.action.id # 0 => engine.action # NoAction
    BY NothingThere
  <2> QED BY <1>4, <2>1, <2>2, AgedKeeps DEF EngineInv
<1> QED BY <1>1, <1>2, <1>3, <1>4

LEMMA EngineIsTrue == EngineSpec => []EngineInv
<1>1. EngineInv /\ [EngineNext]_engineVars => EngineInv'
  BY TickDecides, BookKeeps, LoopKeeps DEF EngineNext
<1> QED BY <1>1, EngineInitTrue, PTL DEF EngineSpec

\* Every order of a later generation finishes the one before it, and no
\* generation of a root is executed twice, for any policy, prices, books and
\* decisions and any number of restarts (ContinuationIntent,
\* persist_unsigned_state).
THEOREM OrdersLinked == EngineSpec => []ContinuationsAreLinked
<1>1. EngineInv => ContinuationsAreLinked
  <2> SUFFICES ASSUME EngineInv PROVE ContinuationsAreLinked
    OBVIOUS
  <2>1. LinkedOrders(engine.executed)
    BY DEF EngineInv, EngineTrue, ExecutedTrue
  <2> QED BY <2>1 DEF LinkedOrders, ContinuationsAreLinked
<1> QED BY <1>1, EngineIsTrue, PTL

-----------------------------------------------------------------------------
(* CohortVote: the vote in force is the one of the last decision.          *)

\* The target is none, or a target as it is proposed with a version.
VersionedTarget(t) ==
  t = [version |-> t.version, direction |-> t.direction, impulse |-> t.impulse,
       consensus |-> t.consensus, existing |-> t.existing, cohort |-> t.cohort,
       source |-> t.source]

TargetTrue(t) ==
  \/ t = NoTarget
  \/ VersionedTarget(t) /\ t.version \in Nat /\ t.cohort \in Int /\ t.source \in Int

MemberStates == [at : Nat, position : StatesOf \cup {0}]
Frames == [at : Nat, net : Int, gross : Nat]

\* The inductive invariant.
CohortInv ==
  /\ cohortClock \in Nat /\ members \in [Members -> MemberStates]
  /\ \A m \in Members : members[m].at <= cohortClock
  /\ frames \in Seq(Frames) /\ TargetTrue(material) /\ CohortVoteIsCurrent

-----------------------------------------------------------------------------
\* A set of natural numbers has a least element, and a greatest one if it is
\* bounded.
LEMMA LeastNumber ==
  ASSUME NEW T, T \subseteq Nat, T # {}
  PROVE  Min(T) \in T
<1>1. \E x \in T : \A y \in T : x <= y
  BY LeastExists
<1> QED BY <1>1 DEF Min

LEMMA GreatestNumber ==
  ASSUME NEW n \in Nat, NEW T, T \subseteq 0 .. n, T # {}
  PROVE  Max(T) \in T
<1> DEFINE U == {n - x : x \in T}
<1>1. U \subseteq Nat /\ U # {}
  <2>1. \A x \in T : n - x \in Nat
    OBVIOUS
  <2> QED BY <2>1
<1>2. \E z \in U : \A y \in U : z <= y
  <2> HIDE DEF U
  <2> QED BY <1>1, LeastExists
<1>3. PICK x \in T : \A y \in U : n - x <= y
  BY <1>2
<1>4. ASSUME NEW y \in T PROVE x >= y
  <2>1. n - y \in U
    OBVIOUS
  <2>2. n - x <= n - y
    BY <1>3, <2>1
  <2> QED BY <2>2
<1>5. \E z \in T : \A y \in T : z >= y
  BY <1>4
<1> QED BY <1>5 DEF Max

LEMMA NoTargetVersion == NoTarget.version = -1
BY DEF NoTarget

LEMMA SignAndSize ==
  /\ \A x : Sgn(x) \in {-1, 0, 1}
  /\ \A x \in Int : Magn(x) \in Nat
  /\ \A x \in Int, limit \in Int : Bounded(x, limit) \in Int
BY DEF Sgn, Magn, Bounded

\* Two targets whose sources, or whose cohorts, differ materially are different.
LEMMA ImmaterialKept ==
  ASSUME NEW old, NEW new, ~MaterialChange(old, new), NEW part \in {"cohort", "source"},
         old[part] \in Int, new[part] \in Int
  PROVE  Sgn(old[part]) = Sgn(new[part]) /\ Magn(old[part] - new[part]) <= Tolerance
<1>1. Sgn(old[part]) = Sgn(new[part]) /\ ~(Magn(old[part] - new[part]) > Tolerance)
  BY Zenon DEF MaterialChange
<1>2. old[part] - new[part] \in Int
  OBVIOUS
<1>3. Magn(old[part] - new[part]) \in Nat /\ Tolerance \in Nat
  BY <1>2, SignAndSize, CohortAssumption
<1> QED BY <1>1, <1>3

\* The target that follows from a proposal: kept, or the proposed one under
\* the next version.
LEMMA RetargetedTrue ==
  ASSUME TargetTrue(material), NEW new, VersionedTarget(new), new.cohort \in Int,
         new.source \in Int, NEW t, t = Retargeted(new)
  PROVE  /\ TargetTrue(t)
         /\ t.version >= material.version
         /\ t.version = material.version => t = material
         /\ t.cohort \in Int /\ Sgn(t.cohort) = Sgn(new.cohort)
         /\ Sgn(t.source) = Sgn(new.source) /\ Magn(t.source - new.source) <= Tolerance
<1>1. \A v : /\ VersionedTarget([new EXCEPT !.version = v]) /\ [new EXCEPT !.version = v].version = v
             /\ [new EXCEPT !.version = v].cohort = new.cohort
             /\ [new EXCEPT !.version = v].source = new.source
  BY DEF VersionedTarget
<1>2. Magn(new.source - new.source) <= Tolerance
  BY CohortAssumption DEF Magn
<1>3. CASE material = NoTarget
  <2>1. t = [new EXCEPT !.version = 0]
    BY <1>3, Zenon DEF Retargeted
  <2>2. VersionedTarget(t) /\ t.version = 0 /\ t.cohort = new.cohort /\ t.source = new.source
    BY <1>1, <2>1
  <2> QED BY <1>2, <1>3, <2>2, NoTargetVersion DEF TargetTrue
<1>4. CASE material # NoTarget
  <2>1. VersionedTarget(material) /\ material.version \in Nat
        /\ material.cohort \in Int /\ material.source \in Int
    BY <1>4 DEF TargetTrue
  <2>2. \/ t = material /\ ~MaterialChange(material, new)
        \/ t = [new EXCEPT !.version = material.version + 1]
    BY <1>4, Zenon DEF Retargeted
  <2>3. CASE t = [new EXCEPT !.version = material.version + 1]
    <3>1. /\ VersionedTarget(t) /\ t.version = material.version + 1
          /\ t.cohort = new.cohort /\ t.source = new.source
      BY <1>1, <2>3
    <3> QED BY <1>2, <2>1, <3>1 DEF TargetTrue
  <2>4. CASE t = material /\ ~MaterialChange(material, new)
    <3>1. /\ Sgn(material.cohort) = Sgn(new.cohort)
          /\ Sgn(material.source) = Sgn(new.source)
          /\ Magn(material.source - new.source) <= Tolerance
      BY <2>1, <2>4, ImmaterialKept
    <3> QED BY <2>1, <2>4, <3>1 DEF TargetTrue
  <2> QED BY <2>2, <2>3, <2>4
<1> QED BY <1>3, <1>4

\* The frames that the fresh members give.
LEMMA AggregatesTyped ==
  ASSUME CohortInv
  PROVE  Aggregates \subseteq Frames
<1>1. ASSUME NEW S, S \subseteq Members, S # {} PROVE Aggregate(S) \in Frames
  <2>1. {members[m].at : m \in S} \subseteq 0 .. cohortClock
    BY <1>1 DEF CohortInv, MemberStates
  <2>2. {members[m].at : m \in S} # {}
    BY <1>1
  <2>3. Max({members[m].at : m \in S}) \in {members[m].at : m \in S}
    BY <2>1, <2>2, GreatestNumber DEF CohortInv
  <2>4. Max({members[m].at : m \in S}) \in Nat
    BY <2>1, <2>3 DEF CohortInv
  <2>5. ASSUME NEW T, T \subseteq S PROVE Cardinality(T) \in Nat
    BY <1>1, <2>5, FS_Subset, FS_CardinalityType, CohortAssumption
  <2>6. NetHeld(S) \in Int /\ GrossHeld(S) \in Nat
    BY <2>5 DEF NetHeld, GrossHeld
  <2> QED BY <2>4, <2>6 DEF Aggregate, Frames
<1>2. FreshMembers \subseteq Members
  BY DEF FreshMembers
<1> QED BY <1>1, <1>2 DEF Aggregates

LEMMA RememberedTyped ==
  ASSUME CohortInv, NEW f \in Frames
  PROVE  Remembered(f) \in Seq(Frames)
<1> DEFINE grown == IF frames # <<>> /\ Last(frames) = f THEN frames ELSE Append(frames, f)
           I == {i \in DOMAIN grown : grown[i].at + Retention >= f.at}
           first == Min(I)
<1>1. frames \in Seq(Frames) /\ Len(frames) \in Nat
  BY LenProperties DEF CohortInv
<1>2. grown \in Seq(Frames) /\ Len(grown) \in Nat \ {0} /\ grown[Len(grown)] = f
      /\ DOMAIN grown = 1 .. Len(grown)
  <2>1. CASE frames # <<>> /\ Last(frames) = f
    <3>1. grown = frames /\ Len(frames) # 0
      BY <1>1, <2>1, EmptySeq
    <3> QED BY <1>1, <2>1, <3>1, LenProperties DEF Last
  <2>2. CASE ~(frames # <<>> /\ Last(frames) = f)
    <3>1. grown = Append(frames, f)
      BY <2>2
    <3> QED BY <1>1, <3>1, AppendProperties, LenProperties
  <2> QED BY <2>1, <2>2
<1> HIDE DEF grown
<1>3. f.at \in Nat /\ Retention \in Nat
  BY CohortAssumption DEF Frames
<1>4. I \subseteq Nat /\ Len(grown) \in I
  BY <1>2, <1>3
<1>5. first \in 1 .. Len(grown)
  BY <1>2, <1>4, LeastNumber
<1> HIDE DEF first
<1>6. \A i \in first .. Len(grown) : grown[i] \in Frames
  BY <1>2, <1>5, ElementOfSeq
<1>7. SubSeq(grown, first, Len(grown)) \in Seq(Frames)
  BY <1>2, <1>5, <1>6, SubSeqProperties
<1> QED BY <1>7 DEF Remembered, first, grown

\* The score of a frame is a number.
LEMMA ImpulseTyped ==
  ASSUME CohortInv, NEW f \in Frames, NEW horizon \in Nat
  PROVE  ImpulseAt(f, horizon) \in Int
<1> DEFINE cutoff == IF f.at > horizon THEN f.at - horizon ELSE 0
           old == {i \in DOMAIN frames : /\ frames[i].at <= cutoff
                                         /\ cutoff - frames[i].at <= MemberMaxAge}
           before == frames[Max(old)]
           larger == IF before.gross > f.gross THEN before.gross ELSE f.gross
<1>1. frames \in Seq(Frames) /\ Len(frames) \in Nat /\ DOMAIN frames = 1 .. Len(frames)
  BY LenProperties DEF CohortInv
<1>2. f.net \in Int /\ f.gross \in Nat
  BY DEF Frames
<1>3. CASE old = {} \/ larger = 0
  <2>1. ImpulseAt(f, horizon) = 0
    BY <1>3, Zenon DEF ImpulseAt
  <2> QED BY <2>1
<1>4. CASE ~(old = {} \/ larger = 0)
  <2>1. old \subseteq 0 .. Len(frames) /\ old \subseteq DOMAIN frames
    BY <1>1
  <2> HIDE DEF old
  <2>2. Max(old) \in DOMAIN frames
    BY <1>1, <1>4, <2>1, GreatestNumber
  <2>3. before \in Frames
    BY <1>1, <2>2, ElementOfSeq
  <2> HIDE DEF before
  <2>4. before.net \in Int /\ before.gross \in Nat
    BY <2>3 DEF Frames
  <2>5. larger \in Nat /\ larger > 0
    BY <1>2, <1>4, <2>4
  <2> HIDE DEF larger
  <2>6. (Whole * (f.net - before.net)) \div larger \in Int
    <3> DEFINE d == Whole * (f.net - before.net)
    <3>1. d \in Int
      BY <1>2, <2>4 DEF Whole
    <3> HIDE DEF d
    <3>2. d \div larger \in Int
      BY <2>5, <3>1
    <3> QED BY <3>2 DEF d
  <2>7. Bounded((Whole * (f.net - before.net)) \div larger, Whole) \in Int
    BY <2>6, SignAndSize DEF Whole
  <2>8. ImpulseAt(f, horizon) = Bounded((Whole * (f.net - before.net)) \div larger, Whole)
    BY <1>4, Zenon DEF ImpulseAt, before, larger, old
  <2> QED BY <2>7, <2>8
<1> QED BY <1>3, <1>4

LEMMA ScoreTyped ==
  ASSUME CohortInv, NEW f \in Frames, NEW confirmation \in {-1, 1}, NEW penalty \in PenaltySums
  PROVE  Score(Signal(f), confirmation, penalty) \in Int
<1>1. CohortPosition(f) \in Int
  <2>1. f.net \in Int /\ f.gross \in Nat
    BY DEF Frames
  <2>2. f.gross # 0 => (Whole * f.net) \div f.gross \in Int
    BY <2>1 DEF Whole
  <2> QED BY <2>2 DEF CohortPosition
<1>2. Impulse(f) \in Int
  <2>1. /\ ImpulseAt(f, Horizons[1]) \in Int /\ ImpulseAt(f, Horizons[2]) \in Int
        /\ ImpulseAt(f, Horizons[3]) \in Int
    BY ImpulseTyped, CohortAssumption
  <2>2. (2 * ImpulseAt(f, Horizons[1]) + 5 * ImpulseAt(f, Horizons[2])
           + 3 * ImpulseAt(f, Horizons[3])) \div 10 \in Int
    BY <2>1
  <2> QED BY <2>2, SignAndSize DEF Impulse, Whole
<1>3. FilteredConsensus(f) \in Int
  BY SignAndSize DEF Frames, FilteredConsensus, Whole
<1> DEFINE raw == (45 * CohortPosition(f)) + (20 * Impulse(f)) + (20 * FilteredConsensus(f))
                    + (5 * Whole * confirmation)
<1>4. raw \in Int
  BY <1>1, <1>2, <1>3 DEF Whole
<1>5. Score(Signal(f), confirmation, penalty) = Attenuated(raw, penalty)
  BY DEF Score, Signal
<1> HIDE DEF raw
<1>6. Magn(raw) - penalty \in Int /\ Sgn(raw) \in {-1, 0, 1}
  <2>1. Magn(raw) \in Nat /\ Sgn(raw) \in {-1, 0, 1}
    BY <1>4, SignAndSize, Zenon
  <2>2. penalty \in Nat
    BY CohortAssumption
  <2> QED BY <2>1, <2>2
<1>7. Sgn(raw) * (Magn(raw) - penalty) \in Int
  BY <1>6
<1> QED BY <1>5, <1>7 DEF Attenuated

-----------------------------------------------------------------------------
\* An evaluation votes for the target that follows from its own proposal.
LEMMA EvaluatedKeeps ==
  ASSUME CohortInv, NEW f \in Frames, NEW signal, NEW points \in Int, NEW existing \in Int,
         NEW market, NEW profit, Evaluated(f, signal, points, existing, market, profit)
  PROVE  /\ TargetTrue(material') /\ CohortVoteIsCurrent'
         /\ material'.version >= material.version
         /\ material'.version = material.version => material' = material
<1> DEFINE complete == FreshMembers = Members
           eligible == /\ ProposedDirection(signal, points) # 0 /\ complete /\ ~market
                       /\ ~ShortCovering(f) /\ ~AdditionsUnwound(signal.impulse)
                       /\ ~(profit /\ 100 * Magn(signal.impulse) <= Tolerance)
           admitted == IF eligible THEN points ELSE 0
           new == Target(signal, existing, admitted)
           wanted == IF eligible THEN ProposedDirection(signal, points) ELSE 0
<1>1. /\ material' = Retargeted(new)
      /\ vote' = [version |-> material'.version, cohort |-> material'.cohort,
                  source |-> material'.source, candidate |-> new.source,
                  wanted |-> wanted, complete |-> complete, evaluated |-> TRUE]
  BY Zenon DEF Evaluated
<1>2. eligible => complete /\ ProposedDirection(signal, points) # 0
  OBVIOUS
<1> HIDE DEF complete, eligible
<1>3. wanted = Sgn(admitted) /\ (admitted # 0 => complete) /\ admitted \in Int
  BY <1>2 DEF ProposedDirection, Sgn
<1> HIDE DEF admitted, wanted
<1>4. /\ VersionedTarget(new) /\ new.cohort = admitted
      /\ new.source = Bounded(existing + admitted, Full)
  BY DEF Target, VersionedTarget
<1>5. new.source \in Int
  BY <1>3, <1>4, SignAndSize DEF Full, Whole
<1> HIDE DEF new
<1>6. /\ TargetTrue(material')
      /\ material'.version >= material.version
      /\ material'.version = material.version => material' = material
      /\ material'.cohort \in Int /\ Sgn(material'.cohort) = Sgn(new.cohort)
      /\ Sgn(material'.source) = Sgn(new.source)
      /\ Magn(material'.source - new.source) <= Tolerance
  BY <1>1, <1>3, <1>4, <1>5, RetargetedTrue DEF CohortInv
<1>7. /\ vote'.cohort = material'.cohort /\ vote'.source = material'.source
      /\ vote'.candidate = new.source /\ vote'.wanted = wanted /\ vote'.complete = complete
  BY <1>1
<1>8. vote'.cohort # 0 => vote'.complete /\ Sgn(vote'.cohort) = vote'.wanted
  <2>1. vote'.cohort # 0 => Sgn(vote'.cohort) # 0
    BY <1>6, <1>7 DEF Sgn
  <2>2. Sgn(admitted) # 0 => admitted # 0
    BY DEF Sgn
  <2> QED BY <1>3, <1>4, <1>6, <1>7, <2>1, <2>2
<1> QED BY <1>6, <1>7, <1>8 DEF CohortVoteIsCurrent

LEMMA CohortStep ==
  ASSUME CohortInv, [CohortNext]_cohortVars
  PROVE  /\ CohortInv'
         /\ material'.version >= material.version
         /\ material'.version = material.version => material' = material
<1>0. material.version \in Int
  BY NoTargetVersion DEF CohortInv, TargetTrue
<1>1. CASE MemberState
  <2>1. PICK m \in Members, p \in StatesOf :
          members' = [members EXCEPT ![m] = [at |-> cohortClock, position |-> p]]
    BY <1>1 DEF MemberState
  <2>2. /\ cohortClock' = cohortClock /\ frames' = frames /\ material' = material /\ vote' = vote
    BY <1>1 DEF MemberState
  <2>3. /\ members' \in [Members -> MemberStates]
        /\ \A n \in Members : members'[n].at <= cohortClock
    BY <2>1 DEF CohortInv, MemberStates
  <2> QED BY <1>0, <2>2, <2>3 DEF CohortInv, CohortVoteIsCurrent
<1>2. CASE CohortRejected
  <2>1. PICK existing \in Existing :
          vote' = [NoVote EXCEPT !.source = existing, !.candidate = existing,
                                 !.version = material.version]
    BY <1>2 DEF CohortRejected
  <2>2. vote'.cohort = 0 /\ vote'.source = existing /\ vote'.candidate = existing
    BY <2>1 DEF NoVote
  <2>3. existing \in Int /\ Tolerance \in Nat
    BY CohortAssumption
  <2>4. CohortVoteIsCurrent'
    BY <2>2, <2>3 DEF CohortVoteIsCurrent, Magn
  <2>5. UNCHANGED <<cohortClock, members, frames, material>>
    BY <1>2 DEF CohortRejected
  <2> QED BY <1>0, <2>4, <2>5 DEF CohortInv
<1>3. CASE CohortEvaluated
  <2>1. PICK f \in Aggregates, existing \in Existing, market \in BOOLEAN, profit \in BOOLEAN,
             penalty \in PenaltySums, confirmation \in {-1, 1} :
          /\ Evaluated(f, Signal(f), Score(Signal(f), confirmation, penalty), existing, market, profit)
          /\ frames' = Remembered(f)
    BY <1>3 DEF CohortEvaluated
  <2>2. f \in Frames /\ existing \in Int
    BY AggregatesTyped, CohortAssumption
  <2>3. Score(Signal(f), confirmation, penalty) \in Int
    BY <2>2, ScoreTyped
  <2>4. /\ TargetTrue(material') /\ CohortVoteIsCurrent'
        /\ material'.version >= material.version
        /\ material'.version = material.version => material' = material
    BY <2>1, <2>2, <2>3, EvaluatedKeeps
  <2>5. frames' \in Seq(Frames)
    BY <2>1, <2>2, RememberedTyped
  <2>6. cohortClock' = cohortClock /\ members' = members
    BY <1>3 DEF CohortEvaluated
  <2> QED BY <2>4, <2>5, <2>6 DEF CohortInv
<1>4. CASE CohortTick
  <2>1. \A m \in Members : members[m].at \in Nat
    BY DEF CohortInv, MemberStates
  <2> QED BY <1>0, <1>4, <2>1 DEF CohortTick, CohortInv, CohortVoteIsCurrent
<1>5. CASE UNCHANGED cohortVars
  BY <1>0, <1>5 DEF cohortVars, CohortInv, CohortVoteIsCurrent
<1> QED BY <1>1, <1>2, <1>3, <1>4, <1>5 DEF CohortNext

LEMMA CohortInitTrue == CohortInit => CohortInv
<1> SUFFICES ASSUME CohortInit PROVE CohortInv
  OBVIOUS
<1>1. cohortClock \in Nat
  BY CohortAssumption DEF CohortInit
<1>2. members \in [Members -> MemberStates] /\ \A m \in Members : members[m].at <= cohortClock
  BY <1>1 DEF CohortInit, NoState, MemberStates
<1>3. frames \in Seq(Frames) /\ TargetTrue(material)
  BY EmptySeq DEF CohortInit, TargetTrue
<1>4. CohortVoteIsCurrent
  BY CohortAssumption DEF CohortInit, NoVote, CohortVoteIsCurrent, Magn
<1> QED BY <1>1, <1>2, <1>3, <1>4 DEF CohortInv

\* The cohort votes in a decision only in a direction that this decision found
\* no reason against, with every member fresh, and within the tolerance of what it
\* proposed, for any members, horizons, penalties and tolerances (evaluate).
THEOREM VoteIsCurrent == CohortSpec => []CohortVoteIsCurrent
<1>1. CohortInv /\ [CohortNext]_cohortVars => CohortInv'
  BY CohortStep
<1>2. CohortInv => CohortVoteIsCurrent
  BY DEF CohortInv
<1> QED BY <1>1, <1>2, CohortInitTrue, PTL DEF CohortSpec

\* A version names one target for ever, and later targets have higher ones
\* (material_change, VeryProfitableCohortEngine::evaluate).
THEOREM VersionsStay == CohortSpec => VersionsNameTargets
<1>1. CohortInv /\ [CohortNext]_cohortVars
        => CohortInv' /\ [/\ material'.version >= material.version
                          /\ material'.version = material.version => material' = material]_cohortVars
  BY CohortStep
<1> QED BY <1>1, CohortInitTrue, PTL DEF CohortSpec, VersionsNameTargets

-----------------------------------------------------------------------------
(* TechnicalSignals: what is recorded of the targets.                      *)

Sides == {-1, 0, 1}

\* There is no reason to record the target current after previous.
Unmoved(previous, current) == Reason(previous, current) = ""

\* What a record says of its decision, and the records: the last one's target is the one
\* kept, and there is no reason to record another.
RecordEntries == [target : Int, version : Nat, reason : {Reason(p, q) : p \in Int, q \in Int}]

RecordsTrue(s, kept) ==
  /\ kept.target \in Int /\ kept.version = Len(s)
  /\ kept.target = IF s = << >> THEN 0 ELSE Last(s).target
  /\ \A i \in DOMAIN s : s[i].version = i

\* The inductive invariant.
TechnicalInv ==
  /\ score \in Int /\ records \in Seq(RecordEntries)
  /\ RecordsTrue(records, recorded)
  /\ targeted => Unmoved(recorded.target, technicalTarget)

-----------------------------------------------------------------------------
LEMMA ThresholdsAreInt ==
  /\ Enter \in Int /\ Maintain \in Int /\ Reduce \in Int /\ Flatten \in Int
  /\ RecordTolerance \in Nat /\ Grosses \subseteq Int
BY ThresholdAssumption

LEMMA TriggerIsSide ==
  ASSUME NEW r, NEW regime, NEW trend4, NEW trend1
  PROVE  Trigger30m(r, regime, trend4, trend1) \in Sides
<1>1. ASSUME NEW up \in BOOLEAN, NEW down \in BOOLEAN, NEW u \in BOOLEAN, NEW d \in BOOLEAN,
             NEW v \in BOOLEAN, NEW w \in BOOLEAN
      PROVE  (CASE up -> 1 [] ~up /\ down -> -1
                [] ~up /\ ~down -> CASE u -> 1 [] ~u /\ d -> -1
                                     [] ~u /\ ~d -> IF v THEN 1 ELSE IF w THEN -1 ELSE 0) \in Sides
  BY DEF Sides
<1> QED BY <1>1 DEF Trigger30m

LEMMA ReadingsAreSides ==
  /\ \A r : Trend4h(r) \in Sides /\ Trend1h(r) \in Sides
  /\ \A r, primary : Trigger15m(r, primary) \in Sides
  /\ \A regime : DirectionOfRegime(regime) \in Sides
BY DEF Trend4h, Trend1h, Trigger15m, DirectionOfRegime, Sides

\* What an evaluation classifies.
ClassifiedState(c) ==
  /\ c.direction \in Sides /\ c.trend4 \in Sides /\ c.trend1 \in Sides
  /\ c.trigger30 \in Sides /\ c.trigger15 \in Sides

LEMMA SituationsAreClassified ==
  \A situation \in Situations : ClassifiedState(situation.state)
<1>1. \A r12, r4, r1, r30, r15 : ClassifiedState(Classified(r12, r4, r1, r30, r15))
  BY ReadingsAreSides, TriggerIsSide DEF Classified, ClassifiedState
<1> QED BY <1>1 DEF Situations

LEMMA ScoreIsInt ==
  ASSUME NEW was \in Int, NEW state, ClassifiedState(state), NEW timing, NEW move
  PROVE  ScoreAfter(was, state, timing, move) \in Int
<1>1. Confirmed(state) \in Sides
  BY DEF Confirmed, ClassifiedState, Sides
<1>2. TechnicalScore(state) \in Int
  BY <1>1, ThresholdsAreInt DEF TechnicalScore, ClassifiedState, Sides
<1>3. \A x : Side(x) \in Int
  BY DEF Side
<1>4. \A x \in Int : HeldSide(was, x, state) \in Int
  <2> TAKE x \in Int
  <2>1. AdmittedSide(was, x, state) \in Int
    BY DEF AdmittedSide
  <2>2. CASE was = 0 \/ (Side(was) # Side(x) /\ x # 0)
    <3>1. ~(was # 0 /\ Side(was) = Side(x)) /\ ~(was # 0 /\ x = 0)
      BY <2>2 DEF Side
    <3> QED BY <2>1, <2>2, <3>1 DEF HeldSide
  <2>3. CASE was # 0 /\ Side(was) = Side(x)
    <3>1. x # 0
      BY <2>3 DEF Side
    <3> QED BY <1>3, <2>3, <3>1, ThresholdsAreInt DEF HeldSide
  <2>4. CASE was # 0 /\ x = 0
    <3>1. Side(was) # Side(x)
      BY <2>4 DEF Side
    <3> QED BY <2>4, <3>1 DEF HeldSide
  <2> QED BY <2>2, <2>3, <2>4
<1> DEFINE kept == HeldSide(was, TechnicalScore(state), state)
<1>5. kept \in Int
  BY <1>2, <1>4
<1> HIDE DEF kept
<1>6. Side(was) * Reduce \in Int
  BY <1>3, ThresholdsAreInt
<1>7. ScoreAfter(was, state, timing, move) \in {0, Side(was) * Reduce, kept}
  BY Zenon DEF ScoreAfter, kept
<1> QED BY <1>5, <1>6, <1>7

\* What was just recorded is unmoved: nothing has to be recorded twice.
LEMMA RecordedIsUnmoved ==
  ASSUME NEW t \in Int
  PROVE  Unmoved(t, t)
<1>1. ScoreSize(t) \in Nat /\ ScoreSize(t - t) = 0
  BY DEF ScoreSize
<1>2. Side(t) * Side(t) # -1
  BY DEF Side
<1>3. ScoreSize(t - t) * 100 <= ScoreSize(t) * RecordTolerance
  BY <1>1, ThresholdsAreInt
<1> DEFINE d == ScoreSize(t - t)
           z == ScoreSize(t)
           opposed == Side(t) * Side(t) = -1
           small == d * 100 <= z * RecordTolerance
<1>4. Reason(t, t) = CASE t = 0 /\ t = 0 -> ""
        [] t # 0 /\ t = 0 -> "SignalNeutralized"
        [] t = 0 /\ t # 0 -> "InitialActivation"
        [] opposed -> "DirectionReversal"
        [] OTHER -> IF small THEN ""
                    ELSE IF z > z THEN "MaterialIncrease" ELSE "MaterialReduction"
  BY Zenon DEF Reason
<1>5. ~opposed /\ small
  BY <1>2, <1>3
<1> HIDE DEF opposed, small, d, z
<1> QED BY <1>4, <1>5, Zenon DEF Unmoved

LEMMA EvaluateKeeps == TechnicalInv /\ Evaluate => TechnicalInv'
<1> SUFFICES ASSUME TechnicalInv, Evaluate PROVE TechnicalInv'
  OBVIOUS
<1>1. PICK situation \in Situations, move \in Moves, gross \in Grosses :
        LET after == ScoreAfter(score, situation.state, ExitTiming(situation.reading, score), move)
            reason == Reason(recorded.target, gross * after)
        IN  /\ score' = after
            /\ technicalTarget' = gross * after
            /\ recorded' = Recorded(recorded, gross * after)
            /\ records' = IF reason = "" THEN records
                          ELSE Append(records, [target |-> gross * after, version |-> recorded'.version,
                                                reason |-> reason])
  BY Zenon DEF Evaluate
<1> DEFINE after == ScoreAfter(score, situation.state, ExitTiming(situation.reading, score), move)
           t == gross * after
           entry == [target |-> t, version |-> recorded'.version, reason |-> Reason(recorded.target, t)]
<1>2. after \in Int
  BY ScoreIsInt, SituationsAreClassified DEF TechnicalInv
<1>3. t \in Int
  BY <1>2, ThresholdsAreInt
<1>4. score' = after /\ technicalTarget' = t /\ recorded' = Recorded(recorded, t)
  BY <1>1
<1>5. /\ Unmoved(recorded.target, t) => recorded' = recorded /\ records' = records
      /\ ~Unmoved(recorded.target, t) =>
            /\ recorded' = [target |-> t, version |-> recorded.version + 1]
            /\ records' = Append(records, entry)
  BY <1>1, <1>4, Zenon DEF Unmoved, Recorded
<1> HIDE DEF after, t
<1>6. CASE Unmoved(recorded.target, t)
  BY <1>2, <1>4, <1>5, <1>6 DEF TechnicalInv
<1>7. CASE ~Unmoved(recorded.target, t)
  <2>1. /\ records \in Seq(RecordEntries) /\ recorded.version = Len(records)
        /\ recorded.target \in Int /\ \A i \in DOMAIN records : records[i].version = i
    BY DEF TechnicalInv, RecordsTrue
  <2>2. recorded'.target = t /\ recorded'.version = Len(records) + 1
    BY <1>5, <1>7, <2>1
  <2>3. /\ entry \in RecordEntries /\ entry.target = t /\ entry.version = Len(records) + 1
    BY <1>3, <2>1, <2>2, LenProperties DEF RecordEntries
  <2> HIDE DEF entry
  <2>4. records' = Append(records, entry)
    BY <1>5, <1>7
  <2>5. /\ records' \in Seq(RecordEntries) /\ Len(records') = Len(records) + 1
        /\ DOMAIN records' = 1 .. Len(records) + 1 /\ DOMAIN records = 1 .. Len(records)
        /\ \A i \in 1 .. Len(records) : records'[i] = records[i]
        /\ records'[Len(records) + 1] = entry /\ Len(records) \in Nat
    BY <2>1, <2>3, <2>4, AppendProperties, LenProperties
  <2>6. records' # << >> /\ Last(records').target = t
    BY <2>3, <2>5, EmptySeq DEF Last
  <2>7. \A i \in DOMAIN records' : records'[i].version = i
    BY <2>1, <2>3, <2>5
  <2>8. RecordsTrue(records', recorded')
    BY <1>3, <2>2, <2>5, <2>6, <2>7 DEF RecordsTrue
  <2>9. Unmoved(recorded'.target, technicalTarget')
    BY <1>3, <1>4, <2>2, RecordedIsUnmoved
  <2> QED BY <1>2, <1>4, <2>5, <2>8, <2>9 DEF TechnicalInv, Unmoved, RecordsTrue
<1> QED BY <1>6, <1>7

\* The last decision recorded stays true of the target, however small the
\* moves are by which it drifts and however often the asset is skipped, and the
\* versions count the decisions, for any readings, thresholds, gross and tolerance
\* (record_material_technical_decisions).
THEOREM RecordsFollow == TechnicalSpec => []RecordsFollowTargets
<1>1. TechnicalInit => TechnicalInv
  <2> SUFFICES ASSUME TechnicalInit PROVE TechnicalInv
    OBVIOUS
  <2>1. /\ records = << >> /\ score = 0 /\ technicalTarget = 0
        /\ recorded.target = 0 /\ recorded.version = 0
    BY DEF TechnicalInit, NeverRecorded
  <2>2. << >> \in Seq(RecordEntries) /\ Len(<< >>) = 0 /\ DOMAIN << >> = {}
    BY EmptySeq
  <2>3. Unmoved(0, 0)
    BY RecordedIsUnmoved
  <2> QED BY <2>1, <2>2, <2>3 DEF TechnicalInv, RecordsTrue
<1>2. TechnicalInv /\ [TechnicalNext]_technicalVars => TechnicalInv'
  <2>1. TechnicalInv /\ UNCHANGED <<score, targeted, technicalTarget, recorded, records>>
          => TechnicalInv'
    <3> SUFFICES ASSUME TechnicalInv,
                        UNCHANGED <<score, targeted, technicalTarget, recorded, records>>
                 PROVE  TechnicalInv'
      OBVIOUS
    <3>1. score' \in Int /\ records' \in Seq(RecordEntries)
      BY DEF TechnicalInv
    <3>2. RecordsTrue(records', recorded')
      BY DEF TechnicalInv
    <3>3. targeted' => Unmoved(recorded'.target, technicalTarget')
      BY Zenon DEF TechnicalInv
    <3> QED BY <3>1, <3>2, <3>3 DEF TechnicalInv, RecordsTrue, Unmoved
  <2>2. AcceptClosedCandle \/ UNCHANGED technicalVars
          => UNCHANGED <<score, targeted, technicalTarget, recorded, records>>
    BY DEF AcceptClosedCandle, technicalVars
  <2>3. TechnicalInv /\ SkipUnquoted => TechnicalInv'
    BY DEF SkipUnquoted, TechnicalInv, RecordsTrue
  <2> QED BY <2>1, <2>2, <2>3, EvaluateKeeps DEF TechnicalNext
<1>3. TechnicalInv => RecordsFollowTargets
  BY Zenon DEF TechnicalInv, RecordsTrue, Unmoved, RecordsFollowTargets
<1> QED BY <1>1, <1>2, <1>3, PTL DEF TechnicalSpec

-----------------------------------------------------------------------------
(* Rebalancing: rounding.                                                    *)

LEMMA Quotient ==
  ASSUME NEW n \in Nat, NEW d \in Nat \ {0}
  PROVE  /\ n \div d \in Nat
         /\ (n \div d) * d <= n
         /\ n < ((n \div d) + 1) * d
<1>1. n = d * (n \div d) + (n % d) /\ n % d \in 0 .. d - 1 /\ n \div d \in Nat
  OBVIOUS
<1> DEFINE q == n \div d
<1>2. q * d = d * q /\ (q + 1) * d = d * q + d
  BY <1>1
<1> QED BY <1>1, <1>2

LEMMA QuotientIs ==
  ASSUME NEW n \in Nat, NEW d \in Nat \ {0}, NEW q \in Nat, q * d <= n, n < (q + 1) * d
  PROVE  n \div d = q
OBVIOUS

LEMMA QuotientCancels ==
  ASSUME NEW n \in Nat, NEW d \in Nat \ {0}, NEW c \in Nat \ {0}
  PROVE  (n * c) \div (d * c) = n \div d
<1> DEFINE q == n \div d
<1>1. q \in Nat /\ q * d <= n /\ n < (q + 1) * d
  BY Quotient
<1> HIDE DEF q
<1>2. n * c \in Nat /\ d * c \in Nat \ {0}
  OBVIOUS
<1>3. q * (d * c) <= n * c
  <2>1. q * (d * c) = (q * d) * c
    BY <1>1
  <2>2. q * d \in Nat /\ n - q * d \in Nat
    BY <1>1
  <2>3. (n - q * d) * c \in Nat /\ (n - q * d) * c = n * c - (q * d) * c
    BY <2>2
  <2> QED BY <2>1, <2>2, <2>3, <1>2
<1>4. n * c < (q + 1) * (d * c)
  <2>1. (q + 1) * (d * c) = ((q + 1) * d) * c
    BY <1>1
  <2>2. (q + 1) * d \in Nat /\ (q + 1) * d - n \in Nat \ {0}
    BY <1>1
  <2>3. ((q + 1) * d - n) * c \in Nat \ {0} /\ ((q + 1) * d - n) * c = ((q + 1) * d) * c - n * c
    BY <2>2
  <2> QED BY <2>1, <2>2, <2>3, <1>2
<1> QED BY <1>1, <1>2, <1>3, <1>4, QuotientIs DEF q

\* What is rounded down to steps of s, valued at d, is within what it was.
LEMMA RoundedDown ==
  ASSUME NEW n \in Nat, NEW d \in Nat \ {0}, NEW s \in Nat \ {0}
  PROVE  RoundDown(n, d, s) \in Nat /\ RoundDown(n, d, s) * d <= n
<1> DEFINE q == n \div (d * s)
<1>1. d * s \in Nat \ {0}
  OBVIOUS
<1>2. q \in Nat /\ q * (d * s) <= n
  BY <1>1, Quotient
<1> HIDE DEF q
<1>3. q * s \in Nat /\ (q * s) * d = q * (d * s)
  BY <1>2
<1>4. RoundDown(n, d, s) = q * s
  BY DEF RoundDown, q
<1> QED BY <1>2, <1>3, <1>4

\* Rules as the market gives them: a price is at least a tick.
RulesHold(rules) ==
  /\ rules.mark \in Nat \ {0} /\ rules.tick \in Nat \ {0} /\ rules.step \in Nat \ {0}
  /\ rules.tick <= rules.mark

\* The price a change is valued at.
ValuedAt(num, rules) ==
  IF num > 0 THEN RoundUp(rules.mark, 1, rules.tick) ELSE RoundDown(rules.mark, 1, rules.tick)

LEMMA ValuedAtTick ==
  ASSUME NEW num \in Int, NEW rules, RulesHold(rules)
  PROVE  /\ ValuedAt(num, rules) \in Nat \ {0}
         /\ rules.mark % rules.tick = 0 => ValuedAt(num, rules) = rules.mark
<1> DEFINE m == rules.mark
           t == rules.tick
           down == m \div t
           up == (-m) \div t
<1>1. m \in Nat \ {0} /\ t \in Nat \ {0} /\ t <= m
  BY DEF RulesHold
<1>2. 1 * t = t
  BY <1>1
<1>3. m = t * down + (m % t) /\ (m % t) \in 0 .. t - 1 /\ down \in Nat
  BY <1>1
<1>4. -m = t * up + ((-m) % t) /\ ((-m) % t) \in 0 .. t - 1 /\ up \in Int
  BY <1>1
<1>5. RoundDown(m, 1, t) = down * t /\ RoundUp(m, 1, t) = -up * t
  BY <1>2 DEF RoundDown, RoundUp
<1> HIDE DEF m, t, down, up
<1>6. down # 0
  <2>1. SUFFICES ASSUME down = 0 PROVE FALSE
    OBVIOUS
  <2>2. t * down = 0
    BY <1>1, <2>1
  <2> QED BY <1>1, <1>3, <2>2
<1>7. down * t \in Nat \ {0} /\ down * t = t * down
  BY <1>1, <1>3, <1>6
<1>8. -up * t = -(t * up) /\ t * up \in Int
  BY <1>1, <1>4
<1>9. -(t * up) \in Nat \ {0}
  BY <1>1, <1>4, <1>8
<1>10. ASSUME m % t = 0 PROVE down * t = m /\ -up * t = m
  <2>1. down * t = m
    BY <1>1, <1>3, <1>7, <1>10
  <2>2. -m = t * (-down)
    <3>1. t * (-down) = -(t * down)
      BY <1>1, <1>3
    <3> QED BY <2>1, <3>1, <1>7
  <2>3. t * ((-down) - up) = (-m) % t
    <3>1. t * ((-down) - up) = t * (-down) - t * up
      BY <1>1, <1>3, <1>4
    <3> QED BY <1>1, <1>4, <1>8, <2>2, <3>1
  <2>4. (-down) - up = 0
    <3> DEFINE k == (-down) - up
    <3>1. k \in Int /\ t * k \in 0 .. t - 1
      BY <1>3, <1>4, <2>3
    <3> HIDE DEF k
    <3>2. ~(k >= 1)
      <4>1. SUFFICES ASSUME k >= 1 PROVE FALSE
        OBVIOUS
      <4>2. k - 1 \in Nat /\ t * k = t * (k - 1) + t /\ t * (k - 1) \in Nat
        BY <1>1, <3>1, <4>1
      <4> QED BY <1>1, <3>1, <4>2
    <3>3. ~(k <= -1)
      <4>1. SUFFICES ASSUME k <= -1 PROVE FALSE
        OBVIOUS
      <4>2. -1 - k \in Nat /\ t * k = -(t * (-1 - k)) - t /\ t * (-1 - k) \in Nat
        BY <1>1, <3>1, <4>1
      <4> QED BY <1>1, <3>1, <4>2
    <3>4. k = 0
      BY <3>1, <3>2, <3>3
    <3> QED BY <3>4 DEF k
  <2>5. up = -down
    BY <1>3, <1>4, <2>4
  <2>6. t * up = -m
    BY <2>2, <2>5
  <2> QED BY <1>1, <1>8, <2>1, <2>6
<1> QED BY <1>5, <1>7, <1>8, <1>9, <1>10 DEF ValuedAt, m, t

\* A change is rounded towards zero, to whole steps at that price.
LEMMA RoundedDelta ==
  ASSUME NEW num \in Int, NEW den \in Nat \ {0}, NEW rules, RulesHold(rules)
  PROVE  LET delta == RoundDelta(num, den, rules)
             price == ValuedAt(num, rules)
         IN  /\ delta \in Int
             /\ num > 0 => delta >= 0
             /\ num <= 0 => delta <= 0
             /\ Size(delta) = RoundDown(Size(num), den * price, rules.step) * price
             /\ Size(delta) * den <= Size(num)
<1> DEFINE price == ValuedAt(num, rules)
           n == Size(num)
           q == RoundDown(n, den * price, rules.step)
<1>1. n \in Nat /\ price \in Nat \ {0} /\ den * price \in Nat \ {0} /\ rules.step \in Nat \ {0}
  BY ValuedAtTick DEF Size, RulesHold
<1>2. q \in Nat /\ q * (den * price) <= n
  BY <1>1, RoundedDown
<1>3. RoundDelta(num, den, rules) = IF num > 0 THEN q * price ELSE -(q * price)
  BY DEF RoundDelta, ValuedAt
<1> HIDE DEF q, n, price
<1>4. q * price \in Nat /\ (q * price) * den = q * (den * price)
  BY <1>1, <1>2
<1>5. Size(RoundDelta(num, den, rules)) = q * price
  BY <1>3, <1>4 DEF Size
<1> QED BY <1>1, <1>2, <1>3, <1>4, <1>5 DEF q, n, price

-----------------------------------------------------------------------------
(* Sums over a portfolio, and what it may become.  The portfolio has a       *)
(* finite set of assets A, numbered.                                         *)

LEMMA TotalIs ==
  ASSUME NEW A, IsFiniteSet(A), NEW f \in [A -> Int]
  PROVE  Total(f) = SumFunctionOnSet(f, A) /\ Total(f) \in Int /\ Addable(f, A)
<1>1. Addable(f, A) /\ DOMAIN f = A
  BY DEF Addable
<1>2. Total(f) = SumFunctionOnSet(f, A)
  BY <1>1 DEF Total, SumFunction
<1> QED BY <1>1, <1>2, SumType

LEMMA SizeOfTotal ==
  ASSUME NEW A, IsFiniteSet(A), NEW f \in [A -> Int]
  PROVE  Size(Total(f)) \in Nat
<1>1. Total(f) \in Int
  BY TotalIs
<1> QED BY <1>1 DEF Size

LEMMA TotalAtMost ==
  ASSUME NEW A, IsFiniteSet(A), NEW f \in [A -> Int], NEW g \in [A -> Int],
         \A a \in A : f[a] <= g[a]
  PROVE  Total(f) <= Total(g)
<1> DEFINE h == [a \in A |-> g[a] - f[a]]
<1>1. h \in [A -> Nat] /\ h \in [A -> Int] /\ \A a \in A : g[a] = f[a] + h[a]
  OBVIOUS
<1> HIDE DEF h
<1>2. Addable(f, A) /\ Addable(h, A)
  BY <1>1, TotalIs
<1>3. SumFunctionOnSet(g, A) = SumFunctionOnSet(f, A) + SumFunctionOnSet(h, A)
  BY <1>1, <1>2, SumOfSums
<1>4. SumFunctionOnSet(h, A) \in Nat
  BY <1>1, SumBounds
<1> QED BY <1>3, <1>4, TotalIs

LEMMA TotalMore ==
  ASSUME NEW A, IsFiniteSet(A), NEW f \in [A -> Int], NEW g \in [A -> Int], Total(f) < Total(g)
  PROVE  \E a \in A : f[a] < g[a]
<1>1. SUFFICES ASSUME \A a \in A : ~(f[a] < g[a]) PROVE FALSE
  OBVIOUS
<1>2. \A a \in A : g[a] <= f[a]
  BY <1>1
<1>3. Total(g) <= Total(f)
  BY <1>2, TotalAtMost
<1> QED BY <1>3, TotalIs

\* No open orders.
Still(A) == [a \in A |-> [buy |-> 0, sell |-> 0]]

\* The ranges of a portfolio without open orders.
RangesOf(rs, A, filled, delta) ==
  /\ DOMAIN rs = A
  /\ \A a \in A : /\ rs[a].min \in Int /\ rs[a].max \in Int
                  /\ rs[a].min = filled[a] - Larger(-delta[a], 0)
                  /\ rs[a].max = filled[a] + Larger(delta[a], 0)
                  /\ rs[a].min <= filled[a] /\ filled[a] <= rs[a].max

LEMMA RangesAre ==
  ASSUME NEW A, NEW filled \in [A -> Int], NEW delta \in [A -> Int]
  PROVE  RangesOf(Ranges(filled, Still(A), delta), A, filled, delta)
BY DEF Ranges, RangesOf, Still, Larger

\* The sums over ranges.
Lows(A, rs) == [a \in A |-> rs[a].min]
Highs(A, rs) == [a \in A |-> rs[a].max]
Magnitudes(A, rs) == [a \in A |-> Magnitude(rs[a])]

LEMMA RangeSums ==
  ASSUME NEW A, IsFiniteSet(A), NEW filled, NEW delta, NEW rs, RangesOf(rs, A, filled, delta)
  PROVE  /\ Lows(A, rs) \in [A -> Int] /\ MinNet(rs) = Total(Lows(A, rs))
         /\ Highs(A, rs) \in [A -> Int] /\ MaxNet(rs) = Total(Highs(A, rs))
         /\ Magnitudes(A, rs) \in [A -> Int] /\ RangeGross(rs) = Total(Magnitudes(A, rs))
         /\ MinNet(rs) \in Int /\ MaxNet(rs) \in Int /\ RangeGross(rs) \in Int
<1>1. DOMAIN rs = A /\ \A a \in A : rs[a].min \in Int /\ rs[a].max \in Int
  BY DEF RangesOf
<1>2. Magnitudes(A, rs) \in [A -> Int]
  BY <1>1 DEF Magnitudes, Magnitude, Larger, Size
<1>3. Lows(A, rs) \in [A -> Int] /\ Highs(A, rs) \in [A -> Int]
  BY <1>1 DEF Lows, Highs
<1>4. /\ MinNet(rs) = Total(Lows(A, rs)) /\ MaxNet(rs) = Total(Highs(A, rs))
      /\ RangeGross(rs) = Total(Magnitudes(A, rs))
  BY <1>1 DEF MinNet, MaxNet, RangeGross, Lows, Highs, Magnitudes
<1> QED BY <1>2, <1>3, <1>4, TotalIs

LEMMA WorstNetType ==
  ASSUME NEW A, IsFiniteSet(A), NEW filled \in [A -> Int], NEW delta \in [A -> Int]
  PROVE  WorstNet(Ranges(filled, Still(A), delta)) \in Nat
<1> DEFINE rs == Ranges(filled, Still(A), delta)
<1>1. RangesOf(rs, A, filled, delta)
  BY RangesAre
<1> HIDE DEF rs
<1>2. MinNet(rs) \in Int /\ MaxNet(rs) \in Int
  BY <1>1, RangeSums
<1>3. WorstNet(rs) \in Nat
  BY <1>2 DEF WorstNet, Larger, Size
<1> QED BY <1>3 DEF rs

\* A portfolio within the ranges is measured by them.
LEMMA WithinRanges ==
  ASSUME NEW A, IsFiniteSet(A), NEW filled, NEW delta, NEW rs, RangesOf(rs, A, filled, delta),
         NEW f \in [A -> Int], \A a \in A : rs[a].min <= f[a] /\ f[a] <= rs[a].max
  PROVE  /\ \A a \in A : Size(f[a]) <= Magnitude(rs[a])
         /\ Size(Total(f)) <= WorstNet(rs)
<1>1. ASSUME NEW a \in A PROVE Size(f[a]) <= Magnitude(rs[a])
  <2>1. rs[a].min \in Int /\ rs[a].max \in Int /\ f[a] \in Int
    BY DEF RangesOf
  <2> QED BY <2>1 DEF Size, Magnitude, Larger
<1>2. MinNet(rs) <= Total(f) /\ Total(f) <= MaxNet(rs)
  <2>1. \A a \in A : Lows(A, rs)[a] <= f[a] /\ f[a] <= Highs(A, rs)[a]
    BY DEF Lows, Highs
  <2> QED BY <2>1, RangeSums, TotalAtMost
<1>3. MinNet(rs) \in Int /\ MaxNet(rs) \in Int /\ Total(f) \in Int
  BY RangeSums, TotalIs
<1> QED BY <1>1, <1>2, <1>3 DEF WorstNet, Size, Larger

\* What is held is measured asset by asset.
LEMMA GrossAtMost ==
  ASSUME NEW A, IsFiniteSet(A), NEW f \in [A -> Int], NEW g \in [A -> Int],
         \A a \in A : Size(f[a]) <= g[a]
  PROVE  GrossOf(f) <= Total(g) /\ GrossOf(f) \in Int
<1> DEFINE s == [a \in A |-> Size(f[a])]
<1>1. s \in [A -> Int] /\ GrossOf(f) = Total(s) /\ \A a \in A : s[a] <= g[a]
  BY DEF GrossOf, Size
<1> HIDE DEF s
<1> QED BY <1>1, TotalAtMost, TotalIs

\* Without changes the ranges are the portfolio.
LEMMA Baseline ==
  ASSUME NEW A, IsFiniteSet(A), NEW filled \in [A -> Int]
  PROVE  LET rs == Ranges(filled, Still(A), NoDelta(filled))
         IN  /\ RangesOf(rs, A, filled, NoDelta(filled))
             /\ \A a \in A : Magnitude(rs[a]) = Size(filled[a])
             /\ MinNet(rs) = Total(filled) /\ MaxNet(rs) = Total(filled)
             /\ WorstNet(rs) = Size(Total(filled)) /\ RangeGross(rs) = GrossOf(filled)
<1> DEFINE zero == NoDelta(filled)
           rs == Ranges(filled, Still(A), zero)
<1>1. zero \in [A -> Int] /\ \A a \in A : zero[a] = 0
  BY DEF NoDelta
<1>2. RangesOf(rs, A, filled, zero)
  BY <1>1, RangesAre
<1> HIDE DEF rs, zero
<1>3. \A a \in A : rs[a].min = filled[a] /\ rs[a].max = filled[a]
  BY <1>1, <1>2 DEF RangesOf, Larger
<1>4. \A a \in A : Magnitude(rs[a]) = Size(filled[a])
  BY <1>3 DEF Magnitude, Larger, Size
<1>5. Lows(A, rs) = filled /\ Highs(A, rs) = filled
  BY <1>3 DEF Lows, Highs
<1>6. Magnitudes(A, rs) = [a \in DOMAIN filled |-> Size(filled[a])]
  BY <1>4 DEF Magnitudes
<1>7. MinNet(rs) = Total(filled) /\ MaxNet(rs) = Total(filled) /\ RangeGross(rs) = GrossOf(filled)
  BY <1>2, <1>5, <1>6, RangeSums DEF GrossOf
<1>8. WorstNet(rs) = Size(Total(filled))
  BY <1>7, TotalIs DEF WorstNet, Larger, Size
<1> QED BY <1>2, <1>4, <1>7, <1>8 DEF rs, zero

-----------------------------------------------------------------------------
(* What staging keeps of the changes.                                        *)

\* How far a position f may get by a change d, whether it fills or not.
Reach(f, d) == Larger(Size(f - Larger(-d, 0)), Size(f + Larger(d, 0)))

LEMMA MagnitudeIs ==
  ASSUME NEW A, NEW filled \in [A -> Int], NEW delta \in [A -> Int], NEW a \in A
  PROVE  Magnitude(Ranges(filled, Still(A), delta)[a]) = Reach(filled[a], delta[a])
<1>1. RangesOf(Ranges(filled, Still(A), delta), A, filled, delta)
  BY RangesAre
<1> QED BY <1>1 DEF RangesOf, Magnitude, Reach

\* The changes that are left are some of those that are safe for their asset.
Safe(A, filled, delta, staged) ==
  /\ staged \in [A -> Int]
  /\ \A a \in A : staged[a] # 0 => staged[a] = delta[a] /\ Reach(filled[a], delta[a]) <= Size(filled[a])

LEMMA SafeDeltasAre ==
  ASSUME NEW A, IsFiniteSet(A), NEW filled \in [A -> Int], NEW delta \in [A -> Int]
  PROVE  Safe(A, filled, delta, SafeDeltas(filled, Still(A), delta))
<1> DEFINE one(a) == [NoDelta(filled) EXCEPT ![a] = delta[a]]
           staged == SafeDeltas(filled, Still(A), delta)
<1>1. ASSUME NEW a \in A
      PROVE  /\ Magnitude(Ranges(filled, Still(A), one(a))[a]) = Reach(filled[a], delta[a])
             /\ Magnitude(Ranges(filled, Still(A), NoDelta(filled))[a]) = Size(filled[a])
  <2>1. one(a) \in [A -> Int] /\ one(a)[a] = delta[a]
    BY DEF NoDelta
  <2> HIDE DEF one
  <2>2. Magnitude(Ranges(filled, Still(A), one(a))[a]) = Reach(filled[a], one(a)[a])
    BY <2>1, MagnitudeIs
  <2> QED BY <2>1, <2>2, Baseline
<1>2. staged = [a \in A |->
                  IF Magnitude(Ranges(filled, Still(A), one(a))[a])
                       <= Magnitude(Ranges(filled, Still(A), NoDelta(filled))[a])
                  THEN delta[a] ELSE 0]
  BY DEF SafeDeltas
<1> HIDE DEF one, staged
<1> QED BY <1>1, <1>2 DEF Safe, staged

\* While the worst net position is worse than now, there is a change to remove.
Removes(A, filled, staged) ==
  \E a \in A : /\ staged[a] # 0
              /\ NetPruned(filled, Still(A), staged) = [staged EXCEPT ![a] = 0]

LEMMA PrunedRemoves ==
  ASSUME NEW A, IsFiniteSet(A), A \subseteq Nat, NEW filled \in [A -> Int],
         NEW staged \in [A -> Int],
         WorstNet(Ranges(filled, Still(A), staged))
           > WorstNet(Ranges(filled, Still(A), NoDelta(filled)))
  PROVE  Removes(A, filled, staged)
<1> DEFINE rs == Ranges(filled, Still(A), staged)
           start == Ranges(filled, Still(A), NoDelta(filled))
           sign == IF Size(MinNet(rs)) >= Size(MaxNet(rs)) /\ MinNet(rs) < 0 THEN -1 ELSE 1
           offending == {a \in DOMAIN staged : SameSide(staged[a], sign)}
           comes(a, b) == \/ Size(staged[a]) < Size(staged[b])
                          \/ Size(staged[a]) = Size(staged[b]) /\ a < b
           removed == CHOOSE a \in offending : \A b \in offending \ {a} : comes(a, b)
<1>1. NetPruned(filled, Still(A), staged) = [staged EXCEPT ![removed] = 0]
  <2>1. ~(WorstNet(rs) <= WorstNet(start))
    <3>1. WorstNet(rs) \in Int /\ WorstNet(start) \in Int
      <4>1. NoDelta(filled) \in [A -> Int]
        BY DEF NoDelta
      <4>2. WorstNet(rs) \in Nat
        BY WorstNetType
      <4>3. WorstNet(start) \in Nat
        BY <4>1, WorstNetType
      <4> QED BY <4>2, <4>3
    <3> QED BY <3>1
  <2> QED BY <2>1 DEF NetPruned
<1>2. /\ RangesOf(rs, A, filled, staged) /\ MinNet(rs) \in Int /\ MaxNet(rs) \in Int
      /\ Lows(A, rs) \in [A -> Int] /\ MinNet(rs) = Total(Lows(A, rs))
      /\ Highs(A, rs) \in [A -> Int] /\ MaxNet(rs) = Total(Highs(A, rs))
  <2>1. RangesOf(rs, A, filled, staged)
    BY RangesAre
  <2> HIDE DEF rs
  <2> QED BY <2>1, RangeSums
<1>3. WorstNet(rs) > Size(Total(filled)) /\ Total(filled) \in Int
  BY Baseline, TotalIs
<1>4. MinNet(rs) <= MaxNet(rs)
  <2>1. \A a \in A : Lows(A, rs)[a] <= Highs(A, rs)[a]
    BY <1>2 DEF RangesOf, Lows, Highs
  <2> QED BY <1>2, <2>1, TotalAtMost
<1> HIDE DEF rs
<1>5. offending # {}
  <2>1. CASE sign = -1
    <3>1. MinNet(rs) < Total(filled)
      BY <1>2, <1>3, <2>1 DEF WorstNet, Size, Larger
    <3>2. PICK a \in A : Lows(A, rs)[a] < filled[a]
      BY <1>2, <3>1, TotalMore
    <3>3. staged[a] < 0
      BY <1>2, <3>2 DEF RangesOf, Lows, Larger
    <3> QED BY <2>1, <3>3 DEF SameSide
  <2>2. CASE sign # -1
    <3>1. sign = 1 /\ ~(Size(MinNet(rs)) >= Size(MaxNet(rs)) /\ MinNet(rs) < 0)
      BY <2>2
    <3>2. Total(filled) < MaxNet(rs)
      BY <1>2, <1>3, <1>4, <3>1 DEF WorstNet, Size, Larger
    <3>3. PICK a \in A : filled[a] < Highs(A, rs)[a]
      BY <1>2, <3>2, TotalMore
    <3>4. staged[a] > 0
      BY <1>2, <3>3 DEF RangesOf, Highs, Larger
    <3> QED BY <3>1, <3>4 DEF SameSide
  <2> QED BY <2>1, <2>2
<1>6. removed \in offending
  <2> DEFINE R == {p \in offending \X offending : comes(p[1], p[2])}
  <2>1. offending \in SUBSET A /\ \A a \in A : Size(staged[a]) \in Nat
    BY DEF Size
  <2> HIDE DEF offending
  <2>2. IsFiniteSet(offending)
    BY <2>1, FS_Subset
  <2>3. Ranks(R, offending)
    <3>1. \A a, b \in offending : a # b => <<a, b>> \in R \/ <<b, a>> \in R
      BY <2>1
    <3>2. \A a, b, c \in offending : <<a, b>> \in R /\ <<b, c>> \in R => <<a, c>> \in R
      BY <2>1
    <3> QED BY <3>1, <3>2 DEF Ranks
  <2>4. \A a, b \in offending : <<a, b>> \in R => comes(a, b)
    OBVIOUS
  <2> HIDE DEF R
  <2>5. PICK a \in offending : IsFirst(a, offending, R)
    BY <1>5, <2>2, <2>3, FirstExists
  <2>6. \A b \in offending \ {a} : comes(a, b)
    BY <2>4, <2>5 DEF IsFirst
  <2> QED BY <2>6
<1>7. removed \in A /\ staged[removed] # 0
  BY <1>6 DEF SameSide
<1> QED BY <1>1, <1>7 DEF Removes

LEMMA Zeroed ==
  ASSUME NEW A, NEW s \in [A -> Int], NEW r
  PROVE  /\ [s EXCEPT ![r] = 0] \in [A -> Int]
         /\ \A a \in A : [s EXCEPT ![r] = 0][a] = IF a = r THEN 0 ELSE s[a]
<1> DEFINE e == [s EXCEPT ![r] = 0]
<1>1. e = [a \in A |-> IF a = r THEN 0 ELSE s[a]]
  OBVIOUS
<1> HIDE DEF e
<1>2. e \in [A -> Int] /\ \A a \in A : e[a] = IF a = r THEN 0 ELSE s[a]
  BY <1>1
<1> QED BY <1>2 DEF e

LEMMA PrunedIs ==
  ASSUME NEW A, NEW filled, NEW open, NEW s \in [A -> Int]
  PROVE  /\ NetPruned(filled, open, s) \in [A -> Int]
         /\ \A a \in A : NetPruned(filled, open, s)[a] \in {0, s[a]}
<1>1. PICK r : NetPruned(filled, open, s) \in {s, [s EXCEPT ![r] = 0]}
  BY DEF NetPruned
<1>2. /\ [s EXCEPT ![r] = 0] \in [A -> Int]
      /\ \A a \in A : [s EXCEPT ![r] = 0][a] = IF a = r THEN 0 ELSE s[a]
  BY Zeroed
<1>3. CASE NetPruned(filled, open, s) = s
  BY <1>3
<1>4. CASE NetPruned(filled, open, s) = [s EXCEPT ![r] = 0]
  BY <1>2, <1>4
<1> QED BY <1>1, <1>3, <1>4

LEMMA PrunedIsSafe ==
  ASSUME NEW A, NEW filled, NEW delta, NEW staged, Safe(A, filled, delta, staged), NEW open
  PROVE  Safe(A, filled, delta, NetPruned(filled, open, staged))
BY PrunedIs DEF Safe

\* What is left of n changes after as many rounds: the worst net position is
\* no worse than now, since otherwise each round has removed one.
Left(A, staged) == Cardinality({a \in A : staged[a] # 0})

LEMMA StagedIsSafe ==
  ASSUME NEW A, IsFiniteSet(A), A \subseteq Nat, NEW filled \in [A -> Int], NEW delta \in [A -> Int]
  PROVE  LET staged == StagedDeltas(filled, Still(A), delta)
         IN  /\ Safe(A, filled, delta, staged)
             /\ WorstNet(Ranges(filled, Still(A), staged)) <= Size(Total(filled))
<1> DEFINE N == Cardinality(A)
           open == Still(A)
           start == SafeDeltas(filled, open, delta)
           X == [A -> Int]
           T == [n \in 1 .. N |-> [t \in X |-> NetPruned(filled, open, t)]]
           Body(f) == [n \in 0 .. N |-> IF n = 0 THEN start ELSE NetPruned(filled, open, f[n - 1])]
           F == CHOOSE f : f = Body(f)
           Calm(t) == WorstNet(Ranges(filled, open, t)) <= Size(Total(filled))
<1>1. N \in Nat /\ start \in X /\ Safe(A, filled, delta, start)
  BY FS_CardinalityType, SafeDeltasAre DEF Safe
<1>2. T \in [1 .. N -> [X -> X]]
  <2>1. ASSUME NEW t \in X PROVE NetPruned(filled, open, t) \in X
    BY PrunedIs
  <2> HIDE DEF open, X, N
  <2> QED BY <2>1
<1>3. StagedDeltas(filled, open, delta) = F[N]
  <2>1. DOMAIN delta = A
    OBVIOUS
  <2> QED BY <2>1, Zenon DEF StagedDeltas
<1>4. F = Body(F)
  <2>1. PICK G \in [0 .. N -> X] : StepsOf(G, N, start, T)
    <3> HIDE DEF T, X, start, N
    <3> QED BY <1>1, <1>2, RecursionExists
  <2> HIDE DEF N, start, open, X
  <2>2. ASSUME NEW n \in 0 .. N PROVE G[n] = Body(G)[n]
    <3>1. CASE n = 0
      BY <2>1, <3>1 DEF StepsOf
    <3>2. CASE n # 0
      <4>1. n \in 1 .. N /\ G[n - 1] \in X
        BY <1>1, <3>2
      <4> QED BY <2>1, <3>2, <4>1 DEF StepsOf
    <3> QED BY <3>1, <3>2
  <2>3. G = Body(G)
    BY <2>2
  <2> HIDE DEF Body
  <2> QED BY <2>3, Zenon
<1> HIDE DEF F, T, start
<1>5. F[0] = start /\ \A n \in 1 .. N : F[n] = NetPruned(filled, open, F[n - 1])
  <2> HIDE DEF N, open
  <2> QED BY <1>1, <1>4
<1> DEFINE Fine(n) == /\ Safe(A, filled, delta, F[n])
                      /\ Calm(F[n]) \/ Left(A, F[n]) <= N - n
           S == {n \in 0 .. N : Fine(n)}
<1>6. \A t \in X : Left(A, t) \in Nat /\ Left(A, t) <= N
  BY FS_Subset, FS_CardinalityType DEF Left
<1>7. 0 \in S
  BY <1>1, <1>5, <1>6
<1>8. ASSUME NEW n \in 1 .. N, n - 1 \in S PROVE n \in S
  <2> DEFINE s == F[n - 1]
  <2>1. Safe(A, filled, delta, s) /\ s \in X /\ (Calm(s) \/ Left(A, s) <= N - (n - 1))
    BY <1>8 DEF Safe
  <2>2. F[n] = NetPruned(filled, open, s)
    BY <1>5
  <2> HIDE DEF s
  <2>3. Safe(A, filled, delta, F[n])
    BY <2>1, <2>2, PrunedIsSafe
  <2>4. WorstNet(Ranges(filled, open, NoDelta(filled))) = Size(Total(filled))
    BY Baseline
  <2>5. CASE Calm(s)
    <3>1. F[n] = s
      BY <2>2, <2>4, <2>5 DEF NetPruned
    <3> QED BY <2>3, <2>5, <3>1
  <2>6. CASE ~Calm(s)
    <3>1. WorstNet(Ranges(filled, open, s)) > WorstNet(Ranges(filled, open, NoDelta(filled)))
      <4>1. WorstNet(Ranges(filled, open, s)) \in Nat
        BY <2>1, WorstNetType
      <4>2. Size(Total(filled)) \in Nat
        BY SizeOfTotal
      <4> QED BY <2>4, <2>6, <4>1, <4>2
    <3>2. PICK r \in A : s[r] # 0 /\ F[n] = [s EXCEPT ![r] = 0]
      <4>1. s \in [A -> Int]
        BY <2>1
      <4>2. \E r \in A : s[r] # 0 /\ NetPruned(filled, open, s) = [s EXCEPT ![r] = 0]
        <5>1. Removes(A, filled, s)
          BY <3>1, <4>1, PrunedRemoves
        <5> QED BY <5>1 DEF Removes
      <4> QED BY <2>2, <4>2
    <3> DEFINE K == {a \in A : s[a] # 0}
    <3>3. {a \in A : F[n][a] # 0} = K \ {r} /\ r \in K /\ K \subseteq A
      BY <2>1, <3>2
    <3> HIDE DEF K
    <3>4. Cardinality(K \ {r}) = Cardinality(K) - 1 /\ Cardinality(K) \in Nat
      BY <3>3, FS_Subset, FS_RemoveElement, FS_CardinalityType
    <3>5. Left(A, F[n]) = Left(A, s) - 1 /\ Left(A, s) \in Nat
      BY <3>3, <3>4 DEF Left, K
    <3>6. Left(A, F[n]) <= N - n
      BY <1>1, <2>1, <2>6, <3>5
    <3> QED BY <2>3, <3>6
  <2> QED BY <2>5, <2>6
<1> HIDE DEF S, Fine
<1>9. N \in S
  BY <1>1, <1>7, <1>8, UpToInduction
<1>10. Safe(A, filled, delta, F[N]) /\ (Calm(F[N]) \/ Left(A, F[N]) <= 0)
  BY <1>1, <1>9 DEF S, Fine
<1>11. ASSUME Left(A, F[N]) <= 0 PROVE Calm(F[N])
  <2> DEFINE K == {a \in A : F[N][a] # 0}
  <2>1. IsFiniteSet(K) /\ Cardinality(K) = 0
    BY <1>6, <1>10, <1>11, FS_Subset DEF Left, Safe
  <2>2. K = {}
    BY <2>1, FS_EmptySet
  <2>3. F[N] = NoDelta(filled)
    BY <1>10, <2>2 DEF Safe, NoDelta
  <2>4. WorstNet(Ranges(filled, open, F[N])) = Size(Total(filled))
    BY <2>3, Baseline
  <2>5. Size(Total(filled)) \in Nat
    BY SizeOfTotal
  <2> QED BY <2>4, <2>5
<1> QED BY <1>3, <1>10, <1>11

-----------------------------------------------------------------------------
(* Admission and scaling: what they make of a portfolio is a portfolio.      *)

\* A candidate of the admission, and the candidates: one per asset.
Candidate(A, c) ==
  c.asset \in A /\ c.asset \in Nat /\ c.class \in 0 .. 3 /\ c.current \in Int /\ c.desired \in Int
CandidateSet(A, S) ==
  (\A c \in S : Candidate(A, c)) /\ (\A c, d \in S : c.asset = d.asset => c = d)

LEMMA CandidatesAre ==
  ASSUME NEW A, IsFiniteSet(A), A \subseteq Nat, NEW filled \in [A -> Int],
         NEW raw \in [A -> Int], NEW floors, NEW caps, caps.asset \in Nat
  PROVE  LET S == AllocationCandidates(filled, raw, floors, caps)
         IN  IsFiniteSet(S) /\ CandidateSet(A, S)
<1> DEFINE Desired(a) == Clamped(raw[a], caps.asset)
           Class(a) == TransitionClass(filled[a], Desired(a))
           Required(a) == IF filled[a] = 0 THEN floors[a].opening ELSE floors[a].order
           Admissible(a) == /\ Desired(a) # filled[a]
                            /\ ~(Class(a) >= 2 /\ Size(Desired(a) - filled[a]) < Required(a))
           Flips(a) == /\ Class(a) = 1 /\ Opposed(filled[a], Desired(a))
                       /\ Size(Desired(a)) >= floors[a].opening
           Becomes(a) == [asset |-> a, class |-> Class(a), current |-> filled[a],
                          desired |-> IF Flips(a) THEN 0 ELSE Desired(a)]
           B == {b \in A : Admissible(b)}
           S == {Becomes(a) : a \in B}
<1>1. AllocationCandidates(filled, raw, floors, caps) = S
  BY DEF AllocationCandidates
<1>2. B \subseteq A /\ IsFiniteSet(B)
  BY FS_Subset
<1>3. ASSUME NEW a \in A PROVE Becomes(a).asset = a /\ Candidate(A, Becomes(a))
  <2>1. Desired(a) \in Int
    BY DEF Clamped
  <2>2. Class(a) \in 0 .. 3
    BY DEF TransitionClass
  <2> HIDE DEF Desired, Class
  <2> QED BY <2>1, <2>2 DEF Candidate
<1> HIDE DEF B, Becomes
<1>4. IsFiniteSet(S)
  <2> DEFINE g == [a \in B |-> Becomes(a)]
  <2>1. g \in [B -> S] /\ \A c \in S : \E a \in B : g[a] = c
    OBVIOUS
  <2>2. g \in Surjection(B, S)
    BY <2>1 DEF Surjection
  <2> QED BY <1>2, <2>2, FS_Surjection
<1>5. \A c \in S : \E a \in A : c = Becomes(a)
  BY <1>2
<1> QED BY <1>1, <1>3, <1>4, <1>5 DEF CandidateSet

LEMMA PrecedesOrders ==
  ASSUME NEW A, NEW conviction \in [A -> Int], NEW S, CandidateSet(A, S)
  PROVE  Ranks({p \in S \X S : Precedes(p[1], p[2], conviction)}, S)
<1> DEFINE v(x) == Size(conviction[x.asset])
           change(x) == Size(x.desired - x.current)
           R == {p \in S \X S : Precedes(p[1], p[2], conviction)}
<1>1. ASSUME NEW c \in S
      PROVE  v(c) \in Nat /\ change(c) \in Nat /\ c.class \in Int /\ c.asset \in Int
  <2>1. c.asset \in A /\ c.asset \in Nat /\ c.class \in 0 .. 3 /\ c.current \in Int /\ c.desired \in Int
    BY DEF Candidate, CandidateSet
  <2>2. conviction[c.asset] \in Int /\ c.desired - c.current \in Int
    BY <2>1
  <2>3. \A i \in Int : Size(i) \in Nat
    BY DEF Size
  <2>4. v(c) \in Nat /\ change(c) \in Nat
    BY <2>2, <2>3
  <2>5. c.class \in Int /\ c.asset \in Int
    BY <2>1
  <2> QED BY <2>4, <2>5
<1>2. \A c, d \in S : <<c, d>> \in R <=>
        \/ c.class < d.class
        \/ c.class = d.class /\ v(c) > v(d)
        \/ c.class = d.class /\ v(c) = v(d) /\ change(c) > change(d)
        \/ c.class = d.class /\ v(c) = v(d) /\ change(c) = change(d) /\ c.asset < d.asset
  BY DEF Precedes
<1> HIDE DEF v, change, R
<1>3. ASSUME NEW c \in S, NEW d \in S, c # d PROVE <<c, d>> \in R \/ <<d, c>> \in R
  <2>1. c.asset # d.asset
    BY <1>3 DEF CandidateSet
  <2> QED BY <1>1, <1>2, <2>1
<1>4. ASSUME NEW c \in S, NEW d \in S, NEW e \in S, <<c, d>> \in R, <<d, e>> \in R
      PROVE  <<c, e>> \in R
  BY <1>1, <1>2, <1>4
<1>5. Ranks(R, S)
  BY <1>3, <1>4 DEF Ranks
<1> QED BY <1>5 DEF R

LEMMA WithCandidateType ==
  ASSUME NEW A, NEW admitted \in [A -> Int], NEW filled, NEW c, c.desired \in Int,
         NEW conviction, NEW caps, NEW hysteresis
  PROVE  WithCandidate(admitted, filled, c, conviction, caps, hysteresis) \in [A -> Int]
<1> DEFINE victim == WeakestDisplaceable(admitted, filled, conviction, c.asset, hysteresis)
           proposed == [admitted EXCEPT ![c.asset] = c.desired]
           closed == [a \in A |-> IF a \in victim THEN 0 ELSE admitted[a]]
<1>1. WithCandidate(admitted, filled, c, conviction, caps, hysteresis)
        \in {proposed, closed, admitted}
  BY DEF WithCandidate
<1> HIDE DEF victim
<1>2. closed \in [A -> Int]
  OBVIOUS
<1>3. proposed \in [A -> Int]
  <2>1. proposed = [a \in A |-> IF a = c.asset THEN c.desired ELSE admitted[a]]
    OBVIOUS
  <2> QED BY <2>1
<1> QED BY <1>1, <1>2, <1>3

LEMMA AllocateType ==
  ASSUME NEW A, IsFiniteSet(A), A \subseteq Nat, NEW filled \in [A -> Int], NEW raw \in [A -> Int],
         NEW conviction \in [A -> Int], NEW floors, NEW caps, caps.asset \in Nat, NEW hysteresis
  PROVE  Allocate(filled, raw, conviction, floors, caps, hysteresis) \in [A -> Int]
<1> DEFINE C == AllocationCandidates(filled, raw, floors, caps)
           N == Cardinality(C)
           First(left) == CHOOSE c \in left : \A d \in left \ {c} : Precedes(c, d, conviction)
           start == [admitted |-> filled, left |-> C]
           Step1(t) == LET c == First(t.left)
                       IN  [admitted |-> WithCandidate(t.admitted, filled, c, conviction, caps, hysteresis),
                            left |-> t.left \ {c}]
           Body(f) == [n \in 0 .. N |-> IF n = 0 THEN start ELSE Step1(f[n - 1])]
           F == CHOOSE f : f = Body(f)
           X == [admitted : [A -> Int], left : SUBSET C]
           Guarded(t) == IF t.left = {} THEN t ELSE Step1(t)
           T == [n \in 1 .. N |-> [t \in X |-> Guarded(t)]]
<1>1. IsFiniteSet(C) /\ N \in Nat /\ CandidateSet(A, C)
  BY CandidatesAre, FS_CardinalityType
<1>2. Allocate(filled, raw, conviction, floors, caps, hysteresis) = F[N].admitted
  BY Zenon DEF Allocate
<1> HIDE DEF C
<1>3. ASSUME NEW left \in SUBSET C, left # {} PROVE First(left) \in left
  <2>1. IsFiniteSet(left)
    BY <1>1, FS_Subset
  <2>2. CandidateSet(A, left)
    BY <1>1 DEF CandidateSet
  <2> DEFINE R == {p \in left \X left : Precedes(p[1], p[2], conviction)}
  <2>3. Ranks(R, left)
    BY <2>1, <2>2, PrecedesOrders
  <2>4. \A c, d \in left : <<c, d>> \in R => Precedes(c, d, conviction)
    OBVIOUS
  <2> HIDE DEF R
  <2>5. PICK c \in left : IsFirst(c, left, R)
    BY <1>3, <2>1, <2>3, FirstExists
  <2>6. \A d \in left \ {c} : Precedes(c, d, conviction)
    BY <2>4, <2>5 DEF IsFirst
  <2> QED BY <2>6
<1> HIDE DEF First
<1>4. ASSUME NEW t \in X, t.left # {}
      PROVE  Step1(t) \in X /\ Cardinality(Step1(t).left) = Cardinality(t.left) - 1
  <2> DEFINE c == First(t.left)
  <2>1. t.left \in SUBSET C /\ t.admitted \in [A -> Int] /\ IsFiniteSet(t.left)
    BY <1>1, FS_Subset
  <2>2. c \in t.left /\ c.desired \in Int
    BY <1>1, <1>3, <1>4, <2>1 DEF Candidate, CandidateSet
  <2> HIDE DEF c
  <2>3. WithCandidate(t.admitted, filled, c, conviction, caps, hysteresis) \in [A -> Int]
    BY <2>1, <2>2, WithCandidateType
  <2>4. t.left \ {c} \in SUBSET C
    BY <2>1
  <2>5. Cardinality(t.left \ {c}) = Cardinality(t.left) - 1
    <3> DEFINE L == t.left
    <3>1. IsFiniteSet(L) /\ c \in L
      BY <2>1, <2>2
    <3> HIDE DEF L
    <3>2. Cardinality(L \ {c}) = Cardinality(L) - 1
      BY <3>1, FS_RemoveElement
    <3> QED BY <3>2 DEF L
  <2> QED BY <2>3, <2>4, <2>5 DEF c
<1>5. start \in X
  OBVIOUS
<1> HIDE DEF Step1
<1>6. T \in [1 .. N -> [X -> X]]
  <2>1. ASSUME NEW t \in X PROVE Guarded(t) \in X
    BY <1>4
  <2> HIDE DEF N, X, Guarded
  <2> QED BY <2>1
<1>7. PICK G \in [0 .. N -> X] : StepsOf(G, N, start, T)
  <2> HIDE DEF T, X, start, N
  <2> QED BY <1>1, <1>5, <1>6, RecursionExists
<1> DEFINE S == {n \in 0 .. N : Cardinality(G[n].left) = N - n}
<1>8. ASSUME NEW n \in 1 .. N, n - 1 \in S
      PROVE  G[n] = Step1(G[n - 1]) /\ n \in S
  <2> DEFINE t == G[n - 1]
  <2>1. t \in X /\ Cardinality(t.left) = N - (n - 1)
    BY <1>1, <1>8
  <2>2. G[n] = Guarded(t)
    BY <1>7, <2>1 DEF StepsOf
  <2> HIDE DEF t, X
  <2>3. t.left # {}
    <3>1. Cardinality(t.left) # 0
      <4> HIDE DEF N
      <4> QED BY <1>1, <2>1
    <3> QED BY <3>1, FS_EmptySet
  <2>4. G[n] = Step1(t) /\ Cardinality(G[n].left) = (N - (n - 1)) - 1
    BY <1>4, <2>1, <2>2, <2>3
  <2> HIDE DEF N
  <2>5. Cardinality(G[n].left) = N - n
    BY <1>1, <2>4
  <2> QED BY <2>4, <2>5 DEF t
<1>9. 0 \in S
  <2>1. G[0] = start
    BY <1>7 DEF StepsOf
  <2> QED BY <1>1, <2>1
<1> HIDE DEF S
<1>10. 0 .. N \subseteq S
  BY <1>1, <1>8, <1>9, UpToInduction
<1>11. G = Body(G)
  <2>1. ASSUME NEW n \in 0 .. N PROVE G[n] = Body(G)[n]
    <3>1. CASE n = 0
      BY <1>7, <3>1 DEF StepsOf
    <3>2. CASE n # 0
      <4>1. n \in 1 .. N /\ n - 1 \in S
        BY <1>1, <1>10, <3>2
      <4> QED BY <1>8, <3>2, <4>1
    <3> QED BY <3>1, <3>2
  <2> HIDE DEF X, N
  <2> QED BY <2>1
<1>12. F = Body(F)
  <2> HIDE DEF Body
  <2> QED BY <1>11, Zenon
<1>13. ASSUME NEW n \in 0 .. N PROVE F[n] = G[n]
  <2> DEFINE E == {i \in 0 .. N : F[i] = G[i]}
  <2> HIDE DEF F, X, N
  <2>1. 0 \in E
    <3>1. F[0] = start /\ G[0] = start
      BY <1>1, <1>7, <1>12 DEF StepsOf
    <3> QED BY <1>1, <3>1
  <2>2. ASSUME NEW i \in 1 .. N, i - 1 \in E PROVE i \in E
    <3>1. F[i] = Step1(F[i - 1])
      BY <1>1, <1>12
    <3>2. G[i] = Step1(G[i - 1])
      BY <1>1, <1>8, <1>10
    <3> QED BY <2>2, <3>1, <3>2
  <2> HIDE DEF E
  <2>3. 0 .. N \subseteq E
    BY <1>1, <2>1, <2>2, UpToInduction
  <2> QED BY <2>3 DEF E
<1> HIDE DEF F, N
<1>14. N \in 0 .. N /\ G[N] \in X
  BY <1>1, <1>7
<1>15. F[N] = G[N]
  BY <1>13, <1>14
<1> QED BY <1>2, <1>14, <1>15
\* Targets are quotients with one denominator.
Quotients(A, t) == t.num \in [A -> Int] /\ t.den \in Nat \ {0}

LEMMA GrossScaledType ==
  ASSUME NEW A, IsFiniteSet(A), NEW t \in [A -> Int], NEW cap \in Nat
  PROVE  Quotients(A, GrossScaled(t, cap))
<1> DEFINE gross == GrossOf(t)
<1>1. gross \in Int
  <2> DEFINE s == [a \in A |-> Size(t[a])]
  <2>1. s \in [A -> Int] /\ gross = Total(s)
    BY DEF GrossOf, Size
  <2> HIDE DEF s
  <2> QED BY <2>1, TotalIs
<1>2. GrossScaled(t, cap) = IF gross <= cap THEN [num |-> t, den |-> 1]
                            ELSE [num |-> [a \in A |-> t[a] * cap], den |-> gross]
  BY DEF GrossScaled
<1> HIDE DEF gross
<1>3. [a \in A |-> t[a] * cap] \in [A -> Int]
  OBVIOUS
<1> QED BY <1>1, <1>2, <1>3 DEF Quotients

LEMMA NetScaledType ==
  ASSUME NEW A, IsFiniteSet(A), NEW t, Quotients(A, t), NEW cap \in Nat
  PROVE  Quotients(A, NetScaled(t, cap))
<1> DEFINE ups == [a \in A |-> Larger(t.num[a], 0)]
           downs == [a \in A |-> Larger(-t.num[a], 0)]
           positive == Total(ups)
           negative == Total(downs)
           limit == cap * t.den
           Scale(heavy, allowed, sign) ==
             [num |-> [a \in A |->
                         IF SameSide(t.num[a], sign) THEN t.num[a] * allowed ELSE t.num[a] * heavy],
              den |-> t.den * heavy]
<1>1. ups \in [A -> Nat] /\ downs \in [A -> Nat]
  BY DEF Quotients, Larger
<1>2. ASSUME NEW f \in [A -> Nat] PROVE Total(f) \in Nat
  <2>1. f \in [A -> Int]
    OBVIOUS
  <2>2. Total(f) = SumFunctionOnSet(f, A) /\ Addable(f, A)
    BY <2>1, TotalIs
  <2> QED BY <2>2, SumBounds
<1>3. positive \in Nat /\ negative \in Nat /\ limit \in Nat
  <2>1. limit \in Nat
    BY DEF Quotients
  <2> HIDE DEF ups, downs
  <2> QED BY <1>1, <1>2, <2>1
<1>4. NetScaled(t, cap) = CASE positive - negative > limit -> Scale(positive, negative + limit, 1)
                            [] negative - positive > limit -> Scale(negative, positive + limit, -1)
                            [] OTHER -> t
  BY DEF NetScaled, Quotients
<1> HIDE DEF positive, negative, limit, ups, downs
<1>5. ASSUME NEW heavy \in Nat \ {0}, NEW allowed \in Nat, NEW sign
      PROVE  Quotients(A, Scale(heavy, allowed, sign))
  <2> DEFINE num == [a \in A |->
                       IF SameSide(t.num[a], sign) THEN t.num[a] * allowed ELSE t.num[a] * heavy]
  <2>1. num \in [A -> Int] /\ t.den * heavy \in Nat \ {0}
    BY DEF Quotients
  <2> HIDE DEF num
  <2> QED BY <2>1 DEF Quotients, num
<1> HIDE DEF Scale
<1>6. CASE positive - negative > limit
  BY <1>3, <1>4, <1>5, <1>6
<1>7. CASE ~(positive - negative > limit) /\ negative - positive > limit
  BY <1>3, <1>4, <1>5, <1>7
<1>8. CASE ~(positive - negative > limit) /\ ~(negative - positive > limit)
  BY <1>4, <1>8
<1> QED BY <1>6, <1>7, <1>8

LEMMA ConstrainedTargetsType ==
  ASSUME NEW A, IsFiniteSet(A), NEW t \in [A -> Int],
         NEW caps \in [asset : Nat, gross : Nat, net : Nat]
  PROVE  Quotients(A, ConstrainedTargets(t, caps))
<1> DEFINE c == [a \in A |-> Clamped(t[a], caps.asset)]
<1>1. c \in [A -> Int]
  BY DEF Clamped
<1>2. ConstrainedTargets(t, caps) = NetScaled(GrossScaled(c, caps.gross), caps.net)
  BY DEF ConstrainedTargets
<1> HIDE DEF c
<1>3. Quotients(A, GrossScaled(c, caps.gross))
  BY <1>1, GrossScaledType
<1> QED BY <1>2, <1>3, NetScaledType

-----------------------------------------------------------------------------
(* What a projection lets through.                                           *)

\* The ranges of the changes hold the portfolio within the caps, or no further
\* out than it is.
Sound(A, filled, delta, caps) ==
  LET rs == Ranges(filled, Still(A), delta)
  IN  IF WithinCaps(filled, caps) THEN RangesWithin(rs, caps)
      ELSE /\ \A a \in A : Magnitude(rs[a]) <= Size(filled[a])
           /\ WorstNet(rs) <= Size(Total(filled))

LEMMA SafeMeasures ==
  ASSUME NEW A, IsFiniteSet(A), NEW filled \in [A -> Int], NEW delta, NEW staged,
         Safe(A, filled, delta, staged)
  PROVE  LET rs == Ranges(filled, Still(A), staged)
         IN  /\ \A a \in A : Magnitude(rs[a]) <= Size(filled[a])
             /\ RangeGross(rs) <= GrossOf(filled)
<1> DEFINE rs == Ranges(filled, Still(A), staged)
           s == [a \in A |-> Size(filled[a])]
<1>1. staged \in [A -> Int] /\ RangesOf(rs, A, filled, staged)
  BY RangesAre DEF Safe
<1>2. ASSUME NEW a \in A PROVE Magnitude(rs[a]) <= Size(filled[a])
  <2>1. Magnitude(rs[a]) = Reach(filled[a], staged[a])
    BY <1>1, MagnitudeIs
  <2>2. Reach(filled[a], 0) = Size(filled[a]) /\ Size(filled[a]) \in Nat
    BY DEF Reach, Larger, Size
  <2> QED BY <1>1, <2>1, <2>2 DEF Safe
<1> HIDE DEF rs
<1>3. s \in [A -> Int] /\ GrossOf(filled) = Total(s)
  BY DEF GrossOf, Size
<1>4. \A a \in A : Magnitudes(A, rs)[a] <= s[a]
  BY <1>2 DEF Magnitudes
<1>5. Magnitudes(A, rs) \in [A -> Int] /\ RangeGross(rs) = Total(Magnitudes(A, rs))
  BY <1>1, RangeSums
<1> HIDE DEF s
<1>6. RangeGross(rs) <= GrossOf(filled)
  BY <1>3, <1>4, <1>5, TotalAtMost
<1> QED BY <1>2, <1>6 DEF rs

\* What is held is in the ranges.
LEMMA OutsideStays ==
  ASSUME NEW A, IsFiniteSet(A), NEW filled \in [A -> Int], NEW delta \in [A -> Int],
         NEW caps \in [asset : Nat, gross : Nat, net : Nat],
         RangesWithin(Ranges(filled, Still(A), delta), caps)
  PROVE  WithinCaps(filled, caps)
<1> DEFINE rs == Ranges(filled, Still(A), delta)
<1>1. RangesOf(rs, A, filled, delta)
  BY RangesAre
<1>2. WorstNet(rs) \in Nat
  BY WorstNetType
<1>3. /\ \A a \in A : Magnitude(rs[a]) <= caps.asset
      /\ RangeGross(rs) <= caps.gross
      /\ WorstNet(rs) <= caps.net
  BY <1>1 DEF RangesWithin, RangesOf
<1> HIDE DEF rs
<1>4. \A a \in A : rs[a].min <= filled[a] /\ filled[a] <= rs[a].max
  BY <1>1 DEF RangesOf
<1>5. (\A a \in A : Size(filled[a]) <= Magnitude(rs[a])) /\ Size(Total(filled)) <= WorstNet(rs)
  BY <1>1, <1>4, WithinRanges
<1>6. /\ Magnitudes(A, rs) \in [A -> Int] /\ RangeGross(rs) = Total(Magnitudes(A, rs))
      /\ RangeGross(rs) \in Int
  BY <1>1, RangeSums
<1>7. \A a \in A : Size(filled[a]) <= Magnitudes(A, rs)[a]
  BY <1>5 DEF Magnitudes
<1>8. GrossOf(filled) <= RangeGross(rs) /\ GrossOf(filled) \in Int
  BY <1>6, <1>7, GrossAtMost
<1>9. \A a \in A : Magnitude(rs[a]) \in Int /\ Size(filled[a]) \in Int
  BY <1>6 DEF Magnitudes, Size
<1>10. Size(Total(filled)) \in Nat
  BY SizeOfTotal
<1>11. \A a \in A : Size(filled[a]) <= caps.asset
  BY <1>3, <1>5, <1>9
<1>12. GrossOf(filled) <= caps.gross
  BY <1>3, <1>6, <1>8
<1>13. Size(Total(filled)) <= caps.net
  BY <1>2, <1>3, <1>5, <1>10
<1> QED BY <1>11, <1>12, <1>13 DEF WithinCaps

\* The ranges of what staging keeps.
LEMMA StagedMeasures ==
  ASSUME NEW A, IsFiniteSet(A), A \subseteq Nat, NEW filled \in [A -> Int], NEW rounded \in [A -> Int]
  PROVE  LET staged == StagedDeltas(filled, Still(A), rounded)
             rs == Ranges(filled, Still(A), staged)
         IN  /\ staged \in [A -> Int] /\ \A a \in A : staged[a] \in {0, rounded[a]}
             /\ \A a \in A : Magnitude(rs[a]) <= Size(filled[a]) /\ Magnitude(rs[a]) \in Int
             /\ RangeGross(rs) <= GrossOf(filled) /\ RangeGross(rs) \in Int
             /\ WorstNet(rs) <= Size(Total(filled)) /\ WorstNet(rs) \in Nat
<1> DEFINE staged == StagedDeltas(filled, Still(A), rounded)
           rs == Ranges(filled, Still(A), staged)
<1>1. Safe(A, filled, rounded, staged) /\ WorstNet(rs) <= Size(Total(filled))
  BY StagedIsSafe
<1> HIDE DEF staged
<1>2. staged \in [A -> Int] /\ \A a \in A : staged[a] \in {0, rounded[a]}
  BY <1>1 DEF Safe
<1>3. (\A a \in A : Magnitude(rs[a]) <= Size(filled[a])) /\ RangeGross(rs) <= GrossOf(filled)
  BY <1>1, SafeMeasures
<1>4. RangesOf(rs, A, filled, staged) /\ WorstNet(rs) \in Nat
  BY <1>2, RangesAre, WorstNetType
<1> HIDE DEF rs
<1>5. Magnitudes(A, rs) \in [A -> Int] /\ RangeGross(rs) \in Int
  BY <1>4, RangeSums
<1>6. \A a \in A : Magnitude(rs[a]) \in Int
  BY <1>5 DEF Magnitudes
<1> QED BY <1>1, <1>2, <1>3, <1>4, <1>5, <1>6 DEF rs, staged

\* The changes that are left of the rounded ones hold the caps, and are refused
\* only from a portfolio that is outside them.
LEMMA StagingIsSound ==
  ASSUME NEW A, IsFiniteSet(A), A \subseteq Nat, NEW filled \in [A -> Int], NEW rounded \in [A -> Int],
         NEW caps \in [asset : Nat, gross : Nat, net : Nat]
  PROVE  LET delta == StagedIfNeeded(filled, Still(A), rounded, caps)
             violation == FinalRangesViolation(filled, Still(A), delta, caps)
         IN  /\ delta \in [A -> Int] /\ \A a \in A : delta[a] \in {0, rounded[a]}
             /\ Sound(A, filled, delta, caps)
             /\ WithinCaps(filled, caps) => violation = "none"
             /\ violation \in {"none", "ExistingRiskIncreased"}
<1> DEFINE staged == StagedDeltas(filled, Still(A), rounded)
           delta == StagedIfNeeded(filled, Still(A), rounded, caps)
           rs == Ranges(filled, Still(A), delta)
           baseline == Ranges(filled, Still(A), NoDelta(filled))
           violation == FinalRangesViolation(filled, Still(A), delta, caps)
           worse == {a \in A :
                       /\ delta[a] # 0
                       /\ \/ filled[a] = 0 \/ SameSide(delta[a], filled[a])
                          \/ Size(delta[a]) > Size(filled[a])
                          \/ Magnitude(rs[a]) > Magnitude(baseline[a])}
<1>1. delta = IF RangesWithin(Ranges(filled, Still(A), rounded), caps) THEN rounded ELSE staged
  BY DEF StagedIfNeeded
<1>2. staged \in [A -> Int] /\ \A a \in A : staged[a] \in {0, rounded[a]}
  BY StagedMeasures
<1> HIDE DEF staged, delta
<1>3. delta \in [A -> Int] /\ \A a \in A : delta[a] \in {0, rounded[a]}
  BY <1>1, <1>2
<1>4. violation = CASE WithinCaps(filled, caps) /\ RangesWithin(rs, caps) -> "none"
        [] WithinCaps(filled, caps) /\ ~RangesWithin(rs, caps) -> "CapExceeded"
        [] ~WithinCaps(filled, caps) /\ worse # {} -> "ExistingRiskIncreased"
        [] ~WithinCaps(filled, caps) /\ worse = {}
           /\ (RangeGross(rs) > RangeGross(baseline) \/ WorstNet(rs) > WorstNet(baseline)) ->
             "GrossCapExceeded"
        [] OTHER -> "none"
  BY <1>3 DEF FinalRangesViolation
<1> HIDE DEF violation, worse
<1>5. CASE WithinCaps(filled, caps)
  <2>1. RangesWithin(rs, caps)
    <3>1. CASE RangesWithin(Ranges(filled, Still(A), rounded), caps)
      BY <1>1, <3>1
    <3>2. CASE ~RangesWithin(Ranges(filled, Still(A), rounded), caps)
      <4>1. delta = staged /\ DOMAIN rs = A
        BY <1>1, <1>3, <3>2, RangesAre DEF RangesOf
      <4>2. /\ \A a \in A : Magnitude(rs[a]) <= Size(filled[a]) /\ Magnitude(rs[a]) \in Int
            /\ RangeGross(rs) <= GrossOf(filled) /\ RangeGross(rs) \in Int
            /\ WorstNet(rs) <= Size(Total(filled)) /\ WorstNet(rs) \in Nat
        BY <4>1, StagedMeasures DEF staged
      <4> HIDE DEF rs
      <4>3. /\ \A a \in A : Size(filled[a]) <= caps.asset /\ Size(filled[a]) \in Int
            /\ GrossOf(filled) <= caps.gross
            /\ Size(Total(filled)) <= caps.net
        BY <1>5 DEF WithinCaps, Size
      <4>4. GrossOf(filled) \in Int /\ Size(Total(filled)) \in Nat
        <5> DEFINE s == [a \in A |-> Size(filled[a])]
        <5>1. s \in [A -> Int] /\ \A a \in A : Size(filled[a]) <= s[a]
          BY DEF Size
        <5> HIDE DEF s
        <5> QED BY <5>1, GrossAtMost, SizeOfTotal
      <4>5. \A a \in A : Magnitude(rs[a]) <= caps.asset
        BY <4>2, <4>3
      <4>6. RangeGross(rs) <= caps.gross
        BY <4>2, <4>3, <4>4
      <4>7. WorstNet(rs) <= caps.net
        BY <4>2, <4>3, <4>4
      <4> QED BY <4>1, <4>5, <4>6, <4>7 DEF RangesWithin
    <3> QED BY <3>1, <3>2
  <2>2. Sound(A, filled, delta, caps)
    BY <1>5, <2>1 DEF Sound
  <2>3. violation = "none"
    BY <1>4, <1>5, <2>1
  <2> QED BY <1>3, <2>2, <2>3 DEF violation, delta
<1>6. CASE ~WithinCaps(filled, caps)
  <2>1. delta = staged
    BY <1>1, <1>6, OutsideStays
  <2>2. /\ \A a \in A : Magnitude(rs[a]) <= Size(filled[a]) /\ Magnitude(rs[a]) \in Int
        /\ RangeGross(rs) <= GrossOf(filled) /\ RangeGross(rs) \in Int
        /\ WorstNet(rs) <= Size(Total(filled)) /\ WorstNet(rs) \in Nat
    BY <2>1, StagedMeasures DEF staged
  <2>3. Sound(A, filled, delta, caps)
    BY <1>6, <2>2 DEF Sound
  <2>4. WorstNet(baseline) = Size(Total(filled)) /\ RangeGross(baseline) = GrossOf(filled)
    BY Baseline
  <2>5. GrossOf(filled) \in Int /\ Size(Total(filled)) \in Nat
    <3> DEFINE s == [a \in A |-> Size(filled[a])]
    <3>1. s \in [A -> Int] /\ \A a \in A : Size(filled[a]) <= s[a]
      BY DEF Size
    <3> HIDE DEF s
    <3> QED BY <3>1, GrossAtMost, SizeOfTotal
  <2> HIDE DEF rs, baseline
  <2>6. ~(RangeGross(rs) > RangeGross(baseline) \/ WorstNet(rs) > WorstNet(baseline))
    BY <2>2, <2>4, <2>5
  <2>7. violation \in {"none", "ExistingRiskIncreased"}
    BY <1>4, <1>6, <2>6
  <2> QED BY <1>3, <1>6, <2>3, <2>7 DEF violation, delta
<1> QED BY <1>5, <1>6
\* A decision: its targets, the changes proposed towards them and the changes
\* that are left, rounded.
Decided(A, p, filled, rules, caps) ==
  /\ Quotients(A, p.targets)
  /\ p.proposed = [a \in A |-> p.targets.num[a] - filled[a] * p.targets.den]
  /\ p.delta \in [A -> Int]
  /\ \A a \in A : p.delta[a] \in {0, RoundDelta(p.proposed[a], p.targets.den, rules[a])}
  /\ Sound(A, filled, p.delta, caps)
  /\ WithinCaps(filled, caps) => p.violation = "none"
  /\ p.violation \in {"none", "ExistingRiskIncreased"}

LEMMA ProjectDecides ==
  ASSUME NEW A, IsFiniteSet(A), A \subseteq Nat, NEW filled \in [A -> Int], NEW t \in [A -> Int],
         NEW rules, \A a \in A : RulesHold(rules[a]),
         NEW caps \in [asset : Nat, gross : Nat, net : Nat]
  PROVE  Decided(A, Project(filled, Still(A), t, rules, caps), filled, rules, caps)
<1> DEFINE open == Still(A)
           targets == ConstrainedTargets(t, caps)
           proposed == [a \in A |-> targets.num[a] - (filled[a] + open[a].buy - open[a].sell) * targets.den]
           rounded == [a \in A |-> RoundDelta(proposed[a], targets.den, rules[a])]
           delta == StagedIfNeeded(filled, open, rounded, caps)
           p == Project(filled, open, t, rules, caps)
<1>1. Quotients(A, targets)
  BY ConstrainedTargetsType
<1>2. p = [targets |-> targets, proposed |-> proposed, delta |-> delta,
           violation |-> FinalRangesViolation(filled, open, delta, caps)]
  BY DEF Project, ProjectOnto, Rounded, Validated
<1> HIDE DEF targets
<1>3. proposed = [a \in A |-> targets.num[a] - filled[a] * targets.den]
  <2>1. \A a \in A : open[a].buy = 0 /\ open[a].sell = 0 /\ filled[a] \in Int
    BY DEF Still
  <2>2. \A a \in A : (filled[a] + open[a].buy - open[a].sell) = filled[a]
    BY <2>1
  <2> HIDE DEF open
  <2> QED BY <2>2
<1> HIDE DEF proposed
<1>4. \A a \in A : proposed[a] \in Int
  BY <1>1, <1>3 DEF Quotients
<1>5. rounded \in [A -> Int]
  BY <1>1, <1>4, RoundedDelta DEF Quotients
<1>6. \A a \in A : rounded[a] = RoundDelta(proposed[a], targets.den, rules[a])
  OBVIOUS
<1> HIDE DEF rounded
<1>7. /\ delta \in [A -> Int] /\ \A a \in A : delta[a] \in {0, rounded[a]}
      /\ Sound(A, filled, delta, caps)
      /\ WithinCaps(filled, caps) => FinalRangesViolation(filled, open, delta, caps) = "none"
      /\ FinalRangesViolation(filled, open, delta, caps) \in {"none", "ExistingRiskIncreased"}
  BY <1>5, StagingIsSound
<1> HIDE DEF delta, p, open
<1>8. /\ p.targets = targets /\ p.proposed = proposed /\ p.delta = delta
      /\ p.violation = FinalRangesViolation(filled, open, delta, caps)
  BY <1>2
<1>9. Decided(A, p, filled, rules, caps)
  BY <1>1, <1>3, <1>6, <1>7, <1>8 DEF Decided
<1> QED BY <1>9 DEF p, open

LEMMA ConstructDecides ==
  ASSUME NEW A, IsFiniteSet(A), A \subseteq Nat, NEW filled \in [A -> Int],
         NEW consensus \in [A -> Int], NEW unit \in Nat \ {0},
         NEW rules, \A a \in A : RulesHold(rules[a]), NEW policy,
         NEW caps \in [asset : Nat, gross : Nat, net : Nat], NEW hysteresis
  PROVE  LET d == ConstructDecision(filled, Still(A), consensus, unit, rules, policy, caps, hysteresis)
         IN  Decided(A, d.projection, filled, rules, caps)
<1> DEFINE raw == [a \in A |-> (caps.gross * consensus[a]) \div unit]
           floors == [a \in A |->
              ExecutionFloor(IF raw[a] >= filled[a] THEN "Buy" ELSE "Sell", rules[a], policy)]
           t == Allocate(filled, raw, consensus, floors, caps, hysteresis)
           d == ConstructDecision(filled, Still(A), consensus, unit, rules, policy, caps, hysteresis)
<1>1. d = [raw |-> raw, floors |-> floors, projection |-> Project(filled, Still(A), t, rules, caps)]
  BY DEF ConstructDecision, OnTargets, WithAllocation
<1>2. raw \in [A -> Int]
  <2>1. ASSUME NEW a \in A PROVE (caps.gross * consensus[a]) \div unit \in Int
    <3>1. caps.gross * consensus[a] \in Int
      OBVIOUS
    <3> QED BY <3>1
  <2> QED BY <2>1
<1> HIDE DEF raw, floors, d
<1>3. t \in [A -> Int]
  BY <1>2, AllocateType
<1> HIDE DEF t
<1>4. Decided(A, Project(filled, Still(A), t, rules, caps), filled, rules, caps)
  BY <1>3, ProjectDecides
<1>5. d.projection = Project(filled, Still(A), t, rules, caps)
  BY <1>1
<1> QED BY <1>4, <1>5 DEF d

-----------------------------------------------------------------------------
(* The walk through the book.                                                *)

\* It never takes more than the order, and never a negative quantity.
LEMMA ShadowFillBounds ==
  ASSUME NEW side, NEW quantity \in Nat, NEW limit, NEW levels, Len(levels) \in Nat,
         \A i \in 1 .. Len(levels) : levels[i].quantity \in Nat
  PROVE  ShadowFill(side, quantity, limit, levels).filled \in 0 .. quantity
<1> DEFINE N == Len(levels)
           X == {t \in [remaining : Nat, filled : Nat] : t.remaining + t.filled = quantity}
           start == [remaining |-> quantity, filled |-> 0]
           T == [i \in 1 .. N |-> [t \in X |-> Taking(t, side, limit, levels[i])]]
           Body(f) == [i \in 0 .. N |-> IF i = 0 THEN start ELSE Taking(f[i - 1], side, limit, levels[i])]
           F == CHOOSE f : f = Body(f)
<1>1. N \in Nat /\ start \in X /\ N \in 0 .. N
  OBVIOUS
<1>2. ShadowFill(side, quantity, limit, levels) = F[N]
  BY DEF ShadowFill
<1>3. ASSUME NEW i \in 1 .. N, NEW t \in X PROVE Taking(t, side, limit, levels[i]) \in X
  <2> DEFINE q == IF Within(side, levels[i].price, limit)
                  THEN Smaller(t.remaining, levels[i].quantity) ELSE 0
  <2>b. levels[i].quantity \in Nat
    OBVIOUS
  <2>c. t.remaining \in Nat /\ t.filled \in Nat /\ t.remaining + t.filled = quantity
    OBVIOUS
  <2>1. levels[i].quantity \in Nat /\ t.remaining \in Nat /\ t.filled \in Nat
        /\ t.remaining + t.filled = quantity
    BY <2>b, <2>c
  <2>2. q \in Nat /\ q <= t.remaining
    BY <2>1 DEF Smaller
  <2>3. Taking(t, side, limit, levels[i]) = [remaining |-> t.remaining - q, filled |-> t.filled + q]
    BY DEF Taking
  <2> HIDE DEF q
  <2>4. t.remaining - q \in Nat /\ t.filled + q \in Nat /\ (t.remaining - q) + (t.filled + q) = quantity
    BY <2>1, <2>2
  <2> QED BY <2>3, <2>4
<1>4. T \in [1 .. N -> [X -> X]]
  <2> HIDE DEF X, N
  <2> QED BY <1>3
<1>5. PICK G \in [0 .. N -> X] : StepsOf(G, N, start, T)
  <2> HIDE DEF T, X, start, N
  <2> QED BY <1>1, <1>4, RecursionExists
<1> HIDE DEF X, N
<1>6. G = Body(G)
  <2>1. ASSUME NEW i \in 0 .. N PROVE G[i] = Body(G)[i]
    <3>1. CASE i = 0
      BY <1>5, <3>1 DEF StepsOf
    <3>2. CASE i # 0
      <4>1. i \in 1 .. N /\ G[i - 1] \in X
        BY <1>1, <3>2
      <4> QED BY <1>5, <3>2, <4>1 DEF StepsOf
    <3> QED BY <3>1, <3>2
  <2> QED BY <2>1
<1>7. F = Body(F)
  <2> HIDE DEF Body
  <2> QED BY <1>6, Zenon
<1> HIDE DEF F
<1> DEFINE S == {i \in 0 .. N : F[i] \in X}
<1>8. 0 \in S
  <2>1. F[0] = start
    BY <1>1, <1>7
  <2> QED BY <1>1, <2>1
<1>9. ASSUME NEW i \in 1 .. N, i - 1 \in S PROVE i \in S
  <2>1. F[i] = Taking(F[i - 1], side, limit, levels[i])
    BY <1>1, <1>7
  <2> QED BY <1>3, <1>9, <2>1
<1> HIDE DEF S
<1>10. N \in S
  BY <1>1, <1>8, <1>9, UpToInduction
<1>11. F[N] \in X
  BY <1>10 DEF S
<1> QED BY <1>2, <1>11 DEF X
-----------------------------------------------------------------------------
(* What an order may take.                                                   *)

\* The size of a product with a positive number.
LEMMA SizeOfProduct ==
  ASSUME NEW i \in Int, NEW n \in Nat \ {0}
  PROVE  /\ i * n \in Int
         /\ i > 0 => i * n > 0
         /\ i < 0 => i * n < 0
         /\ Size(i) \in Nat
         /\ Size(i * n) = Size(i) * n
<1>1. CASE i >= 0
  <2>1. i * n \in Nat /\ (i > 0 => i * n > 0)
    BY <1>1
  <2>2. Size(i * n) = i * n /\ Size(i) = i
    BY <1>1, <2>1 DEF Size
  <2> QED BY <1>1, <2>1, <2>2
<1>2. CASE i < 0
  <2>1. (-i) * n \in Nat /\ (-i) * n > 0 /\ i * n = -((-i) * n)
    BY <1>2
  <2>2. Size(i * n) = (-i) * n /\ Size(i) = -i
    BY <1>2, <2>1 DEF Size
  <2> QED BY <1>2, <2>1, <2>2
<1> QED BY <1>1, <1>2

LEMMA Multiplies ==
  ASSUME NEW i \in Nat, NEW j \in Nat, i <= j, NEW n \in Nat
  PROVE  i * n <= j * n /\ i * n \in Nat /\ j * n \in Nat
<1>1. j - i \in Nat
  OBVIOUS
<1>2. (j - i) * n \in Nat /\ (j - i) * n = j * n - i * n
  BY <1>1
<1> QED BY <1>2

\* A reduction that is planned for is a reduction of what is held.
LEMMA ReductionClass ==
  ASSUME NEW amount \in Int, NEW num \in Int, NEW change \in Int, change = num - amount,
         \/ amount > 0 /\ change < 0 /\ (num = 0 \/ num > 0)
         \/ amount < 0 /\ change > 0 /\ (num = 0 \/ num < 0)
  PROVE  /\ ResidualClass(amount, num) = IF num = 0 THEN "FullExit" ELSE "RiskReduction"
         /\ Size(change) = Size(amount) - Size(num)
<1>1. Size(change) = Size(amount) - Size(num)
  BY DEF Size
<1>2. amount # num /\ amount # 0
  OBVIOUS
<1>3. CASE num = 0
  <2>1. ~Opposed(amount, num) /\ ~SameSide(amount, num)
    BY <1>3 DEF Opposed, SameSide
  <2> QED BY <1>1, <1>2, <1>3, <2>1 DEF ResidualClass
<1>4. CASE num # 0
  <2>1. ~Opposed(amount, num) /\ SameSide(amount, num) /\ Size(num) < Size(amount)
    BY <1>4 DEF Opposed, SameSide, Size
  <2> QED BY <1>1, <1>2, <1>4, <2>1 DEF ResidualClass
<1> QED BY <1>1, <1>3, <1>4

\* What it takes is no more than is held, and, at a price on its tick, no more
\* than the change that was projected.
LEMMA ReductionTakes ==
  ASSUME NEW p \in Int, NEW rules, RulesHold(rules), NEW num \in Int, NEW den \in Nat \ {0},
         RequiresReduceOnly(p * rules.mark, num - (p * rules.mark) * den, num)
  PROVE  LET amount == p * rules.mark
             change == num - amount * den
             class == ResidualClass((amount + 0) * den, num)
             q == ReducingQuantity(class, p, [num |-> num, den |-> den], rules.mark, rules.step)
         IN  /\ class \in {"FullExit", "RiskReduction"}
             /\ q \in 0 .. Size(p)
             /\ rules.mark % rules.tick = 0 => q * rules.mark <= Size(RoundDelta(change, den, rules))
<1> DEFINE m == rules.mark
           amount == p * m
           C == amount * den
           change == num - C
           class == ResidualClass((amount + 0) * den, num)
           desired == [num |-> num, den |-> den]
           q == ReducingQuantity(class, p, desired, m, rules.step)
           whole == Size(p)
           over == IF class = "RiskReduction"
                   THEN RoundDown(Larger(whole * m * den - Size(num), 0), den * m, rules.step)
                   ELSE RoundDown(whole, 1, rules.step)
           delta == RoundDelta(change, den, rules)
<1>1. m \in Nat \ {0} /\ rules.step \in Nat \ {0} /\ den * m \in Nat \ {0}
  BY DEF RulesHold
<1>2. /\ amount \in Int /\ whole \in Nat /\ Size(amount) = whole * m /\ Size(amount) \in Nat
      /\ C \in Int /\ Size(C) = Size(amount) * den
      /\ (amount > 0 => C > 0) /\ (amount < 0 => C < 0)
  <2>1. amount \in Int /\ whole \in Nat /\ Size(amount) = whole * m
    BY <1>1, SizeOfProduct
  <2> HIDE DEF amount
  <2> QED BY <2>1, SizeOfProduct
<1>3. (amount + 0) * den = C
  BY <1>2
<1>4. RequiresReduceOnly(amount, change, num)
  OBVIOUS
<1>5. q = Smaller(over, whole)
  BY DEF ReducingQuantity
<1>6. /\ delta = RoundDelta(change, den, rules)
      /\ class = ResidualClass(C, num)
  BY <1>3
<1> HIDE DEF m, amount, C, q, class, delta, whole
<1>7. change \in Int
  BY <1>2
<1>8. \/ C > 0 /\ change < 0 /\ (num = 0 \/ num > 0)
      \/ C < 0 /\ change > 0 /\ (num = 0 \/ num < 0)
  BY <1>2, <1>4 DEF RequiresReduceOnly, Opposed, SameSide
<1>9. /\ class = IF num = 0 THEN "FullExit" ELSE "RiskReduction"
      /\ Size(change) = Size(C) - Size(num)
  BY <1>2, <1>6, <1>7, <1>8, ReductionClass
<1>10. whole * m * den = Size(C) /\ Size(change) \in Nat /\ Size(C) \in Nat /\ Size(num) \in Nat
  BY <1>2, <1>7 DEF Size
<1>11. over = IF num = 0 THEN RoundDown(whole, 1, rules.step)
              ELSE RoundDown(Size(change), den * m, rules.step)
  <2>1. CASE num = 0
    BY <1>9, <2>1
  <2>2. CASE num # 0
    <3>1. Larger(whole * m * den - Size(num), 0) = Size(change)
      BY <1>9, <1>10 DEF Larger
    <3> QED BY <1>9, <2>2, <3>1
  <2> QED BY <2>1, <2>2
<1>12. over \in Nat
  <2>1. RoundDown(whole, 1, rules.step) \in Nat
    BY <1>1, <1>2, RoundedDown
  <2>2. RoundDown(Size(change), den * m, rules.step) \in Nat
    BY <1>1, <1>10, RoundedDown
  <2> QED BY <1>11, <2>1, <2>2
<1>13. RoundDown(Size(change), den * m, rules.step) = over
  <2>1. CASE num = 0
    <3> DEFINE c == den * m
               n == 1 * rules.step
    <3>1. c \in Nat \ {0} /\ n \in Nat \ {0} /\ c * rules.step = n * c
      BY <1>1
    <3>2. Size(change) = whole * c
      <4>1. Size(num) = 0
        BY <2>1 DEF Size
      <4>2. whole * m * den = whole * c
        BY <1>1, <1>2
      <4> QED BY <1>9, <1>10, <4>1, <4>2
    <3> HIDE DEF c, n
    <3>3. (whole * c) \div (n * c) = whole \div n
      BY <1>2, <3>1, QuotientCancels
    <3>4. RoundDown(Size(change), c, rules.step) = ((whole * c) \div (n * c)) * rules.step
      BY <3>1, <3>2 DEF RoundDown
    <3>5. RoundDown(whole, 1, rules.step) = (whole \div n) * rules.step
      BY DEF RoundDown, n
    <3> QED BY <1>11, <2>1, <3>3, <3>4, <3>5 DEF c
  <2>2. CASE num # 0
    BY <1>11, <2>2
  <2> QED BY <2>1, <2>2
<1> HIDE DEF over
<1>14. q \in 0 .. whole /\ q <= over
  BY <1>2, <1>5, <1>12 DEF Smaller
<1>15. ASSUME m % rules.tick = 0 PROVE q * m <= Size(delta)
  <2>1. ValuedAt(change, rules) = m
    BY <1>7, <1>15, ValuedAtTick DEF m
  <2>2. Size(delta) = RoundDown(Size(change), den * ValuedAt(change, rules), rules.step)
                        * ValuedAt(change, rules)
    BY <1>6, <1>7, RoundedDelta
  <2>3. Size(delta) = over * m
    BY <1>13, <2>1, <2>2
  <2>4. q * m <= over * m
    BY <1>1, <1>2, <1>12, <1>14, Multiplies
  <2> QED BY <2>3, <2>4
<1>16. class \in {"FullExit", "RiskReduction"}
  BY <1>9
<1> QED BY <1>14, <1>15, <1>16 DEF m, amount, C, q, class, delta, whole

\* The order of an exit, if it is one.
LEMMA ReductionIs ==
  ASSUME NEW p \in Int, NEW rules, RulesHold(rules), NEW num \in Int, NEW den \in Nat \ {0},
         NEW policy, RequiresReduceOnly(p * rules.mark, num - (p * rules.mark) * den, num)
  PROVE  LET amount == p * rules.mark
             change == num - amount * den
             order == ExitPlan([num |-> num, den |-> den], p, 0, rules, policy)
         IN  \/ order = Blocked("BelowExchangeMinimum")
             \/ /\ IsPlan(order)
                /\ order.side = IF amount > 0 THEN "Sell" ELSE "Buy"
                /\ order.quantity \in 0 .. Size(p)
                /\ rules.mark % rules.tick = 0 =>
                     order.quantity * rules.mark <= Size(RoundDelta(change, den, rules))
<1> DEFINE amount == p * rules.mark
           change == num - amount * den
           desired == [num |-> num, den |-> den]
           class == ResidualClass((amount + 0) * den, num)
           side == IF amount > 0 THEN "Sell" ELSE "Buy"
           q == ReducingQuantity(class, p, desired, rules.mark, rules.step)
           floor == ExecutionFloor(side, rules, policy)
           order == ExitPlan(desired, p, 0, rules, policy)
           plan == [side |-> side, class |-> class, quantity |-> q, notional |-> q * floor.price]
<1>1. /\ class \in {"FullExit", "RiskReduction"}
      /\ q \in 0 .. Size(p)
      /\ rules.mark % rules.tick = 0 => q * rules.mark <= Size(RoundDelta(change, den, rules))
  BY ReductionTakes
<1>2. order = CASE class = "AlreadySatisfied" -> Blocked("AlreadySatisfied")
        [] class = "ExposureIncrease" -> Blocked("ExposureIncreasing")
        [] class \notin {"AlreadySatisfied", "ExposureIncrease"} /\ 0 # 0 ->
             Blocked("OutstandingExposureRequiresReconciliation")
        [] class \notin {"AlreadySatisfied", "ExposureIncrease"} /\ 0 = 0
           /\ (q = 0 \/ q * floor.price < floor.order) -> Blocked("BelowExchangeMinimum")
        [] OTHER -> plan
  BY DEF ExitPlan
<1>3. side = IF amount > 0 THEN "Sell" ELSE "Buy"
  OBVIOUS
<1> HIDE DEF class, q, floor, order, side, amount
<1>4. order \in {Blocked("BelowExchangeMinimum"), plan}
  BY <1>1, <1>2
<1>5. IsPlan(plan)
  BY DEF IsPlan
<1>6. plan.side = side /\ plan.quantity = q
  OBVIOUS
<1> HIDE DEF plan
<1>7. CASE order = plan
  BY <1>1, <1>3, <1>5, <1>6, <1>7 DEF order, amount
<1>8. CASE order = Blocked("BelowExchangeMinimum")
  BY <1>8 DEF order
<1> QED BY <1>4, <1>7, <1>8

\* An increase takes no more than the change that was projected, and at a
\* price on its tick it takes something.
LEMMA IncreaseTakes ==
  ASSUME NEW change \in Int, NEW den \in Nat \ {0}, NEW rules, RulesHold(rules),
         RoundDelta(change, den, rules) # 0
  PROVE  LET delta == RoundDelta(change, den, rules)
             q == RoundDown(Size(delta), rules.mark, rules.step)
         IN  /\ q \in Nat
             /\ q * rules.mark <= Size(delta)
             /\ rules.mark % rules.tick = 0 => q # 0
<1> DEFINE m == rules.mark
           s == rules.step
           delta == RoundDelta(change, den, rules)
           q == RoundDown(Size(delta), m, s)
           price == ValuedAt(change, rules)
<1>1. m \in Nat \ {0} /\ s \in Nat \ {0} /\ price \in Nat \ {0}
  BY ValuedAtTick DEF RulesHold
<1>2. /\ delta \in Int /\ delta # 0
      /\ Size(delta) = RoundDown(Size(change), den * price, s) * price
  BY RoundedDelta
<1> HIDE DEF delta
<1>3. Size(delta) \in Nat /\ Size(delta) # 0 /\ Size(change) \in Nat
  BY <1>2 DEF Size
<1>4. q \in Nat /\ q * m <= Size(delta)
  BY <1>1, <1>3, RoundedDown
<1>5. ASSUME m % rules.tick = 0 PROVE q # 0
  <2>1. price = m
    BY <1>5, ValuedAtTick
  <2> DEFINE k == Size(change) \div (den * price * s)
  <2>2. k \in Nat
    <3>1. den * price \in Nat \ {0}
      BY <1>1
    <3>2. den * price * s \in Nat \ {0}
      BY <1>1, <3>1
    <3> QED BY <1>3, <3>2, Quotient
  <2>3. Size(delta) = (k * s) * m
    BY <1>2, <2>1 DEF RoundDown
  <2> HIDE DEF k, m, s, price
  <2>4. k # 0
    <3>1. SUFFICES ASSUME k = 0 PROVE FALSE
      OBVIOUS
    <3>2. (k * s) * m = 0
      BY <1>1, <3>1
    <3> QED BY <1>3, <2>3, <3>2
  <2>5. m * s \in Nat \ {0} /\ Size(delta) = k * (m * s)
    BY <1>1, <2>2, <2>3
  <2>6. Size(delta) < (k + 1) * (m * s)
    <3> DEFINE c == m * s
    <3>1. (k + 1) * c = k * c + c /\ k * c \in Nat /\ c \in Nat \ {0}
      BY <2>2, <2>5
    <3> HIDE DEF c
    <3> QED BY <2>5, <3>1 DEF c
  <2>7. Size(delta) \div (m * s) = k
    BY <1>3, <2>2, <2>5, <2>6, QuotientIs
  <2>8. q = k * s
    BY <2>7 DEF RoundDown
  <2>9. k * s # 0
    BY <1>1, <2>2, <2>4
  <2> QED BY <2>8, <2>9
<1> QED BY <1>4, <1>5 DEF q, m, s, delta
-----------------------------------------------------------------------------
(* The invariant of the rebalancing.                                         *)

\* The change that was proposed for an asset, and what is held of it now.
ProposedFor(a) == decision.targets.num[a] - decision.filled[a] * decision.targets.den
HeldOf(a) == position[a] * mark[a]
InRange(a, amount) ==
  /\ decision.filled[a] - Larger(-decision.delta[a], 0) <= amount
  /\ amount <= decision.filled[a] + Larger(decision.delta[a], 0)

\* Where the orders of a decision have brought an asset.
RangeKept(a) ==
  InRange(a, HeldOf(a)) \/ (SizedAgain(a) /\ Size(HeldOf(a)) <= Size(decision.filled[a]))

\* An order as it was planned, on an asset that has not been touched.
Planned(x) ==
  /\ x.asset \in Assets
  /\ HeldOf(x.asset) = decision.filled[x.asset]
  /\ x.reduceOnly = RequiresReduceOnly(decision.filled[x.asset], ProposedFor(x.asset),
                                       decision.targets.num[x.asset])
  /\ ~x.reduceOnly =>
       /\ decision.delta[x.asset] # 0
       /\ x.side = IF decision.delta[x.asset] > 0 THEN "Buy" ELSE "Sell"
       /\ x.notional = Size(decision.delta[x.asset])

\* The decision, while the price stands still.
Standing ==
  /\ Quotients(Assets, decision.targets)
  /\ decision.filled \in [Assets -> Int] /\ decision.delta \in [Assets -> Int]
  /\ \A a \in Assets : decision.delta[a] \in
       {0, RoundDelta(ProposedFor(a), decision.targets.den, Rules(a, mark[a]))}
  /\ Sound(Assets, decision.filled, decision.delta, Caps)

OrdersStand ==
  /\ \A x \in pendingOrders : Planned(x)
  /\ \A x, y \in pendingOrders : x.asset = y.asset => x = y

RebTypes == position \in [Assets -> Int] /\ mark \in [Assets -> Marks]

RebInv ==
  /\ RebTypes
  /\ steady => Standing /\ OrdersStand /\ \A a \in Assets : RangeKept(a)
  /\ FailsForACause

LEMMA RulesAre ==
  ASSUME mark \in [Assets -> Marks]
  PROVE  \A a \in Assets : /\ mark[a] \in Nat \ {0}
                           /\ RulesHold(Rules(a, mark[a]))
                           /\ Rules(a, mark[a]).mark = mark[a]
                           /\ Rules(a, mark[a]).tick = Tick
<1>1. ASSUME NEW a \in Assets
      PROVE  mark[a] \in Nat \ {0} /\ Tick <= mark[a] /\ Tick \in Nat \ {0} /\ Step \in Nat \ {0}
  BY RebalancingAssumption
<1>2. ASSUME NEW a \in Assets
      PROVE  /\ Rules(a, mark[a]).mark = mark[a] /\ Rules(a, mark[a]).tick = Tick
             /\ Rules(a, mark[a]).step = Step
  BY DEF Rules
<1> QED BY <1>1, <1>2 DEF RulesHold

LEMMA NotionalIs ==
  ASSUME RebTypes
  PROVE  /\ Notional(position, mark) \in [Assets -> Int]
         /\ \A a \in Assets : Notional(position, mark)[a] = HeldOf(a) /\ HeldOf(a) \in Int
<1>1. \A a \in Assets : HeldOf(a) \in Int
  <2>1. \A a \in Assets : position[a] \in Int /\ mark[a] \in Nat \ {0}
    BY RulesAre DEF RebTypes
  <2> QED BY <2>1 DEF HeldOf
<1>2. Notional(position, mark) = [a \in Assets |-> HeldOf(a)]
  BY DEF Notional, HeldOf
<1> QED BY <1>1, <1>2

\* Where the orders have brought the portfolio, the caps hold.
LEMMA KeptIsWithin ==
  ASSUME RebInv
  PROVE  CapsAreKept
<1> SUFFICES ASSUME steady PROVE CapsAreKept
  BY DEF CapsAreKept
<1> DEFINE now == Notional(position, mark)
           F == decision.filled
           D == decision.delta
           checked == [a \in Assets |-> IF SizedAgain(a) THEN decision.filled[a] ELSE now[a]]
           rs == Ranges(F, Still(Assets), D)
           g == Magnitudes(Assets, rs)
<1>1. /\ RebTypes /\ F \in [Assets -> Int] /\ D \in [Assets -> Int]
      /\ Sound(Assets, F, D, Caps) /\ \A a \in Assets : RangeKept(a)
  BY DEF RebInv, Standing
<1>2. now \in [Assets -> Int] /\ \A a \in Assets : now[a] = HeldOf(a)
  BY <1>1, NotionalIs
<1>3. IsFiniteSet(Assets) /\ Caps.asset \in Nat /\ Caps.gross \in Nat /\ Caps.net \in Nat
  BY RebalancingAssumption
<1>4. CapsAreKept <=>
        IF WithinCaps(F, Caps)
        THEN /\ \A a \in Assets : Size(now[a]) <= Caps.asset
             /\ GrossOf(now) <= Caps.gross
             /\ Size(Total(checked)) <= Caps.net
        ELSE /\ \A a \in Assets : Size(now[a]) <= Size(F[a])
             /\ Size(Total(checked)) <= Size(Total(F))
  BY DEF CapsAreKept
<1>5. checked \in [Assets -> Int]
  BY <1>1, <1>2
<1> HIDE DEF now, F, D
<1>6. RangesOf(rs, Assets, F, D)
  BY <1>1, RangesAre
<1>7. /\ g \in [Assets -> Int] /\ RangeGross(rs) = Total(g) /\ RangeGross(rs) \in Int
      /\ \A a \in Assets : g[a] = Magnitude(rs[a])
  BY <1>3, <1>6, RangeSums DEF Magnitudes
<1>8. WorstNet(rs) \in Nat
  BY <1>1, <1>3, WorstNetType
<1> HIDE DEF rs, g
<1>9. ASSUME NEW a \in Assets
      PROVE  /\ rs[a].min <= checked[a] /\ checked[a] <= rs[a].max
             /\ Size(now[a]) <= Magnitude(rs[a])
  <2>1. RangeKept(a) /\ now[a] = HeldOf(a) /\ F[a] \in Int /\ D[a] \in Int /\ now[a] \in Int
    BY <1>1, <1>2
  <2>2. /\ rs[a].min \in Int /\ rs[a].max \in Int
        /\ rs[a].min = F[a] - Larger(-D[a], 0) /\ rs[a].max = F[a] + Larger(D[a], 0)
        /\ rs[a].min <= F[a] /\ F[a] <= rs[a].max
    BY <1>6 DEF RangesOf
  <2>3. checked[a] = IF SizedAgain(a) THEN F[a] ELSE now[a]
    BY DEF F
  <2>4. \/ rs[a].min <= now[a] /\ now[a] <= rs[a].max
        \/ SizedAgain(a) /\ Size(now[a]) <= Size(F[a])
    BY <2>1, <2>2 DEF RangeKept, InRange, F, D
  <2>5. rs[a].min <= checked[a] /\ checked[a] <= rs[a].max
    BY <2>2, <2>3, <2>4
  <2>6. Size(now[a]) <= Magnitude(rs[a])
    <3> HIDE DEF checked
    <3> QED BY <2>1, <2>2, <2>4 DEF Magnitude, Larger, Size
  <2> QED BY <2>5, <2>6
<1> HIDE DEF checked
<1>10. Size(Total(checked)) <= WorstNet(rs) /\ Size(Total(checked)) \in Nat
  BY <1>3, <1>5, <1>6, <1>9, WithinRanges, SizeOfTotal
<1>11. GrossOf(now) <= RangeGross(rs) /\ GrossOf(now) \in Int
  BY <1>2, <1>3, <1>7, <1>9, GrossAtMost
<1>12. \A a \in Assets : Size(now[a]) \in Nat /\ Size(F[a]) \in Nat /\ Magnitude(rs[a]) \in Int
  BY <1>1, <1>2, <1>7 DEF Size
<1>13. CASE WithinCaps(F, Caps)
  <2>1. RangesWithin(rs, Caps) /\ DOMAIN rs = Assets
    BY <1>1, <1>6, <1>13 DEF Sound, RangesOf, rs
  <2>2. /\ \A a \in Assets : Magnitude(rs[a]) <= Caps.asset
        /\ RangeGross(rs) <= Caps.gross
        /\ WorstNet(rs) <= Caps.net
    BY <2>1 DEF RangesWithin
  <2>3. \A a \in Assets : Size(now[a]) <= Caps.asset
    BY <1>3, <1>9, <1>12, <2>2
  <2>4. GrossOf(now) <= Caps.gross
    BY <1>3, <1>7, <1>11, <2>2
  <2>5. Size(Total(checked)) <= Caps.net
    BY <1>3, <1>8, <1>10, <2>2
  <2> QED BY <1>4, <1>13, <2>3, <2>4, <2>5
<1>14. CASE ~WithinCaps(F, Caps)
  <2>1. /\ \A a \in Assets : Magnitude(rs[a]) <= Size(F[a])
        /\ WorstNet(rs) <= Size(Total(F))
    BY <1>1, <1>14 DEF Sound, rs
  <2>2. \A a \in Assets : Size(now[a]) <= Size(F[a])
    BY <1>9, <1>12, <2>1
  <2>3. Size(Total(F)) \in Nat
    BY <1>1, <1>3, SizeOfTotal
  <2>4. Size(Total(checked)) <= Size(Total(F))
    BY <1>8, <1>10, <2>1, <2>3
  <2> QED BY <1>4, <1>14, <2>2, <2>4
<1> QED BY <1>13, <1>14
LEMMA RebInitial ==
  ASSUME RebalancingInit
  PROVE  RebInv
<1>1. RebTypes
  BY DEF RebalancingInit, RebTypes
<1>2. FailsForACause /\ ~steady
  BY DEF RebalancingInit, FailsForACause
<1> QED BY <1>1, <1>2 DEF RebInv

LEMMA StillIs == NoOpen = Still(Assets)
BY DEF NoOpen, Still

\* The orders of a decision are planned on what it was made on.
LEMMA OrdersArePlanned ==
  ASSUME NEW d, NEW filled, DOMAIN filled = Assets, NEW blocked
  PROVE  /\ \A x \in ExecutableActions(d, filled, blocked) :
              x.asset \in Assets /\ x = PlannedAction(d, filled, x.asset) /\ ~x.none
         /\ \A x, y \in ExecutableActions(d, filled, blocked) : x.asset = y.asset => x = y
<1>1. \A a \in Assets : PlannedAction(d, filled, a).asset = a
  BY DEF PlannedAction
<1>2. ASSUME NEW x \in ExecutableActions(d, filled, blocked)
      PROVE  x.asset \in Assets /\ x = PlannedAction(d, filled, x.asset) /\ ~x.none
  <2>1. ~x.none /\ \E a \in Assets : x = PlannedAction(d, filled, a)
    BY DEF ExecutableActions
  <2> QED BY <1>1, <2>1
<1> QED BY <1>2

LEMMA ActionIs ==
  ASSUME NEW d, NEW filled, NEW a
  PROVE  LET p == d.projection
             x == PlannedAction(d, filled, a)
         IN  /\ x.asset = a
             /\ x.reduceOnly = RequiresReduceOnly(filled[a], p.proposed[a], p.targets.num[a])
             /\ ~x.reduceOnly /\ ~x.none =>
                  /\ p.delta[a] # 0
                  /\ x.side = IF p.delta[a] > 0 THEN "Buy" ELSE "Sell"
                  /\ x.notional = Size(p.delta[a])
<1> DEFINE p == d.projection
           reduceOnly == RequiresReduceOnly(filled[a], p.proposed[a], p.targets.num[a])
           sign == IF p.delta[a] = 0 /\ reduceOnly THEN p.proposed[a] ELSE p.delta[a]
           notional == IF p.delta[a] = 0 /\ reduceOnly THEN Size(p.proposed[a]) \div p.targets.den
                       ELSE Size(p.delta[a])
           x == PlannedAction(d, filled, a)
<1>1. x = [asset |-> a, reduceOnly |-> reduceOnly, side |-> IF sign > 0 THEN "Buy" ELSE "Sell",
           notional |-> notional, none |-> sign = 0]
  BY DEF PlannedAction
<1> HIDE DEF x, reduceOnly
<1>2. /\ x.asset = a /\ x.reduceOnly = reduceOnly /\ x.side = (IF sign > 0 THEN "Buy" ELSE "Sell")
      /\ x.notional = notional /\ x.none = (sign = 0)
  BY <1>1
<1>3. ASSUME ~x.reduceOnly, ~x.none
      PROVE  /\ p.delta[a] # 0 /\ x.side = (IF p.delta[a] > 0 THEN "Buy" ELSE "Sell")
             /\ x.notional = Size(p.delta[a])
  <2>1. ~reduceOnly
    BY <1>2, <1>3
  <2>2. sign = p.delta[a] /\ notional = Size(p.delta[a])
    BY <2>1
  <2> HIDE DEF sign, notional
  <2>3. sign # 0
    BY <1>2, <1>3
  <2> QED BY <1>2, <2>2, <2>3
<1> QED BY <1>2, <1>3 DEF x, reduceOnly

LEMMA DecideKeeps ==
  ASSUME RebInv, Decide
  PROVE  RebInv'
<1> DEFINE filled == Notional(position, mark)
           rules == [a \in Assets |-> Rules(a, mark[a])]
           Chosen(consensus) == ConstructDecision(filled, NoOpen, consensus, ConsensusUnit, rules,
                                                  Policy, Caps, Hysteresis)
<1>1. PICK consensus \in [Assets -> Consensus] :
        IF Chosen(consensus).projection.violation = "none"
        THEN /\ decision' = [targets |-> Chosen(consensus).projection.targets,
                             delta |-> Chosen(consensus).projection.delta, filled |-> filled]
             /\ pendingOrders' = ExecutableActions(Chosen(consensus), filled, FALSE)
             /\ steady' = TRUE
             /\ UNCHANGED failed
        ELSE /\ failed' = Chosen(consensus).projection.violation
             /\ UNCHANGED <<decision, pendingOrders, steady>>
  BY DEF Decide
<1> DEFINE d == Chosen(consensus)
           p == d.projection
<1>2. RebTypes /\ UNCHANGED <<position, mark, moves>> /\ failed = "no" /\ pendingOrders = {}
  BY DEF RebInv, Decide
<1>3. /\ filled \in [Assets -> Int] /\ DOMAIN filled = Assets
      /\ \A a \in Assets : filled[a] = HeldOf(a) /\ HeldOf(a) \in Int
  BY <1>2, NotionalIs
<1>4. Decided(Assets, p, filled, rules, Caps)
  <2>1. \A a \in Assets : RulesHold(rules[a])
    BY <1>2, RulesAre DEF RebTypes
  <2>2. /\ IsFiniteSet(Assets) /\ Assets \subseteq Nat /\ ConsensusUnit \in Nat \ {0}
        /\ Caps \in [asset : Nat, gross : Nat, net : Nat] /\ Consensus \subseteq Int
    BY RebalancingAssumption
  <2>3. consensus \in [Assets -> Int]
    BY <2>2
  <2> HIDE DEF filled, rules
  <2> QED BY <1>3, <2>1, <2>2, <2>3, ConstructDecides, StillIs
<1>5. \A a \in Assets : rules[a] = Rules(a, mark[a])
  OBVIOUS
<1> HIDE DEF d, filled, rules
<1>6. RebTypes'
  BY <1>2 DEF RebTypes
<1>7. \A a \in Assets : HeldOf(a)' = HeldOf(a)
  BY <1>2 DEF HeldOf
<1>8. CASE p.violation = "none"
  <2>1. /\ decision' = [targets |-> p.targets, delta |-> p.delta, filled |-> filled]
        /\ pendingOrders' = ExecutableActions(d, filled, FALSE)
        /\ failed' = "no"
    BY <1>1, <1>2, <1>8 DEF d
  <2>2. decision'.targets = p.targets /\ decision'.delta = p.delta /\ decision'.filled = filled
    BY <2>1
  <2>3. /\ Quotients(Assets, p.targets)
        /\ p.proposed = [a \in Assets |-> p.targets.num[a] - filled[a] * p.targets.den]
        /\ p.delta \in [Assets -> Int]
        /\ \A a \in Assets : p.delta[a] \in {0, RoundDelta(p.proposed[a], p.targets.den, rules[a])}
        /\ Sound(Assets, filled, p.delta, Caps)
    BY <1>4 DEF Decided
  <2>4. \A a \in Assets : ProposedFor(a)' = p.proposed[a]
    BY <2>2, <2>3 DEF ProposedFor
  <2>5. Standing'
    <3>1. \A a \in Assets : Rules(a, mark[a])' = rules[a]
      BY <1>2, <1>5 DEF Rules
    <3>2. \A a \in Assets : decision'.delta[a] \in
            {0, RoundDelta(ProposedFor(a)', decision'.targets.den, Rules(a, mark[a])')}
      BY <2>2, <2>3, <2>4, <3>1
    <3> QED BY <1>3, <2>2, <2>3, <3>2 DEF Standing
  <2>6. ASSUME NEW x \in pendingOrders' PROVE Planned(x)'
    <3> DEFINE a == x.asset
    <3>1. a \in Assets /\ x = PlannedAction(d, filled, a) /\ ~x.none
      BY <1>3, <2>1, OrdersArePlanned
    <3>2. /\ x.reduceOnly = RequiresReduceOnly(filled[a], p.proposed[a], p.targets.num[a])
          /\ ~x.reduceOnly =>
                  /\ p.delta[a] # 0
                  /\ x.side = IF p.delta[a] > 0 THEN "Buy" ELSE "Sell"
                  /\ x.notional = Size(p.delta[a])
      BY <3>1, ActionIs
    <3>3. HeldOf(a)' = decision'.filled[a]
      BY <1>3, <1>7, <2>2, <3>1
    <3> QED BY <2>2, <2>4, <3>1, <3>2, <3>3 DEF Planned
  <2>7. OrdersStand'
    <3>1. \A x, y \in pendingOrders' : x.asset = y.asset => x = y
      BY <1>3, <2>1, OrdersArePlanned
    <3> QED BY <2>6, <3>1 DEF OrdersStand
  <2>8. ASSUME NEW a \in Assets PROVE RangeKept(a)'
    <3>1. HeldOf(a)' = decision'.filled[a] /\ HeldOf(a)' \in Int /\ decision'.delta[a] \in Int
      BY <1>3, <1>7, <2>2, <2>3
    <3>2. InRange(a, HeldOf(a))'
      BY <3>1 DEF InRange, Larger
    <3> QED BY <3>2 DEF RangeKept
  <2>9. FailsForACause'
    BY <2>1 DEF FailsForACause
  <2> QED BY <1>6, <2>5, <2>7, <2>8, <2>9 DEF RebInv
<1>9. CASE p.violation # "none"
  <2>1. failed' = p.violation /\ UNCHANGED <<decision, pendingOrders, steady>>
    BY <1>1, <1>9 DEF d
  <2>2. failed' = "ExistingRiskIncreased" /\ ~WithinCaps(filled, Caps)
    BY <1>4, <1>9, <2>1 DEF Decided
  <2>3. Notional(position, mark)' = filled
    BY <1>2 DEF filled
  <2>4. FailsForACause'
    BY <2>2, <2>3 DEF FailsForACause
  <2>5. ASSUME steady' PROVE (Standing /\ OrdersStand /\ \A a \in Assets : RangeKept(a))'
    <3>1. steady /\ Standing /\ OrdersStand /\ \A a \in Assets : RangeKept(a)
      BY <2>1, <2>5 DEF RebInv
    <3>2. Standing'
      BY <1>2, <2>1, <3>1 DEF Standing, ProposedFor, Rules, Sound
    <3>3. OrdersStand'
      BY <1>2, <2>1 DEF OrdersStand
    <3>4. \A a \in Assets : RangeKept(a)'
      BY <1>2, <2>1, <3>1 DEF RangeKept, InRange, HeldOf, SizedAgain, Notional
    <3> QED BY <3>2, <3>3, <3>4
  <2> QED BY <1>6, <2>4, <2>5 DEF RebInv
<1> QED BY <1>8, <1>9

LEMMA MoveKeeps ==
  ASSUME RebInv, Move
  PROVE  RebInv'
<1>1. /\ mark \in [Assets -> Marks] /\ position \in [Assets -> Int] /\ position' = position
      /\ ~steady' /\ failed' = "no"
      /\ \E a \in Assets, price \in Marks : mark' = [mark EXCEPT ![a] = price]
  BY DEF Move, RebInv, RebTypes
<1>2. RebTypes'
  BY <1>1 DEF RebTypes
<1>3. FailsForACause'
  BY <1>1 DEF FailsForACause
<1> QED BY <1>1, <1>2, <1>3 DEF RebInv
LEMMA BlockedOrders ==
  ASSUME NEW x, NEW target, NEW quantity, NEW rules, NEW policy
  PROVE  LET order == PlannedOrder(x, target, quantity, rules, policy)
         IN  \/ IsPlan(order)
             \/ order.blocked \in {"AlreadySatisfied", "ExposureIncreasing", "BelowExchangeMinimum",
                                   "ZeroQuantity"}
<1> DEFINE order == PlannedOrder(x, target, quantity, rules, policy)
           exit == ExitPlan(target, quantity, 0, rules, policy)
           Fine(o) == \/ IsPlan(o)
                      \/ o.blocked \in {"AlreadySatisfied", "ExposureIncreasing",
                                        "BelowExchangeMinimum", "ZeroQuantity"}
<1>1. \A why : Blocked(why).blocked = why
  BY DEF Blocked
<1>2. Fine(exit)
  <2> DEFINE filled == quantity * rules.mark
             class == ResidualClass((filled + 0) * target.den, target.num)
             side == IF filled > 0 THEN "Sell" ELSE "Buy"
             q == ReducingQuantity(class, quantity, target, rules.mark, rules.step)
             floor == ExecutionFloor(side, rules, policy)
             plan == [side |-> side, class |-> class, quantity |-> q, notional |-> q * floor.price]
  <2>1. exit = CASE class = "AlreadySatisfied" -> Blocked("AlreadySatisfied")
        [] class = "ExposureIncrease" -> Blocked("ExposureIncreasing")
        [] class \notin {"AlreadySatisfied", "ExposureIncrease"} /\ 0 # 0 ->
             Blocked("OutstandingExposureRequiresReconciliation")
        [] class \notin {"AlreadySatisfied", "ExposureIncrease"} /\ 0 = 0
           /\ (q = 0 \/ q * floor.price < floor.order) -> Blocked("BelowExchangeMinimum")
        [] OTHER -> plan
    BY DEF ExitPlan
  <2>2. IsPlan(plan)
    BY DEF IsPlan
  <2> HIDE DEF exit, class, q, floor, plan
  <2>3. exit \in {Blocked("AlreadySatisfied"), Blocked("ExposureIncreasing"),
                  Blocked("BelowExchangeMinimum"), plan}
    BY <2>1
  <2> QED BY <1>1, <2>2, <2>3
<1> DEFINE q == RoundDown(x.notional, rules.mark, rules.step)
           plan == [side |-> x.side, quantity |-> q]
<1>3. order \in {exit, Blocked("ZeroQuantity"), plan}
  BY DEF PlannedOrder
<1>4. IsPlan(plan)
  BY DEF IsPlan
<1> HIDE DEF order, exit, plan
<1>5. Fine(order)
  BY <1>1, <1>2, <1>3, <1>4
<1> QED BY <1>5 DEF order

\* What an order of a standing decision may take: of the change that was
\* projected, or of what is held where it is sized again.
TakesChange(order, a) ==
  /\ decision.delta[a] # 0
  /\ order.side = IF decision.delta[a] > 0 THEN "Buy" ELSE "Sell"
  /\ order.quantity * mark[a] <= Size(decision.delta[a])
TakesHeld(order, a) ==
  /\ decision.filled[a] # 0
  /\ order.side = IF decision.filled[a] > 0 THEN "Sell" ELSE "Buy"
  /\ order.quantity <= Size(position[a])
  /\ decision.delta[a] = 0 \/ mark[a] % Tick # 0

OrderOf(x) ==
  PlannedOrder(x, [num |-> decision.targets.num[x.asset], den |-> decision.targets.den],
               position[x.asset], Rules(x.asset, mark[x.asset]), Policy)

LEMMA OrderStands ==
  ASSUME RebTypes, Standing, NEW x, Planned(x)
  PROVE  \/ OrderOf(x) = Blocked("BelowExchangeMinimum")
         \/ OrderOf(x) = Blocked("ZeroQuantity") /\ mark[x.asset] % Tick # 0
         \/ /\ IsPlan(OrderOf(x)) /\ OrderOf(x).quantity \in Nat
            /\ TakesChange(OrderOf(x), x.asset) \/ TakesHeld(OrderOf(x), x.asset)
<1> DEFINE a == x.asset
           p == position[a]
           rules == Rules(a, mark[a])
           num == decision.targets.num[a]
           den == decision.targets.den
           F == decision.filled[a]
           delta == decision.delta[a]
           change == ProposedFor(a)
           order == OrderOf(x)
           exit == ExitPlan([num |-> num, den |-> den], p, 0, rules, Policy)
           q == RoundDown(x.notional, rules.mark, rules.step)
<1>1. a \in Assets /\ p \in Int /\ mark[a] \in Nat \ {0} /\ RulesHold(rules)
      /\ rules.mark = mark[a] /\ rules.tick = Tick
  BY RulesAre DEF Planned, RebTypes
<1>2. num \in Int /\ den \in Nat \ {0} /\ F \in Int /\ delta \in Int
  BY <1>1 DEF Standing, Quotients
<1>3. F = p * rules.mark /\ change = num - F * den /\ change \in Int
  BY <1>1, <1>2 DEF Planned, HeldOf, ProposedFor
<1>4. /\ x.reduceOnly = RequiresReduceOnly(F, change, num)
      /\ ~x.reduceOnly =>
           /\ delta # 0 /\ x.side = (IF delta > 0 THEN "Buy" ELSE "Sell") /\ x.notional = Size(delta)
  BY DEF Planned
<1>5. delta \in {0, RoundDelta(change, den, rules)}
  BY <1>1 DEF Standing
<1>6. order = IF x.reduceOnly THEN exit
              ELSE IF q = 0 THEN Blocked("ZeroQuantity") ELSE [side |-> x.side, quantity |-> q]
  BY DEF OrderOf, PlannedOrder
<1> HIDE DEF p, rules, num, den, F, delta, change, order, exit, q
<1>7. CASE x.reduceOnly
  <2>1. RequiresReduceOnly(F, change, num)
    BY <1>4, <1>7
  <2>2. \/ exit = Blocked("BelowExchangeMinimum")
        \/ /\ IsPlan(exit)
           /\ exit.side = IF F > 0 THEN "Sell" ELSE "Buy"
           /\ exit.quantity \in 0 .. Size(p)
           /\ rules.mark % rules.tick = 0 => exit.quantity * rules.mark <= Size(RoundDelta(change, den, rules))
    <3>1. RequiresReduceOnly(p * rules.mark, num - (p * rules.mark) * den, num)
      BY <1>3, <2>1
    <3>2. \/ exit = Blocked("BelowExchangeMinimum")
          \/ /\ IsPlan(exit)
             /\ exit.side = IF p * rules.mark > 0 THEN "Sell" ELSE "Buy"
             /\ exit.quantity \in 0 .. Size(p)
             /\ rules.mark % rules.tick = 0 =>
                  exit.quantity * rules.mark
                    <= Size(RoundDelta(num - (p * rules.mark) * den, den, rules))
      BY <1>1, <1>2, <3>1, ReductionIs DEF exit
    <3> QED BY <1>3, <3>2
  <2>3. order = exit
    BY <1>6, <1>7
  <2>4. CASE exit = Blocked("BelowExchangeMinimum")
    BY <2>3, <2>4 DEF order
  <2>5. CASE /\ IsPlan(exit)
             /\ exit.side = IF F > 0 THEN "Sell" ELSE "Buy"
             /\ exit.quantity \in 0 .. Size(p)
             /\ rules.mark % rules.tick = 0 =>
                  exit.quantity * rules.mark <= Size(RoundDelta(change, den, rules))
    <3>1. F # 0 /\ (F > 0 => change < 0) /\ (F < 0 => change > 0)
      <4>1. Opposed(F, change)
        BY <2>1 DEF RequiresReduceOnly
      <4>2. F \in Int /\ change \in Int
        BY <1>2, <1>3
      <4> QED BY <4>1, <4>2 DEF Opposed
    <3>2. order.quantity \in Nat /\ order.quantity <= Size(p) /\ IsPlan(order)
          /\ order.side = IF F > 0 THEN "Sell" ELSE "Buy"
      BY <1>1, <2>3, <2>5
    <3>3. CASE delta = 0 \/ mark[a] % Tick # 0
      <4>1. TakesHeld(order, a)
        BY <3>1, <3>2, <3>3 DEF TakesHeld, F, p, delta
      <4> QED BY <3>2, <4>1 DEF order
    <3>4. CASE delta # 0 /\ mark[a] % Tick = 0
      <4>1. delta = RoundDelta(change, den, rules)
        BY <1>5, <3>4
      <4>2. order.quantity * mark[a] <= Size(delta)
        BY <1>1, <2>3, <2>5, <3>4, <4>1
      <4>3. (change > 0 => delta >= 0) /\ (change <= 0 => delta <= 0)
        BY <1>1, <1>2, <1>3, <4>1, RoundedDelta
      <4>4. (IF F > 0 THEN "Sell" ELSE "Buy") = IF delta > 0 THEN "Buy" ELSE "Sell"
        BY <1>2, <1>3, <3>1, <3>4, <4>3
      <4>5. TakesChange(order, a)
        BY <3>2, <3>4, <4>2, <4>4 DEF TakesChange, delta
      <4> QED BY <3>2, <4>5 DEF order
    <3> QED BY <3>3, <3>4
  <2> QED BY <2>2, <2>4, <2>5
<1>8. CASE ~x.reduceOnly
  <2>1. /\ delta # 0 /\ x.side = (IF delta > 0 THEN "Buy" ELSE "Sell") /\ x.notional = Size(delta)
        /\ delta = RoundDelta(change, den, rules)
    BY <1>4, <1>5, <1>8
  <2>2. q \in Nat /\ q * rules.mark <= Size(delta) /\ (rules.mark % rules.tick = 0 => q # 0)
    BY <1>1, <1>2, <1>3, <2>1, IncreaseTakes DEF q
  <2>3. CASE q = 0
    BY <1>1, <1>6, <1>8, <2>2, <2>3 DEF order
  <2>4. CASE q # 0
    <3>1. order = [side |-> x.side, quantity |-> q]
      BY <1>6, <1>8, <2>4
    <3>2. order.side = x.side /\ order.quantity = q /\ IsPlan(order)
      BY <3>1 DEF IsPlan
    <3>3. TakesChange(order, a)
      BY <1>1, <2>1, <2>2, <3>2 DEF TakesChange, delta
    <3> QED BY <2>2, <3>2, <3>3 DEF order
  <2> QED BY <2>3, <2>4
<1> QED BY <1>7, <1>8

\* What a fill of an order makes of the asset.
LEMMA FillKeeps ==
  ASSUME RebTypes, Standing, NEW a \in Assets, HeldOf(a) = decision.filled[a],
         NEW order, order.quantity \in Nat, TakesChange(order, a) \/ TakesHeld(order, a),
         NEW fill, fill.filled \in 0 .. order.quantity
  PROVE  LET after == PositionAfter(order.side, position[a], fill)
         IN  \/ InRange(a, after * mark[a])
             \/ /\ Opposed(decision.filled[a], after * mark[a] - decision.filled[a])
                /\ decision.delta[a] = 0 \/ mark[a] % Tick # 0
                /\ Size(after * mark[a]) <= Size(decision.filled[a])
<1> DEFINE p == position[a]
           m == mark[a]
           F == decision.filled[a]
           delta == decision.delta[a]
           n == fill.filled
           Q == order.quantity
           after == PositionAfter(order.side, p, fill)
<1>1. p \in Int /\ m \in Nat \ {0} /\ F \in Int /\ delta \in Int /\ n \in Nat /\ n <= Q /\ Q \in Nat
      /\ F = p * m
  BY RulesAre DEF RebTypes, Standing, HeldOf
<1>2. after = IF order.side = "Buy" THEN p + n ELSE p - n
  BY DEF PositionAfter
<1>3. \/ delta # 0 /\ order.side = (IF delta > 0 THEN "Buy" ELSE "Sell") /\ Q * m <= Size(delta)
      \/ F # 0 /\ order.side = (IF F > 0 THEN "Sell" ELSE "Buy") /\ Q <= Size(p)
         /\ (delta = 0 \/ m % Tick # 0)
  BY DEF TakesChange, TakesHeld
<1> HIDE DEF p, m, F, delta, n, Q, after
<1>4. n * m \in Nat /\ Q * m \in Nat /\ n * m <= Q * m
  BY <1>1, Multiplies
<1>5. (p + n) * m = F + n * m /\ (p - n) * m = F - n * m
  BY <1>1
<1>6. CASE delta # 0 /\ order.side = (IF delta > 0 THEN "Buy" ELSE "Sell") /\ Q * m <= Size(delta)
  <2>1. CASE delta > 0
    <3>1. after * m = F + n * m /\ n * m <= delta
      BY <1>1, <1>2, <1>4, <1>5, <1>6, <2>1 DEF Size
    <3>2. F - Larger(-delta, 0) <= after * m /\ after * m <= F + Larger(delta, 0)
      BY <1>1, <1>4, <2>1, <3>1 DEF Larger
    <3> QED BY <3>2 DEF InRange, F, delta, after, m, p
  <2>2. CASE ~(delta > 0)
    <3>1. after * m = F - n * m /\ n * m <= -delta /\ delta < 0
      BY <1>1, <1>2, <1>4, <1>5, <1>6, <2>2 DEF Size
    <3>2. F - Larger(-delta, 0) <= after * m /\ after * m <= F + Larger(delta, 0)
      BY <1>1, <1>4, <2>2, <3>1 DEF Larger
    <3> QED BY <3>2 DEF InRange, F, delta, after, m, p
  <2> QED BY <2>1, <2>2
<1>7. CASE F # 0 /\ order.side = (IF F > 0 THEN "Sell" ELSE "Buy") /\ Q <= Size(p)
           /\ (delta = 0 \/ m % Tick # 0)
  <2>1. CASE n = 0
    <3>1. after * m = F
      BY <1>1, <1>2, <2>1
    <3>2. F - Larger(-delta, 0) <= after * m /\ after * m <= F + Larger(delta, 0)
      BY <1>1, <3>1 DEF Larger
    <3> QED BY <3>2 DEF InRange, F, delta, after, m, p
  <2>2. CASE n # 0
    <3>1. n * m > 0
      BY <1>1, <2>2
    <3>2. n * m <= Size(F)
      <4>1. Size(p) \in Nat /\ Size(F) = Size(p) * m
        BY <1>1, SizeOfProduct
      <4>2. n <= Size(p)
        BY <1>1, <1>7, <4>1
      <4> QED BY <1>1, <4>1, <4>2, Multiplies
    <3>3. after * m = IF F > 0 THEN F - n * m ELSE F + n * m
      BY <1>2, <1>5, <1>7
    <3>4. Opposed(F, after * m - F) /\ Size(after * m) <= Size(F)
      BY <1>1, <1>4, <1>7, <3>1, <3>2, <3>3 DEF Opposed, Size
    <3> QED BY <1>7, <3>4 DEF F, after, m, p, delta
  <2> QED BY <2>1, <2>2
<1> QED BY <1>3, <1>6, <1>7

LEMMA ExecuteKeeps ==
  ASSUME RebInv, Execute
  PROVE  RebInv'
<1> DEFINE Levels(x, first, second) == BookSide(mark[x.asset], OrderOf(x).side, first, second, Tick)
           Limit(x, first, second) ==
             MarketableIoc(OrderOf(x).side, OrderOf(x).quantity, Levels(x, first, second),
                           mark[x.asset], Cushion, Policy.slippage, Tick).limit
           Fill(x, first, second) ==
             ShadowFill(OrderOf(x).side, OrderOf(x).quantity, Limit(x, first, second),
                        Levels(x, first, second))
           After(x, first, second) ==
             PositionAfter(OrderOf(x).side, position[x.asset], Fill(x, first, second))
<1> DEFINE Required(x) ==
             ExecutionFloor(OrderOf(x).side, Rules(x.asset, mark[x.asset]), Policy).order
           Executes(x, first, second) ==
             \/ /\ ~IsPlan(OrderOf(x))
                /\ OrderOf(x).blocked = "BelowExchangeMinimum"
                /\ pendingOrders' = pendingOrders \ {x}
                /\ UNCHANGED <<position, failed>>
             \/ /\ ~IsPlan(OrderOf(x))
                /\ OrderOf(x).blocked # "BelowExchangeMinimum"
                /\ failed' = OrderOf(x).blocked
                /\ UNCHANGED <<position, pendingOrders>>
             \/ /\ IsPlan(OrderOf(x))
                /\ pendingOrders' = pendingOrders \ {x}
                /\ UNCHANGED failed
                /\ IF OrderOf(x).quantity * Limit(x, first, second) < Required(x)
                   THEN UNCHANGED position
                   ELSE /\ After(x, first, second) \in -MaxPosition .. MaxPosition
                        /\ position' = [position EXCEPT ![x.asset] = After(x, first, second)]
<1>0. PICK x \in pendingOrders, first \in BookSizes, second \in BookSizes :
        ExecuteOn(x, first, second)
  BY DEF Execute
<1>a. Executes(x, first, second)
  BY <1>0 DEF ExecuteOn, OrderOf
<1> HIDE DEF After, Limit, Required
<1>1.   \/ /\ OrderOf(x).blocked = "BelowExchangeMinimum"
           /\ pendingOrders' = pendingOrders \ {x}
           /\ UNCHANGED <<position, failed>>
        \/ /\ ~IsPlan(OrderOf(x))
           /\ OrderOf(x).blocked # "BelowExchangeMinimum"
           /\ failed' = OrderOf(x).blocked
           /\ UNCHANGED <<position, pendingOrders>>
        \/ /\ IsPlan(OrderOf(x))
           /\ pendingOrders' = pendingOrders \ {x}
           /\ UNCHANGED failed
           /\ \/ UNCHANGED position
              \/ /\ After(x, first, second) \in -MaxPosition .. MaxPosition
                 /\ position' = [position EXCEPT ![x.asset] = After(x, first, second)]
  BY <1>a
<1> DEFINE a == x.asset
           order == OrderOf(x)
           fill == Fill(x, first, second)
           after == After(x, first, second)
<1>2. RebTypes /\ UNCHANGED <<mark, decision, moves, steady>> /\ failed = "no"
  BY DEF RebInv, Execute
<1>3. after = PositionAfter(order.side, position[a], fill)
  BY DEF After
<1>4. ASSUME order.quantity \in Nat PROVE fill.filled \in 0 .. order.quantity
  <2> USE DEF Limit
  <2> DEFINE levels == Levels(x, first, second)
             limit == Limit(x, first, second)
  <2>1. fill = ShadowFill(order.side, order.quantity, limit, levels)
    OBVIOUS
  <2>2. levels = << [price |-> mark[a], quantity |-> first],
                    [price |-> IF order.side = "Buy" THEN mark[a] + Tick ELSE mark[a] - Tick,
                     quantity |-> second] >>
    BY DEF BookSide
  <2>3. Len(levels) = 2 /\ levels[1].quantity = first /\ levels[2].quantity = second
    BY <2>2
  <2> HIDE DEF levels, limit, fill, order
  <2>4. first \in Nat /\ second \in Nat
    BY RebalancingAssumption
  <2>5. Len(levels) \in Nat /\ \A i \in 1 .. Len(levels) : levels[i].quantity \in Nat
    <3>1. \A i \in 1 .. 2 : i = 1 \/ i = 2
      OBVIOUS
    <3> QED BY <2>3, <2>4, <3>1
  <2> QED BY <1>4, <2>1, <2>5, ShadowFillBounds
<1> HIDE DEF order, fill, after, Levels, Limit
<1>5. RebTypes'
  <2>1. CASE position' = position
    BY <1>2, <2>1 DEF RebTypes
  <2>2. CASE after \in -MaxPosition .. MaxPosition /\ position' = [position EXCEPT ![a] = after]
    <3>1. after \in Int
      BY <2>2, RebalancingAssumption
    <3>2. position' = [b \in Assets |-> IF b = a THEN after ELSE position[b]]
      BY <1>2, <2>2 DEF RebTypes
    <3> QED BY <1>2, <3>1, <3>2 DEF RebTypes
  <2> QED BY <1>1, <2>1, <2>2 DEF after
<1>6. \/ IsPlan(order)
      \/ order.blocked \in {"AlreadySatisfied", "ExposureIncreasing", "BelowExchangeMinimum",
                            "ZeroQuantity"}
  BY BlockedOrders DEF order, OrderOf
<1>7. CASE ~steady
  <2>1. ~steady'
    BY <1>2, <1>7
  <2>2. failed' = "no" \/ failed' \in {"AlreadySatisfied", "ExposureIncreasing", "ZeroQuantity"}
    BY <1>1, <1>2, <1>6 DEF order
  <2>3. FailsForACause'
    BY <2>1, <2>2 DEF FailsForACause
  <2> QED BY <1>5, <2>1, <2>3 DEF RebInv
<1>8. CASE steady
  <2>1. Standing /\ OrdersStand /\ \A b \in Assets : RangeKept(b)
    BY <1>8 DEF RebInv
  <2>2. Planned(x)
    BY <2>1 DEF OrdersStand
  <2>3. a \in Assets /\ HeldOf(a) = decision.filled[a]
    BY <2>2 DEF Planned
  <2>4. \/ order = Blocked("BelowExchangeMinimum")
        \/ order = Blocked("ZeroQuantity") /\ mark[a] % Tick # 0
        \/ /\ IsPlan(order) /\ order.quantity \in Nat
           /\ TakesChange(order, a) \/ TakesHeld(order, a)
    BY <1>2, <2>1, <2>2, OrderStands DEF order
  <2>5. \A why : Blocked(why).blocked = why /\ ~IsPlan(Blocked(why))
    BY DEF Blocked, IsPlan
  <2>6. FailsForACause'
    <3>1. failed' = "no" \/ (failed' = "ZeroQuantity" /\ mark'[a] % Tick # 0)
      BY <1>1, <1>2, <2>4, <2>5 DEF order
    <3> QED BY <2>3, <3>1 DEF FailsForACause
  <2>7. Standing'
    BY <1>2, <2>1 DEF Standing, ProposedFor, Rules, Sound
  <2>8. ASSUME NEW b \in Assets, position'[b] = position[b]
        PROVE  HeldOf(b)' = HeldOf(b) /\ RangeKept(b)'
    <3>1. HeldOf(b)' = HeldOf(b)
      BY <1>2, <2>8 DEF HeldOf
    <3>2. Notional(position, mark)'[b] = HeldOf(b)' /\ Notional(position, mark)[b] = HeldOf(b)
      BY DEF Notional, HeldOf
    <3>3. SizedAgain(b)' <=> SizedAgain(b)
      BY <1>2, <3>1, <3>2 DEF SizedAgain
    <3>4. RangeKept(b)
      BY <2>1
    <3> QED BY <1>2, <3>1, <3>3, <3>4 DEF RangeKept, InRange
  <2>9. CASE position' = position
    <3>1. \A b \in Assets : HeldOf(b)' = HeldOf(b) /\ RangeKept(b)'
      BY <2>8, <2>9
    <3>2. pendingOrders' \subseteq pendingOrders
      BY <1>1
    <3>3. ASSUME NEW y \in pendingOrders' PROVE Planned(y)'
      <4>1. Planned(y)
        BY <2>1, <3>2 DEF OrdersStand
      <4> QED BY <1>2, <3>1, <4>1 DEF Planned, ProposedFor
    <3>4. OrdersStand'
      BY <2>1, <3>2, <3>3 DEF OrdersStand
    <3> QED BY <1>5, <2>6, <2>7, <3>1, <3>4 DEF RebInv
  <2>10. CASE /\ IsPlan(order) /\ pendingOrders' = pendingOrders \ {x}
              /\ position' = [position EXCEPT ![a] = after]
    <3>1. order.quantity \in Nat /\ (TakesChange(order, a) \/ TakesHeld(order, a))
      BY <2>4, <2>5, <2>10
    <3>2. \/ InRange(a, after * mark[a])
          \/ /\ Opposed(decision.filled[a], after * mark[a] - decision.filled[a])
             /\ decision.delta[a] = 0 \/ mark[a] % Tick # 0
             /\ Size(after * mark[a]) <= Size(decision.filled[a])
      BY <1>2, <1>3, <1>4, <2>1, <2>3, <3>1, FillKeeps
    <3>3. position'[a] = after /\ \A b \in Assets : b # a => position'[b] = position[b]
      BY <1>2, <2>3, <2>10 DEF RebTypes
    <3>4. HeldOf(a)' = after * mark[a] /\ Notional(position, mark)'[a] = after * mark[a]
      BY <1>2, <2>3, <3>3 DEF HeldOf, Notional
    <3>5. RangeKept(a)'
      BY <1>2, <3>2, <3>4 DEF RangeKept, InRange, SizedAgain
    <3>6. \A b \in Assets : RangeKept(b)'
      BY <2>8, <3>3, <3>5
    <3>7. ASSUME NEW y \in pendingOrders' PROVE Planned(y)'
      <4>1. Planned(y) /\ y.asset # a
        BY <2>1, <2>10 DEF OrdersStand
      <4>2. y.asset \in Assets
        BY <4>1 DEF Planned
      <4>3. HeldOf(y.asset)' = HeldOf(y.asset)
        BY <2>8, <3>3, <4>1, <4>2
      <4> QED BY <1>2, <4>1, <4>3 DEF Planned, ProposedFor
    <3>8. OrdersStand'
      BY <2>1, <2>10, <3>7 DEF OrdersStand
    <3> QED BY <1>5, <2>6, <2>7, <3>6, <3>8 DEF RebInv
  <2> QED BY <1>1, <2>9, <2>10 DEF order, after
<1> QED BY <1>7, <1>8

LEMMA RebStep ==
  ASSUME RebInv, [RebalancingNext]_rebalancingVars
  PROVE  RebInv'
<1>1. CASE Decide
  BY <1>1, DecideKeeps
<1>2. CASE Execute
  BY <1>2, ExecuteKeeps
<1>3. CASE Move
  BY <1>3, MoveKeeps
<1>4. CASE UNCHANGED rebalancingVars
  BY <1>4 DEF rebalancingVars, RebInv, RebTypes, Standing, OrdersStand, Planned, RangeKept, InRange,
              HeldOf, ProposedFor, SizedAgain, Sound, FailsForACause
<1> QED BY <1>1, <1>2, <1>3, <1>4 DEF RebalancingNext

\* The types, the decision in force and its orders, where they have brought
\* the portfolio, and why the engine ended.
THEOREM RebInvariant == RebalancingSpec => []RebInv
<1>1. RebalancingInit => RebInv
  BY RebInitial
<1>2. RebInv /\ [RebalancingNext]_rebalancingVars => RebInv'
  BY RebStep
<1> QED BY <1>1, <1>2, PTL DEF RebalancingSpec

\* construct_decision and try_execute_pending: while the price stands still, the
\* orders of a decision may execute in any order and in part without taking the
\* portfolio out of its caps, or further out than it was.
THEOREM CapsKept == RebalancingSpec => []CapsAreKept
<1>1. RebInv => CapsAreKept
  BY KeptIsWithin
<1> QED BY <1>1, RebInvariant, PTL

\* A decision is refused only from a portfolio outside its caps, and an order
\* ends the engine only if the price has moved or the tick rounds it away.
THEOREM FailsOnlyForACause == RebalancingSpec => []FailsForACause
<1>1. RebInv => FailsForACause
  BY DEF RebInv
<1> QED BY <1>1, RebInvariant, PTL

-----------------------------------------------------------------------------
(* TradingEngine: why it ends.                                               *)

LEMMA OneIs == IsFiniteSet(One) /\ One \subseteq Nat /\ 1 \in One /\ \A a \in One : a = 1
<1>1. One = {1}
  BY DEF One
<1>2. IsFiniteSet(One)
  BY <1>1, FS_Singleton
<1> QED BY <1>1, <1>2

\* A portfolio of one asset.
LEMMA OneTotal ==
  ASSUME NEW x \in Int
  PROVE  Total([a \in One |-> x]) = x
<1> DEFINE f == [a \in One |-> x]
<1>1. IsFiniteSet(One) /\ f \in [One -> Int] /\ One = {1} /\ f[1] = x
  BY FS_Singleton DEF One
<1>2. Total(f) = SumFunctionOnSet(f, One) /\ Addable(f, One)
  BY <1>1, TotalIs
<1> HIDE DEF f
<1>3. SumTaken(f, One, 1)
  BY <1>1, <1>2, SumTake
<1>4. SumFunctionOnSet(f, One) = f[1] + SumFunctionOnSet(f, One \ {1})
  BY <1>3 DEF SumTaken
<1>5. SumFunctionOnSet(f, One \ {1}) = 0
  <2>1. One \ {1} = {}
    BY <1>1
  <2> QED BY <2>1, SumEmpty
<1> QED BY <1>1, <1>2, <1>4, <1>5 DEF f

\* The caps hold for an amount of the asset.
CapsHold(amount) == WithinCaps([a \in One |-> amount], EngineCaps)

LEMMA CapsAre ==
  ASSUME NEW x \in Int
  PROVE  CapsHold(x) <=> /\ Size(x) <= EngineCaps.asset /\ Size(x) <= EngineCaps.gross
                         /\ Size(x) <= EngineCaps.net
<1> DEFINE f == [a \in One |-> x]
<1>1. Total(f) = x
  BY OneTotal
<1>2. GrossOf(f) = Size(x)
  <2>1. [a \in DOMAIN f |-> Size(f[a])] = [a \in One |-> Size(x)]
    OBVIOUS
  <2>2. Size(x) \in Int
    BY DEF Size
  <2> QED BY <2>1, <2>2, OneTotal DEF GrossOf
<1>3. DOMAIN f = One /\ 1 \in One /\ \A a \in One : f[a] = x
  BY DEF One
<1> HIDE DEF f
<1>4. WithinCaps(f, EngineCaps) <=> /\ Size(x) <= EngineCaps.asset /\ Size(x) <= EngineCaps.gross
                                    /\ Size(x) <= EngineCaps.net
  BY <1>1, <1>2, <1>3 DEF WithinCaps
<1> QED BY <1>4 DEF CapsHold, f

\* They hold for what is nearer to zero, and between two amounts.
LEMMA CapsBetween ==
  ASSUME NEW x \in Int, NEW y \in Int, NEW z \in Int, CapsHold(x), CapsHold(z),
         (x <= y /\ y <= z) \/ (z <= y /\ y <= x)
  PROVE  CapsHold(y)
<1>1. /\ EngineCaps.asset \in Nat /\ EngineCaps.gross \in Nat /\ EngineCaps.net \in Nat
  BY EngineAssumption
<1>2. /\ Size(x) \in Nat /\ Size(y) \in Nat /\ Size(z) \in Nat
      /\ Size(y) <= Size(x) \/ Size(y) <= Size(z)
  BY DEF Size
<1> QED BY <1>1, <1>2, CapsAre

LEMMA CapsAtZero == CapsHold(0)
<1>1. /\ EngineCaps.asset \in Nat /\ EngineCaps.gross \in Nat /\ EngineCaps.net \in Nat
  BY EngineAssumption
<1>2. Size(0) = 0
  BY DEF Size
<1> QED BY <1>1, <1>2, CapsAre

LEMMA MarketIs ==
  /\ RulesHold(MarketRules) /\ MarketRules.mark = Price /\ MarketRules.tick = PriceTick
  /\ Price \in Nat \ {0}
<1>1. /\ Price \in Nat \ {0} /\ PriceTick \in Nat \ {0} /\ LotSize \in Nat \ {0}
      /\ PriceTick <= Price
  BY EngineAssumption
<1>2. MarketRules.mark = Price /\ MarketRules.tick = PriceTick /\ MarketRules.step = LotSize
  BY DEF MarketRules
<1> QED BY <1>1, <1>2 DEF RulesHold

-----------------------------------------------------------------------------
\* A change that an order is sized by: the caps that hold for a quantity hold
\* for it and the change.
SizedBy(x, quantity) ==
  \E change \in Int, den \in Nat \ {0} :
    LET delta == RoundDelta(change, den, MarketRules)
    IN  /\ delta # 0
        /\ x.side = IF delta > 0 THEN "Buy" ELSE "Sell"
        /\ x.notional = Size(delta)
        /\ CapsHold(quantity * Price) => CapsHold(quantity * Price + delta)

\* An exit from a quantity towards a target.
ExitTo(quantity, num, den) ==
  RequiresReduceOnly(quantity * Price, num - (quantity * Price) * den, num)

\* What a decision on a quantity is.
DecisionFits(d, quantity) ==
  /\ d.num \in Int /\ d.den \in Nat \ {0}
  /\ d.violation \in {"none", "ExistingRiskIncreased"}
  /\ d.violation # "none" => ~CapsHold(quantity * Price)
  /\ \A x \in d.actions : IF x.reduceOnly THEN ExitTo(quantity, d.num, d.den)
                          ELSE SizedBy(x, quantity)

LEMMA DecisionsFit ==
  ASSUME NEW quantity \in -MaxHeld .. MaxHeld, NEW agreement \in Agreements
  PROVE  DecisionFits(Decisions[<<quantity, agreement>>], quantity)
<1> DEFINE filled == [a \in One |-> quantity * Price]
           consensus == [a \in One |-> agreement]
           rules == [a \in One |-> MarketRules]
           c == ConstructDecision(filled, Still(One), consensus, AgreementUnit, rules, EnginePolicy,
                                  EngineCaps, 0)
           p == c.projection
           d == Decisions[<<quantity, agreement>>]
<1>1. d = AsDecided(c, filled)
  <2> DEFINE D(a, b) == DecisionFor(a, b)
  <2>1. D(quantity, agreement) = AsDecided(c, filled)
    BY Zenon DEF DecisionFor, Still
  <2> HIDE DEF D
  <2>2. Decisions = [w \in (-MaxHeld .. MaxHeld) \X Agreements |-> D(w[1], w[2])]
    BY DEF Decisions, D
  <2>3. d = D(quantity, agreement)
    BY <2>2
  <2> QED BY <2>1, <2>3
<1>2. /\ quantity \in Int /\ Price \in Nat \ {0} /\ quantity * Price \in Int /\ agreement \in Int
      /\ AgreementUnit \in Nat \ {0}
      /\ EngineCaps \in [asset : Nat, gross : Nat, net : Nat]
      /\ EngineCaps.asset \in Nat /\ EngineCaps.gross \in Nat /\ EngineCaps.net \in Nat
  BY EngineAssumption
<1>3. IsFiniteSet(One) /\ One \subseteq Nat /\ 1 \in One /\ \A a \in One : a = 1
  BY OneIs
<1>4. /\ filled \in [One -> Int] /\ consensus \in [One -> Int] /\ filled[1] = quantity * Price
      /\ \A a \in One : RulesHold(rules[a])
      /\ rules[1] = MarketRules /\ DOMAIN filled = One
  BY <1>2, <1>3, MarketIs
<1>5. Decided(One, p, filled, rules, EngineCaps)
  <2> HIDE DEF filled, consensus, rules
  <2> QED BY <1>2, <1>3, <1>4, ConstructDecides
<1>6. CapsHold(quantity * Price) <=> WithinCaps(filled, EngineCaps)
  BY DEF CapsHold
<1> HIDE DEF c, d
<1>7. /\ d.num = p.targets.num[1] /\ d.den = p.targets.den /\ d.violation = p.violation
      /\ d.actions = ExecutableActions(c, filled, FALSE)
  BY <1>1 DEF AsDecided
<1> HIDE DEF filled, consensus, rules, p
<1>8. /\ d.num \in Int /\ d.den \in Nat \ {0}
      /\ d.violation \in {"none", "ExistingRiskIncreased"}
      /\ d.violation # "none" => ~CapsHold(quantity * Price)
  BY <1>3, <1>5, <1>6, <1>7 DEF Decided, Quotients
<1>9. /\ p.proposed[1] = d.num - (quantity * Price) * d.den
      /\ p.delta[1] \in Int
      /\ p.delta[1] \in {0, RoundDelta(d.num - (quantity * Price) * d.den, d.den, MarketRules)}
      /\ Sound(One, filled, p.delta, EngineCaps)
      /\ p.delta \in [One -> Int]
  BY <1>3, <1>4, <1>5, <1>7 DEF Decided
<1>10. ASSUME CapsHold(quantity * Price)
       PROVE  CapsHold(quantity * Price + p.delta[1])
  <2> DEFINE rs == Ranges(filled, Still(One), p.delta)
             q == quantity * Price
             delta == p.delta[1]
             r == rs[1]
  <2>1. RangesWithin(rs, EngineCaps)
    BY <1>6, <1>9, <1>10 DEF Sound
  <2>2. RangesOf(rs, One, filled, p.delta)
    BY <1>4, <1>9, RangesAre
  <2>3. DOMAIN rs = One /\ r.min = q - Larger(-delta, 0) /\ r.max = q + Larger(delta, 0)
    BY <1>3, <1>4, <2>2 DEF RangesOf
  <2>4. rs \in [One -> {r}]
    <3>1. rs = [a \in One |-> [min |-> filled[a] - Still(One)[a].sell - Larger(-p.delta[a], 0),
                               max |-> filled[a] + Still(One)[a].buy + Larger(p.delta[a], 0)]]
      BY <1>4 DEF Ranges
    <3> HIDE DEF rs
    <3> QED BY <1>3, <3>1
  <2> HIDE DEF rs, q, delta, r
  <2>5. Magnitude(r) <= EngineCaps.asset
    BY <1>3, <2>1, <2>3 DEF RangesWithin, r
  <2>6. q \in Int /\ delta \in Int
    BY <1>2, <1>9 DEF q, delta
  <2>7. Magnitude(r) \in Nat /\ Size(q + delta) \in Nat /\ Size(q + delta) <= Magnitude(r)
    BY <2>3, <2>6 DEF Magnitude, Larger, Size
  <2>8. RangeGross(rs) = Magnitude(r)
    <3>1. [a \in DOMAIN rs |-> Magnitude(rs[a])] = [a \in One |-> Magnitude(r)]
      BY <2>3, <2>4
    <3> QED BY <2>7, <3>1, OneTotal DEF RangeGross
  <2>9. MinNet(rs) = r.min /\ MaxNet(rs) = r.max
    <3>1. /\ [a \in DOMAIN rs |-> rs[a].min] = [a \in One |-> r.min]
          /\ [a \in DOMAIN rs |-> rs[a].max] = [a \in One |-> r.max]
      BY <2>3, <2>4
    <3>2. r.min \in Int /\ r.max \in Int
      BY <2>3, <2>6 DEF Larger
    <3> QED BY <3>1, <3>2, OneTotal DEF MinNet, MaxNet
  <2>10. WorstNet(rs) \in Nat /\ Size(q + delta) <= WorstNet(rs)
    BY <2>3, <2>6, <2>9 DEF WorstNet, Larger, Size
  <2>11. /\ Size(q + delta) <= EngineCaps.asset /\ Size(q + delta) <= EngineCaps.gross
         /\ Size(q + delta) <= EngineCaps.net
    BY <1>2, <2>1, <2>5, <2>7, <2>8, <2>10 DEF RangesWithin
  <2>12. CapsHold(q + delta)
    BY <2>6, <2>11, CapsAre
  <2> QED BY <2>12 DEF q, delta
<1>11. ASSUME NEW x \in d.actions
       PROVE  IF x.reduceOnly THEN ExitTo(quantity, d.num, d.den) ELSE SizedBy(x, quantity)
  <2>1. x = PlannedAction(c, filled, 1) /\ ~x.none
    <3>1. \A y \in ExecutableActions(c, filled, FALSE) :
            /\ \E a \in One : y = PlannedAction(c, filled, a)
            /\ ~y.none
      BY <1>4 DEF ExecutableActions
    <3> QED BY <1>3, <1>7, <3>1
  <2>2. /\ x.reduceOnly = RequiresReduceOnly(filled[1], p.proposed[1], p.targets.num[1])
        /\ ~x.reduceOnly /\ ~x.none =>
             /\ p.delta[1] # 0
             /\ x.side = IF p.delta[1] > 0 THEN "Buy" ELSE "Sell"
             /\ x.notional = Size(p.delta[1])
    BY <2>1, ActionIs DEF p
  <2>3. CASE x.reduceOnly
    <3>1. ExitTo(quantity, d.num, d.den)
      BY <1>4, <1>7, <1>9, <2>2, <2>3 DEF ExitTo
    <3> QED BY <2>3, <3>1
  <2>4. CASE ~x.reduceOnly
    <3> DEFINE change == d.num - (quantity * Price) * d.den
               delta == p.delta[1]
    <3>1. /\ delta # 0 /\ x.side = (IF delta > 0 THEN "Buy" ELSE "Sell") /\ x.notional = Size(delta)
          /\ delta = RoundDelta(change, d.den, MarketRules)
      BY <1>9, <2>1, <2>2, <2>4
    <3>2. change \in Int /\ d.den \in Nat \ {0}
      BY <1>2, <1>8
    <3>3. CapsHold(quantity * Price) => CapsHold(quantity * Price + delta)
      BY <1>10
    <3> HIDE DEF change, delta
    <3>4. SizedBy(x, quantity)
      BY <3>1, <3>2, <3>3 DEF SizedBy
    <3> QED BY <2>4, <3>4
  <2> QED BY <2>3, <2>4
<1> QED BY <1>8, <1>11 DEF DecisionFits, d

-----------------------------------------------------------------------------
(* What an action is, of the position and of the target.                     *)

TargetTyped(e) ==
  LET t == e.target
  IN  /\ t = [raw |-> t.raw, num |-> t.num, den |-> t.den, seconded |-> t.seconded]
      /\ t.num \in Int /\ t.den \in Nat \ {0}

\* The shadow's position is the one of the pending decision.  An exit of the
\* target in force can be planned from the position it was decided on.
ActionFits(e, quantity, live) ==
  LET x == e.action IN
  x # NoAction =>
    /\ x.base \in -MaxHeld .. MaxHeld
    /\ live \/ x.base = quantity
    /\ IF x.reduceOnly THEN x.id = e.version => ExitTo(x.base, e.target.num, e.target.den)
       ELSE SizedBy(x, x.base)

Fits(e, quantity, live) == TargetTyped(e) /\ ActionFits(e, quantity, live)

LEMMA AlsoFits ==
  ASSUME NEW e, NEW quantity, NEW live, Fits(e, quantity, live),
         NEW f, f.target = e.target, f.version = e.version, f.action \in {e.action, NoAction}
  PROVE  Fits(f, quantity, live)
BY DEF Fits, TargetTyped, ActionFits

LEMMA NothingToFit ==
  ASSUME NEW e, TargetTyped(e), e.action = NoAction, NEW quantity, NEW live
  PROVE  Fits(e, quantity, live)
BY DEF Fits, ActionFits

\* SizedBy speaks of the side and of the notional.
LEMMA SizedAlike ==
  ASSUME NEW x, NEW y, y.side = x.side, y.notional = x.notional, NEW quantity, SizedBy(x, quantity)
  PROVE  SizedBy(y, quantity)
BY DEF SizedBy

LEMMA RecomputedFits ==
  ASSUME NEW e, NEW n \in Nat, EngineTrue(e, n), NEW quantity \in -MaxHeld .. MaxHeld,
         NEW live, Fits(e, quantity, live), NEW agreement \in Agreements, NEW seconded, NEW freshBook
  PROVE  LET r == Recomputed(e, quantity, agreement, seconded, freshBook, n + 1)
         IN  /\ Fits(r.e, quantity, live)
             /\ \/ r.error = "no"
                \/ r.error = "ExistingRiskIncreased" /\ ~CapsHold(quantity * Price)
<1> DEFINE d == Decisions[<<quantity, agreement>>]
           x == CHOOSE y \in d.actions : TRUE
           t == [raw |-> d.raw, num |-> d.num, den |-> d.den, seconded |-> seconded]
           decided == [e EXCEPT !.version = n + 1, !.target = t]
           r == Recomputed(e, quantity, agreement, seconded, freshBook, n + 1)
<1>1. DecisionFits(d, quantity)
  BY DecisionsFit
<1>2. r = WithDecision(e, d, decided, quantity, freshBook, n + 1)
  BY Zenon DEF Recomputed, Targeting
<1>3. EngineTrue(decided, n) /\ Entered(e)
  BY AimedKeeps DEF EngineTrue
<1>4. /\ t.num = d.num /\ t.den = d.den
      /\ t = [raw |-> t.raw, num |-> t.num, den |-> t.den, seconded |-> t.seconded]
  OBVIOUS
<1> HIDE DEF d, t, r, x
<1>a. decided = [e EXCEPT !.version = n + 1, !.target = t]
  OBVIOUS
<1> HIDE DEF decided
<1>5. /\ decided.version = n + 1 /\ decided.target = t /\ decided.action = e.action
      /\ Entered(decided)
  BY <1>3, <1>a DEF Entered
<1>6. TargetTyped(decided)
  BY <1>1, <1>4, <1>5 DEF TargetTyped, DecisionFits
<1>7. Fits(decided, quantity, live)
  <2>1. e.action # NoAction => e.action.id \in 1 .. n
    BY DEF EngineTrue, ActionTrue
  <2>2. ASSUME e.action # NoAction PROVE e.action.id # decided.version
    BY <1>5, <2>1, <2>2
  <2> QED BY <1>5, <1>6, <2>2 DEF Fits, ActionFits
<1>8. CASE d.violation # "none"
  <2>1. r.e = e /\ r.error = d.violation
    BY <1>2, <1>8 DEF WithDecision
  <2> QED BY <1>1, <1>8, <2>1 DEF DecisionFits, r
<1>9. CASE d.violation = "none"
  <2> DEFINE f == IF d.actions = {} THEN WithoutNeed(decided, freshBook)
                  ELSE Taken(decided, x, quantity, freshBook, n + 1)
  <2>1. r.error = "no" /\ r.e = f
    BY <1>2, <1>9 DEF WithDecision, x
  <2>2. CASE d.actions = {}
    <3> DEFINE w == IF decided.awaiting.root # 0 /\ freshBook THEN NoIntent ELSE decided.awaiting
               a == IF decided.awaiting.root # 0 /\ freshBook THEN NoAction ELSE decided.action
               g == WithoutNeed(decided, freshBook)
    <3>1. a \in {decided.action, NoAction} /\ f = g
      BY <2>2
    <3>2. g = [decided EXCEPT !.awaiting = w, !.action = a, !.chain = NoChain]
      BY Zenon DEF WithoutNeed
    <3> HIDE DEF w, a, g
    <3>3. g.action = a /\ g.target = decided.target /\ g.version = decided.version
      BY <1>5, <3>2 DEF Entered
    <3> HIDE DEF f
    <3>4. Fits(g, quantity, live)
      BY <1>7, <3>1, <3>3, AlsoFits
    <3> QED BY <2>1, <3>1, <3>4 DEF r
  <2>3. CASE d.actions # {}
    <3>1. x \in d.actions
      BY <2>3 DEF x
    <3>2. Fits(Awaiting(decided, n + 1), quantity, live)
      <4> DEFINE w == IF decided.awaiting.root # 0 THEN decided.awaiting ELSE [root |-> n + 1]
                 g == Awaiting(decided, n + 1)
      <4>1. g = [decided EXCEPT !.awaiting = w]
        BY Zenon DEF Awaiting
      <4> HIDE DEF w, g
      <4>2. g.action = decided.action /\ g.target = decided.target /\ g.version = decided.version
        BY <1>5, <4>1 DEF Entered
      <4>3. Fits(g, quantity, live)
        BY <1>7, <4>2, AlsoFits
      <4> QED BY <4>3 DEF g
    <3>3. Fits(Replaced(decided, x, n + 1, quantity), quantity, live)
      <4> DEFINE chained == decided.chain.root # 0
                 root == IF decided.chain.root # 0 THEN decided.chain.root
                         ELSE IF decided.awaiting.root # 0 THEN decided.awaiting.root ELSE n + 1
                 parent == IF chained THEN decided.chain.parent ELSE 0
                 generation == IF chained THEN decided.chain.next ELSE 0
                 kind == IF chained THEN decided.chain.kind ELSE "none"
                 a == [id |-> n + 1, side |-> x.side, notional |-> x.notional,
                       reduceOnly |-> x.reduceOnly, root |-> root, parent |-> parent,
                       generation |-> generation, kind |-> kind, age |-> 0, base |-> quantity]
                 g == Replaced(decided, x, n + 1, quantity)
      <4>1. g = [decided EXCEPT !.awaiting = NoIntent, !.chain = NoChain, !.action = a]
        BY Zenon DEF Replaced
      <4> HIDE DEF root, parent, generation, kind, g
      <4>2. /\ a.base = quantity /\ a.side = x.side /\ a.notional = x.notional
            /\ a.reduceOnly = x.reduceOnly
        OBVIOUS
      <4> HIDE DEF a
      <4>3. g.action = a /\ g.target = t /\ g.version = n + 1
        BY <1>5, <4>1 DEF Entered
      <4>4. IF x.reduceOnly THEN ExitTo(quantity, d.num, d.den) ELSE SizedBy(x, quantity)
        BY <1>1, <3>1 DEF DecisionFits
      <4>5. CASE x.reduceOnly
        BY <1>4, <1>5, <1>6, <4>2, <4>3, <4>4, <4>5
           DEF Fits, ActionFits, TargetTyped, g
      <4>6. CASE ~x.reduceOnly
        <5>1. SizedBy(a, quantity)
          BY <4>2, <4>4, <4>6, SizedAlike
        <5> QED BY <1>4, <1>5, <1>6, <4>2, <4>3, <4>6, <5>1
               DEF Fits, ActionFits, TargetTyped, g
      <4> QED BY <4>5, <4>6
    <3>4. f \in {decided, Awaiting(decided, n + 1), Replaced(decided, x, n + 1, quantity)}
      BY <2>3, Zenon DEF Taken, f
    <3> HIDE DEF f
    <3> QED BY <1>7, <2>1, <3>2, <3>3, <3>4 DEF r
  <2> QED BY <2>2, <2>3
<1> QED BY <1>8, <1>9

-----------------------------------------------------------------------------
(* The order an action becomes.                                              *)

\* An exit is refused, or takes some of what is held.
LEMMA ExitOrders ==
  ASSUME NEW quantity \in Int, NEW num \in Int, NEW den \in Nat \ {0}
  PROVE  LET order == ExitPlan([num |-> num, den |-> den], quantity, 0, MarketRules, EnginePolicy)
         IN  \/ order = Blocked("AlreadySatisfied") \/ order = Blocked("ExposureIncreasing")
             \/ order = Blocked("BelowExchangeMinimum")
             \/ /\ IsPlan(order)
                /\ order.side = IF quantity * Price > 0 THEN "Sell" ELSE "Buy"
                /\ order.quantity \in 0 .. Size(quantity)
<1> DEFINE amount == quantity * MarketRules.mark
           desired == [num |-> num, den |-> den]
           class == ResidualClass((amount + 0) * den, num)
           side == IF amount > 0 THEN "Sell" ELSE "Buy"
           q == ReducingQuantity(class, quantity, desired, MarketRules.mark, MarketRules.step)
           floor == ExecutionFloor(side, MarketRules, EnginePolicy)
           order == ExitPlan(desired, quantity, 0, MarketRules, EnginePolicy)
           plan == [side |-> side, class |-> class, quantity |-> q, notional |-> q * floor.price]
<1>1. order = CASE class = "AlreadySatisfied" -> Blocked("AlreadySatisfied")
        [] class = "ExposureIncrease" -> Blocked("ExposureIncreasing")
        [] class \notin {"AlreadySatisfied", "ExposureIncrease"} /\ 0 # 0 ->
             Blocked("OutstandingExposureRequiresReconciliation")
        [] class \notin {"AlreadySatisfied", "ExposureIncrease"} /\ 0 = 0
           /\ (q = 0 \/ q * floor.price < floor.order) -> Blocked("BelowExchangeMinimum")
        [] OTHER -> plan
  BY DEF ExitPlan
<1>2. q \in 0 .. Size(quantity)
  <2> DEFINE whole == Size(quantity)
             m == MarketRules.mark
             s == MarketRules.step
             left == Larger(whole * m * den - Size(num), 0)
             over == IF class = "RiskReduction" THEN RoundDown(left, den * m, s)
                     ELSE RoundDown(whole, 1, s)
  <2>1. q = Smaller(over, whole)
    BY DEF ReducingQuantity
  <2>2. m \in Nat \ {0} /\ s \in Nat \ {0} /\ whole \in Nat /\ Size(num) \in Nat
    BY MarketIs DEF RulesHold, Size
  <2> HIDE DEF class, whole, m, s, q
  <2>3. left \in Nat /\ den * m \in Nat \ {0}
    <3>1. den * m \in Nat \ {0}
      BY <2>2
    <3>2. whole * m \in Nat
      BY <2>2
    <3>3. whole * m * den \in Nat
      BY <2>2, <3>2
    <3> QED BY <2>2, <3>1, <3>3 DEF Larger
  <2> HIDE DEF left
  <2>4. over \in Nat
    BY <2>2, <2>3, RoundedDown
  <2> HIDE DEF over
  <2>5. q \in Nat /\ q <= whole
    BY <2>1, <2>2, <2>4 DEF Smaller
  <2> QED BY <2>2, <2>5 DEF whole
<1>3. side = IF quantity * Price > 0 THEN "Sell" ELSE "Buy"
  BY MarketIs
<1>4. IsPlan(plan) /\ plan.side = side /\ plan.quantity = q
  BY DEF IsPlan
<1> HIDE DEF class, q, floor, order, side, plan
<1>5. order \in {Blocked("AlreadySatisfied"), Blocked("ExposureIncreasing"),
                 Blocked("BelowExchangeMinimum"), plan}
  BY <1>1
<1>6. CASE order = plan
  BY <1>2, <1>3, <1>4, <1>6 DEF order
<1>7. CASE order # plan
  BY <1>5, <1>7 DEF order
<1> QED BY <1>6, <1>7

\* Why an order is refused, if the engine ends for it.
Cause(error, e, quantity, live) ==
  \/ /\ error \in {"AlreadySatisfied", "ExposureIncreasing"}
     /\ e.action.reduceOnly
     /\ e.action.id # e.version \/ (live /\ e.action.base # quantity)
  \/ /\ error = "ZeroQuantity" /\ ~e.action.reduceOnly /\ Price % PriceTick # 0

OrderFor(e, quantity) ==
  PlannedOrder([notional |-> e.action.notional, reduceOnly |-> e.action.reduceOnly,
                side |-> e.action.side],
               [num |-> e.target.num, den |-> e.target.den], quantity, MarketRules, EnginePolicy)

\* A position from which any part of the order was taken is within the caps.
KeepsCaps(order, quantity) ==
  \A n \in 0 .. order.quantity :
    CapsHold((IF order.side = "Buy" THEN quantity + n ELSE quantity - n) * Price)

LEMMA OrdersFit ==
  ASSUME NEW e, NEW quantity \in -MaxHeld .. MaxHeld, NEW live, Fits(e, quantity, live),
         e.action # NoAction
  PROVE  LET order == OrderFor(e, quantity)
         IN  \/ order = Blocked("BelowExchangeMinimum")
             \/ order = Blocked(order.blocked) /\ Cause(order.blocked, e, quantity, live)
             \/ /\ IsPlan(order) /\ order.quantity \in Nat
                /\ ~live /\ CapsHold(quantity * Price) => KeepsCaps(order, quantity)
<1> DEFINE x == e.action
           num == e.target.num
           den == e.target.den
           order == OrderFor(e, quantity)
           exit == ExitPlan([num |-> num, den |-> den], quantity, 0, MarketRules, EnginePolicy)
           q == RoundDown(x.notional, MarketRules.mark, MarketRules.step)
<1>0. num \in Int /\ den \in Nat \ {0}
  BY DEF Fits, TargetTyped
<1>1. /\ num \in Int /\ den \in Nat \ {0} /\ x.base \in Int /\ (live \/ x.base = quantity)
      /\ x.reduceOnly /\ x.id = e.version => ExitTo(x.base, num, den)
      /\ ~x.reduceOnly => SizedBy(x, x.base)
  BY EngineAssumption DEF Fits, ActionFits, TargetTyped
<1>2. quantity \in Int /\ Price \in Nat \ {0} /\ quantity * Price \in Int
  BY EngineAssumption
<1>3. order = IF x.reduceOnly THEN exit
              ELSE IF q = 0 THEN Blocked("ZeroQuantity") ELSE [side |-> x.side, quantity |-> q]
  BY DEF OrderFor, PlannedOrder
<1>4. \A why : Blocked(why).blocked = why /\ ~IsPlan(Blocked(why))
  BY DEF Blocked, IsPlan
<1> HIDE DEF exit, x, num, den, order, q
<1>5. CASE x.reduceOnly
  <2>1. order = exit
    BY <1>3, <1>5
  <2>2. \/ exit = Blocked("AlreadySatisfied") \/ exit = Blocked("ExposureIncreasing")
        \/ exit = Blocked("BelowExchangeMinimum")
        \/ /\ IsPlan(exit)
           /\ exit.side = IF quantity * Price > 0 THEN "Sell" ELSE "Buy"
           /\ exit.quantity \in 0 .. Size(quantity)
    BY <1>0, <1>2, ExitOrders DEF exit
  <2>3. ASSUME x.id = e.version, x.base = quantity
        PROVE  exit = Blocked("BelowExchangeMinimum") \/ IsPlan(exit)
    <3>1. RequiresReduceOnly(quantity * MarketRules.mark,
                             num - (quantity * MarketRules.mark) * den, num)
      BY <1>1, <1>5, <2>3, MarketIs DEF ExitTo
    <3> QED BY <1>0, <1>2, <3>1, ReductionIs, MarketIs DEF exit
  <2>4. CASE exit = Blocked("AlreadySatisfied") \/ exit = Blocked("ExposureIncreasing")
    <3>1. order.blocked \in {"AlreadySatisfied", "ExposureIncreasing"}
          /\ order = Blocked(order.blocked)
      BY <1>4, <2>1, <2>4
    <3>2. ~(exit = Blocked("BelowExchangeMinimum") \/ IsPlan(exit))
      <4>1. Blocked("BelowExchangeMinimum").blocked = "BelowExchangeMinimum"
        BY <1>4
      <4>2. ~IsPlan(exit)
        BY <1>4, <2>4
      <4>3. exit.blocked \in {"AlreadySatisfied", "ExposureIncreasing"}
        BY <2>1, <3>1
      <4> QED BY <4>1, <4>2, <4>3
    <3>3. x.id # e.version \/ (live /\ x.base # quantity)
      BY <1>1, <2>3, <3>2
    <3>4. Cause(order.blocked, e, quantity, live)
      BY <1>5, <3>1, <3>3 DEF Cause, x
    <3> QED BY <3>1, <3>4 DEF order
  <2>5. CASE exit = Blocked("BelowExchangeMinimum")
    BY <2>1, <2>5 DEF order
  <2>6. CASE /\ IsPlan(exit)
             /\ exit.side = IF quantity * Price > 0 THEN "Sell" ELSE "Buy"
             /\ exit.quantity \in 0 .. Size(quantity)
    <3>1. order.quantity \in Nat /\ order.quantity <= Size(quantity) /\ IsPlan(order)
          /\ order.side = IF quantity * Price > 0 THEN "Sell" ELSE "Buy"
      BY <1>2, <2>1, <2>6 DEF Size
    <3>2. ASSUME CapsHold(quantity * Price), NEW n \in 0 .. order.quantity
          PROVE  CapsHold((IF order.side = "Buy" THEN quantity + n ELSE quantity - n) * Price)
      <4> DEFINE after == IF order.side = "Buy" THEN quantity + n ELSE quantity - n
      <4>1. n \in Nat /\ n <= Size(quantity)
        BY <1>2, <3>1, <3>2 DEF Size
      <4>2. CASE quantity > 0
        <5>1. quantity * Price > 0
          BY <1>2, <4>2
        <5>2. after = quantity - n /\ after \in Nat /\ after <= quantity
          BY <1>2, <3>1, <4>1, <4>2, <5>1 DEF Size
        <5> HIDE DEF after
        <5>3. 0 <= after * Price /\ after * Price <= quantity * Price /\ after * Price \in Int
          BY <1>2, <4>2, <5>2, Multiplies
        <5>4. CapsHold(after * Price)
          BY <1>2, <3>2, <5>3, CapsAtZero, CapsBetween
        <5> QED BY <5>4 DEF after
      <4>3. CASE ~(quantity > 0)
        <5>1. ~(quantity * Price > 0)
          BY <1>2, <4>3, SizeOfProduct
        <5>2. after = quantity + n /\ -after \in Nat /\ -after <= -quantity /\ -quantity \in Nat
          BY <1>2, <3>1, <4>1, <4>3, <5>1 DEF Size
        <5> HIDE DEF after
        <5>3. (-after) * Price <= (-quantity) * Price /\ (-after) * Price \in Nat
          BY <1>2, <5>2, Multiplies
        <5>4. after \in Int /\ (-after) * Price = -(after * Price)
              /\ (-quantity) * Price = -(quantity * Price) /\ after * Price \in Int
          BY <1>2, <5>2
        <5>5. after * Price <= 0 /\ quantity * Price <= after * Price
          BY <1>2, <5>3, <5>4
        <5>6. CapsHold(after * Price)
          BY <1>2, <3>2, <5>4, <5>5, CapsAtZero, CapsBetween
        <5> QED BY <5>6 DEF after
      <4> QED BY <4>2, <4>3
    <3>3. CapsHold(quantity * Price) => KeepsCaps(order, quantity)
      BY <3>2 DEF KeepsCaps
    <3> QED BY <3>1, <3>3 DEF order
  <2> QED BY <2>2, <2>4, <2>5, <2>6
<1>6. CASE ~x.reduceOnly
  <2>1. PICK change \in Int, d \in Nat \ {0} :
          LET delta == RoundDelta(change, d, MarketRules)
          IN  /\ delta # 0
              /\ x.side = IF delta > 0 THEN "Buy" ELSE "Sell"
              /\ x.notional = Size(delta)
              /\ CapsHold(x.base * Price) => CapsHold(x.base * Price + delta)
    BY <1>1, <1>6 DEF SizedBy
  <2> DEFINE delta == RoundDelta(change, d, MarketRules)
  <2>2. /\ q \in Nat /\ q * Price <= Size(delta) /\ (Price % PriceTick = 0 => q # 0)
        /\ delta \in Int
    <3>1. delta # 0 /\ q = RoundDown(Size(delta), MarketRules.mark, MarketRules.step)
      BY <2>1 DEF q
    <3>2. /\ q \in Nat /\ q * MarketRules.mark <= Size(delta)
          /\ MarketRules.mark % MarketRules.tick = 0 => q # 0
      BY <3>1, IncreaseTakes, MarketIs
    <3>3. delta \in Int
      BY RoundedDelta, MarketIs
    <3> QED BY <3>2, <3>3, MarketIs
  <2>3. /\ x.side = IF delta > 0 THEN "Buy" ELSE "Sell"
        /\ CapsHold(x.base * Price) => CapsHold(x.base * Price + delta)
    BY <2>1
  <2> HIDE DEF delta
  <2>4. CASE q = 0
    <3>1. order = Blocked("ZeroQuantity")
      BY <1>3, <1>6, <2>4
    <3>2. order.blocked = "ZeroQuantity" /\ Cause(order.blocked, e, quantity, live)
      BY <1>4, <1>6, <2>2, <2>4, <3>1 DEF Cause, x
    <3> QED BY <3>1, <3>2 DEF order
  <2>5. CASE q # 0
    <3>1. order.side = x.side /\ order.quantity = q /\ IsPlan(order)
      BY <1>3, <1>6, <2>5 DEF IsPlan
    <3>2. ASSUME ~live, CapsHold(quantity * Price), NEW n \in 0 .. q
          PROVE  CapsHold((IF order.side = "Buy" THEN quantity + n ELSE quantity - n) * Price)
      <4>1. n \in Nat /\ n <= q /\ n * Price \in Nat /\ n * Price <= Size(delta)
        <5>1. n \in Nat /\ n <= q
          BY <2>2, <3>2
        <5>2. n * Price <= q * Price /\ n * Price \in Nat /\ q * Price \in Nat
          BY <1>2, <2>2, <5>1, Multiplies
        <5>3. Size(delta) \in Nat
          BY <2>2 DEF Size
        <5> QED BY <2>2, <5>1, <5>2, <5>3
      <4>2. CapsHold(quantity * Price + delta)
        BY <1>1, <2>3, <3>2
      <4>3. (quantity + n) * Price = quantity * Price + n * Price
            /\ (quantity - n) * Price = quantity * Price - n * Price
        BY <1>2, <4>1
      <4> DEFINE a == quantity * Price
                 b == n * Price
      <4>4. a \in Int /\ b \in Nat /\ b <= Size(delta)
        BY <1>2, <4>1
      <4> HIDE DEF a, b
      <4>5. CASE delta > 0
        <5>1. a <= a + b /\ a + b <= a + delta /\ a + b \in Int /\ a + delta \in Int
          BY <2>2, <4>4, <4>5 DEF Size
        <5>2. CapsHold(a + b)
          BY <3>2, <4>2, <4>4, <5>1, CapsBetween DEF a
        <5> QED BY <2>3, <3>1, <4>3, <4>5, <5>2 DEF a, b
      <4>6. CASE ~(delta > 0)
        <5>1. a + delta <= a - b /\ a - b <= a /\ a - b \in Int /\ a + delta \in Int
          BY <2>2, <4>4, <4>6 DEF Size
        <5>2. CapsHold(a - b)
          BY <3>2, <4>2, <4>4, <5>1, CapsBetween DEF a
        <5> QED BY <2>3, <3>1, <4>3, <4>6, <5>2 DEF a, b
      <4> QED BY <4>5, <4>6
    <3>3. ~live /\ CapsHold(quantity * Price) => KeepsCaps(order, quantity)
      BY <3>1, <3>2 DEF KeepsCaps
    <3> QED BY <2>2, <3>1, <3>3 DEF order
  <2> QED BY <2>4, <2>5
<1> QED BY <1>5, <1>6

-----------------------------------------------------------------------------
(* What a book makes of it.                                                  *)

\* An outcome: the engine fits the position, and a shadow that was within its
\* caps is; an error leaves everything as it was.
OutcomeFits(t, e, quantity) ==
  /\ Fits(t.e, t.held, production)
  /\ ~production => t.sent = {} /\ (CapsHold(quantity * Price) => CapsHold(t.held * Price))
  /\ \/ t.error = "no"
     \/ /\ t.e = e /\ t.held = quantity /\ t.sent = {}
        /\ Cause(t.error, e, quantity, production)

LEMMA NothingFits ==
  ASSUME NEW e, NEW quantity, NEW f, Fits(f, quantity, production)
  PROVE  OutcomeFits(Nothing(f, quantity), e, quantity)
<1> DEFINE t == Nothing(f, quantity)
<1>1. t.e = f /\ t.held = quantity /\ t.sent = {} /\ t.error = "no"
  BY DEF Nothing
<1> HIDE DEF t
<1>2. OutcomeFits(t, e, quantity)
  BY <1>1 DEF OutcomeFits
<1> QED BY <1>2 DEF t

\* The walk of an order through the book.
LEMMA FilledFits ==
  ASSUME NEW e, NEW n \in Nat, EngineTrue(e, n), TargetTyped(e), ~production,
         NEW quantity \in Int, NEW order, order.quantity \in Nat,
         CapsHold(quantity * Price) => KeepsCaps(order, quantity),
         NEW limit, NEW levels, Len(levels) \in Nat,
         \A i \in 1 .. Len(levels) : levels[i].quantity \in Nat
  PROVE  OutcomeFits(Filled(e, quantity, order.side,
                            ShadowFill(order.side, order.quantity, limit, levels)), e, quantity)
<1> DEFINE fill == ShadowFill(order.side, order.quantity, limit, levels)
           f == Executed(e, quantity, fill)
           t == Filled(e, quantity, order.side, fill)
           after == PositionAfter(order.side, quantity, fill)
<1>1. fill.filled \in 0 .. order.quantity
  BY ShadowFillBounds
<1> HIDE DEF fill
<1>2. /\ t.e = f /\ t.held = after /\ t.sent = {} /\ t.error = "no"
  BY DEF Filled, Outcome
<1>3. f.action = NoAction /\ f.target = e.target
  <2> DEFINE x == e.action
             done == [id |-> x.id, root |-> x.root, parent |-> x.parent, generation |-> x.generation]
             grown == Append(e.executed, done)
             kind == IF fill.remaining # 0 THEN "PartialIocRemainder"
                     ELSE IF CloseFirstCompleted(e, quantity, PositionAfter(x.side, quantity, fill), fill)
                          THEN "CloseFirstReversal"
                     ELSE "none"
             next == [root |-> x.root, parent |-> x.id, next |-> x.generation + 1, kind |-> kind]
             chain == IF kind = "none" THEN e.chain ELSE next
  <2>1. f = [e EXCEPT !.action = NoAction, !.executed = grown, !.chain = chain]
    BY Zenon DEF Executed
  <2> HIDE DEF chain, next, kind, grown, done, f
  <2>2. Entered(e)
    BY DEF EngineTrue
  <2> QED BY <2>1, <2>2 DEF Entered
<1> HIDE DEF f, t
<1>4. Fits(f, after, production)
  <2>1. TargetTyped(f)
    BY <1>3 DEF TargetTyped
  <2> HIDE DEF after
  <2> QED BY <1>3, <2>1, NothingToFit
<1>5. ASSUME CapsHold(quantity * Price) PROVE CapsHold(after * Price)
  <2>1. after = IF order.side = "Buy" THEN quantity + fill.filled ELSE quantity - fill.filled
    BY DEF PositionAfter
  <2>2. CapsHold((IF order.side = "Buy" THEN quantity + fill.filled ELSE quantity - fill.filled) * Price)
    BY <1>1, <1>5 DEF KeepsCaps
  <2> QED BY <2>1, <2>2
<1> HIDE DEF after
<1>6. OutcomeFits(t, e, quantity)
  BY <1>2, <1>4, <1>5 DEF OutcomeFits
<1> QED BY <1>6 DEF t, fill

LEMMA PricedFits ==
  ASSUME NEW e, NEW n \in Nat, EngineTrue(e, n), NEW quantity \in Int,
         Fits(e, quantity, production), NEW order, order.quantity \in Nat,
         ~production /\ CapsHold(quantity * Price) => KeepsCaps(order, quantity),
         NEW ioc, NEW levels, Len(levels) \in Nat,
         \A i \in 1 .. Len(levels) : levels[i].quantity \in Nat
  PROVE  OutcomeFits(Priced(e, quantity, order, ioc, levels), e, quantity)
<1> DEFINE m == e.emitted \cup {e.action.id}
           f == [e EXCEPT !.emitted = m]
           none == [e EXCEPT !.action = NoAction]
           sent == {[id |-> e.action.id, side |-> order.side, quantity |-> order.quantity,
                     reduceOnly |-> e.action.reduceOnly, base |-> e.action.base]}
           u == [Nothing(f, quantity) EXCEPT !.sent = sent]
           v == Filled(e, quantity, order.side,
                       ShadowFill(order.side, order.quantity, ioc.limit, levels))
           P == Priced(e, quantity, order, ioc, levels)
<1>1. Entered(e) /\ TargetTyped(e)
  BY DEF EngineTrue, Fits
<1>2. \/ P = Nothing(none, quantity) \/ P = Nothing(e, quantity)
      \/ production /\ P = u
      \/ ~production /\ P = v
  BY Zenon DEF Priced
<1>3. OutcomeFits(Nothing(e, quantity), e, quantity)
  BY NothingFits
<1>4. OutcomeFits(Nothing(none, quantity), e, quantity)
  <2>1. none.action = NoAction /\ none.target = e.target /\ none.version = e.version
    BY <1>1 DEF Entered
  <2> HIDE DEF none
  <2>2. Fits(none, quantity, production)
    BY <2>1, AlsoFits
  <2> QED BY <2>2, NothingFits
<1>5. ASSUME production PROVE OutcomeFits(u, e, quantity)
  <2>1. f.action = e.action /\ f.target = e.target /\ f.version = e.version
    BY <1>1 DEF Entered
  <2> HIDE DEF f, sent
  <2>2. Fits(f, quantity, production)
    BY <2>1, AlsoFits
  <2>3. u.e = f /\ u.held = quantity /\ u.error = "no"
    BY DEF Nothing
  <2> HIDE DEF u
  <2> QED BY <1>5, <2>2, <2>3 DEF OutcomeFits
<1>6. ASSUME ~production PROVE OutcomeFits(v, e, quantity)
  BY <1>1, <1>6, FilledFits
<1> HIDE DEF u, v, none, P
<1> QED BY <1>2, <1>3, <1>4, <1>5, <1>6 DEF P

LEMMA TryExecuteFits ==
  ASSUME NEW e, NEW n \in Nat, EngineTrue(e, n), NEW quantity \in -MaxHeld .. MaxHeld,
         Fits(e, quantity, production), NEW first \in Depths, NEW second \in Depths
  PROVE  OutcomeFits(TryExecute(e, quantity, first, second), e, quantity)
<1> DEFINE T == TryExecute(e, quantity, first, second)
           order == OrderFor(e, quantity)
<1>0. quantity \in Int
  BY EngineAssumption
<1>1. OutcomeFits(Nothing(e, quantity), e, quantity)
  BY NothingFits
<1>2. CASE e.action.id = 0 \/ e.action.age < Latency
  BY <1>1, <1>2 DEF TryExecute
<1>3. CASE ~(e.action.id = 0 \/ e.action.age < Latency)
  <2>1. T = Ordered(e, quantity, order, first, second)
    BY <1>3, Zenon DEF TryExecute, OrderFor
  <2>2. e.action # NoAction
    BY <1>3, NothingThere
  <2>3. \/ order = Blocked("BelowExchangeMinimum")
        \/ order = Blocked(order.blocked) /\ Cause(order.blocked, e, quantity, production)
        \/ /\ IsPlan(order) /\ order.quantity \in Nat
           /\ ~production /\ CapsHold(quantity * Price) => KeepsCaps(order, quantity)
    BY <2>2, OrdersFit
  <2>4. \A why : Blocked(why).blocked = why /\ ~IsPlan(Blocked(why))
    BY DEF Blocked, IsPlan
  <2> HIDE DEF order, T
  <2>5. CASE order = Blocked("BelowExchangeMinimum")
    <3> DEFINE none == [e EXCEPT !.action = NoAction]
    <3>1. T = Nothing(none, quantity)
      BY <2>1, <2>4, <2>5 DEF Ordered
    <3>2. none.action = NoAction /\ none.target = e.target /\ none.version = e.version
      BY DEF EngineTrue, Entered
    <3> HIDE DEF none
    <3>3. Fits(none, quantity, production)
      BY <3>2, AlsoFits
    <3> QED BY <3>1, <3>3, NothingFits DEF T
  <2>6. CASE order = Blocked(order.blocked) /\ Cause(order.blocked, e, quantity, production)
    <3> DEFINE u == [Nothing(e, quantity) EXCEPT !.error = order.blocked]
    <3>1. order.blocked # "BelowExchangeMinimum"
      BY <2>6 DEF Cause
    <3>2. ~IsPlan(order)
      BY <2>4, <2>6
    <3>3. T = u
      BY <2>1, <3>1, <3>2 DEF Ordered
    <3>4. u.e = e /\ u.held = quantity /\ u.sent = {} /\ u.error = order.blocked
      BY DEF Nothing
    <3> HIDE DEF u
    <3>5. OutcomeFits(u, e, quantity)
      BY <2>6, <3>4 DEF OutcomeFits
    <3> QED BY <3>3, <3>5 DEF T
  <2>7. CASE /\ IsPlan(order) /\ order.quantity \in Nat
             /\ ~production /\ CapsHold(quantity * Price) => KeepsCaps(order, quantity)
    <3> DEFINE levels == BookSide(Price, order.side, first, second, PriceTick)
               ioc == MarketableIoc(order.side, order.quantity, levels, Price, EngineCushion,
                                    EnginePolicy.slippage, PriceTick)
    <3>1. T = Priced(e, quantity, order, ioc, levels)
      BY <2>1, <2>7, Zenon DEF Ordered, OnLevels
    <3>2. levels = << [price |-> Price, quantity |-> first],
                      [price |-> IF order.side = "Buy" THEN Price + PriceTick ELSE Price - PriceTick,
                       quantity |-> second] >>
      BY DEF BookSide
    <3>3. Len(levels) = 2 /\ levels[1].quantity = first /\ levels[2].quantity = second
      BY <3>2
    <3> HIDE DEF levels, ioc
    <3>4. first \in Nat /\ second \in Nat
      BY EngineAssumption
    <3>5. Len(levels) \in Nat /\ \A i \in 1 .. Len(levels) : levels[i].quantity \in Nat
      <4>1. \A i \in 1 .. 2 : i = 1 \/ i = 2
        OBVIOUS
      <4> QED BY <3>3, <3>4, <4>1
    <3> QED BY <1>0, <2>7, <3>1, <3>5, PricedFits DEF T
  <2> QED BY <2>3, <2>5, <2>6, <2>7
<1> QED BY <1>2, <1>3

LEMMA SentFits ==
  ASSUME NEW e, NEW n \in Nat, EngineTrue(e, n), NEW quantity, NEW live, Fits(e, quantity, live),
         NEW t, NEW queued
  PROVE  /\ Fits(Sent(e, t, queued), quantity, live)
         /\ Sent(e, t, queued).action = e.action /\ Sent(e, t, queued).version = e.version
<1> DEFINE m == e.emitted \ {i.id : i \in t.sent \ queued}
           f == Sent(e, t, queued)
<1>1. f = [e EXCEPT !.emitted = m]
  BY Zenon DEF Sent
<1> HIDE DEF m, f
<1>2. f.action = e.action /\ f.target = e.target /\ f.version = e.version
  BY <1>1 DEF EngineTrue, Entered
<1>3. Fits(f, quantity, live)
  BY <1>2, AlsoFits
<1> QED BY <1>2, <1>3 DEF f

-----------------------------------------------------------------------------
(* The loop.                                                                 *)

\* What the engine may end for.
MayEnd(error, e, quantity, live) ==
  \/ error = "no" \/ Cause(error, e, quantity, live)
  \/ error = "ExistingRiskIncreased" /\ live /\ ~CapsHold(quantity * Price)

EndInv ==
  /\ EngineInv /\ production \in BOOLEAN
  /\ held \in -MaxHeld .. MaxHeld /\ stored.held \in -MaxHeld .. MaxHeld
  /\ Fits(engine, held, production)
  /\ stored.engine.action = NoAction /\ TargetTyped(stored.engine)
  /\ ~production => flying = {} /\ CapsHold(held * Price) /\ CapsHold(stored.held * Price)
  /\ MayEnd(engineEnded, engine, held, production)

\* What a snapshot keeps.
LEMMA SnapshotFits ==
  ASSUME NEW e, TargetTyped(e)
  PROVE  Persisted(e).action = NoAction /\ TargetTyped(Persisted(e))
<1> DEFINE x == e.action
           again == [root |-> x.root, parent |-> x.parent, next |-> x.generation, kind |-> x.kind]
           kept == IF x.id # 0 /\ x.generation > 0 THEN again ELSE e.chain
           t == [e.target EXCEPT !.seconded = FALSE]
           f == Persisted(e)
<1>1. f = [FreshEngine EXCEPT !.target = t, !.version = e.version, !.chain = kept,
                              !.executed = e.executed]
  BY Zenon DEF Persisted
<1>2. /\ t.num = e.target.num /\ t.den = e.target.den
      /\ t = [raw |-> t.raw, num |-> t.num, den |-> t.den, seconded |-> t.seconded]
  <2> DEFINE o == e.target
  <2>1. o = [raw |-> o.raw, num |-> o.num, den |-> o.den, seconded |-> o.seconded]
    BY DEF TargetTyped
  <2>2. t = [o EXCEPT !.seconded = FALSE]
    OBVIOUS
  <2> HIDE DEF o, t
  <2>3. t = [raw |-> o.raw, num |-> o.num, den |-> o.den, seconded |-> FALSE]
    BY <2>1, <2>2
  <2>4. /\ t.num = o.num /\ t.den = o.den
        /\ t = [raw |-> t.raw, num |-> t.num, den |-> t.den, seconded |-> t.seconded]
    BY <2>3
  <2> QED BY <2>4 DEF o
<1> HIDE DEF t, kept, f
<1>3. f.action = NoAction /\ f.target = t
  BY <1>1 DEF FreshEngine
<1> QED BY <1>2, <1>3 DEF TargetTyped, f

LEMMA EndInitial ==
  ASSUME EngineInit
  PROVE  EndInv
<1>1. held = 0 /\ engine = FreshEngine /\ stored = Snapshot(FreshEngine, 0)
      /\ flying = {} /\ engineEnded = "no"
  BY DEF EngineInit
<1>2. TargetTyped(FreshEngine) /\ FreshEngine.action = NoAction
  BY DEF FreshEngine, TargetTyped
<1>3. stored.engine = Persisted(FreshEngine) /\ stored.held = 0
  BY <1>1 DEF Snapshot
<1>4. 0 \in -MaxHeld .. MaxHeld /\ 0 * Price = 0
  BY EngineAssumption
<1>5. Fits(engine, held, production)
  BY <1>1, <1>2, NothingToFit
<1>6. stored.engine.action = NoAction /\ TargetTyped(stored.engine)
  BY <1>2, <1>3, SnapshotFits
<1>7. MayEnd(engineEnded, engine, held, production)
  BY <1>1 DEF MayEnd
<1>8. production \in BOOLEAN
  BY EngineAssumption DEF EngineInit
<1> QED BY <1>1, <1>3, <1>4, <1>5, <1>6, <1>7, <1>8, EngineInitTrue, CapsAtZero DEF EndInv

LEMMA TickEnds ==
  ASSUME EndInv, DecisionTick
  PROVE  EndInv'
<1>1. PICK agreement \in Agreements, seconded \in BOOLEAN :
        /\ engine' = Recomputed(engine, held, agreement, seconded, bookAge <= BookAge, made + 1).e
        /\ engineEnded' = Recomputed(engine, held, agreement, seconded, bookAge <= BookAge, made + 1).error
  BY DEF DecisionTick
<1>2. /\ UNCHANGED <<production, held, stored, flying>>
      /\ made \in Nat /\ EngineTrue(engine, made)
      /\ held \in -MaxHeld .. MaxHeld /\ Fits(engine, held, production)
  BY DEF DecisionTick, EndInv, EngineInv
<1>3. /\ Fits(engine', held, production)
      /\ engineEnded' = "no" \/ (engineEnded' = "ExistingRiskIncreased" /\ ~CapsHold(held * Price))
  BY <1>1, <1>2, RecomputedFits
<1>4. EngineInv'
  BY TickDecides DEF EndInv
<1>5. ~production => CapsHold(held * Price)
  BY DEF EndInv
<1>6. MayEnd(engineEnded', engine', held, production)
  BY <1>3, <1>5 DEF MayEnd
<1>7. production \in BOOLEAN /\ stored.held \in -MaxHeld .. MaxHeld
      /\ stored.engine.action = NoAction /\ TargetTyped(stored.engine)
      /\ (~production => flying = {} /\ CapsHold(held * Price) /\ CapsHold(stored.held * Price))
  BY DEF EndInv
<1> QED BY <1>2, <1>3, <1>4, <1>6, <1>7 DEF EndInv

LEMMA BookEnds ==
  ASSUME EndInv, BookArrives
  PROVE  EndInv'
<1>1. PICK first \in Depths, second \in Depths :
        \E t \in {TryExecute(engine, held, first, second)} : \E queued \in {{}, t.sent} :
           /\ t.held \in -MaxHeld .. MaxHeld
           /\ held' = t.held
           /\ flying' = flying \cup queued
           /\ \/ /\ engine' = Sent(t.e, t, queued) /\ engineEnded' = t.error
                 /\ UNCHANGED made
              \/ DecideAgain(t, queued)
  BY DEF BookArrives
<1>2. PICK t, queued :
        /\ t = TryExecute(engine, held, first, second) /\ queued \in {{}, t.sent}
        /\ t.held \in -MaxHeld .. MaxHeld /\ held' = t.held /\ flying' = flying \cup queued
        /\ \/ engine' = Sent(t.e, t, queued) /\ engineEnded' = t.error
           \/ DecideAgain(t, queued)
  BY <1>1
<1>3. /\ UNCHANGED <<production, stored>>
      /\ made \in Nat /\ EngineTrue(engine, made)
      /\ held \in -MaxHeld .. MaxHeld /\ Fits(engine, held, production)
      /\ ~production => flying = {} /\ CapsHold(held * Price) /\ CapsHold(stored.held * Price)
  BY DEF BookArrives, EndInv, EngineInv
<1>4. OutcomeFits(t, engine, held)
  BY <1>2, <1>3, TryExecuteFits
<1>5. EngineTrue(t.e, made)
  BY <1>2, <1>3, TryExecuteKeeps
<1>6. Fits(t.e, t.held, production)
  BY <1>4 DEF OutcomeFits
<1>7. ~production => flying' = {} /\ CapsHold(held' * Price)
  BY <1>2, <1>3, <1>4 DEF OutcomeFits
<1>8. EngineInv'
  BY BookKeeps DEF EndInv
<1>9. /\ Fits(engine', held', production)
      /\ \/ engineEnded' = "no"
         \/ Cause(engineEnded', engine', held', production)
         \/ engineEnded' = "ExistingRiskIncreased" /\ production /\ ~CapsHold(held' * Price)
  <2>1. CASE engine' = Sent(t.e, t, queued) /\ engineEnded' = t.error
    <3>1. /\ Fits(engine', held', production)
          /\ engine'.action = t.e.action /\ engine'.version = t.e.version
      BY <1>2, <1>3, <1>5, <1>6, <2>1, SentFits
    <3>2. t.error = "no" \/ (t.e = engine /\ t.held = held /\ Cause(t.error, engine, held, production))
      BY <1>4 DEF OutcomeFits
    <3>3. t.error # "no" => Cause(t.error, engine', held', production)
      BY <1>2, <3>1, <3>2 DEF Cause
    <3> QED BY <2>1, <3>1, <3>3
  <2>2. CASE DecideAgain(t, queued)
    <3>1. PICK agreement \in Agreements, seconded \in BOOLEAN :
            \E r \in {Recomputed(t.e, t.held, agreement, seconded, TRUE, made + 1)} :
              engine' = Sent(r.e, t, queued) /\ engineEnded' = r.error
      BY <2>2 DEF DecideAgain
    <3> DEFINE r == Recomputed(t.e, t.held, agreement, seconded, TRUE, made + 1)
    <3>2. engine' = Sent(r.e, t, queued) /\ engineEnded' = r.error
      BY <3>1
    <3>3. /\ Fits(r.e, t.held, production)
          /\ r.error = "no" \/ (r.error = "ExistingRiskIncreased" /\ ~CapsHold(t.held * Price))
      <4>1. made \in Nat /\ t.held \in -MaxHeld .. MaxHeld
        BY <1>2, <1>3
      <4> HIDE DEF r
      <4>2. ASSUME NEW fresh
            PROVE  LET q == Recomputed(t.e, t.held, agreement, seconded, fresh, made + 1)
                   IN  /\ Fits(q.e, t.held, production)
                       /\ \/ q.error = "no"
                          \/ q.error = "ExistingRiskIncreased" /\ ~CapsHold(t.held * Price)
        BY <1>5, <1>6, <4>1, RecomputedFits
      <4>3. LET q == Recomputed(t.e, t.held, agreement, seconded, TRUE, made + 1)
            IN  /\ Fits(q.e, t.held, production)
                /\ q.error = "no" \/ (q.error = "ExistingRiskIncreased" /\ ~CapsHold(t.held * Price))
        BY <4>2, Zenon
      <4> QED BY <4>3 DEF r
    <3>4. EngineTrue(r.e, made + 1)
      BY <1>3, <1>5, DecisionKeepsOrders
    <3> HIDE DEF r
    <3>5. Fits(engine', held', production)
      BY <1>2, <1>3, <3>2, <3>3, <3>4, made + 1 \in Nat, SentFits
    <3>6. \/ engineEnded' = "no"
          \/ engineEnded' = "ExistingRiskIncreased" /\ production /\ ~CapsHold(held' * Price)
      BY <1>2, <1>7, <3>2, <3>3
    <3> QED BY <3>5, <3>6
  <2> QED BY <1>2, <2>1, <2>2
<1>10. MayEnd(engineEnded', engine', held', production)
  BY <1>9 DEF MayEnd
<1>11. production \in BOOLEAN /\ stored.held \in -MaxHeld .. MaxHeld
       /\ stored.engine.action = NoAction /\ TargetTyped(stored.engine)
       /\ (~production => CapsHold(stored.held * Price))
  BY DEF EndInv
<1>12. held' \in -MaxHeld .. MaxHeld
  BY <1>2
<1> QED BY <1>3, <1>7, <1>8, <1>9, <1>10, <1>11, <1>12 DEF EndInv

LEMMA LoopEnds ==
  ASSUME EndInv, Persist \/ FillReported \/ EngineTick \/ Restart \/ UNCHANGED engineVars
  PROVE  EndInv'
<1>1. EngineInv'
  BY LoopKeeps DEF EndInv
<1>2. /\ Fits(engine, held, production) /\ stored.engine.action = NoAction
      /\ TargetTyped(stored.engine) /\ TargetTyped(engine)
      /\ held \in -MaxHeld .. MaxHeld /\ stored.held \in -MaxHeld .. MaxHeld
      /\ ~production => flying = {} /\ CapsHold(held * Price) /\ CapsHold(stored.held * Price)
      /\ MayEnd(engineEnded, engine, held, production) /\ production \in BOOLEAN
  BY DEF EndInv, Fits
<1>3. CASE Persist
  <2>1. /\ UNCHANGED <<production, held, engine, flying>> /\ engineEnded' = "no"
        /\ stored' = Snapshot(engine, held)
    BY <1>3 DEF Persist
  <2>2. stored'.engine = Persisted(engine) /\ stored'.held = IF production THEN 0 ELSE held
    BY <2>1 DEF Snapshot
  <2>3. 0 \in -MaxHeld .. MaxHeld
    BY EngineAssumption
  <2>4. stored'.engine.action = NoAction /\ TargetTyped(stored'.engine)
    BY <1>2, <2>2, SnapshotFits
  <2>5. MayEnd(engineEnded', engine', held', production')
    BY <2>1 DEF MayEnd
  <2>6. stored'.held \in -MaxHeld .. MaxHeld /\ (~production => stored'.held = held)
    BY <1>2, <2>2, <2>3
  <2> QED BY <1>1, <1>2, <2>1, <2>4, <2>5, <2>6 DEF EndInv
<1>4. CASE FillReported
  <2>1. /\ UNCHANGED <<production, engine, stored>> /\ held' \in -MaxHeld .. MaxHeld
        /\ engineEnded' = "no" /\ flying # {}
    BY <1>4 DEF FillReported, Ready
  <2>2. production
    BY <1>2, <2>1
  <2>3. Fits(engine, held', production)
    BY <1>2, <2>2 DEF Fits, ActionFits
  <2>4. MayEnd(engineEnded', engine', held', production')
    BY <2>1 DEF MayEnd
  <2> QED BY <1>1, <1>2, <2>1, <2>2, <2>3, <2>4 DEF EndInv
<1>5. CASE EngineTick
  <2>1. /\ UNCHANGED <<production, held, stored, flying>> /\ engineEnded' = "no"
        /\ \/ engine' = engine
           \/ engine.action.id # 0 /\ engine' = [engine EXCEPT !.action.age = @ + 1]
    BY <1>5, Zenon DEF EngineTick, Ready
  <2>2. Fits(engine', held, production)
    <3>1. CASE engine' = engine
      BY <1>2, <3>1
    <3>2. CASE engine.action.id # 0 /\ engine' = [engine EXCEPT !.action.age = @ + 1]
      <4> DEFINE x == engine.action
                 a == [x EXCEPT !.age = x.age + 1]
      <4>1. engine' = [engine EXCEPT !.action = a]
        BY <3>2, Zenon
      <4>2. x # NoAction /\ ActionOf(x) /\ Entered(engine)
        BY <3>2, NothingThere DEF EndInv, EngineInv, EngineTrue, ActionTrue
      <4>3. /\ a.id = x.id /\ a.side = x.side /\ a.notional = x.notional
            /\ a.reduceOnly = x.reduceOnly /\ a.base = x.base
        BY <4>2 DEF ActionOf
      <4> HIDE DEF a
      <4>4. engine'.action = a /\ engine'.target = engine.target /\ engine'.version = engine.version
        BY <4>1, <4>2 DEF Entered
      <4>5. SizedBy(x, x.base) => SizedBy(a, x.base)
        BY <4>3, SizedAlike
      <4> QED BY <1>2, <4>2, <4>3, <4>4, <4>5 DEF Fits, ActionFits, TargetTyped
    <3> QED BY <2>1, <3>1, <3>2
  <2>3. MayEnd(engineEnded', engine', held', production')
    BY <2>1 DEF MayEnd
  <2> QED BY <1>1, <1>2, <2>1, <2>2, <2>3 DEF EndInv
<1>6. CASE Restart
  <2>1. /\ UNCHANGED <<production, stored, flying>> /\ engineEnded' = "no"
        /\ engine' = stored.engine /\ held' = IF production THEN held ELSE stored.held
    BY <1>6 DEF Restart
  <2>2. Fits(engine', held', production)
    BY <1>2, <2>1, NothingToFit
  <2>3. MayEnd(engineEnded', engine', held', production')
    BY <2>1 DEF MayEnd
  <2>4. held' \in -MaxHeld .. MaxHeld /\ (~production => held' = stored.held)
    BY <1>2, <2>1
  <2> QED BY <1>1, <1>2, <2>1, <2>2, <2>3, <2>4 DEF EndInv
<1>7. CASE UNCHANGED engineVars
  BY <1>1, <1>2, <1>7 DEF engineVars, EndInv
<1> QED BY <1>3, <1>4, <1>5, <1>6, <1>7

\* What is pending fits the position and the target, a shadow keeps its caps,
\* and the engine has not ended for anything else than it may.
THEOREM EndInvariant == EngineSpec => []EndInv
<1>1. EngineInit => EndInv
  BY EndInitial
<1>2. EndInv /\ [EngineNext]_engineVars => EndInv'
  BY TickEnds, BookEnds, LoopEnds DEF EngineNext
<1> QED BY <1>1, <1>2, PTL DEF EngineSpec

\* The engine ends for an exit that has become unnecessary, for an increase
\* that the tick rounds away, or, in production, for a position that fills have
\* taken out of the caps; for any policy, prices, books and decisions and any
\* number of restarts (try_execute_pending, plan_risk_reducing_ioc,
\* project_and_validate_portfolio).
THEOREM EndsOnlyForAnOldExit == EngineSpec => []EndsForAnOldExit
<1>1. EndInv => EndsForAnOldExit
  BY DEF EndInv, MayEnd, Cause, CapsHold, EndsForAnOldExit
<1> QED BY <1>1, EndInvariant, PTL
=============================================================================
