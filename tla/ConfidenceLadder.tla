--------------------------- MODULE ConfidenceLadder ---------------------------
(* The confidence of one candidate (confidence.rs): a rung of a ladder that  *)
(* reviews climb or descend one at a time, a quarantine that three good      *)
(* windows end, and two blocks that nothing ends.  A rung is its place in    *)
(* CONFIDENCE_LEVELS, which is strictly increasing from zero.                *)
EXTENDS Integers

CONSTANTS
  TopRung,            \* the last place of CONFIDENCE_LEVELS
  WarmupEpisodes,     \* below this many closed episodes nothing is judged (50)
  FullEpisodes,       \* below this many, or MinDays, only losses count (100)
  MinDays,            \* (14)
  RungEpisodes,       \* closed episodes between two changes of rung (25)
  ReentryWindows,     \* good windows in a row that end a quarantine (3)
  Jumps,              \* how many episodes close between two reviews
  MaxEpisodes         \* bound on the closed episodes

ASSUME LadderAssumption ==
  /\ {TopRung, WarmupEpisodes, FullEpisodes, MinDays, RungEpisodes,
      ReentryWindows, MaxEpisodes} \subseteq Nat \ {0}
  /\ Jumps \subseteq Nat

VARIABLES
  candidate,          \* CandidateConfidence
  base                \* history: the rung the candidate started on

ladderVars == <<candidate, base>>

Rungs == 0..TopRung
Contributing == {"Warmup", "Active", "Decayed"}
BlockedStates == {"IntegrityBlocked", "ManualDenylist"}
CandidateStates == Contributing \cup BlockedStates \cup {"Quarantined"}

\* An annualised Sharpe ratio, by the thresholds it is compared with.
SharpeClasses == {"negative", "poor", "fair", "good"}   \* < 0, < 10, < 15, >= 15

LadderTypeOK ==
  /\ candidate \in [state : CandidateStates, rung : Rungs, closed : Nat,
                    days : Nat, changedAt : Nat, windows : 0..ReentryWindows]
  /\ base \in Rungs \ {0}

LadderInit ==
  /\ base \in Rungs \ {0}
  /\ candidate = [state |-> "Warmup", rung |-> base, closed |-> 0, days |-> 0,
                  changedAt |-> 0, windows |-> 0]

StateOfRung(r) ==
  CASE r = TopRung -> "Active" [] r = 0 -> "Quarantined" [] OTHER -> "Decayed"

\* Fault: the change of rung is not recorded, so that the next review may
\* change it again.
ClimbedUnrecorded(c) ==
  LET r == IF c.rung < TopRung THEN c.rung + 1 ELSE TopRung
  IN  [c EXCEPT !.rung = r, !.state = StateOfRung(r)]

Climbed(c) ==
  LET r == IF c.rung < TopRung THEN c.rung + 1 ELSE TopRung
  IN  [c EXCEPT !.rung = r, !.state = StateOfRung(r), !.changedAt = c.closed]

Descended(c) ==
  LET r == IF c.rung > 0 THEN c.rung - 1 ELSE 0
  IN  [c EXCEPT !.rung = r, !.changedAt = c.closed,
                !.state = IF r = 0 THEN "Quarantined" ELSE "Decayed"]

Held(c) == [c EXCEPT !.state = StateOfRung(c.rung)]

Quarantine(c) ==
  [c EXCEPT !.state = "Quarantined", !.rung = 0, !.windows = 0, !.changedAt = c.closed]

\* What a review makes of a candidate whose counts are already those of the
\* review.  A quarantined candidate only has its counts brought up to date.
Reviewed(c, losing, sharpe) ==
  LET eligible == c.closed - c.changedAt >= RungEpisodes IN
  CASE c.state = "Quarantined" -> c
    [] c.state # "Quarantined" /\ c.closed < WarmupEpisodes -> [c EXCEPT !.state = "Warmup"]
    [] /\ c.state # "Quarantined" /\ c.closed >= WarmupEpisodes
       /\ (c.closed < FullEpisodes \/ c.days < MinDays) ->
         IF losing /\ eligible THEN Descended(c) ELSE Held(c)
    [] OTHER ->
         CASE sharpe = "negative" -> Quarantine(c)
           [] sharpe # "negative" /\ eligible /\ sharpe = "good" -> Climbed(c)
           [] sharpe # "negative" /\ eligible /\ sharpe = "poor" -> Descended(c)
           [] OTHER -> Held(c)

-----------------------------------------------------------------------------
\* A review with counts that did not go back; it is refused for a blocked one.
ApplyConfidenceReview ==
  \E jump \in Jumps, days \in {MinDays - 1, MinDays},
     losing \in BOOLEAN, sharpe \in SharpeClasses :
    /\ candidate.state \notin BlockedStates
    /\ candidate.closed + jump <= MaxEpisodes
    /\ candidate' = Reviewed([candidate EXCEPT !.closed = @ + jump, !.days = days],
                             losing, sharpe)
    /\ UNCHANGED base

\* A window of a quarantined candidate; the third good one in a row puts it on
\* the lowest rung above zero.
ObserveReentryWindow ==
  \E sharpe \in SharpeClasses :
    LET windows == IF sharpe = "good" THEN candidate.windows + 1 ELSE 0 IN
    /\ candidate.state = "Quarantined"
    /\ candidate' =
         IF windows >= ReentryWindows
         THEN [candidate EXCEPT !.state = "Warmup", !.rung = 1, !.windows = 0,
                                !.changedAt = candidate.closed]
         ELSE [candidate EXCEPT !.windows = windows]
    /\ UNCHANGED base

\* block_integrity and manual_denylist.
Block ==
  \E s \in BlockedStates :
    /\ candidate' = [candidate EXCEPT !.state = s, !.rung = 0]
    /\ UNCHANGED base

LadderNext == ApplyConfidenceReview \/ ObserveReentryWindow \/ Block

LadderSpec == LadderInit /\ [][LadderNext]_ladderVars

-----------------------------------------------------------------------------
\* Every rung above the one a candidate started on was earned by RungEpisodes
\* closed episodes of its own, whatever reviews, quarantines and re-entries
\* came between; and weight and state agree: a candidate that does not
\* contribute has no confidence, one that does has some (confidence.rs,
\* apply_confidence_review and contributes_to_consensus).
RungsAreEarned ==
  /\ candidate.rung * RungEpisodes <= base * RungEpisodes + candidate.changedAt
  /\ candidate.changedAt <= candidate.closed
  /\ candidate.rung = 0 <=> candidate.state \notin Contributing
=============================================================================
