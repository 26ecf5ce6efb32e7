--------------------------- MODULE AccountingProofs ---------------------------
(* What holds of the registry of orders and of the books, for any values of  *)
(* their constants.  OrderLifecycle: an action has one order on the exchange *)
(* at most, until one of its orders shows itself later than the              *)
(* confirmations of its absence were spread, and what is known of an order   *)
(* is not unlearnt, in whichever order its answers come.  DualLedger: each   *)
(* book's position is the one of its open episode, a portfolio that is flat  *)
(* leaves nothing in its components, and until then they add up to it but    *)
(* for the dust of the fills since, half a digit for each rounding.  So the  *)
(* tolerances of the code are reached after many fills, or never.            *)
EXTENDS OrderLifecycle, DualLedger, SetLemmas

-----------------------------------------------------------------------------
(* OrderLifecycle.                                                           *)

Answers ==
  [at : Nat, filled : Int, kind : {"NotFound", "Open", "Filled", "Cancelled", "Rejected"}]

UnknownStates == [kind : {"SubmissionUnknown"}, first : Nat, confirmations : Seq(Nat)]
FilledStates == [kind : {"ReconciledPartiallyFilled", "ReconciledFilled"}, filled : Int]
PlainStates ==
  {Planned, AwaitingSubmission, NotFound, OpenState, CancelledState, RejectedState}
States == UnknownStates \cup FilledStates \cup PlainStates

\* Not shown by the exchange.
Hidden == {"travelling", "lost"}

\* At the time t, after it was sent, the order of c was not shown: it is not
\* now, or it was shown later, and late if the span of the confirmations was over.
Missing(c, t) ==
  /\ orders[c].status # "unsent" /\ t <= lifeClock
  /\ orders[c].status \notin Hidden /\ t >= orders[c].sent + ConfirmationSpan => orders[c].late

\* The order of c was sent and did not show for the span of the confirmations.
Gone(c) ==
  /\ orders[c].status # "unsent"
  /\ orders[c].status = "travelling" => lifeClock >= orders[c].sent + ConfirmationSpan
  /\ orders[c].status \notin Hidden => orders[c].late

OrderRecords == [status : OrderStatuses, filled : Int, sent : Nat, late : BOOLEAN]

Types ==
  /\ lifeClock \in Nat
  /\ orders \in [OrderCloids -> OrderRecords]
  /\ lookups \in [OrderCloids -> Seq(Answers)]
  /\ DOMAIN lifecycles \subseteq OrderCloids
  /\ lifecycles \in [DOMAIN lifecycles -> States]

\* Orders are sent in the past.
SentBefore == \A c \in OrderCloids : orders[c].sent <= lifeClock

\* Every answer in flight was true when it was taken.
AnswersAreTrue ==
  \A c \in OrderCloids : \A i \in DOMAIN lookups[c] :
    lookups[c][i].kind = "NotFound" => Missing(c, lookups[c][i].at)

\* The n-th confirmation is n - 1 intervals after the first possible one.
Spaced(s) ==
  \A n \in DOMAIN s.confirmations : s.confirmations[n] >= s.first + (n - 1) * ConfirmationInterval

\* What a state of the registry says of the order.
StatesAreTrue ==
  \A c \in DOMAIN lifecycles :
    /\ lifecycles[c].kind = "SubmissionUnknown" =>
         /\ orders[c].status # "unsent" /\ lifecycles[c].first >= orders[c].sent
         /\ Spaced(lifecycles[c])
    /\ lifecycles[c].kind = "ReconciledNotFound" => Gone(c)

\* A generation is begun only when all earlier ones are gone.
EarlierAreGone ==
  \A c, d \in OrderCloids :
    /\ c[1] = d[1] /\ d[2] < c[2]
    /\ c \in DOMAIN lifecycles \/ orders[c].status # "unsent"
    => Gone(d)

\* The inductive invariant.
LifeInv == Types /\ SentBefore /\ AnswersAreTrue /\ StatesAreTrue /\ EarlierAreGone

-----------------------------------------------------------------------------
\* Which of the states a kind belongs to.
LEMMA StateKinds ==
  ASSUME NEW s \in States
  PROVE  /\ s.kind = "SubmissionUnknown" => s \in UnknownStates
         /\ s.kind \in {"ReconciledPartiallyFilled", "ReconciledFilled"} => s \in FilledStates
         /\ s.kind \notin {"SubmissionUnknown", "ReconciledPartiallyFilled", "ReconciledFilled"}
              => s \in PlainStates
         /\ s.kind = "ActionPlanned" => s = Planned
         /\ s.kind = "AwaitingFutureSubmission" => s = AwaitingSubmission
         /\ s.kind = "ReconciledNotFound" => s = NotFound
         /\ s.kind = "ReconciledOpen" => s = OpenState
         /\ s.kind = "ReconciledCancelled" => s = CancelledState
         /\ s.kind = "ReconciledRejected" => s = RejectedState
PROOF
  BY DEF States, UnknownStates, FilledStates, PlainStates, Planned, AwaitingSubmission,
         NotFound, OpenState, CancelledState, RejectedState

\* A positive answer gives a state of the order on the exchange (positive_state).
LEMMA PositiveStates ==
  ASSUME NEW o \in Answers, o.kind # "NotFound"
  PROVE  /\ PositiveState(o) \in States
         /\ PositiveState(o).kind \in {"ReconciledOpen", "ReconciledPartiallyFilled",
              "ReconciledFilled", "ReconciledCancelled", "ReconciledRejected"}
         /\ o.kind # "Rejected" => PositiveState(o).kind # "ReconciledRejected"
PROOF
<1>1. o.kind \in {"Open", "Filled", "Cancelled", "Rejected"} /\ o.filled \in Int
  BY DEF Answers
<1>2. CASE o.kind = "Open"
  <2>1. PositiveState(o) = IF o.filled = 0 THEN OpenState ELSE PartState(o.filled)
    BY <1>2 DEF PositiveState
  <2> QED BY <1>1, <1>2, <2>1 DEF OpenState, PartState, States, FilledStates, PlainStates
<1>3. CASE o.kind = "Filled"
  <2>1. PositiveState(o) = FilledState(o.filled)
    BY <1>3 DEF PositiveState
  <2> QED BY <1>1, <1>3, <2>1 DEF FilledState, States, FilledStates
<1>4. CASE o.kind = "Cancelled"
  <2>1. PositiveState(o) = CancelledState
    BY <1>4 DEF PositiveState
  <2> QED BY <1>4, <2>1 DEF CancelledState, States, PlainStates
<1>5. CASE o.kind = "Rejected"
  <2>1. PositiveState(o) = RejectedState
    BY <1>5 DEF PositiveState
  <2> QED BY <1>5, <2>1 DEF RejectedState, States, PlainStates
<1> QED BY <1>1, <1>2, <1>3, <1>4, <1>5

\* What a known order may become (reconcile_known_positive): a final outcome
\* stays, fills do not shrink, and nothing is not found again.
LEMMA KnownStates ==
  ASSUME NEW s \in States, NEW o \in Answers,
         s.kind \in {"ReconciledOpen", "ReconciledPartiallyFilled", "ReconciledFilled",
                     "ReconciledCancelled"}
  PROVE  LET new == KnownPositive(s, o).state
         IN  /\ new \in States
             /\ new = s \/ new.kind \in {"ReconciledOpen", "ReconciledPartiallyFilled",
                                         "ReconciledFilled", "ReconciledCancelled"}
             /\ s.kind \in {"ReconciledFilled", "ReconciledCancelled"} => new = s
             /\ s.kind = "ReconciledPartiallyFilled" =>
                  \/ new.kind = "ReconciledCancelled"
                  \/ /\ new.kind \in {"ReconciledPartiallyFilled", "ReconciledFilled"}
                     /\ new.filled >= s.filled
PROOF
<1> DEFINE new == KnownPositive(s, o).state
           candidate == PositiveState(o)
<1>1. s.kind = "ReconciledPartiallyFilled" => s.filled \in Int
  BY StateKinds DEF FilledStates
<1>2. ASSUME new = s PROVE new \in States /\ (s.kind = "ReconciledPartiallyFilled" => new.filled >= s.filled)
  BY <1>1, <1>2
<1>3. CASE o.kind = "NotFound"
  <2>1. new = s
    BY <1>3 DEF KnownPositive, Ok
  <2> HIDE DEF new
  <2> QED BY <1>2, <2>1 DEF new
<1>4. CASE o.kind = "Rejected"
  <2>1. new = s
    BY <1>4 DEF KnownPositive, Failure
  <2> HIDE DEF new
  <2> QED BY <1>2, <2>1 DEF new
<1>5. CASE o.kind \notin {"NotFound", "Rejected"}
  <2>1. /\ candidate \in States
        /\ candidate.kind \in {"ReconciledOpen", "ReconciledPartiallyFilled", "ReconciledFilled",
                               "ReconciledCancelled"}
    BY <1>5, PositiveStates
  <2>2. CASE candidate = s \/ s.kind = "ReconciledOpen"
    <3>1. new = candidate
      BY <1>5, <2>2 DEF KnownPositive, Ok
    <3> HIDE DEF new, candidate
    <3> QED BY <1>2, <2>1, <2>2, <3>1 DEF new
  <2>3. CASE candidate # s /\ s.kind = "ReconciledPartiallyFilled"
    <3>1. \/ new = s
          \/ /\ new = candidate
             /\ \/ candidate.kind = "ReconciledCancelled"
                \/ /\ candidate.kind \in {"ReconciledPartiallyFilled", "ReconciledFilled"}
                   /\ candidate.filled >= s.filled
      BY <1>5, <2>3 DEF KnownPositive, Ok, Failure
    <3> HIDE DEF new, candidate
    <3> QED BY <1>2, <2>1, <2>3, <3>1 DEF new
  <2>4. CASE candidate # s /\ s.kind \notin {"ReconciledOpen", "ReconciledPartiallyFilled"}
    <3>1. new = s
      BY <1>5, <2>4 DEF KnownPositive, Failure
    <3> HIDE DEF new, candidate
    <3> QED BY <1>2, <2>4, <3>1 DEF new
  <2> QED BY <2>2, <2>3, <2>4
<1> QED BY <1>3, <1>4, <1>5

\* A product and the next one.
LEMMA NextMultiple ==
  ASSUME NEW n \in Int
  PROVE  /\ n * ConfirmationInterval \in Int
         /\ n * ConfirmationInterval + ConfirmationInterval = (n + 1) * ConfirmationInterval
PROOF
  BY LifecycleAssumption

\* More intervals take longer.
LEMMA MoreIntervals ==
  ASSUME NEW m \in Nat, NEW n \in Nat, m <= n
  PROVE  m * ConfirmationInterval <= n * ConfirmationInterval
PROOF
<1> DEFINE k == ConfirmationInterval
<1>1. k \in Nat /\ n - m \in Nat
  BY LifecycleAssumption
<1>2. (n - m) * k \in Nat
  BY <1>1
<1>3. n * k = m * k + (n - m) * k
  BY <1>1
<1>4. m * k \in Int /\ n * k \in Int
  BY <1>1
<1> QED BY <1>2, <1>3, <1>4

\* A not-found answer leaves a submission as it is, adds one confirmation that
\* comes an interval after the last, or settles it when these are enough.
LEMMA UnknownStep ==
  ASSUME NEW s \in UnknownStates, NEW t \in Nat, t >= s.first
  PROVE  LET new == UnknownNotFound(s, t).state
             seen == s.confirmations
         IN  \/ new = s
             \/ /\ seen # <<>> => t >= seen[Len(seen)] + ConfirmationInterval
                /\ \/ new = NotFound /\ Len(seen) + 1 >= RequiredConfirmations
                   \/ new = UnknownSince(s.first, Append(seen, t))
PROOF
<1> DEFINE seen == s.confirmations
           new == UnknownNotFound(s, t).state
<1>1. s.first \in Nat /\ seen \in Seq(Nat)
  BY DEF UnknownStates
<1>2. Len(seen) \in Nat /\ Len(Append(seen, t)) = Len(seen) + 1 /\ Last(seen) = seen[Len(seen)]
  BY <1>1 DEF Last
<1>3. seen # <<>> => seen[Len(seen)] \in Nat
  BY <1>1, <1>2
<1>4. CASE t - s.first > MaximumUnknown
  <2>1. ~(t - s.first <= MaximumUnknown)
    BY <1>1, <1>4, LifecycleAssumption
  <2> QED BY <1>4, <2>1 DEF UnknownNotFound, Failure
<1>5. CASE t - s.first <= MaximumUnknown /\ seen # <<>> /\ Last(seen) = t
  <2>1. ~(t - s.first > MaximumUnknown)
    BY <1>1, <1>5, LifecycleAssumption
  <2> QED BY <1>5, <2>1 DEF UnknownNotFound, Ok
<1>6. CASE t - s.first <= MaximumUnknown /\ ~(seen # <<>> /\ Last(seen) = t)
  <2>1. ~(t - s.first > MaximumUnknown)
    BY <1>1, <1>6, LifecycleAssumption
  <2>2. UnknownNotFound(s, t) =
          CASE Len(seen) >= MaximumAttempts -> Failure("ReconciliationAttemptLimit", s)
            [] Len(seen) < MaximumAttempts /\ seen # <<>>
               /\ t - Last(seen) < ConfirmationInterval -> Failure("InvalidObservation", s)
            [] OTHER -> IF Len(Append(seen, t)) >= RequiredConfirmations THEN Ok(NotFound)
                        ELSE Ok(UnknownSince(s.first, Append(seen, t)))
    BY <1>6, <2>1 DEF UnknownNotFound
  <2>3. CASE Len(seen) >= MaximumAttempts
    <3>1. ~(Len(seen) < MaximumAttempts)
      BY <1>2, <2>3, LifecycleAssumption
    <3> QED BY <2>2, <2>3, <3>1 DEF Failure
  <2>4. CASE Len(seen) < MaximumAttempts /\ seen # <<>> /\ t - Last(seen) < ConfirmationInterval
    <3>1. ~(Len(seen) >= MaximumAttempts)
      BY <1>2, <2>4, LifecycleAssumption
    <3> QED BY <2>2, <2>4, <3>1 DEF Failure
  <2>5. CASE /\ ~(Len(seen) >= MaximumAttempts)
             /\ ~(Len(seen) < MaximumAttempts /\ seen # <<>> /\ t - Last(seen) < ConfirmationInterval)
    <3>1. new = IF Len(seen) + 1 >= RequiredConfirmations THEN NotFound
                ELSE UnknownSince(s.first, Append(seen, t))
      BY <1>2, <2>2, <2>5 DEF Ok
    <3>2. Len(seen) < MaximumAttempts
      BY <1>2, <2>5, LifecycleAssumption
    <3>3. seen # <<>> => t >= seen[Len(seen)] + ConfirmationInterval
      BY <1>2, <1>3, <2>5, <3>2, LifecycleAssumption
    <3> HIDE DEF new, seen
    <3> QED BY <3>1, <3>3 DEF new, seen
  <2> QED BY <2>3, <2>4, <2>5
<1> QED
  <2>1. t - s.first > MaximumUnknown \/ t - s.first <= MaximumUnknown
    BY <1>1, LifecycleAssumption
  <2> QED BY <1>4, <1>5, <1>6, <2>1

\* What an answer makes of a state (apply_reconciliation_observation): the
\* order is planned or unknown only if it was, and settled as not found only
\* by enough confirmations.
LEMMA AnswerStep ==
  ASSUME NEW s \in States, NEW o \in Answers
  PROVE  LET new == ApplyObservation(s, o).state
         IN  /\ new \in States
             /\ \/ new = s
                \/ /\ new.kind \notin {"ActionPlanned", "AwaitingFutureSubmission",
                                       "SubmissionUnknown", "ReconciledNotFound"}
                   /\ s.kind \in {"ReconciledFilled", "ReconciledCancelled",
                                  "ReconciledRejected"} => new = s
                   /\ s.kind = "ReconciledPartiallyFilled" =>
                        \/ new.kind = "ReconciledCancelled"
                        \/ /\ new.kind \in {"ReconciledPartiallyFilled", "ReconciledFilled"}
                           /\ new.filled >= s.filled
                \/ /\ s.kind = "SubmissionUnknown" /\ o.kind = "NotFound" /\ o.at >= s.first
                   /\ s.confirmations # <<>> =>
                        o.at >= s.confirmations[Len(s.confirmations)] + ConfirmationInterval
                   /\ \/ /\ new = NotFound
                         /\ Len(s.confirmations) + 1 >= RequiredConfirmations
                      \/ new = UnknownSince(s.first, Append(s.confirmations, o.at))
PROOF
<1> DEFINE new == ApplyObservation(s, o).state
<1>1. o.at \in Nat /\ o.kind \in {"NotFound", "Open", "Filled", "Cancelled", "Rejected"}
  BY DEF Answers
<1>2. ASSUME o.kind # "NotFound", new = PositiveState(o)
      PROVE  /\ new \in States
             /\ new.kind \notin {"ActionPlanned", "AwaitingFutureSubmission",
                                 "SubmissionUnknown", "ReconciledNotFound"}
  BY <1>2, PositiveStates
<1>3. CASE s.kind = "SubmissionUnknown"
  <2>1. s \in UnknownStates /\ s.first \in Nat /\ s.confirmations \in Seq(Nat)
    BY <1>3, StateKinds DEF UnknownStates
  <2>2. CASE o.at < s.first
    BY <1>3, <2>2 DEF ApplyObservation, Failure
  <2>3. CASE o.at >= s.first /\ o.kind = "NotFound"
    <3>1. new = UnknownNotFound(s, o.at).state
      BY <1>1, <1>3, <2>1, <2>3 DEF ApplyObservation
    <3>2. NotFound \in States /\ UnknownSince(s.first, Append(s.confirmations, o.at)) \in States
      BY <1>1, <2>1 DEF States, PlainStates, UnknownStates, UnknownSince
    <3> HIDE DEF new
    <3> QED BY <1>1, <1>3, <2>1, <2>3, <3>1, <3>2, UnknownStep DEF new
  <2>4. CASE o.at >= s.first /\ o.kind # "NotFound"
    <3>1. new = PositiveState(o)
      BY <1>1, <1>3, <2>1, <2>4 DEF ApplyObservation, Ok
    <3> HIDE DEF new
    <3> QED BY <1>2, <1>3, <2>4, <3>1 DEF new
  <2> QED BY <1>1, <2>1, <2>2, <2>3, <2>4
<1>4. CASE s.kind = "ReconciledNotFound"
  <2>1. new = IF o.kind = "NotFound" THEN s ELSE PositiveState(o)
    BY <1>4 DEF ApplyObservation, Ok
  <2> HIDE DEF new
  <2> QED BY <1>2, <1>4, <2>1 DEF new
<1>5. CASE s.kind \in {"ReconciledOpen", "ReconciledPartiallyFilled", "ReconciledFilled",
                       "ReconciledCancelled"}
  <2>1. new = KnownPositive(s, o).state
    BY <1>5 DEF ApplyObservation
  <2> HIDE DEF new
  <2> QED BY <1>5, <2>1, KnownStates DEF new
<1>6. CASE s.kind \in {"ReconciledRejected", "ActionPlanned", "AwaitingFutureSubmission"}
  <2>1. new = s
    BY <1>6 DEF ApplyObservation, Ok, Failure
  <2> HIDE DEF new
  <2> QED BY <2>1 DEF new
<1>7. s.kind \in {"SubmissionUnknown", "ReconciledNotFound", "ReconciledOpen",
                  "ReconciledPartiallyFilled", "ReconciledFilled", "ReconciledCancelled",
                  "ReconciledRejected", "ActionPlanned", "AwaitingFutureSubmission"}
  BY DEF States, UnknownStates, FilledStates, PlainStates, Planned, AwaitingSubmission,
         NotFound, OpenState, CancelledState, RejectedState
<1> QED BY <1>3, <1>4, <1>5, <1>6, <1>7

-----------------------------------------------------------------------------
\* No order and no answer at the start.
LEMMA LifeInvInit == LifecycleInit => LifeInv
PROOF
<1> SUFFICES ASSUME LifecycleInit PROVE LifeInv OBVIOUS
<1>1. DOMAIN lifecycles = {} /\ lifecycles \in [DOMAIN lifecycles -> States]
  BY DEF LifecycleInit
<1>2. Types
  <2>1. [status |-> "unsent", filled |-> 0, sent |-> 0, late |-> FALSE] \in OrderRecords
    BY DEF OrderRecords, OrderStatuses
  <2>2. orders \in [OrderCloids -> OrderRecords]
    BY <2>1 DEF LifecycleInit
  <2>3. lookups \in [OrderCloids -> Seq(Answers)] /\ lifeClock \in Nat
    BY DEF LifecycleInit
  <2> QED BY <1>1, <2>2, <2>3 DEF Types
<1>3. AnswersAreTrue
  BY DEF LifecycleInit, AnswersAreTrue
<1> QED BY <1>1, <1>2, <1>3 DEF LifecycleInit, LifeInv, SentBefore, StatesAreTrue, EarlierAreGone

\* What was true of an order stays true while the exchange and the clock rest.
LEMMA ExchangeRests ==
  ASSUME UNCHANGED <<lifeClock, orders>>
  PROVE  /\ \A c, t : Missing(c, t)' <=> Missing(c, t)
         /\ \A c : Gone(c)' <=> Gone(c)
         /\ SentBefore => SentBefore'
         /\ AnswersAreTrue /\ UNCHANGED lookups => AnswersAreTrue'
PROOF
<1>1. /\ \A c, t : Missing(c, t)' <=> Missing(c, t)
      /\ \A c : Gone(c)' <=> Gone(c)
  BY DEF Missing, Gone, ConfirmationSpan
<1>2. SentBefore => SentBefore'
  BY DEF SentBefore
<1>3. AnswersAreTrue /\ UNCHANGED lookups => AnswersAreTrue'
  BY DEF AnswersAreTrue, Missing, ConfirmationSpan
<1> QED BY <1>1, <1>2, <1>3

\* An entry is added: its earlier generations are gone.
LEMMA EntryAdded ==
  ASSUME LifeInv, NEW c \in OrderCloids, Entered(c),
         \A d \in OrderCloids : c[1] = d[1] /\ d[2] < c[2] => Gone(d),
         UNCHANGED <<lifeClock, blockedAssets, orders, lookups>>
  PROVE  LifeInv'
PROOF
<1>1. /\ DOMAIN lifecycles' = DOMAIN lifecycles \cup {c}
      /\ lifecycles'[c] = Planned
      /\ \A d \in DOMAIN lifecycles : lifecycles'[d] = lifecycles[d]
      /\ lifecycles' = [d \in DOMAIN lifecycles' |-> lifecycles'[d]]
  BY DEF Entered
<1>2. Planned \in States /\ Planned.kind = "ActionPlanned"
  BY DEF States, PlainStates, Planned
<1>3. Types'
  <2>1. \A d \in DOMAIN lifecycles' : lifecycles'[d] \in States
    BY <1>1, <1>2 DEF LifeInv, Types
  <2>2. DOMAIN lifecycles' \subseteq OrderCloids
    BY <1>1 DEF LifeInv, Types
  <2> QED BY <1>1, <2>1, <2>2 DEF LifeInv, Types
<1>4. /\ SentBefore' /\ AnswersAreTrue' /\ \A d : Gone(d)' <=> Gone(d)
  BY ExchangeRests DEF LifeInv
<1>5. StatesAreTrue'
  BY <1>1, <1>2, <1>4 DEF LifeInv, StatesAreTrue
<1>6. EarlierAreGone'
  BY <1>1, <1>4 DEF LifeInv, EarlierAreGone
<1> QED BY <1>3, <1>4, <1>5, <1>6 DEF LifeInv

\* The first generation has none before it; the next one comes when the last
\* is gone, and then all are.
LEMMA EntriesAdded == LifeInv /\ (PlanAction \/ RetryNotFound) => LifeInv'
PROOF
<1>1. ASSUME LifeInv, PlanAction PROVE LifeInv'
  <2>1. PICK a \in OrderActions :
          /\ Entered(<<a, 0>>)
          /\ UNCHANGED <<lifeClock, blockedAssets, orders, lookups>>
    BY <1>1 DEF PlanAction
  <2>2. <<a, 0>> \in OrderCloids /\ \A d \in OrderCloids : ~(d[2] < 0)
    BY LifecycleAssumption DEF OrderCloids
  <2> QED BY <1>1, <2>1, <2>2, EntryAdded
<1>2. ASSUME LifeInv, RetryNotFound PROVE LifeInv'
  <2>1. PICK c \in DOMAIN lifecycles :
          LET retry == <<c[1], c[2] + 1>>
          IN  /\ lifecycles[c] = NotFound /\ retry \in OrderCloids
              /\ Entered(retry)
              /\ UNCHANGED <<lifeClock, blockedAssets, orders, lookups>>
    BY <1>2 DEF RetryNotFound
  <2> DEFINE retry == <<c[1], c[2] + 1>>
  <2>2. c \in OrderCloids /\ Gone(c)
    BY <1>2, <2>1 DEF LifeInv, Types, StatesAreTrue, NotFound
  <2>3. ASSUME NEW d \in OrderCloids, retry[1] = d[1], retry[2] > d[2]
        PROVE  Gone(d)
    <3>1. d[2] < c[2] \/ d[2] = c[2]
      BY <2>2, <2>3 DEF OrderCloids
    <3>2. d[2] = c[2] => d = c
      BY <2>2, <2>3 DEF OrderCloids
    <3> QED BY <1>2, <2>1, <2>2, <2>3, <3>1, <3>2 DEF LifeInv, EarlierAreGone
  <2>4. \A d \in OrderCloids : retry[1] = d[1] /\ d[2] < retry[2] => Gone(d)
    BY <2>2, <2>3 DEF OrderCloids
  <2> HIDE DEF retry
  <2> QED BY <1>2, <2>1, <2>4, EntryAdded DEF retry
<1> QED BY <1>1, <1>2

\* An entry that waits, and one that is removed, say nothing new.
LEMMA AwaitKeeps == LifeInv /\ (Await \/ Compact) => LifeInv'
PROOF
<1>1. ASSUME LifeInv, Await PROVE LifeInv'
  <2>1. PICK c \in DOMAIN lifecycles :
          /\ lifecycles[c] = Planned
          /\ lifecycles' = [lifecycles EXCEPT ![c] = AwaitingSubmission]
          /\ UNCHANGED <<lifeClock, blockedAssets, orders, lookups>>
    BY <1>1 DEF Await
  <2>2. /\ AwaitingSubmission \in States
        /\ AwaitingSubmission.kind = "AwaitingFutureSubmission" /\ Planned.kind = "ActionPlanned"
    BY DEF States, PlainStates, AwaitingSubmission, Planned
  <2>3. Types /\ Types'
    BY <1>1, <2>1, <2>2 DEF LifeInv, Types
  <2>4. SentBefore' /\ AnswersAreTrue' /\ \A d : Gone(d)' <=> Gone(d)
    BY <1>1, <2>1, ExchangeRests DEF LifeInv
  <2>5. StatesAreTrue'
    BY <1>1, <2>1, <2>2, <2>3, <2>4 DEF LifeInv, Types, StatesAreTrue
  <2>6. EarlierAreGone'
    BY <1>1, <2>1, <2>3, <2>4 DEF LifeInv, Types, EarlierAreGone
  <2> QED BY <2>3, <2>4, <2>5, <2>6 DEF LifeInv
<1>2. ASSUME LifeInv, Compact PROVE LifeInv'
  <2>1. PICK c \in DOMAIN lifecycles :
          /\ lifecycles' = [d \in DOMAIN lifecycles \ {c} |-> lifecycles[d]]
          /\ UNCHANGED <<lifeClock, blockedAssets, orders, lookups>>
    BY <1>2 DEF Compact, Restrict
  <2>2. /\ DOMAIN lifecycles' \subseteq DOMAIN lifecycles
        /\ \A d \in DOMAIN lifecycles' : lifecycles'[d] = lifecycles[d]
    BY <2>1
  <2>3. Types'
    BY <1>2, <2>1 DEF LifeInv, Types
  <2>4. SentBefore' /\ AnswersAreTrue' /\ \A d : Gone(d)' <=> Gone(d)
    BY <1>2, <2>1, ExchangeRests DEF LifeInv
  <2>5. StatesAreTrue'
    BY <1>2, <2>1, <2>2, <2>4 DEF LifeInv, StatesAreTrue
  <2>6. EarlierAreGone'
    BY <1>2, <2>1, <2>2, <2>4 DEF LifeInv, EarlierAreGone
  <2> QED BY <2>3, <2>4, <2>5, <2>6 DEF LifeInv
<1> QED BY <1>1, <1>2

\* An order is submitted: it travels from now on, or it was sent before and
\* nothing changes but what the registry knows.
LEMMA SubmitKeeps == LifeInv /\ SubmitUnknown => LifeInv'
PROOF
<1> SUFFICES ASSUME LifeInv, SubmitUnknown PROVE LifeInv' OBVIOUS
<1>1. PICK c \in DOMAIN lifecycles :
        /\ lifecycles' = [lifecycles EXCEPT ![c] = UnknownSince(lifeClock, <<>>)]
        /\ orders' = IF orders[c].status # "unsent" THEN orders
                     ELSE [orders EXCEPT ![c].status = "travelling", ![c].sent = lifeClock]
        /\ UNCHANGED <<lifeClock, blockedAssets, lookups>>
  BY DEF SubmitUnknown
<1>2. c \in OrderCloids /\ lifeClock \in Nat /\ orders \in [OrderCloids -> OrderRecords]
  BY DEF LifeInv, Types
<1>3. /\ UnknownSince(lifeClock, <<>>) \in States
      /\ UnknownSince(lifeClock, <<>>).kind = "SubmissionUnknown"
      /\ UnknownSince(lifeClock, <<>>).first = lifeClock
      /\ UnknownSince(lifeClock, <<>>).confirmations = <<>>
  BY DEF LifeInv, Types, States, UnknownStates, UnknownSince
<1>4. /\ orders' \in [OrderCloids -> OrderRecords]
      /\ orders'[c].status # "unsent" /\ orders'[c].sent <= lifeClock
      /\ \A d \in OrderCloids : orders[d].status # "unsent" => orders'[d] = orders[d]
      /\ \A d \in OrderCloids : d # c => orders'[d] = orders[d]
  <2>1. CASE orders[c].status # "unsent"
    BY <1>1, <1>2, <2>1 DEF LifeInv, SentBefore
  <2>2. CASE orders[c].status = "unsent"
    <3> DEFINE sent == [orders[c] EXCEPT !.status = "travelling", !.sent = lifeClock]
    <3>1. sent \in OrderRecords /\ sent.status = "travelling" /\ sent.sent = lifeClock
      BY <1>2 DEF OrderRecords, OrderStatuses
    <3>2. orders' = [orders EXCEPT ![c] = sent]
      BY <1>1, <1>2, <2>2
    <3> HIDE DEF sent
    <3> QED BY <1>2, <2>2, <3>1, <3>2
  <2> QED BY <2>1, <2>2
<1>5. /\ DOMAIN lifecycles' = DOMAIN lifecycles
      /\ lifecycles'[c] = UnknownSince(lifeClock, <<>>)
      /\ \A d \in DOMAIN lifecycles : d # c => lifecycles'[d] = lifecycles[d]
      /\ lifecycles' \in [DOMAIN lifecycles -> States]
  BY <1>1, <1>3 DEF LifeInv, Types
<1>6. Types'
  BY <1>1, <1>4, <1>5 DEF LifeInv, Types
<1>7. SentBefore'
  BY <1>1, <1>2, <1>4 DEF LifeInv, SentBefore
<1>8. \A d \in OrderCloids : Gone(d) => Gone(d)'
  BY <1>1, <1>4 DEF Gone, ConfirmationSpan
<1>9. AnswersAreTrue'
  <2>1. \A d \in OrderCloids : \A t : Missing(d, t) => Missing(d, t)'
    BY <1>1, <1>4 DEF Missing, ConfirmationSpan
  <2> QED BY <1>1, <2>1 DEF LifeInv, AnswersAreTrue, Missing
<1>10. StatesAreTrue'
  <2> SUFFICES ASSUME NEW d \in DOMAIN lifecycles
               PROVE  /\ lifecycles'[d].kind = "SubmissionUnknown" =>
                           /\ orders'[d].status # "unsent"
                           /\ lifecycles'[d].first >= orders'[d].sent
                           /\ Spaced(lifecycles'[d])
                      /\ lifecycles'[d].kind = "ReconciledNotFound" => Gone(d)'
    BY <1>5 DEF StatesAreTrue, Spaced
  <2>1. CASE d = c
    <3>1. Spaced(UnknownSince(lifeClock, <<>>))
      BY <1>3 DEF Spaced
    <3>2. orders'[c].sent \in Nat
      BY <1>2, <1>4 DEF OrderRecords
    <3> QED BY <1>2, <1>3, <1>4, <1>5, <2>1, <3>1, <3>2
  <2>2. CASE d # c
    <3>1. d \in OrderCloids
      BY DEF LifeInv, Types
    <3> QED BY <1>4, <1>5, <1>8, <2>2, <3>1 DEF LifeInv, StatesAreTrue
  <2> QED BY <2>1, <2>2
<1>11. EarlierAreGone'
  BY <1>2, <1>4, <1>5, <1>8 DEF LifeInv, EarlierAreGone
<1> QED BY <1>6, <1>7, <1>9, <1>10, <1>11 DEF LifeInv

\* The exchange acts on an order it has: what was not shown for the span of the
\* confirmations is shown late.
LEMMA ExchangeKeeps == LifeInv /\ ExchangeStep => LifeInv'
PROOF
<1> SUFFICES ASSUME LifeInv, ExchangeStep PROVE LifeInv' OBVIOUS
<1>1. PICK c \in OrderCloids :
        /\ \/ /\ orders[c].status = "travelling"
              /\ \E s \in {"rejected", "open"} :
                   orders' = [orders EXCEPT ![c].status = s,
                               ![c].late = lifeClock - orders[c].sent >= ConfirmationSpan]
           \/ /\ orders[c].status = "travelling"
              /\ orders' = [orders EXCEPT ![c].status = "lost"]
           \/ /\ orders[c].status = "open"
              /\ \/ orders' = [orders EXCEPT ![c].status = "cancelled"]
                 \/ orders' = [orders EXCEPT ![c].filled = @ + 1]
                 \/ orders' = [orders EXCEPT ![c].filled = @ + 1, ![c].status = "filled"]
        /\ UNCHANGED <<lifeClock, lifecycles, blockedAssets, lookups>>
  BY DEF ExchangeStep
<1>2. /\ orders \in [OrderCloids -> OrderRecords] /\ orders[c].sent \in Nat /\ lifeClock \in Nat
      /\ ConfirmationSpan \in Int /\ orders[c].late \in BOOLEAN
  BY LifecycleAssumption DEF LifeInv, Types, OrderRecords, ConfirmationSpan
<1>3. /\ orders' \in [OrderCloids -> OrderRecords]
      /\ orders'[c].status \in {"lost", "rejected", "open", "cancelled", "filled"}
      /\ orders'[c].sent = orders[c].sent
      /\ \A d \in OrderCloids : d # c => orders'[d] = orders[d]
      /\ orders[c].status \in {"travelling", "open"}
      /\ orders[c].status = "open" =>
           orders'[c].status # "lost" /\ orders'[c].late = orders[c].late
      /\ /\ orders[c].status = "travelling" /\ orders'[c].status # "lost"
         /\ lifeClock >= orders[c].sent + ConfirmationSpan
         => orders'[c].late
  <2>1. CASE /\ orders[c].status = "travelling"
             /\ \E s \in {"rejected", "open"} :
                  orders' = [orders EXCEPT ![c].status = s,
                              ![c].late = lifeClock - orders[c].sent >= ConfirmationSpan]
    <3>1. PICK s \in {"rejected", "open"} :
                  orders' = [orders EXCEPT ![c].status = s,
                              ![c].late = lifeClock - orders[c].sent >= ConfirmationSpan]
      BY <2>1
    <3> DEFINE shownLate == lifeClock - orders[c].sent >= ConfirmationSpan
    <3>2. shownLate \in BOOLEAN
          /\ (lifeClock >= orders[c].sent + ConfirmationSpan => shownLate)
      BY <1>2
    <3>3. orders' = [orders EXCEPT ![c].status = s, ![c].late = shownLate]
      BY <3>1
    <3> HIDE DEF shownLate
    <3>4. /\ orders' \in [OrderCloids -> OrderRecords]
          /\ orders'[c].status = s /\ orders'[c].sent = orders[c].sent
          /\ (orders'[c].late <=> shownLate)
          /\ \A d \in OrderCloids : d # c => orders'[d] = orders[d]
      BY <1>2, <3>2, <3>3 DEF OrderRecords, OrderStatuses
    <3> QED BY <2>1, <3>2, <3>4
  <2>2. CASE /\ orders[c].status = "travelling"
             /\ orders' = [orders EXCEPT ![c].status = "lost"]
    BY <1>2, <2>2 DEF OrderRecords, OrderStatuses
  <2>3. CASE /\ orders[c].status = "open"
             /\ orders' = [orders EXCEPT ![c].status = "cancelled"]
    BY <1>2, <2>3 DEF OrderRecords, OrderStatuses
  <2>4. CASE /\ orders[c].status = "open"
             /\ orders' = [orders EXCEPT ![c].filled = @ + 1]
    BY <1>2, <2>4 DEF OrderRecords, OrderStatuses
  <2>5. CASE /\ orders[c].status = "open"
             /\ orders' = [orders EXCEPT ![c].filled = @ + 1, ![c].status = "filled"]
    BY <1>2, <2>5 DEF OrderRecords, OrderStatuses
  <2> QED BY <1>1, <2>1, <2>2, <2>3, <2>4, <2>5
<1>4. Types'
  BY <1>1, <1>3 DEF LifeInv, Types
<1>5. SentBefore'
  BY <1>1, <1>3 DEF LifeInv, SentBefore
<1>6. \A d \in OrderCloids : Gone(d) => Gone(d)'
  <2>1. Gone(c) => Gone(c)'
    BY <1>1, <1>2, <1>3 DEF Gone, Hidden, ConfirmationSpan
  <2>2. \A d \in OrderCloids : d # c /\ Gone(d) => Gone(d)'
    BY <1>1, <1>3 DEF Gone, ConfirmationSpan
  <2> QED BY <2>1, <2>2
<1>7. \A d \in OrderCloids, t \in Nat : Missing(d, t) => Missing(d, t)'
  <2>1. ASSUME NEW t \in Nat, Missing(c, t) PROVE Missing(c, t)'
    <3>1. t <= lifeClock
      BY <2>1 DEF Missing
    <3>2. t >= orders[c].sent + ConfirmationSpan => lifeClock >= orders[c].sent + ConfirmationSpan
      BY <1>2, <3>1
    <3> QED BY <1>1, <1>2, <1>3, <2>1, <3>1, <3>2 DEF Missing, Hidden, ConfirmationSpan
  <2>2. \A d \in OrderCloids, t \in Nat : d # c /\ Missing(d, t) => Missing(d, t)'
    BY <1>1, <1>3 DEF Missing, ConfirmationSpan
  <2> QED BY <2>1, <2>2
<1>8. AnswersAreTrue'
  <2> SUFFICES ASSUME NEW d \in OrderCloids, NEW i \in DOMAIN lookups[d],
                      lookups[d][i].kind = "NotFound"
               PROVE  Missing(d, lookups[d][i].at)'
    BY <1>1 DEF AnswersAreTrue, Missing
  <2>1. lookups[d][i].at \in Nat
    <3>1. lookups[d] \in Seq(Answers)
      BY DEF LifeInv, Types
    <3>2. lookups[d][i] \in Answers
      BY <3>1
    <3> QED BY <3>2 DEF Answers
  <2>2. Missing(d, lookups[d][i].at)
    BY DEF LifeInv, AnswersAreTrue
  <2>3. \A t \in Nat : Missing(d, t) => Missing(d, t)'
    BY <1>7
  <2> QED BY <1>1, <2>1, <2>2, <2>3 DEF Missing
<1>9. StatesAreTrue'
  <2>1. \A d \in OrderCloids :
          /\ orders'[d].sent = orders[d].sent
          /\ orders[d].status # "unsent" => orders'[d].status # "unsent"
    BY <1>3
  <2>2. DOMAIN lifecycles \subseteq OrderCloids
    BY DEF LifeInv, Types
  <2> QED BY <1>1, <1>6, <2>1, <2>2 DEF LifeInv, StatesAreTrue
<1>10. EarlierAreGone'
  <2>1. \A d \in OrderCloids : orders'[d].status # "unsent" => orders[d].status # "unsent"
    BY <1>3
  <2> QED BY <1>1, <1>6, <2>1 DEF LifeInv, EarlierAreGone
<1> QED BY <1>4, <1>5, <1>8, <1>9, <1>10 DEF LifeInv

\* A lookup finds what the exchange shows: a not-found answer is true now.
LEMMA LookupKeeps == LifeInv /\ Lookup => LifeInv'
PROOF
<1> SUFFICES ASSUME LifeInv, Lookup PROVE LifeInv' OBVIOUS
<1>1. PICK c \in OrderCloids :
        /\ orders[c].status # "unsent"
        /\ lookups' = [lookups EXCEPT ![c] = Append(@,
             [at |-> lifeClock, filled |-> orders[c].filled,
              kind |-> CASE orders[c].status \in {"travelling", "lost"} -> "NotFound"
                         [] orders[c].status = "open" -> "Open"
                         [] orders[c].status = "filled" -> "Filled"
                         [] orders[c].status = "cancelled" -> "Cancelled"
                         [] orders[c].status = "rejected" -> "Rejected"])]
        /\ UNCHANGED <<lifeClock, lifecycles, blockedAssets, orders>>
  BY DEF Lookup
<1> DEFINE shown == CASE orders[c].status \in {"travelling", "lost"} -> "NotFound"
                      [] orders[c].status = "open" -> "Open"
                      [] orders[c].status = "filled" -> "Filled"
                      [] orders[c].status = "cancelled" -> "Cancelled"
                      [] orders[c].status = "rejected" -> "Rejected"
           answer == [at |-> lifeClock, filled |-> orders[c].filled, kind |-> shown]
<1>2. /\ orders[c] \in OrderRecords
      /\ lookups[c] \in Seq(Answers) /\ lifeClock \in Nat
  BY DEF LifeInv, Types
<1>3. /\ shown \in {"NotFound", "Open", "Filled", "Cancelled", "Rejected"}
      /\ shown = "NotFound" => orders[c].status \in {"travelling", "lost"}
  BY <1>1, <1>2 DEF OrderRecords, OrderStatuses
<1> HIDE DEF shown
<1>4. answer \in Answers /\ answer.at = lifeClock /\ answer.kind = shown
  BY <1>2, <1>3 DEF Answers, OrderRecords
<1>5. lookups' = [lookups EXCEPT ![c] = Append(@, answer)]
  BY <1>1 DEF shown
<1> HIDE DEF answer
<1>6. Types'
  <2>1. Append(lookups[c], answer) \in Seq(Answers)
    BY <1>2, <1>4
  <2>2. lookups' \in [OrderCloids -> Seq(Answers)]
    BY <1>5, <2>1 DEF LifeInv, Types
  <2> QED BY <1>1, <2>2 DEF LifeInv, Types
<1>7. AnswersAreTrue'
  <2> SUFFICES ASSUME NEW d \in OrderCloids, NEW i \in DOMAIN lookups'[d],
                      lookups'[d][i].kind = "NotFound"
               PROVE  Missing(d, lookups'[d][i].at)
    BY <1>1 DEF AnswersAreTrue, Missing
  <2>1. CASE d = c /\ i = Len(lookups[c]) + 1
    <3>1. lookups'[d][i] = answer
      BY <1>2, <1>4, <1>5, <2>1 DEF LifeInv, Types
    <3>2. orders[c].status \in Hidden
      BY <1>3, <1>4, <3>1 DEF Hidden
    <3> QED BY <1>1, <1>2, <1>4, <2>1, <3>1, <3>2 DEF Missing
  <2>2. CASE ~(d = c /\ i = Len(lookups[c]) + 1)
    <3>1. i \in DOMAIN lookups[d] /\ lookups'[d][i] = lookups[d][i]
      BY <1>2, <1>4, <1>5, <2>2 DEF LifeInv, Types
    <3> QED BY <3>1 DEF LifeInv, AnswersAreTrue
  <2> QED BY <2>1, <2>2
<1>8. /\ SentBefore' /\ \A d : Gone(d)' <=> Gone(d)
  BY <1>1, ExchangeRests DEF LifeInv
<1>9. StatesAreTrue' /\ EarlierAreGone'
  BY <1>1, <1>8 DEF LifeInv, StatesAreTrue, EarlierAreGone
<1> QED BY <1>6, <1>7, <1>8, <1>9 DEF LifeInv

\* Time passes: what was gone stays so.
LEMMA TickKeeps == LifeInv /\ LifeTick => LifeInv'
PROOF
<1> SUFFICES ASSUME LifeInv, LifeTick PROVE LifeInv' OBVIOUS
<1>1. /\ lifeClock \in Nat /\ lifeClock' = lifeClock + 1 /\ ConfirmationSpan \in Int
      /\ \A c \in OrderCloids : orders[c].sent \in Nat
      /\ UNCHANGED <<lifecycles, blockedAssets, orders, lookups>>
  BY LifecycleAssumption DEF LifeInv, Types, LifeTick, OrderRecords, ConfirmationSpan
<1>2. Types' /\ SentBefore'
  BY <1>1 DEF LifeInv, Types, SentBefore
<1>3. AnswersAreTrue'
  <2> SUFFICES ASSUME NEW c \in OrderCloids, NEW i \in DOMAIN lookups[c],
                      lookups[c][i].kind = "NotFound"
               PROVE  Missing(c, lookups[c][i].at)'
    BY DEF LifeTick, AnswersAreTrue
  <2>1. lookups[c][i].at \in Nat
    <3>1. lookups[c] \in Seq(Answers)
      BY DEF LifeInv, Types
    <3>2. lookups[c][i] \in Answers
      BY <3>1
    <3> QED BY <3>2 DEF Answers
  <2>2. Missing(c, lookups[c][i].at)
    BY DEF LifeInv, AnswersAreTrue
  <2> QED BY <1>1, <2>1, <2>2 DEF Missing, ConfirmationSpan
<1>4. \A c \in OrderCloids : Gone(c) => Gone(c)'
  <2> SUFFICES ASSUME NEW c \in OrderCloids, Gone(c) PROVE Gone(c)'
    OBVIOUS
  <2>1. lifeClock >= orders[c].sent + ConfirmationSpan =>
          lifeClock + 1 >= orders[c].sent + ConfirmationSpan
    BY <1>1
  <2> QED BY <1>1, <2>1 DEF Gone, ConfirmationSpan
<1>5. StatesAreTrue'
  <2>1. DOMAIN lifecycles \subseteq OrderCloids
    BY DEF LifeInv, Types
  <2> QED BY <1>1, <1>4, <2>1 DEF LifeInv, StatesAreTrue
<1>6. EarlierAreGone'
  BY <1>1, <1>4 DEF LifeInv, EarlierAreGone
<1> QED BY <1>2, <1>3, <1>5, <1>6 DEF LifeInv

\* Removing an element leaves a sequence of the others.
LEMMA Removed ==
  ASSUME NEW S, NEW q \in Seq(S), NEW i \in DOMAIN q
  PROVE  /\ RemoveAt(q, i) \in Seq(S)
         /\ \A j \in DOMAIN RemoveAt(q, i) : \E k \in DOMAIN q : RemoveAt(q, i)[j] = q[k]
PROOF
<1>1. i \in 1..Len(q) /\ Len(q) \in Nat /\ DOMAIN q = 1..Len(q)
  OBVIOUS
<1> DEFINE u == SubSeq(q, 1, i - 1)
           v == SubSeq(q, i + 1, Len(q))
<1>2. /\ u \in Seq(S) /\ Len(u) = i - 1
      /\ \A j \in 1..(i - 1) : u[j] = q[j]
  BY <1>1, SMTT(30)
<1>3. /\ v \in Seq(S) /\ Len(v) = Len(q) - i
      /\ \A j \in 1..(Len(q) - i) : v[j] = q[i + j]
  BY <1>1, SMTT(30)
<1> HIDE DEF u, v
<1>4. RemoveAt(q, i) = u \o v
  BY DEF RemoveAt, u, v
<1>5. /\ u \o v \in Seq(S) /\ Len(u \o v) = Len(u) + Len(v)
      /\ \A j \in 1..(Len(u) + Len(v)) :
           (u \o v)[j] = IF j <= Len(u) THEN u[j] ELSE v[j - Len(u)]
  <2>1. u \in Seq(S) /\ v \in Seq(S)
    BY <1>2, <1>3
  <2> QED BY <2>1
<1>6. ASSUME NEW j \in DOMAIN (u \o v) PROVE \E k \in DOMAIN q : (u \o v)[j] = q[k]
  <2>1. j \in 1..(Len(u) + Len(v))
    BY <1>5
  <2>2. CASE j <= Len(u)
    <3>1. j \in DOMAIN q /\ (u \o v)[j] = q[j]
      BY <1>1, <1>2, <1>5, <2>1, <2>2
    <3> QED BY <3>1
  <2>3. CASE ~(j <= Len(u))
    <3> DEFINE k == j - Len(u)
    <3>1. k \in 1..(Len(q) - i)
      <4>1. /\ j \in Int /\ Len(u) \in Int /\ Len(q) - i \in Int
            /\ Len(v) = Len(q) - i /\ j <= Len(u) + Len(v)
        BY <1>1, <1>2, <1>3, <2>1
      <4> QED BY <2>3, <4>1
    <3>3. i + k \in 1..Len(q)
      BY <1>1, <3>1
    <3>2. (u \o v)[j] = v[k] /\ v[k] = q[i + k]
      BY <1>3, <1>5, <2>1, <2>3, <3>1
    <3> QED BY <1>1, <3>2, <3>3
  <2> QED BY <2>2, <2>3
<1> QED BY <1>4, <1>5, <1>6

\* An answer settles an order as not found only when it is gone: it was taken at
\* least the span of the confirmations after the order was sent.
LEMMA SettledIsGone ==
  ASSUME LifeInv, NEW c \in DOMAIN lifecycles, NEW t \in Nat,
         lifecycles[c].kind = "SubmissionUnknown", Missing(c, t), t >= lifecycles[c].first,
         lifecycles[c].confirmations # <<>> =>
           t >= lifecycles[c].confirmations[Len(lifecycles[c].confirmations)] + ConfirmationInterval
  PROVE  /\ t >= lifecycles[c].first + Len(lifecycles[c].confirmations) * ConfirmationInterval
         /\ Len(lifecycles[c].confirmations) + 1 >= RequiredConfirmations => Gone(c)
PROOF
<1> DEFINE seen == lifecycles[c].confirmations
           first == lifecycles[c].first
           n == Len(seen)
<1>1. /\ first \in Nat /\ seen \in Seq(Nat) /\ n \in Nat
      /\ first >= orders[c].sent /\ Spaced(lifecycles[c])
      /\ orders[c].sent \in Nat /\ lifeClock \in Nat
  BY StateKinds DEF LifeInv, Types, StatesAreTrue, UnknownStates, OrderRecords
<1> HIDE DEF seen, first, n
<1>2. t >= first + n * ConfirmationInterval
  <2>1. CASE seen = <<>>
    <3>1. n = 0 /\ 0 * ConfirmationInterval = 0
      BY <2>1, LifecycleAssumption DEF n
    <3> QED BY <1>1, <3>1 DEF first
  <2>2. CASE seen # <<>>
    <3>1. n \in DOMAIN seen /\ seen[n] \in Nat /\ n - 1 \in Int /\ (n - 1) + 1 = n
      <4>1. seen \in Seq(Nat) /\ n \in Nat
        BY <1>1
      <4>2. n = Len(seen) /\ n > 0
        BY <4>1, <2>2 DEF n
      <4> QED BY <4>1, <4>2
    <3>2. seen[n] >= first + (n - 1) * ConfirmationInterval
      BY <1>1, <3>1 DEF Spaced, seen, first
    <3>3. /\ (n - 1) * ConfirmationInterval \in Int
          /\ (n - 1) * ConfirmationInterval + ConfirmationInterval = n * ConfirmationInterval
      <4>1. /\ (n - 1) * ConfirmationInterval \in Int
            /\ (n - 1) * ConfirmationInterval + ConfirmationInterval
                 = ((n - 1) + 1) * ConfirmationInterval
        BY <3>1, NextMultiple
      <4> QED BY <3>1, <4>1
    <3>4. t >= seen[n] + ConfirmationInterval
      BY <2>2 DEF seen, n
    <3>5. ConfirmationInterval \in Nat
      BY LifecycleAssumption
    <3> DEFINE k == ConfirmationInterval
               before == (n - 1) * ConfirmationInterval
               all == n * ConfirmationInterval
               last == seen[n]
    <3>6. /\ k \in Nat /\ before \in Int /\ before + k = all /\ last \in Nat
          /\ last >= first + before /\ t >= last + k /\ first \in Nat /\ t \in Nat
      BY <1>1, <3>1, <3>2, <3>3, <3>4, <3>5
    <3> HIDE DEF k, before, all, last
    <3>7. t >= first + all
      BY <3>6
    <3> QED BY <3>7 DEF all
  <2> QED BY <2>1, <2>2
<1>3. ASSUME n + 1 >= RequiredConfirmations PROVE Gone(c)
  <2>1. ConfirmationSpan <= n * ConfirmationInterval
    BY <1>1, <1>3, MoreIntervals, LifecycleAssumption DEF ConfirmationSpan
  <2>2. n * ConfirmationInterval \in Int /\ ConfirmationSpan \in Int
    BY <1>1, LifecycleAssumption DEF ConfirmationSpan
  <2> DEFINE all == n * ConfirmationInterval
             sent == orders[c].sent
             span == ConfirmationSpan
             now == lifeClock
  <2>3. t <= now
    BY DEF Missing
  <2>4. /\ all \in Int /\ span \in Int /\ span <= all /\ t >= first + all /\ t \in Nat
        /\ first \in Nat /\ sent \in Nat /\ first >= sent /\ now \in Nat /\ t <= now
    BY <1>1, <1>2, <2>1, <2>2, <2>3
  <2> HIDE DEF all, sent, span, now
  <2>5. t >= sent + span /\ now >= sent + span
    BY <2>4
  <2> QED BY <2>5 DEF Missing, Gone, sent, span, now
<1> QED BY <1>2, <1>3 DEF seen, first, n

\* One more confirmation, an interval after the last.
LEMMA OneMore ==
  ASSUME NEW s \in UnknownStates, Spaced(s), NEW t \in Nat,
         t >= s.first + Len(s.confirmations) * ConfirmationInterval
  PROVE  Spaced(UnknownSince(s.first, Append(s.confirmations, t)))
PROOF
<1> DEFINE seen == s.confirmations
           new == UnknownSince(s.first, Append(seen, t))
<1>1. seen \in Seq(Nat) /\ Len(seen) \in Nat
  BY DEF UnknownStates
<1>2. new.first = s.first /\ new.confirmations = Append(seen, t)
  BY DEF UnknownSince
<1>3. /\ DOMAIN Append(seen, t) = 1..(Len(seen) + 1) /\ DOMAIN seen = 1..Len(seen)
      /\ Append(seen, t)[Len(seen) + 1] = t
      /\ \A n \in 1..Len(seen) : Append(seen, t)[n] = seen[n]
  BY <1>1
<1> HIDE DEF new
<1> SUFFICES ASSUME NEW n \in 1..(Len(seen) + 1)
             PROVE  Append(seen, t)[n] >= s.first + (n - 1) * ConfirmationInterval
  BY <1>2, <1>3 DEF Spaced, new
<1>4. CASE n = Len(seen) + 1
  <2>1. n - 1 = Len(seen)
    BY <1>1, <1>4
  <2> QED BY <1>3, <1>4, <2>1
<1>5. CASE n # Len(seen) + 1
  <2>1. n \in 1..Len(seen)
    BY <1>1, <1>5
  <2> QED BY <1>3, <2>1 DEF Spaced
<1> QED BY <1>4, <1>5

\* The registry applies an answer (apply): every state it makes is true.
LEMMA AnswerKeeps == LifeInv /\ ApplyAnswer => LifeInv'
PROOF
<1> SUFFICES ASSUME LifeInv, ApplyAnswer PROVE LifeInv' OBVIOUS
<1>1. PICK c \in OrderCloids : \E i \in DOMAIN lookups[c] :
        /\ lookups' = [lookups EXCEPT ![c] = RemoveAt(@, i)]
        /\ IF c \notin DOMAIN lifecycles THEN UNCHANGED <<lifecycles, blockedAssets>>
           ELSE LET outcome == ApplyObservation(lifecycles[c], lookups[c][i])
                IN  /\ lifecycles' = [lifecycles EXCEPT ![c] = outcome.state]
                    /\ blockedAssets' = IF outcome.error = "ReconciliationConflict"
                                        THEN blockedAssets \cup {AssetOf[c[1]]} ELSE blockedAssets
        /\ UNCHANGED <<lifeClock, orders>>
  BY DEF ApplyAnswer
<1>2. PICK i \in DOMAIN lookups[c] :
        /\ lookups' = [lookups EXCEPT ![c] = RemoveAt(@, i)]
        /\ c \notin DOMAIN lifecycles => lifecycles' = lifecycles
        /\ c \in DOMAIN lifecycles =>
             lifecycles' = [lifecycles EXCEPT ![c] =
                              ApplyObservation(lifecycles[c], lookups[c][i]).state]
        /\ UNCHANGED <<lifeClock, orders>>
  BY <1>1
<1> DEFINE o == lookups[c][i]
           new == ApplyObservation(lifecycles[c], o).state
<1>3. lookups[c] \in Seq(Answers) /\ o \in Answers
  BY DEF LifeInv, Types
<1>4. /\ RemoveAt(lookups[c], i) \in Seq(Answers)
      /\ \A j \in DOMAIN RemoveAt(lookups[c], i) : \E k \in DOMAIN lookups[c] :
           RemoveAt(lookups[c], i)[j] = lookups[c][k]
  BY <1>3, Removed
<1>5. lookups' \in [OrderCloids -> Seq(Answers)]
  BY <1>2, <1>4 DEF LifeInv, Types
<1>6. \A d \in OrderCloids : \A j \in DOMAIN lookups'[d] : \E k \in DOMAIN lookups[d] :
        lookups'[d][j] = lookups[d][k]
  BY <1>2, <1>4 DEF LifeInv, Types
<1>7. SentBefore' /\ \A d : Gone(d)' <=> Gone(d)
  BY <1>2, ExchangeRests DEF LifeInv
<1>8. AnswersAreTrue'
  <2> SUFFICES ASSUME NEW d \in OrderCloids, NEW j \in DOMAIN lookups'[d],
                      lookups'[d][j].kind = "NotFound"
               PROVE  Missing(d, lookups'[d][j].at)
    BY <1>2 DEF AnswersAreTrue, Missing, ConfirmationSpan
  <2>1. PICK k \in DOMAIN lookups[d] : lookups'[d][j] = lookups[d][k]
    BY <1>6
  <2> QED BY <2>1 DEF LifeInv, AnswersAreTrue
<1>9. CASE c \notin DOMAIN lifecycles
  <2>1. UNCHANGED <<lifeClock, orders, lifecycles>>
    BY <1>2, <1>9
  <2>2. Types'
    BY <1>5, <2>1 DEF LifeInv, Types
  <2>3. StatesAreTrue' /\ EarlierAreGone'
    BY <1>7, <2>1 DEF LifeInv, StatesAreTrue, EarlierAreGone
  <2> QED BY <1>7, <1>8, <2>2, <2>3 DEF LifeInv
<1>10. CASE c \in DOMAIN lifecycles
  <2> DEFINE s == lifecycles[c]
  <2>1. /\ lifecycles' = [lifecycles EXCEPT ![c] = new]
        /\ UNCHANGED <<lifeClock, orders>>
    BY <1>2, <1>10
  <2>2. s \in States
    BY <1>10 DEF LifeInv, Types
  <2>3. /\ new \in States
        /\ \/ new = s
           \/ new.kind \notin {"ActionPlanned", "AwaitingFutureSubmission",
                               "SubmissionUnknown", "ReconciledNotFound"}
           \/ /\ s.kind = "SubmissionUnknown" /\ o.kind = "NotFound" /\ o.at >= s.first
              /\ s.confirmations # <<>> =>
                   o.at >= s.confirmations[Len(s.confirmations)] + ConfirmationInterval
              /\ \/ new = NotFound /\ Len(s.confirmations) + 1 >= RequiredConfirmations
                 \/ new = UnknownSince(s.first, Append(s.confirmations, o.at))
    BY <1>3, <2>2, AnswerStep
  <2> HIDE DEF new
  <2>4. /\ DOMAIN lifecycles' = DOMAIN lifecycles /\ lifecycles'[c] = new
        /\ \A d \in DOMAIN lifecycles : d # c => lifecycles'[d] = lifecycles[d]
        /\ lifecycles' \in [DOMAIN lifecycles -> States]
    BY <1>10, <2>1, <2>3 DEF LifeInv, Types
  <2>5. Types'
    BY <1>5, <2>1, <2>4 DEF LifeInv, Types
  <2>6. EarlierAreGone'
    BY <1>7, <2>1, <2>4 DEF LifeInv, EarlierAreGone
  <2>7. /\ new.kind = "SubmissionUnknown" =>
             /\ orders[c].status # "unsent" /\ new.first >= orders[c].sent /\ Spaced(new)
        /\ new.kind = "ReconciledNotFound" => Gone(c)
    <3>1. CASE new = s
      BY <1>10, <3>1 DEF LifeInv, StatesAreTrue
    <3>2. CASE new.kind \notin {"ActionPlanned", "AwaitingFutureSubmission",
                                "SubmissionUnknown", "ReconciledNotFound"}
      BY <3>2
    <3>3. CASE /\ s.kind = "SubmissionUnknown" /\ o.kind = "NotFound" /\ o.at >= s.first
               /\ s.confirmations # <<>> =>
                    o.at >= s.confirmations[Len(s.confirmations)] + ConfirmationInterval
               /\ \/ new = NotFound /\ Len(s.confirmations) + 1 >= RequiredConfirmations
                  \/ new = UnknownSince(s.first, Append(s.confirmations, o.at))
      <4>1. s \in UnknownStates /\ o.at \in Nat
        BY <1>3, <2>2, <3>3, StateKinds DEF Answers
      <4>2. Missing(c, o.at)
        BY <3>3 DEF LifeInv, AnswersAreTrue
      <4>3. /\ o.at >= s.first + Len(s.confirmations) * ConfirmationInterval
            /\ Len(s.confirmations) + 1 >= RequiredConfirmations => Gone(c)
        BY <1>10, <3>3, <4>1, <4>2, SettledIsGone
      <4>4. orders[c].status # "unsent" /\ s.first >= orders[c].sent /\ Spaced(s)
        BY <1>10, <3>3 DEF LifeInv, StatesAreTrue
      <4>5. CASE new = NotFound /\ Len(s.confirmations) + 1 >= RequiredConfirmations
        BY <4>3, <4>5 DEF NotFound
      <4>6. CASE new = UnknownSince(s.first, Append(s.confirmations, o.at))
        <5>1. Spaced(new)
          BY <4>1, <4>3, <4>4, <4>6, OneMore
        <5>2. new.kind = "SubmissionUnknown" /\ new.first = s.first
          BY <4>6 DEF UnknownSince
        <5> QED BY <4>4, <5>1, <5>2
      <4> QED BY <3>3, <4>5, <4>6
    <3> QED BY <2>3, <3>1, <3>2, <3>3
  <2>8. StatesAreTrue'
    BY <1>7, <2>1, <2>4, <2>7 DEF LifeInv, StatesAreTrue
  <2> QED BY <1>7, <1>8, <2>5, <2>6, <2>8 DEF LifeInv
<1> QED BY <1>9, <1>10

\* Every step keeps the invariant.
LEMMA LifeInvStep == LifeInv /\ [LifecycleNext]_lifeVars => LifeInv'
PROOF
<1>1. LifeInv /\ UNCHANGED lifeVars => LifeInv'
  <2> SUFFICES ASSUME LifeInv, UNCHANGED lifeVars PROVE LifeInv'
    OBVIOUS
  <2>1. UNCHANGED <<lifeClock, lifecycles, blockedAssets, orders, lookups>>
    BY DEF lifeVars
  <2>2. SentBefore' /\ AnswersAreTrue' /\ \A d : Gone(d)' <=> Gone(d)
    BY <2>1, ExchangeRests DEF LifeInv
  <2> QED BY <2>1, <2>2 DEF LifeInv, Types, StatesAreTrue, EarlierAreGone
<1> QED BY <1>1, EntriesAdded, AwaitKeeps, SubmitKeeps, AnswerKeeps, ExchangeKeeps, LookupKeeps,
           TickKeeps DEF LifecycleNext

-----------------------------------------------------------------------------
\* What the registry says of an order is true of the exchange, for any delay of
\* an order and of its answers: one settled as not found is lost, or has not
\* shown for the span of the confirmations, or showed late; and every not-found
\* answer that counts or may still arrive was true when it was taken, also when
\* an entry was compacted and its CLOID planned again (lifecycle.rs, apply).
THEOREM RegistryIsTrue == LifecycleSpec => [](StatesAreTrue /\ AnswersAreTrue)
PROOF
<1>1. LifeInv => StatesAreTrue /\ AnswersAreTrue
  BY DEF LifeInv
<1> QED BY <1>1, LifeInvInit, LifeInvStep, PTL DEF LifecycleSpec

\* An order of an action stands beside a later one of the same action only if it
\* showed late, the span of the confirmations or more after it was sent: neither
\* reordered answers nor compaction nor a repeated plan can do it
\* (apply_reconciliation_observation, plan_reconciled_retry, insert).
THEOREM OneOrder == LifecycleSpec => []OneOrderPerAction
PROOF
<1>1. LifeInv => OneOrderPerAction
  <2> SUFFICES ASSUME LifeInv, NEW c \in OrderCloids, NEW d \in OrderCloids,
                      c[1] = d[1], c[2] < d[2], orders[d].status # "unsent",
                      orders[c].status \in {"open", "filled", "cancelled"}
               PROVE  orders[c].late
    BY DEF OneOrderPerAction
  <2>1. Gone(c)
    BY DEF LifeInv, EarlierAreGone
  <2> QED BY <2>1 DEF Gone, Hidden
<1> QED BY <1>1, LifeInvInit, LifeInvStep, PTL DEF LifecycleSpec

\* What a step may make of what is known of the order of c.
Learns(c) ==
  LET old == lifecycles[c]
      new == lifecycles'[c]
  IN  /\ old.kind = "ReconciledPartiallyFilled" =>
           \/ new.kind = "ReconciledCancelled"
           \/ /\ new.kind \in {"ReconciledPartiallyFilled", "ReconciledFilled"}
              /\ new.filled >= old.filled
      /\ old.kind \in {"ReconciledFilled", "ReconciledCancelled", "ReconciledRejected"} => new = old

\* No step unlearns a fill or a final outcome.
LEMMA StepLearns ==
  ASSUME LifeInv, LifecycleNext, NEW c \in DOMAIN lifecycles \cap DOMAIN lifecycles'
  PROVE  Learns(c)
PROOF
<1>1. lifecycles[c] \in States
  BY DEF LifeInv, Types
<1>2. ASSUME lifecycles'[c] = lifecycles[c] PROVE Learns(c)
  <2>1. lifecycles[c].kind = "ReconciledPartiallyFilled" => lifecycles[c].filled \in Int
    BY <1>1, StateKinds DEF FilledStates
  <2> QED BY <1>2, <2>1 DEF Learns
<1>3. CASE PlanAction \/ RetryNotFound
  <2>1. PICK d : Entered(d)
    BY <1>3 DEF PlanAction, RetryNotFound
  <2>2. lifecycles'[c] = lifecycles[c]
    BY <2>1 DEF Entered
  <2> QED BY <1>2, <2>2
<1>4. CASE Await \/ SubmitUnknown
  <2>1. PICK d \in DOMAIN lifecycles :
          /\ lifecycles[d] \in {Planned, AwaitingSubmission}
          /\ \E s : lifecycles' = [lifecycles EXCEPT ![d] = s]
    BY <1>4 DEF Await, SubmitUnknown
  <2>2. CASE c = d
    BY <2>1, <2>2 DEF Learns, Planned, AwaitingSubmission
  <2>3. CASE c # d
    BY <1>2, <2>1, <2>3
  <2> QED BY <2>2, <2>3
<1>5. CASE Compact
  <2>1. lifecycles'[c] = lifecycles[c]
    BY <1>5 DEF Compact, Restrict
  <2> QED BY <1>2, <2>1
<1>6. CASE ApplyAnswer
  <2>1. PICK d \in OrderCloids : \E i \in DOMAIN lookups[d] :
          IF d \notin DOMAIN lifecycles THEN lifecycles' = lifecycles
          ELSE lifecycles' = [lifecycles EXCEPT ![d] =
                                ApplyObservation(lifecycles[d], lookups[d][i]).state]
    BY <1>6 DEF ApplyAnswer
  <2>2. CASE c # d \/ d \notin DOMAIN lifecycles
    <3>1. lifecycles'[c] = lifecycles[c]
      BY <2>1, <2>2
    <3> QED BY <1>2, <3>1
  <2>3. CASE c = d /\ d \in DOMAIN lifecycles
    <3>1. PICK i \in DOMAIN lookups[d] :
            lifecycles'[c] = ApplyObservation(lifecycles[c], lookups[d][i]).state
      BY <2>1, <2>3
    <3>2. lookups[d] \in Seq(Answers) /\ lookups[d][i] \in Answers
      BY DEF LifeInv, Types
    <3>3. \/ lifecycles'[c] = lifecycles[c]
          \/ lifecycles[c].kind = "SubmissionUnknown"
          \/ Learns(c)
      BY <1>1, <3>1, <3>2, AnswerStep DEF Learns
    <3> QED BY <1>2, <3>3 DEF Learns
  <2> QED BY <2>2, <2>3
<1>7. CASE ExchangeStep \/ Lookup \/ LifeTick
  BY <1>2, <1>7 DEF ExchangeStep, Lookup, LifeTick
<1> QED BY <1>3, <1>4, <1>5, <1>6, <1>7 DEF LifecycleNext

\* In whichever order answers are applied, fills are not unlearnt and a final
\* outcome is final (reconcile_known_positive).
THEOREM Knowledge == LifecycleSpec => KnowledgeGrows
PROOF
<1>1. LifeInv /\ [LifecycleNext]_lifeVars =>
        [\A c \in DOMAIN lifecycles \cap DOMAIN lifecycles' :
           LET old == lifecycles[c]
               new == lifecycles'[c]
           IN  /\ old.kind = "ReconciledPartiallyFilled" =>
                    \/ new.kind = "ReconciledCancelled"
                    \/ /\ new.kind \in {"ReconciledPartiallyFilled", "ReconciledFilled"}
                       /\ new.filled >= old.filled
               /\ old.kind \in {"ReconciledFilled", "ReconciledCancelled", "ReconciledRejected"} =>
                    new = old]_lifeVars
  BY StepLearns DEF Learns
<1> QED BY <1>1, LifeInvInit, LifeInvStep, PTL DEF LifecycleSpec, KnowledgeGrows

-----------------------------------------------------------------------------
(* Decimals.                                                                 *)

\* x is d from y at most.
Within(x, y, d) == x - y <= d /\ y - x <= d

\* A signed quantity and its magnitude.
LEMMA Signed ==
  ASSUME NEW x \in Int
  PROVE  /\ Amount(x) \in Nat /\ (Amount(x) = 0 <=> x = 0)
         /\ SideOf(x) = 1 => Amount(x) = x
         /\ SideOf(x) = -1 => Amount(x) = -x
         /\ SideOf(x) \in {-1, 0, 1} /\ (SideOf(x) = 0 <=> x = 0)
BY DEF Amount, SideOf

\* What a Decimal holds of a quantity: half a digit away at most, and the
\* quantity itself if that is short or ends in zero.
LEMMA Held ==
  ASSUME NEW n \in Nat
  PROVE  /\ Quotient(n, 1) \in Nat
         /\ n <= MaxMantissa \/ n % 10 = 0 => Quotient(n, 1) = n
         /\ n > MaxMantissa => /\ Quotient(n, 1) % 10 = 0 /\ Within(Quotient(n, 1), n, 5)
                               /\ MaxMantissa <= Quotient(n, 1)
<1> DEFINE q == n \div 10
           r == n % 10
<1>1. q \in Nat /\ r \in 0..9 /\ n = (10 * q) + r
  OBVIOUS
<1>2. Quotient(n, 1) = IF n <= MaxMantissa THEN n
                       ELSE 10 * (IF 2 * r > 10 \/ (2 * r = 10 /\ q % 2 = 1) THEN q + 1 ELSE q)
  <2>1. n \div 1 = n /\ n % 1 = 0 /\ MaxMantissa * 1 = MaxMantissa
    BY LedgerAssumption
  <2>2. Nearest(n, 1) = n
    BY <2>1 DEF Nearest
  <2>3. Nearest(n, 10 * 1) = IF 2 * r > 10 \/ (2 * r = 10 /\ q % 2 = 1) THEN q + 1 ELSE q
    BY DEF Nearest
  <2> QED BY <2>1, <2>2, <2>3 DEF Quotient, Digit
<1>3. MaxMantissa \in Nat /\ MaxMantissa % 10 = 0
  BY LedgerAssumption DEF Digit
<1> HIDE DEF q, r
<1>4. n % 10 = r
  BY DEF r
<1>5. CASE n <= MaxMantissa
  BY <1>2, <1>3, <1>5
<1>6. CASE n > MaxMantissa
  <2> DEFINE m == IF 2 * r > 10 \/ (2 * r = 10 /\ q % 2 = 1) THEN q + 1 ELSE q
  <2>1. Quotient(n, 1) = 10 * m
    BY <1>1, <1>2, <1>3, <1>6
  <2> HIDE DEF m
  <2>7. m \in {q, q + 1} /\ (r < 5 => m = q) /\ (r > 5 => m = q + 1)
    BY <1>1 DEF m
  <2>2. (10 * m) % 10 = 0
    BY <1>1, <2>7
  <2>3. r = 0 => 10 * m = n
    BY <1>1, <2>7
  <2>4. 10 * m \in Nat /\ Within(10 * m, n, 5)
    BY <1>1, <2>7 DEF Within
  <2>5. MaxMantissa <= 10 * m
    <3>1. PICK k \in Nat : MaxMantissa = 10 * k
      <4>1. MaxMantissa = 10 * (MaxMantissa \div 10) /\ MaxMantissa \div 10 \in Nat
        BY <1>3
      <4> QED BY <4>1
    <3> QED BY <1>1, <1>6, <2>7, <3>1
  <2> QED BY <1>3, <1>4, <1>6, <2>1, <2>2, <2>3, <2>4, <2>5
<1> QED BY <1>3, <1>4, <1>5, <1>6

\* The same of a sum, whose sign is kept; rounding twice is rounding once.
LEMMA DecimalNear ==
  ASSUME NEW x \in Int
  PROVE  /\ AsDecimal(x) \in Int /\ Within(AsDecimal(x), x, 5)
         /\ AsDecimal(-x) = -AsDecimal(x)
         /\ x >= 0 => AsDecimal(x) >= 0
         /\ x > 0 => AsDecimal(x) > 0
         /\ x < 0 => AsDecimal(x) < 0
         /\ x = 0 => AsDecimal(x) = 0
         /\ AsDecimal(AsDecimal(x)) = AsDecimal(x)
<1>1. MaxMantissa \in Nat \ {0}
  BY LedgerAssumption
<1>2. ASSUME NEW y \in Int
      PROVE  AsDecimal(y) = IF y > 0 THEN Quotient(y, 1) ELSE IF y < 0 THEN -Quotient(-y, 1) ELSE 0
  <2>1. Amount(y) \in Nat /\ Quotient(Amount(y), 1) \in Nat
    BY Signed, Held
  <2> HIDE DEF Quotient
  <2> QED BY <2>1 DEF AsDecimal, SideOf, Amount
<1>3. CASE x > 0
  <2>1. AsDecimal(x) = Quotient(x, 1) /\ AsDecimal(-x) = -Quotient(x, 1)
    BY <1>2, <1>3
  <2>2. /\ Quotient(x, 1) \in Nat \ {0} /\ Within(Quotient(x, 1), x, 5)
        /\ Quotient(x, 1) <= MaxMantissa \/ Quotient(x, 1) % 10 = 0
    BY <1>1, <1>3, Held DEF Within
  <2>3. Quotient(Quotient(x, 1), 1) = Quotient(x, 1)
    BY <2>2, Held
  <2>4. AsDecimal(Quotient(x, 1)) = Quotient(x, 1)
    BY <1>2, <2>2, <2>3
  <2> QED BY <1>3, <2>1, <2>2, <2>4
<1>4. CASE x < 0
  <2> DEFINE y == -x
  <2>1. y \in Nat \ {0} /\ x = -y
    BY <1>4
  <2>2. AsDecimal(x) = -Quotient(y, 1) /\ AsDecimal(-x) = Quotient(y, 1)
    BY <1>2, <1>4
  <2>3. /\ Quotient(y, 1) \in Nat \ {0} /\ Within(Quotient(y, 1), y, 5)
        /\ Quotient(y, 1) <= MaxMantissa \/ Quotient(y, 1) % 10 = 0
    BY <1>1, <2>1, Held DEF Within
  <2>4. Quotient(Quotient(y, 1), 1) = Quotient(y, 1)
    BY <2>3, Held
  <2>5. AsDecimal(-Quotient(y, 1)) = -Quotient(y, 1)
    BY <1>2, <2>3, <2>4
  <2> HIDE DEF y
  <2> QED BY <1>4, <2>1, <2>2, <2>3, <2>5 DEF Within
<1>5. CASE x = 0
  BY <1>2, <1>5 DEF Within
<1> QED BY <1>3, <1>4, <1>5

\* A quantity that ends in zero, as whole lots do, is kept.
LEMMA WholeKept ==
  ASSUME NEW x \in Int, x % 10 = 0
  PROVE  AsDecimal(x) = x
<1>1. Amount(x) \in Nat /\ Amount(x) % 10 = 0
  BY DEF Amount
<1>2. Quotient(Amount(x), 1) = Amount(x)
  BY <1>1, Held
<1> QED BY <1>1, <1>2 DEF AsDecimal, SideOf, Amount

\* What is left of whole lots after a part of them makes them whole again.
LEMMA RestMakesWhole ==
  ASSUME NEW total \in Nat, total % 20 = 0, NEW part \in Nat,
         AsDecimal(total - part) >= 0
  PROVE  AsDecimal(part + AsDecimal(total - part)) = total
<1> DEFINE rest == AsDecimal(total - part)
           x == total - part
<1>1. x \in Int /\ rest \in Int /\ x >= 0
  BY DecimalNear
<1>2. AsDecimal(total) = total
  <2>1. total % 10 = 0
    OBVIOUS
  <2> QED BY <2>1, WholeKept
<1>3. rest = Quotient(x, 1)
  <2>1. Quotient(x, 1) \in Nat
    BY <1>1, Held
  <2>2. x = 0 => Quotient(x, 1) = 0
    BY Held, LedgerAssumption
  <2> HIDE DEF x, Quotient
  <2> QED BY <1>1, <2>1, <2>2 DEF AsDecimal, SideOf, Amount, rest, x
<1>4. CASE x <= MaxMantissa
  <2>1. rest = x
    BY <1>1, <1>3, <1>4, Held
  <2>2. part + rest = total
    BY <1>1, <2>1
  <2> QED BY <1>2, <2>2
<1>5. CASE x > MaxMantissa
  <2> DEFINE y == part + rest
  <2>1. Within(rest, x, 5)
    BY <1>1, <1>3, <1>5, Held
  <2>2. MaxMantissa \in Nat /\ MaxMantissa % 10 = 0 /\ total > MaxMantissa
    BY <1>5, LedgerAssumption DEF Digit
  <2>3. total >= MaxMantissa + 10
    BY <2>2
  <2> HIDE DEF rest
  <2>4. y \in Nat /\ Within(y, total, 5) /\ y > MaxMantissa
    BY <1>1, <2>1, <2>2, <2>3 DEF Within
  <2> HIDE DEF y
  <2>5. AsDecimal(y) = Quotient(y, 1)
    <3>1. Quotient(y, 1) \in Nat
      BY <2>4, Held
    <3> HIDE DEF Quotient
    <3> QED BY <2>2, <2>4, <3>1 DEF AsDecimal, SideOf, Amount
  <2>6. Quotient(y, 1) = 10 * Nearest(y, 10)
    BY <2>2, <2>4 DEF Quotient, Digit
  <2>7. Nearest(y, 10) = total \div 10
    <3>1. PICK k \in Nat : total = 20 * k
      <4>1. total = 20 * (total \div 20) /\ total \div 20 \in Nat
        OBVIOUS
      <4> QED BY <4>1
    <3>2. PICK j \in {0 - 5, 0 - 4, 0 - 3, 0 - 2, 0 - 1, 0, 1, 2, 3, 4, 5} : y = (20 * k) + j
      <4>1. y - (20 * k) \in (0 - 5)..5
        BY <2>4, <3>1 DEF Within
      <4> QED BY <2>4, <4>1
    <3>3. total \div 10 = 2 * k
      BY <3>1
    <3>4. CASE j >= 0
      <4>1. y \div 10 = 2 * k /\ y % 10 = j /\ (2 * k) % 2 = 0
        BY <3>1, <3>2, <3>4
      <4> QED BY <3>2, <3>3, <4>1 DEF Nearest
    <3>5. CASE j < 0
      <4>1. (2 * k) - 1 \in Nat /\ y = (10 * ((2 * k) - 1)) + (j + 10) /\ j + 10 \in 5..9
        BY <2>4, <3>1, <3>2, <3>5
      <4>2. y \div 10 = (2 * k) - 1 /\ y % 10 = j + 10 /\ ((2 * k) - 1) % 2 = 1
        BY <4>1
      <4> QED BY <3>2, <3>3, <3>5, <4>1, <4>2 DEF Nearest
    <3> QED BY <3>4, <3>5
  <2>8. 10 * (total \div 10) = total
    OBVIOUS
  <2> QED BY <2>5, <2>6, <2>7, <2>8 DEF y, rest
<1>6. MaxMantissa \in Nat
  BY LedgerAssumption
<1> QED BY <1>1, <1>4, <1>5, <1>6

-----------------------------------------------------------------------------
(* Sums over the components.                                                 *)

LEMMA Keys ==
  /\ ComponentCount \in Nat \ {0} /\ Components = 1..ComponentCount
  /\ IsFiniteSet(Components) /\ Components \subseteq Nat \ {0}
<1>1. ComponentCount \in Nat \ {0}
  BY LedgerAssumption
<1>2. IsFiniteSet(1..ComponentCount)
  BY <1>1, FS_Interval
<1> QED BY <1>1, <1>2 DEF Components

LEMMA SumOfIs ==
  ASSUME NEW f \in [ Components -> Int ]
  PROVE  /\ SumOf(f) = SumFunctionOnSet(f, Components)
         /\ Addable(f, Components) /\ SumOf(f) \in Int
<1>1. SumOf(f) = SumFunctionOnSet(f, Components)
  BY DEF SumOf, SumFunction
<1>2. Addable(f, Components)
  BY Keys DEF Addable
<1> QED BY <1>1, <1>2, SumType

\* A sum up to a key, and up to the one before.
LEMMA SumUpTo ==
  ASSUME NEW f \in [ Components -> Int ], NEW n \in 1..ComponentCount
  PROVE  /\ SumFunctionOnSet(f, 1..n) = f[n] + SumFunctionOnSet(f, 1..(n - 1))
         /\ SumFunctionOnSet(f, 1..(n - 1)) \in Int /\ f[n] \in Int
<1>1. Addable(f, Components)
  BY SumOfIs
<1>2. 1..(n - 1) \in SUBSET Components /\ n \in Components \ (1..(n - 1)) /\ (1..(n - 1)) \cup {n} = 1..n
  BY Keys
<1>3. SumGrows(f, 1..(n - 1), n)
  BY <1>1, <1>2, SumMore
<1> QED BY <1>2, <1>3 DEF SumGrows

\* A sum of rounded terms is half a digit off for each of them at most.
LEMMA SumNear ==
  ASSUME NEW f \in [ Components -> Int ], NEW g \in [ Components -> Int ],
         \A c \in Components : Within(f[c], g[c], 5)
  PROVE  Within(SumOf(f), SumOf(g), 5 * ComponentCount)
<1> DEFINE F(n) == SumFunctionOnSet(f, 1..n)
           G(n) == SumFunctionOnSet(g, 1..n)
           S == { n \in 0..ComponentCount : Within(F(n), G(n), 5 * n) }
<1>1. 0 \in S
  <2>1. 1..0 = {}
    OBVIOUS
  <2>2. F(0) = 0 /\ G(0) = 0
    BY <2>1, SumEmpty
  <2> HIDE DEF F, G
  <2> QED BY <2>2, Keys DEF Within
<1>2. ASSUME NEW n \in 1..ComponentCount, n - 1 \in S PROVE n \in S
  <2>1. /\ F(n) = f[n] + F(n - 1) /\ F(n - 1) \in Int /\ f[n] \in Int
        /\ G(n) = g[n] + G(n - 1) /\ G(n - 1) \in Int /\ g[n] \in Int
    BY SumUpTo
  <2>2. Within(f[n], g[n], 5)
    BY Keys
  <2>3. Within(F(n - 1), G(n - 1), 5 * (n - 1))
    BY <1>2
  <2>4. n \in Nat /\ n \in 0..ComponentCount
    BY Keys
  <2> HIDE DEF F, G
  <2>5. Within(F(n), G(n), 5 * n)
    BY <2>1, <2>2, <2>3, <2>4 DEF Within
  <2> QED BY <2>4, <2>5
<1> HIDE DEF S
<1>3. 0..ComponentCount \subseteq S
  BY <1>1, <1>2, Keys, UpToInduction
<1>4. Within(F(ComponentCount), G(ComponentCount), 5 * ComponentCount)
  BY <1>3, Keys DEF S
<1> QED BY <1>4, SumOfIs, Keys

\* F holds the sums up to each key, rounded as they grow.
FoldsTo(F, f) ==
  /\ F \in [ 0..ComponentCount -> Int ] /\ F[0] = 0
  /\ \A n \in 1..ComponentCount : F[n] = AsDecimal(F[n - 1] + f[n])

LEMMA FoldExists ==
  ASSUME NEW f \in [ Components -> Int ]
  PROVE  \E F : FoldsTo(F, f) /\ FoldTotal(f) = F[ComponentCount]
<1> DEFINE N == ComponentCount
           Body(S) == [ n \in 0..N |-> IF n = 0 THEN 0 ELSE AsDecimal(S[n - 1] + f[n]) ]
           F == CHOOSE S : S = Body(S)
           T == [ n \in 1..N |-> [ x \in Int |-> AsDecimal(x + f[n]) ] ]
<1>1. N \in Nat \ {0} /\ \A n \in 1..N : f[n] \in Int
  BY Keys
<1>2. FoldTotal(f) = F[ComponentCount]
  BY DEF FoldTotal
<1>3. T \in [ 1..N -> [ Int -> Int ] ]
  <2>1. \A n \in 1..N : \A x \in Int : AsDecimal(x + f[n]) \in Int
    BY <1>1, DecimalNear
  <2> QED BY <2>1
<1>4. PICK G \in [ 0..N -> Int ] : StepsOf(G, N, 0, T)
  <2> DEFINE X == Int
             start == 0
  <2>1. start \in X /\ T \in [ 1..N -> [ X -> X ] ]
    BY <1>3
  <2>2. \E G \in [ 0..N -> X ] : StepsOf(G, N, start, T)
    <3> HIDE DEF T, N, X, start
    <3> QED BY <1>1, <2>1, RecursionExists
  <2> QED BY <2>2
<1>5. G[0] = 0 /\ \A n \in 1..N : G[n] = AsDecimal(G[n - 1] + f[n])
  <2>1. \A n \in 1..N : n - 1 \in 0..N
    BY <1>1
  <2> HIDE DEF N
  <2> QED BY <1>4, <2>1 DEF StepsOf
<1>6. G = Body(G)
  <2>1. \A n \in 0..N : G[n] = Body(G)[n]
    <3> HIDE DEF N
    <3> QED BY <1>1, <1>5
  <2> HIDE DEF N
  <2> QED BY <2>1
<1>7. F = Body(F)
  <2> HIDE DEF Body
  <2> QED BY <1>6, Zenon
<1> HIDE DEF F
<1>8. F[0] = 0 /\ \A n \in 1..N : F[n] = AsDecimal(F[n - 1] + f[n])
  <2> HIDE DEF N
  <2> QED BY <1>1, <1>7
<1> DEFINE S == { n \in 0..N : F[n] \in Int }
<1>9. 0..N \subseteq S
  <2>1. 0 \in S
    BY <1>1, <1>8
  <2>2. ASSUME NEW n \in 1..N, n - 1 \in S PROVE n \in S
    <3>1. F[n - 1] + f[n] \in Int /\ n \in 0..N
      BY <1>1, <2>2
    <3> QED BY <1>8, <3>1, DecimalNear
  <2> HIDE DEF S, N
  <2> QED BY <1>1, <2>1, <2>2, UpToInduction
<1>10. F \in [ 0..N -> Int ]
  <2> HIDE DEF N
  <2> QED BY <1>7, <1>9
<1> QED BY <1>2, <1>8, <1>10 DEF FoldsTo

\* It is half a digit off for each key at most.
LEMMA FoldNear ==
  ASSUME NEW f \in [ Components -> Int ]
  PROVE  FoldTotal(f) \in Int /\ Within(FoldTotal(f), SumOf(f), 5 * ComponentCount)
<1>1. PICK F : FoldsTo(F, f) /\ FoldTotal(f) = F[ComponentCount]
  BY FoldExists
<1> DEFINE G(n) == SumFunctionOnSet(f, 1..n)
           S == { n \in 0..ComponentCount : Within(F[n], G(n), 5 * n) }
<1>2. 0 \in S
  <2>1. 1..0 = {}
    OBVIOUS
  <2>2. F[0] = 0 /\ G(0) = 0
    BY <1>1, <2>1, SumEmpty DEF FoldsTo
  <2> HIDE DEF G
  <2> QED BY <2>2, Keys DEF Within
<1>3. ASSUME NEW n \in 1..ComponentCount, n - 1 \in S PROVE n \in S
  <2>1. G(n) = f[n] + G(n - 1) /\ G(n - 1) \in Int /\ f[n] \in Int
    BY SumUpTo
  <2>2. n \in Nat /\ n \in 0..ComponentCount /\ n - 1 \in 0..ComponentCount
    BY Keys
  <2>3. F[n - 1] \in Int /\ F[n] = AsDecimal(F[n - 1] + f[n])
    BY <1>1, <2>2 DEF FoldsTo
  <2>4. F[n] \in Int /\ Within(F[n], F[n - 1] + f[n], 5)
    <3> DEFINE x == F[n - 1] + f[n]
    <3>1. x \in Int /\ F[n] = AsDecimal(x)
      BY <2>1, <2>3
    <3> HIDE DEF x
    <3>2. F[n] \in Int /\ Within(F[n], x, 5)
      BY <3>1, DecimalNear
    <3> QED BY <3>2 DEF x
  <2>5. Within(F[n - 1], G(n - 1), 5 * (n - 1))
    BY <1>3
  <2> HIDE DEF G
  <2>6. Within(F[n], G(n), 5 * n)
    BY <2>1, <2>2, <2>3, <2>4, <2>5 DEF Within
  <2> QED BY <2>2, <2>6
<1> HIDE DEF S
<1>4. 0..ComponentCount \subseteq S
  BY <1>2, <1>3, Keys, UpToInduction
<1>5. Within(F[ComponentCount], G(ComponentCount), 5 * ComponentCount)
  BY <1>4, Keys DEF S
<1>6. F[ComponentCount] \in Int
  BY <1>1, Keys DEF FoldsTo
<1>7. SumOf(f) = G(ComponentCount)
  BY SumOfIs, Keys
<1> QED BY <1>1, <1>5, <1>6, <1>7

\* A sum of quantities that are not negative is not, and is not zero when one
\* of them is not.
LEMMA FoldOfNats ==
  ASSUME NEW f \in [ Components -> Nat ]
  PROVE  /\ FoldTotal(f) \in Nat
         /\ \A c \in Components : f[c] > 0 => FoldTotal(f) > 0
<1>1. PICK F : FoldsTo(F, f) /\ FoldTotal(f) = F[ComponentCount]
  BY FoldExists
<1> DEFINE S == { n \in 0..ComponentCount : F[n] \in Nat /\ \A c \in 1..n : f[c] > 0 => F[n] > 0 }
<1>2. 0 \in S
  BY <1>1, Keys DEF FoldsTo
<1>3. ASSUME NEW n \in 1..ComponentCount, n - 1 \in S PROVE n \in S
  <2>1. n \in 0..ComponentCount /\ f[n] \in Nat /\ \A c \in 1..n : c = n \/ c \in 1..(n - 1)
    BY Keys
  <2>2. F[n - 1] \in Nat /\ \A c \in 1..(n - 1) : f[c] > 0 => F[n - 1] > 0
    BY <1>3
  <2>3. F[n] = AsDecimal(F[n - 1] + f[n])
    BY <1>1 DEF FoldsTo
  <2>4. F[n] \in Nat /\ (F[n - 1] + f[n] > 0 => F[n] > 0)
    BY <2>1, <2>2, <2>3, DecimalNear
  <2>5. ASSUME NEW c \in 1..n, f[c] > 0 PROVE F[n] > 0
    <3>1. F[n - 1] + f[n] > 0
      BY <2>1, <2>2, <2>5
    <3> QED BY <2>4, <3>1
  <2> QED BY <2>1, <2>4, <2>5
<1> HIDE DEF S
<1>4. 0..ComponentCount \subseteq S
  BY <1>2, <1>3, Keys, UpToInduction
<1>5. ComponentCount \in S
  BY <1>4, Keys
<1> QED BY <1>1, <1>5, Keys DEF S

\* When the last key is given what makes the total of whole lots, the sum is
\* the total, however the others were rounded.
LEMMA FoldAnchored ==
  ASSUME NEW total \in Nat, total % 20 = 0, NEW g \in [ Components -> Nat ],
         NEW a \in Components, \A c \in Components : c > a => g[c] = 0, g[a] = 0,
         NEW f, f = [ g EXCEPT ![a] = AsDecimal(total - FoldTotal(g)) ],
         AsDecimal(total - FoldTotal(g)) >= 0
  PROVE  f \in [ Components -> Nat ] /\ FoldTotal(f) = total
<1>1. FoldTotal(g) \in Nat
  BY FoldOfNats
<1>2. AsDecimal(total - FoldTotal(g)) \in Nat
  BY <1>1, DecimalNear
<1>3. /\ f \in [ Components -> Nat ] /\ f[a] = AsDecimal(total - FoldTotal(g))
      /\ \A c \in Components : c # a => f[c] = g[c]
  BY <1>2
<1>4. PICK G : FoldsTo(G, g) /\ FoldTotal(g) = G[ComponentCount]
  BY FoldExists
<1>5. PICK F : FoldsTo(F, f) /\ FoldTotal(f) = F[ComponentCount]
  <2>1. f \in [ Components -> Int ]
    BY <1>3
  <2> QED BY <2>1, FoldExists
<1>6. a \in 1..ComponentCount /\ Components = 1..ComponentCount /\ ComponentCount \in Nat \ {0}
  BY Keys
\* Up to the anchor the sums are the same, and from it on g does not grow.
<1> DEFINE S == { n \in 0..ComponentCount : n < a => F[n] = G[n] }
           R == { n \in 0..ComponentCount : n >= a => G[n] = G[a - 1] }
           T == { n \in 0..ComponentCount : n >= a => F[n] = total }
<1>7. ASSUME NEW n \in 1..ComponentCount
      PROVE  /\ F[n] = AsDecimal(F[n - 1] + f[n]) /\ G[n] = AsDecimal(G[n - 1] + g[n])
             /\ F[n - 1] \in Int /\ G[n - 1] \in Int /\ f[n] \in Nat /\ g[n] \in Nat
             /\ n \in 0..ComponentCount /\ n - 1 \in 0..ComponentCount
  <2>1. n \in 0..ComponentCount /\ n - 1 \in 0..ComponentCount
    BY <1>6
  <2> QED BY <1>3, <1>4, <1>5, <1>6, <2>1 DEF FoldsTo
<1>8. AsDecimal(G[a - 1]) = G[a - 1] /\ G[a - 1] \in Int
  <2>1. CASE a = 1
    <3>1. G[a - 1] = 0
      BY <1>4, <2>1 DEF FoldsTo
    <3> QED BY <3>1, DecimalNear
  <2>2. CASE a # 1
    <3>1. a - 1 \in 1..ComponentCount
      BY <1>6, <2>2
    <3> DEFINE b == a - 1
               x == G[b - 1] + g[b]
    <3>2. G[b] = AsDecimal(x) /\ x \in Int
      BY <1>7, <3>1
    <3> HIDE DEF x
    <3> QED BY <3>2, DecimalNear
  <2> QED BY <2>1, <2>2
<1>9. 0..ComponentCount \subseteq R
  <2>1. 0 \in R
    BY <1>6
  <2>2. ASSUME NEW n \in 1..ComponentCount, n - 1 \in R PROVE n \in R
    <3>1. CASE n < a
      BY <1>6, <1>7, <3>1
    <3>2. CASE n >= a
      <4>1. g[n] = 0 /\ G[n - 1] = G[a - 1]
        BY <1>6, <2>2, <3>2
      <4>2. G[n] = AsDecimal(G[a - 1])
        BY <1>7, <1>8, <4>1
      <4> QED BY <1>7, <1>8, <4>2
    <3> QED BY <1>6, <3>1, <3>2
  <2> HIDE DEF R
  <2> QED BY <1>6, <2>1, <2>2, UpToInduction
<1>10. G[a - 1] = FoldTotal(g)
  <2>1. ComponentCount \in R /\ ComponentCount >= a
    BY <1>6, <1>9
  <2> QED BY <1>4, <2>1
<1>11. 0..ComponentCount \subseteq S
  <2>1. 0 \in S
    BY <1>4, <1>5, <1>6 DEF FoldsTo
  <2>2. ASSUME NEW n \in 1..ComponentCount, n - 1 \in S PROVE n \in S
    <3>1. CASE n < a
      <4>1. F[n - 1] = G[n - 1] /\ f[n] = g[n]
        BY <1>3, <1>6, <2>2, <3>1
      <4> QED BY <1>7, <4>1
    <3>2. CASE n >= a
      BY <1>6, <1>7, <3>2
    <3> QED BY <1>6, <3>1, <3>2
  <2> HIDE DEF S
  <2> QED BY <1>6, <2>1, <2>2, UpToInduction
<1>12. F[a] = total
  <2>1. a - 1 \in S /\ a - 1 < a
    BY <1>6, <1>11
  <2>2. F[a - 1] = FoldTotal(g)
    BY <1>10, <2>1
  <2>3. F[a] = AsDecimal(FoldTotal(g) + AsDecimal(total - FoldTotal(g)))
    BY <1>3, <1>6, <1>7, <2>2
  <2> QED BY <1>1, <2>3, RestMakesWhole
<1>13. AsDecimal(total) = total
  <2>1. total % 10 = 0
    OBVIOUS
  <2> QED BY <2>1, WholeKept
<1>14. 0..ComponentCount \subseteq T
  <2>1. 0 \in T
    BY <1>6
  <2>2. ASSUME NEW n \in 1..ComponentCount, n - 1 \in T PROVE n \in T
    <3>1. CASE n < a
      BY <1>6, <1>7, <3>1
    <3>2. CASE n = a
      BY <1>7, <1>12, <3>2
    <3>3. CASE n > a
      <4>1. f[n] = 0 /\ F[n - 1] = total
        BY <1>3, <1>6, <2>2, <3>3
      <4>2. F[n] = AsDecimal(total)
        BY <1>7, <4>1
      <4> QED BY <1>7, <1>13, <4>2
    <3> QED BY <1>6, <3>1, <3>2, <3>3
  <2> HIDE DEF T
  <2> QED BY <1>6, <2>1, <2>2, UpToInduction
<1>15. ComponentCount \in T /\ ComponentCount >= a
  BY <1>6, <1>14
<1> QED BY <1>3, <1>5, <1>15

-----------------------------------------------------------------------------
(* The division of a fill.                                                   *)

\* A finite set of integers has a greatest one.
LEMMA MaxIn ==
  ASSUME NEW S, IsFiniteSet(S), S \subseteq Int, S # {}
  PROVE  Max(S) \in S /\ \A y \in S : Max(S) >= y
<1> DEFINE P == { s \in SUBSET S : s = {} \/ \E x \in s : \A y \in s : x >= y }
<1>1. {} \in P
  OBVIOUS
<1>2. ASSUME NEW s \in SUBSET S, NEW e \in S \ s, s \in P PROVE s \cup {e} \in P
  <2>1. CASE s = {}
    BY <2>1
  <2>2. CASE s # {}
    <3>1. PICK x \in s : \A y \in s : x >= y
      BY <1>2, <2>2
    <3>2. CASE x >= e
      BY <3>1, <3>2
    <3>3. CASE ~(x >= e)
      <4>1. \A y \in s \cup {e} : e >= y
        BY <3>1, <3>3
      <4> QED BY <4>1
    <3> QED BY <3>2, <3>3
  <2> QED BY <2>1, <2>2
<1> HIDE DEF P
<1>3. SUBSET S \subseteq P
  BY <1>1, <1>2, SubsetInduction
<1>4. \E x \in S : \A y \in S : x >= y
  BY <1>3 DEF P
<1> QED BY <1>4 DEF Max

LEMMA QuotientTyped ==
  ASSUME NEW n \in Nat, NEW d \in Nat \ {0}
  PROVE  Quotient(n, d) \in Nat
<1>1. ASSUME NEW e \in Nat \ {0} PROVE Nearest(n, e) \in Nat
  <2>1. n \div e \in Nat
    OBVIOUS
  <2> QED BY <2>1 DEF Nearest
<1>2. Digit * d \in Nat \ {0}
  BY DEF Digit
<1>3. Nearest(n, d) \in Nat /\ Nearest(n, Digit * d) \in Nat
  BY <1>1, <1>2
<1> QED BY <1>3 DEF Quotient, Digit

\* The shares are quantities, and none for who has no weight
\* (proportional_allocations).
LEMMA ProportionalTyped ==
  ASSUME NEW total \in Nat, NEW w \in [ Components -> Nat ]
  PROVE  /\ Proportional(total, w) \in [ Components -> Nat ]
         /\ \A c \in Components : w[c] = 0 => Proportional(total, w)[c] = 0
<1> DEFINE N == ComponentCount
           keys == { c \in Components : w[c] > 0 }
           Share(c, left) == IF c \notin keys THEN 0
                             ELSE IF c = Max(keys) THEN left
                             ELSE Lesser(Quotient(total * w[c], FoldTotal(w)), left)
           Body(S) == [ n \in 0..N |-> IF n = 0 THEN total ELSE AsDecimal(S[n - 1] - Share(n, S[n - 1])) ]
           F == CHOOSE S : S = Body(S)
           T == [ n \in 1..N |-> [ x \in Nat |-> AsDecimal(x - Share(n, x)) ] ]
<1>1. N \in Nat \ {0} /\ Components = 1..N
  BY Keys
<1>2. Proportional(total, w) = [ c \in Components |-> Share(c, F[c - 1]) ]
  BY DEF Proportional
<1>3. ASSUME NEW c \in Components, NEW x \in Nat
      PROVE  Share(c, x) \in Nat /\ Share(c, x) <= x /\ (w[c] = 0 => Share(c, x) = 0)
  <2>1. CASE c \notin keys
    BY <2>1
  <2>2. CASE c \in keys
    <3>1. total * w[c] \in Nat /\ w[c] > 0
      BY <2>2
    <3>2. FoldTotal(w) \in Nat \ {0}
      BY <2>2, FoldOfNats
    <3>3. Quotient(total * w[c], FoldTotal(w)) \in Nat
      BY <3>1, <3>2, QuotientTyped
    <3> HIDE DEF keys
    <3> QED BY <2>2, <3>1, <3>3 DEF Lesser
  <2> QED BY <2>1, <2>2
<1> HIDE DEF Share
<1>4. T \in [ 1..N -> [ Nat -> Nat ] ]
  <2>1. ASSUME NEW n \in 1..N, NEW x \in Nat PROVE AsDecimal(x - Share(n, x)) \in Nat
    <3>1. Share(n, x) \in Nat /\ Share(n, x) <= x
      <4>1. n \in Components
        BY <1>1
      <4> QED BY <1>3, <4>1
    <3>2. x - Share(n, x) \in Nat
      BY <3>1
    <3> QED BY <3>2, DecimalNear
  <2> QED BY <2>1
<1>5. PICK G \in [ 0..N -> Nat ] : StepsOf(G, N, total, T)
  <2> DEFINE X == Nat
  <2>1. total \in X /\ T \in [ 1..N -> [ X -> X ] ]
    BY <1>4
  <2>2. \E G \in [ 0..N -> X ] : StepsOf(G, N, total, T)
    <3> HIDE DEF T, N, X
    <3> QED BY <1>1, <2>1, RecursionExists
  <2> QED BY <2>2
<1>6. G[0] = total /\ \A n \in 1..N : G[n] = AsDecimal(G[n - 1] - Share(n, G[n - 1]))
  <2>1. \A n \in 1..N : n - 1 \in 0..N
    BY <1>1
  <2> HIDE DEF N
  <2> QED BY <1>5, <2>1 DEF StepsOf
<1>7. G = Body(G)
  <2>1. \A n \in 0..N : G[n] = Body(G)[n]
    <3> HIDE DEF N
    <3> QED BY <1>1, <1>6
  <2> HIDE DEF N
  <2> QED BY <2>1
<1>8. F = Body(F)
  <2> HIDE DEF Body
  <2> QED BY <1>7, Zenon
<1> HIDE DEF F
<1>9. F[0] = total /\ \A n \in 1..N : F[n] = AsDecimal(F[n - 1] - Share(n, F[n - 1]))
  <2> HIDE DEF N
  <2> QED BY <1>1, <1>8
<1> DEFINE S == { n \in 0..N : F[n] \in Nat }
<1>10. 0..N \subseteq S
  <2>1. 0 \in S
    BY <1>1, <1>9
  <2>2. ASSUME NEW n \in 1..N, n - 1 \in S PROVE n \in S
    <3> DEFINE x == F[n - 1] - Share(n, F[n - 1])
    <3>1. x \in Nat /\ n \in 0..N /\ F[n] = AsDecimal(x)
      <4>1. n \in Components /\ n \in 0..N /\ F[n - 1] \in Nat
        BY <1>1, <2>2
      <4>2. Share(n, F[n - 1]) \in Nat /\ Share(n, F[n - 1]) <= F[n - 1]
        BY <1>3, <4>1
      <4> QED BY <1>9, <4>1, <4>2
    <3> HIDE DEF x
    <3> QED BY <3>1, DecimalNear
  <2> HIDE DEF S, N
  <2> QED BY <1>1, <2>1, <2>2, UpToInduction
<1>11. ASSUME NEW c \in Components
       PROVE  Share(c, F[c - 1]) \in Nat /\ (w[c] = 0 => Share(c, F[c - 1]) = 0)
  <2>1. c - 1 \in 0..N
    BY <1>1
  <2>2. F[c - 1] \in Nat
    BY <1>10, <2>1
  <2> QED BY <1>3, <2>2
<1> QED BY <1>2, <1>11

\* What a division gives, when it is one: shares that differ from the total
\* by k half digits at most.
Divides(d, total, k) ==
  d.error = "no" => /\ d.shares \in [ Components -> Nat ]
                    /\ Within(SumOf(d.shares), total, 5 * k)

LEMMA Kinds ==
  /\ \A s : Division(s).error = "no" /\ Division(s).shares = s
  /\ \A e : Refused(e).error = e
BY DEF Division, Refused

\* However the shares were rounded, the last key is given what makes the
\* total; of whole lots, to the last digit.
LEMMA AllocatedDivides ==
  ASSUME NEW total \in Nat, NEW w \in [ Components -> Nat ], \E c \in Components : w[c] > 0
  PROVE  /\ Allocated(total, w).error \in {"no", "NegativeResidual"}
         /\ Divides(Allocated(total, w), total, ComponentCount + 1)
         /\ (total % 20 = 0 /\ Allocated(total, w).error = "no")
              => FoldTotal(Allocated(total, w).shares) = total
<1> DEFINE s == IF total = FoldTotal(w) THEN w ELSE Proportional(total, w)
           keys == { c \in Components : w[c] > 0 }
           a == Max(keys)
           g == [ s EXCEPT ![a] = 0 ]
           residual == AsDecimal(total - FoldTotal(g))
           f == [ s EXCEPT ![a] = residual ]
<1>1. Allocated(total, w) = IF residual < 0 THEN Refused("NegativeResidual") ELSE Division(f)
  BY DEF Allocated
<1>2. a \in Components /\ \A c \in Components : c > a => w[c] = 0
  <2>1. IsFiniteSet(keys) /\ keys \subseteq Int /\ keys # {}
    BY Keys, FS_Subset
  <2>2. a \in keys /\ \A c \in keys : a >= c
    <3> HIDE DEF keys
    <3> QED BY <2>1, MaxIn
  <2> HIDE DEF a
  <2> QED BY <2>2, Keys
<1>3. s \in [ Components -> Nat ] /\ \A c \in Components : w[c] = 0 => s[c] = 0
  BY ProportionalTyped
<1> HIDE DEF s, a
<1>4. /\ g \in [ Components -> Nat ] /\ g[a] = 0
      /\ \A c \in Components : c > a => g[c] = 0
      /\ \A c \in Components : c # a => g[c] = s[c]
  BY <1>2, <1>3
<1>5. g \in [ Components -> Int ]
  BY <1>4
<1>6. FoldTotal(g) \in Int /\ Within(FoldTotal(g), SumOf(g), 5 * ComponentCount) /\ SumOf(g) \in Int
  BY <1>5, FoldNear, SumOfIs
<1>7. residual \in Int /\ Within(residual, total - FoldTotal(g), 5)
  <2> DEFINE x == total - FoldTotal(g)
  <2>1. x \in Int
    BY <1>6
  <2> HIDE DEF x
  <2>2. AsDecimal(x) \in Int /\ Within(AsDecimal(x), x, 5)
    BY <2>1, DecimalNear
  <2> QED BY <2>2 DEF x
<1>8. f = [ g EXCEPT ![a] = residual ]
  BY <1>2, <1>3
<1>9. ASSUME residual >= 0
      PROVE  /\ f \in [ Components -> Nat ] /\ Within(SumOf(f), total, 5 * (ComponentCount + 1))
             /\ total % 20 = 0 => FoldTotal(f) = total
  <2>1. total % 20 = 0 => FoldTotal(f) = total
    <3> SUFFICES ASSUME total % 20 = 0 PROVE FoldTotal(f) = total
      OBVIOUS
    <3> HIDE DEF g
    <3>1. AsDecimal(total - FoldTotal(g)) >= 0 /\ f = [ g EXCEPT ![a] = AsDecimal(total - FoldTotal(g)) ]
      BY <1>8, <1>9
    <3> HIDE DEF f, residual
    <3> QED BY <1>2, <1>4, <3>1, FoldAnchored
  <2>2. f \in [ Components -> Nat ] /\ f[a] = residual /\ \A c \in Components \ {a} : f[c] = g[c]
    <3>1. residual \in Nat
      BY <1>7, <1>9
    <3> HIDE DEF residual, g
    <3> QED BY <1>2, <1>4, <1>8, <3>1
  <2>3. f \in [ Components -> Int ]
    BY <2>2
  <2> HIDE DEF f, g, residual
  <2>4. SumOf(f) = residual + SumFunctionOnSet(f, Components \ {a})
    <3>1. SumTaken(f, Components, a)
      BY <1>2, <2>3, SumOfIs, SumTake
    <3> QED BY <2>2, <2>3, <3>1, SumOfIs DEF SumTaken
  <2>5. SumOf(g) = 0 + SumFunctionOnSet(g, Components \ {a})
    <3>1. SumTaken(g, Components, a)
      BY <1>2, <1>5, SumOfIs, SumTake
    <3> QED BY <1>4, <1>5, <3>1, SumOfIs DEF SumTaken
  <2>6. /\ SumFunctionOnSet(f, Components \ {a}) = SumFunctionOnSet(g, Components \ {a})
        /\ SumFunctionOnSet(g, Components \ {a}) \in Int
    <3>1. Addable(g, Components \ {a})
      BY <1>5, SumOfIs, FS_Subset DEF Addable
    <3> QED BY <2>2, <3>1, SumAlike, SumType
  <2>7. SumOf(f) = residual + SumOf(g)
    BY <2>4, <2>5, <2>6
  <2>8. Within(SumOf(f), total, 5 * (ComponentCount + 1))
    <3>1. ComponentCount \in Nat /\ 5 * (ComponentCount + 1) = (5 * ComponentCount) + 5
      BY Keys
    <3> QED BY ONLY <1>6, <1>7, <2>7, <3>1 DEF Within
  <2> QED BY <2>1, <2>2, <2>8 DEF f
<1> HIDE DEF residual, f
<1>10. CASE residual < 0
  <2>1. Allocated(total, w) = Refused("NegativeResidual")
    BY <1>1, <1>10
  <2> QED BY <2>1, Kinds DEF Divides
<1>11. CASE residual >= 0
  <2>1. Allocated(total, w) = Division(f)
    BY <1>1, <1>7, <1>11
  <2> QED BY <1>9, <1>11, <2>1, Kinds DEF Divides
<1> QED BY <1>7, <1>10, <1>11

\* Whether the positions are all closed by a fill on a side.
Exclusive(positions, side) ==
  \A c \in Components : positions[c] # 0 => SideOf(positions[c]) # side

LEMMA FlattenDivides ==
  ASSUME NEW positions \in [ Components -> Int ], NEW side \in {-1, 1}, NEW filled \in Nat
  PROVE  LET d == FlattenPartition(positions, filled, side)
             closes == [ c \in Components |-> Amount(positions[c]) ]
         IN  \/ d = Refused("FlattenNotExclusive")
             \/ /\ Exclusive(positions, side)
                /\ \/ d = Refused("FlattenNotReconciled") /\ ~Reconciled(FoldTotal(closes), filled)
                   \/ d = Division(closes)
BY DEF FlattenPartition, Exclusive

LEMMA CrossingDivides ==
  ASSUME NEW positions \in [ Components -> Int ], NEW side \in {-1, 1}, NEW filled \in Nat,
         NEW targets \in [ Components -> Int ], NEW before \in Int
  PROVE  /\ CrossingPartition(positions, side, filled, targets, before).error
              \in {"no", "CrossingNotReconciled", "NothingToOpen", "NoNewSideTarget",
                   "NegativeResidual", "PartitionNotReconciled"}
         /\ Divides(CrossingPartition(positions, side, filled, targets, before), filled,
                    (3 * ComponentCount) + 2)
<1> DEFINE closes == [ c \in Components |-> IF SideOf(positions[c]) = -side THEN Amount(positions[c]) ELSE 0 ]
           opening == AsDecimal(filled - FoldTotal(closes))
           wanted == [ c \in Components |-> IF SideOf(targets[c]) = side THEN Amount(targets[c]) ELSE 0 ]
           opens == Allocated(opening, wanted)
           shares == [ c \in Components |-> AsDecimal(closes[c] + opens.shares[c]) ]
           d == CrossingPartition(positions, side, filled, targets, before)
<1>1. closes \in [ Components -> Nat ] /\ wanted \in [ Components -> Nat ]
  BY Signed
<1>2. \/ d \in { Refused("CrossingNotReconciled"), Refused("NothingToOpen"), Refused("NoNewSideTarget"),
                 Refused("PartitionNotReconciled") }
      \/ /\ ~(opening <= 0) /\ \E c \in Components : wanted[c] # 0
         /\ \/ d = opens /\ opens.error # "no"
            \/ d = Division(shares) /\ opens.error = "no"
  BY DEF CrossingPartition
<1> HIDE DEF d
<1>3. closes \in [ Components -> Int ]
  BY <1>1
<1> HIDE DEF closes, wanted
<1>4. FoldTotal(closes) \in Int /\ Within(FoldTotal(closes), SumOf(closes), 5 * ComponentCount)
      /\ SumOf(closes) \in Int
  BY <1>3, FoldNear, SumOfIs
<1>5. opening \in Int /\ Within(opening, filled - FoldTotal(closes), 5)
  <2> DEFINE x == filled - FoldTotal(closes)
  <2>1. x \in Int
    BY <1>4
  <2> HIDE DEF x
  <2>2. AsDecimal(x) \in Int /\ Within(AsDecimal(x), x, 5)
    BY <2>1, DecimalNear
  <2> QED BY <2>2 DEF x
<1> HIDE DEF opening, opens
<1>6. ASSUME ~(opening <= 0), \E c \in Components : wanted[c] # 0
      PROVE  opens.error \in {"no", "NegativeResidual"} /\ Divides(opens, opening, ComponentCount + 1)
  <2>1. opening \in Nat
    BY <1>5, <1>6
  <2>2. \E c \in Components : wanted[c] > 0
    BY <1>1, <1>6
  <2> QED BY <1>1, <2>1, <2>2, AllocatedDivides DEF opens
<1>7. ASSUME ~(opening <= 0), \E c \in Components : wanted[c] # 0, opens.error = "no"
      PROVE  /\ shares \in [ Components -> Nat ]
             /\ Within(SumOf(shares), filled, 5 * ((3 * ComponentCount) + 2))
  <2> DEFINE o == opens.shares
             e == [ c \in Components |-> closes[c] + o[c] ]
  <2>1. o \in [ Components -> Nat ] /\ Within(SumOf(o), opening, 5 * (ComponentCount + 1))
    BY <1>6, <1>7 DEF Divides
  <2> HIDE DEF o
  <2>2. o \in [ Components -> Int ] /\ e \in [ Components -> Int ] /\ \A c \in Components : e[c] \in Nat
    BY <1>1, <2>1
  <2>3. SumOf(e) = SumOf(closes) + SumOf(o) /\ SumOf(o) \in Int
    <3>1. \A c \in Components : e[c] = closes[c] + o[c]
      OBVIOUS
    <3> HIDE DEF e
    <3> QED BY <1>3, <2>2, <3>1, SumOfIs, SumOfSums
  <2>4. ASSUME NEW c \in Components
        PROVE  shares[c] \in Nat /\ Within(shares[c], e[c], 5)
    <3>1. shares[c] = AsDecimal(e[c]) /\ e[c] \in Nat
      BY <2>2 DEF o
    <3> HIDE DEF e, shares
    <3> QED BY <3>1, DecimalNear
  <2>5. shares \in [ Components -> Nat ] /\ shares \in [ Components -> Int ]
    BY <2>4
  <2> HIDE DEF shares, e
  <2>6. Within(SumOf(shares), SumOf(e), 5 * ComponentCount) /\ SumOf(shares) \in Int
    BY <2>2, <2>4, <2>5, SumNear, SumOfIs
  <2>7. Within(SumOf(shares), filled, 5 * ((3 * ComponentCount) + 2))
    <3>1. /\ ComponentCount \in Nat /\ 5 * (ComponentCount + 1) = (5 * ComponentCount) + 5
          /\ 5 * ((3 * ComponentCount) + 2) = (15 * ComponentCount) + 10
      BY Keys
    <3>2. Within(SumOf(o), opening, 5 * (ComponentCount + 1))
      BY <2>1
    <3> QED BY ONLY <1>4, <1>5, <2>3, <2>6, <3>1, <3>2 DEF Within
  <2> QED BY <2>5, <2>7
<1> HIDE DEF shares
<1>8. CASE d \in { Refused("CrossingNotReconciled"), Refused("NothingToOpen"), Refused("NoNewSideTarget"),
                   Refused("PartitionNotReconciled") }
  BY <1>8, Kinds DEF Divides, d
<1>9. CASE ~(opening <= 0) /\ (\E c \in Components : wanted[c] # 0) /\ d = opens /\ opens.error # "no"
  BY <1>6, <1>9 DEF Divides, d
<1>10. CASE ~(opening <= 0) /\ (\E c \in Components : wanted[c] # 0) /\ d = Division(shares)
            /\ opens.error = "no"
  BY <1>7, <1>10, Kinds DEF Divides, d
<1> QED BY <1>2, <1>8, <1>9, <1>10

LEMMA DirectionalDivides ==
  ASSUME NEW positions \in [ Components -> Int ], NEW side \in {-1, 1}, NEW filled \in Nat,
         NEW targets \in [ Components -> Int ], filled % 20 = 0
  PROVE  /\ DirectionalPartition(positions, side, filled, targets).error
              \in {"no", "NoMatchingTarget", "NegativeResidual"}
         /\ Divides(DirectionalPartition(positions, side, filled, targets), filled, ComponentCount + 1)
<1> DEFINE left == [ c \in Components |->
                       LET delta == AsDecimal(targets[c] - positions[c])
                       IN  IF SideOf(delta) = side THEN Amount(delta) ELSE 0 ]
           allocated == Allocated(filled, left)
           d == DirectionalPartition(positions, side, filled, targets)
<1>1. left \in [ Components -> Nat ]
  <2>1. ASSUME NEW c \in Components PROVE Amount(AsDecimal(targets[c] - positions[c])) \in Nat
    <3>1. targets[c] - positions[c] \in Int
      OBVIOUS
    <3> QED BY <3>1, DecimalNear, Signed
  <2> QED BY <2>1
<1>2. \/ d = Refused("NoMatchingTarget")
      \/ /\ \E c \in Components : left[c] # 0
         /\ \/ d = allocated /\ allocated.error # "no"
            \/ d = Refused("FillNotReconciled") /\ allocated.error = "no"
               /\ FoldTotal(allocated.shares) # filled
            \/ d = allocated
  BY DEF DirectionalPartition
<1> HIDE DEF d, left
<1>3. ASSUME \E c \in Components : left[c] # 0
      PROVE  /\ allocated.error \in {"no", "NegativeResidual"}
             /\ Divides(allocated, filled, ComponentCount + 1)
             /\ allocated.error = "no" => FoldTotal(allocated.shares) = filled
  <2>1. \E c \in Components : left[c] > 0
    BY <1>1, <1>3
  <2> QED BY <1>1, <2>1, AllocatedDivides
<1> HIDE DEF allocated
<1>4. CASE d = Refused("NoMatchingTarget")
  BY <1>4, Kinds DEF Divides, d
<1>5. CASE (\E c \in Components : left[c] # 0) /\ d = allocated
  BY <1>3, <1>5 DEF d
<1> QED BY <1>2, <1>3, <1>4, <1>5

\* A fill that leaves the portfolio with a position is divided with half a
\* digit of dust for each rounding, and in whole lots to the last digit.
LEMMA FillDivides ==
  ASSUME NEW positions \in [ Components -> Int ], NEW side \in {-1, 1}, NEW filled \in Nat,
         NEW targets \in [ Components -> Int ], NEW after \in Int, after # 0, filled % 20 = 0
  PROVE  /\ PartitionFill(positions, side, filled, targets, after).error
              \notin {"FillNotReconciled", "FlattenNotReconciled", "SourcesNotReconciled"}
         /\ Divides(PartitionFill(positions, side, filled, targets, after), filled,
                    (3 * ComponentCount) + 2)
<1> DEFINE before == after - (side * filled)
<1>1. before \in Int
  OBVIOUS
<1>2. CASE Opposite(before, after)
  <2>1. PartitionFill(positions, side, filled, targets, after)
          = CrossingPartition(positions, side, filled, targets, before)
    BY <1>2 DEF PartitionFill
  <2> HIDE DEF before
  <2> DEFINE d == CrossingPartition(positions, side, filled, targets, before)
  <2>2. /\ d.error \in {"no", "CrossingNotReconciled", "NothingToOpen", "NoNewSideTarget",
                        "NegativeResidual", "PartitionNotReconciled"}
        /\ Divides(d, filled, (3 * ComponentCount) + 2)
    BY <1>1, CrossingDivides
  <2> HIDE DEF d
  <2> QED BY <2>1, <2>2 DEF d
<1>3. CASE ~Opposite(before, after)
  <2>1. PartitionFill(positions, side, filled, targets, after)
          = DirectionalPartition(positions, side, filled, targets)
    BY <1>3 DEF PartitionFill
  <2> DEFINE d == DirectionalPartition(positions, side, filled, targets)
  <2>2. d.error \in {"no", "NoMatchingTarget", "NegativeResidual"} /\ Divides(d, filled, ComponentCount + 1)
    BY DirectionalDivides
  <2> HIDE DEF d
  <2>3. Divides(d, filled, (3 * ComponentCount) + 2)
    <3> SUFFICES ASSUME d.error = "no"
                 PROVE  /\ d.shares \in [ Components -> Nat ]
                        /\ Within(SumOf(d.shares), filled, 5 * ((3 * ComponentCount) + 2))
      BY DEF Divides
    <3>1. d.shares \in [ Components -> Nat ] /\ Within(SumOf(d.shares), filled, 5 * (ComponentCount + 1))
      BY <2>2 DEF Divides
    <3>2. d.shares \in [ Components -> Int ]
      BY <3>1
    <3>3. SumOf(d.shares) \in Int
      BY <3>2, SumOfIs
    <3>4. ComponentCount \in Nat
      BY Keys
    <3>5. Within(SumOf(d.shares), filled, 5 * ((3 * ComponentCount) + 2))
      BY <3>1, <3>3, <3>4 DEF Within
    <3> QED BY <3>1, <3>5
  <2> QED BY <2>1, <2>2, <2>3 DEF d
<1> QED BY <1>2, <1>3

-----------------------------------------------------------------------------
(* A book after a fill.                                                      *)

Episodes == [ quantity : Int, entry : Int, exit : Int, fees : Int ]
Books    == [ position : Int, open : Episodes ]

\* A book whose position is the one of its open episode.
BookTrue(b) ==
  b \in Books /\ b.position = b.open.quantity /\ (b.position = 0 => b.open = NoEpisode)

\* The book b2 is the book b after a fill of delta, rounded.
BookAfter(b, delta, b2) ==
  /\ BookTrue(b2) /\ Within(b2.position, b.position + delta, 5)
  /\ (b.position + delta) % 10 = 0 => b2.position = b.position + delta

\* However a fill closes, flips or enlarges an episode, its quantity is rounded
\* as the position is (EpisodeBook::apply).
LEMMA ApplyKeeps ==
  ASSUME NEW b, BookTrue(b), NEW delta \in Int, NEW price \in Nat
  PROVE  BookAfter(b, delta, ApplyFill(b, delta, price).book)
<1> DEFINE open == b.open
           q == open.quantity
           y == AsDecimal(q + delta)
           closing == Lesser(Amount(delta), Amount(q))
           shrunk == Shrunk(open, closing, price)
           residual == AsDecimal(Amount(delta) - closing)
<1>1. open \in Episodes /\ q \in Int /\ b.position = q
  BY DEF BookTrue, Books, Episodes
<1>2. closing \in Nat /\ Amount(delta) - closing \in Nat
  BY <1>1 DEF Lesser, Amount
<1>3. /\ y \in Int /\ Within(y, q + delta, 5) /\ AsDecimal(-(q + delta)) = -y
      /\ (q + delta > 0 => y > 0) /\ (q + delta < 0 => y < 0) /\ (q + delta = 0 => y = 0)
      /\ AsDecimal(y) = y /\ ((q + delta) % 10 = 0 => y = q + delta)
  <2> DEFINE x == q + delta
  <2>1. x \in Int
    BY <1>1
  <2> HIDE DEF x
  <2>2. /\ AsDecimal(x) \in Int /\ Within(AsDecimal(x), x, 5) /\ AsDecimal(-x) = -AsDecimal(x)
        /\ (x > 0 => AsDecimal(x) > 0) /\ (x < 0 => AsDecimal(x) < 0) /\ (x = 0 => AsDecimal(x) = 0)
        /\ AsDecimal(AsDecimal(x)) = AsDecimal(x) /\ (x % 10 = 0 => AsDecimal(x) = x)
    BY <2>1, DecimalNear, WholeKept
  <2> QED BY <2>2 DEF x
<1>4. ASSUME NEW o \in Episodes, NEW d \in Int
      PROVE  Grown(o, d, price) \in Episodes /\ Grown(o, d, price).quantity = AsDecimal(o.quantity + d)
  <2>1. Amount(d) \in Int /\ Amount(d) * price \in Int
    BY DEF Amount
  <2>2. AsDecimal(o.quantity + d) \in Int
    <3>1. o.quantity + d \in Int
      BY DEF Episodes
    <3> QED BY <3>1, DecimalNear
  <2> QED BY <2>1, <2>2 DEF Grown, Episodes
<1>5. shrunk \in Episodes /\ shrunk.quantity = AsDecimal(q - (SideOf(q) * closing))
  <2>1. closing * price \in Int /\ q - (SideOf(q) * closing) \in Int
    <3> HIDE DEF closing
    <3> QED BY <1>1, <1>2 DEF SideOf
  <2>2. AsDecimal(q - (SideOf(q) * closing)) \in Int
    BY <2>1, DecimalNear
  <2> HIDE DEF closing
  <2> QED BY <1>1, <1>2, <2>1, <2>2 DEF Shrunk, Episodes
<1>6. NoEpisode \in Episodes /\ NoEpisode.quantity = 0
  BY DEF NoEpisode, Episodes
<1> HIDE DEF y
<1>7. CASE delta = 0
  <2>1. ApplyFill(b, delta, price).book = b
    BY <1>7 DEF ApplyFill
  <2> QED BY <1>1, <1>7, <2>1 DEF BookAfter, Within
<1>8. ASSUME NEW e, e \in Episodes, e.quantity = y, y = 0 => e = NoEpisode,
             ApplyFill(b, delta, price).book = [ position |-> y, open |-> e ]
      PROVE  BookAfter(b, delta, ApplyFill(b, delta, price).book)
  BY <1>1, <1>3, <1>8 DEF BookAfter, BookTrue, Books
<1>9. CASE delta # 0 /\ ~Opposite(q, delta)
  <2>1. ApplyFill(b, delta, price).book = [ position |-> y, open |-> Grown(open, delta, price) ]
    BY <1>1, <1>9 DEF ApplyFill, y
  <2>2. Grown(open, delta, price) \in Episodes /\ Grown(open, delta, price).quantity = y
    BY <1>1, <1>4 DEF y
  <2>3. y # 0
    <3>1. q + delta # 0
      BY <1>1, <1>9 DEF Opposite, SideOf
    <3> QED BY <1>1, <1>3, <3>1
  <2> QED BY <1>8, <2>1, <2>2, <2>3
<1>10. CASE delta # 0 /\ Opposite(q, delta)
  <2> DEFINE e == IF shrunk.quantity # 0 THEN shrunk
                  ELSE IF residual = 0 THEN NoEpisode
                  ELSE Grown(NoEpisode, SideOf(delta) * residual, price)
  <2>1. ApplyFill(b, delta, price).book = [ position |-> y, open |-> e ]
    BY <1>1, <1>10 DEF ApplyFill, y
  <2>2. (q > 0 /\ delta < 0) \/ (q < 0 /\ delta > 0)
    BY <1>1, <1>10 DEF Opposite, SideOf
  <2>3. CASE Amount(delta) < Amount(q)
    <3>1. q - (SideOf(q) * closing) = q + delta /\ q + delta # 0
      BY <1>1, <2>2, <2>3 DEF SideOf, Lesser, Amount
    <3>2. shrunk.quantity = y /\ y # 0
      <4> HIDE DEF shrunk, closing
      <4> QED BY <1>1, <1>3, <1>5, <3>1 DEF y
    <3>3. e = shrunk
      <4> HIDE DEF shrunk
      <4> QED BY <3>2
    <3> HIDE DEF e, shrunk
    <3> QED BY <1>5, <1>8, <2>1, <3>2, <3>3
  <2>4. CASE ~(Amount(delta) < Amount(q))
    <3>1. q - (SideOf(q) * closing) = 0
      BY <1>1, <2>2, <2>4 DEF SideOf, Lesser, Amount
    <3>2. shrunk.quantity = 0
      <4>1. AsDecimal(0) = 0
        BY DecimalNear
      <4> HIDE DEF shrunk, closing
      <4> QED BY <1>5, <3>1, <4>1
    <3>3. SideOf(delta) * residual = y /\ (residual = 0 <=> y = 0)
      <4>1. CASE delta > 0
        <5>1. Amount(delta) - closing = q + delta /\ SideOf(delta) = 1
          BY <1>1, <2>2, <2>4, <4>1 DEF SideOf, Lesser, Amount
        <5>2. residual = y
          <6> HIDE DEF closing
          <6> QED BY <5>1 DEF y
        <5> HIDE DEF residual
        <5> QED BY <1>3, <5>1, <5>2
      <4>2. CASE delta < 0
        <5>1. Amount(delta) - closing = -(q + delta) /\ SideOf(delta) = -1
          BY <1>1, <2>2, <2>4, <4>2 DEF SideOf, Lesser, Amount
        <5>2. residual = -y
          <6> HIDE DEF closing
          <6> QED BY <1>3, <5>1
        <5> HIDE DEF residual
        <5> QED BY <1>3, <5>1, <5>2
      <4> QED BY <1>10, <4>1, <4>2
    <3>4. e = IF y = 0 THEN NoEpisode ELSE Grown(NoEpisode, y, price)
      <4> HIDE DEF shrunk, residual
      <4> QED BY <3>2, <3>3
    <3>5. /\ Grown(NoEpisode, y, price) \in Episodes
          /\ Grown(NoEpisode, y, price).quantity = y
      <4>1. 0 + y = y
        BY <1>3
      <4> QED BY <1>3, <1>4, <1>6, <4>1
    <3> HIDE DEF e
    <3> QED BY <1>6, <1>8, <2>1, <3>4, <3>5
  <2> QED BY <2>3, <2>4
<1> QED BY <1>7, <1>9, <1>10

-----------------------------------------------------------------------------
(* The steps.                                                                *)

Orders == [ side : {-1, 1}, quantity : Nat \ {0}, targets : [ Components -> Int ] ]
PositionsOf(parts) == [ c \in Components |-> parts[c].position ]

\* The books are true, the portfolio's has whole lots, the components' are
\* flat with it, and n fills after that their dust is what n fills can leave.
PartsTrue(whole, parts, n) ==
  /\ BookTrue(whole) /\ whole.position % 20 = 0
  /\ parts \in [ Components -> Books ] /\ \A c \in Components : BookTrue(parts[c])
  /\ whole.position = 0 => \A c \in Components : parts[c].position = 0
  /\ Within(SumOf(PositionsOf(parts)), whole.position, n * DustOfFill)

\* The inductive invariant.
LedgerInv ==
  /\ PartsTrue(portfolio, components, sinceFlat)
  /\ ledgerPending = NoOrder \/ ledgerPending \in Orders
  /\ fills \in 0..MaxFills /\ sinceFlat \in 0..fills
  /\ ReconciliationHolds

LEMMA Dust ==
  ASSUME NEW n \in Nat
  PROVE  /\ DustOfFill \in Nat /\ DustOfFill = (20 * ComponentCount) + 10
         /\ n * DustOfFill \in Nat /\ (n + 1) * DustOfFill = (n * DustOfFill) + DustOfFill
         /\ n = 0 => n * DustOfFill = 0
<1>1. DustOfFill \in Nat /\ DustOfFill = (20 * ComponentCount) + 10
  BY Keys DEF DustOfFill, Digit
<1> HIDE DEF DustOfFill
<1>2. n * DustOfFill \in Nat /\ (n + 1) * DustOfFill = (n * DustOfFill) + DustOfFill
  BY <1>1
<1> QED BY <1>1, <1>2

LEMMA LotsAreWhole ==
  ASSUME NEW lots \in Nat
  PROVE  lots * Lot \in Nat /\ (lots * Lot) % 20 = 0
<1>1. PICK k \in Nat : Lot = 20 * k
  <2>1. Lot \in Nat /\ Lot % 20 = 0
    BY LedgerAssumption DEF Digit
  <2>2. Lot = 20 * (Lot \div 20) /\ Lot \div 20 \in Nat
    BY <2>1
  <2> QED BY <2>2
<1>2. lots * Lot = 20 * (lots * k) /\ lots * k \in Nat
  BY <1>1
<1> DEFINE m == lots * k
<1>3. m \in Nat
  BY <1>2
<1> HIDE DEF m
<1>4. 20 * m \in Nat /\ (20 * m) % 20 = 0
  BY <1>3
<1> QED BY <1>2, <1>4 DEF m

LEMMA LedgerInitTrue == LedgerInit => LedgerInv
<1> SUFFICES ASSUME LedgerInit PROVE LedgerInv
  OBVIOUS
<1> DEFINE p == PositionsOf(components)
<1>1. BookTrue(EmptyBook) /\ EmptyBook.position = 0 /\ EmptyBook \in Books
  BY DEF EmptyBook, NoEpisode, BookTrue, Books, Episodes
<1>2. portfolio = EmptyBook /\ components = [ c \in Components |-> EmptyBook ] /\ sinceFlat = 0
  BY DEF LedgerInit
<1>3. p \in [ Components -> Int ] /\ \A c \in Components : p[c] = 0
  BY <1>1, <1>2 DEF PositionsOf
<1>4. SumOf(p) = 0
  <2> HIDE DEF p
  <2>1. SumOf(p) = SumFunctionOnSet(p, Components)
    BY <1>3, SumOfIs
  <2>2. SumFunctionOnSet(p, Components) = 0
    BY <1>3, SumZero, Keys
  <2> QED BY <2>1, <2>2
<1>5. sinceFlat * DustOfFill = 0
  <2>1. sinceFlat \in Nat
    BY <1>2
  <2> QED BY <1>2, <2>1, Dust
<1>6. PartsTrue(portfolio, components, sinceFlat)
  BY <1>1, <1>2, <1>4, <1>5 DEF PartsTrue, Within
<1>7. ReconciliationHolds
  BY DEF LedgerInit, ReconciliationHolds
<1> QED BY <1>2, <1>6, <1>7, LedgerAssumption DEF LedgerInv, LedgerInit

\* The targets of the components are integers (absolute_directional_component_targets).
LEMMA TargetsTyped ==
  ASSUME NEW wanted \in [ Components -> Int ], NEW target \in Int
  PROVE  ComponentTargets(wanted, target) \in [ Components -> Int ]
<1> DEFINE directional == [ c \in Components |->
                              IF SideOf(wanted[c]) = SideOf(target) THEN Amount(wanted[c]) ELSE 0 ]
           divided == Proportional(Amount(target), directional)
<1>1. directional \in [ Components -> Nat ] /\ Amount(target) \in Nat
  BY Signed
<1>2. divided \in [ Components -> Nat ]
  <2> HIDE DEF directional
  <2> QED BY <1>1, ProportionalTyped
<1>3. \A c \in Components : SideOf(target) * divided[c] \in Int
  <2> HIDE DEF divided
  <2> QED BY <1>2 DEF SideOf
<1> QED BY <1>3 DEF ComponentTargets

LEMMA DecideKeeps == LedgerInv /\ LedgerDecide => LedgerInv'
<1> SUFFICES ASSUME LedgerInv, LedgerDecide PROVE LedgerInv'
  OBVIOUS
<1>1. PICK wanted \in [ Components -> Contributions ] :
        LET target == SumOf([ c \in Components |-> wanted[c] * Lot ])
            staged == IF Opposite(portfolio.position, target) /\ Amount(target) >= OpeningFloor * Lot
                      THEN 0 ELSE target
            delta == staged - portfolio.position
        IN  /\ delta # 0
            /\ ledgerPending' = [ side |-> SideOf(delta), quantity |-> Amount(delta),
                                  targets |-> ComponentTargets(wanted, staged) ]
  BY DEF LedgerDecide
<1> DEFINE lots == [ c \in Components |-> wanted[c] * Lot ]
           target == SumOf(lots)
           staged == IF Opposite(portfolio.position, target) /\ Amount(target) >= OpeningFloor * Lot
                     THEN 0 ELSE target
           delta == staged - portfolio.position
<1>2. wanted \in [ Components -> Int ] /\ Lot \in Int
  <2>1. wanted \in [ Components -> Contributions ] /\ Contributions \subseteq Int /\ Lot \in Int
    BY LedgerAssumption
  <2> QED BY ONLY <2>1
<1>3. lots \in [ Components -> Int ]
  <2>1. \A c \in Components : wanted[c] * Lot \in Int
    BY <1>2
  <2> QED BY <2>1
<1>4. target \in Int
  <2> HIDE DEF lots
  <2> QED BY <1>3, SumOfIs
<1>5. portfolio.position \in Int
  BY DEF LedgerInv, PartsTrue, BookTrue, Books
<1>6. staged \in Int /\ delta \in Int
  <2> HIDE DEF target
  <2> QED BY <1>4, <1>5
<1>7. delta # 0 /\ ledgerPending' = [ side |-> SideOf(delta), quantity |-> Amount(delta),
                                      targets |-> ComponentTargets(wanted, staged) ]
  BY <1>1
<1> HIDE DEF staged, delta
<1>8. ComponentTargets(wanted, staged) \in [ Components -> Int ]
  BY <1>2, <1>6, TargetsTyped
<1>9. SideOf(delta) \in {-1, 1} /\ Amount(delta) \in Nat \ {0}
  BY <1>6, <1>7, Signed
<1>10. ledgerPending' \in Orders
  BY <1>7, <1>8, <1>9 DEF Orders
<1>11. UNCHANGED << portfolio, components, fills, ledgerEnded, sinceFlat >>
  BY DEF LedgerDecide
<1> QED BY <1>10, <1>11 DEF LedgerInv, ReconciliationHolds

\* A sum of positions after signed shares.
LEMMA PartsAddUp ==
  ASSUME NEW positions \in [ Components -> Int ], NEW shares \in [ Components -> Int ],
         NEW moved \in [ Components -> Int ], NEW side \in {-1, 1},
         \A c \in Components : moved[c] = positions[c] + (side * shares[c])
  PROVE  SumOf(moved) = SumOf(positions) + (side * SumOf(shares))
<1>1. Addable(positions, Components) /\ Addable(shares, Components) /\ Addable(moved, Components)
  BY SumOfIs
<1>2. /\ SumOf(positions) = SumFunctionOnSet(positions, Components)
      /\ SumOf(shares) = SumFunctionOnSet(shares, Components)
      /\ SumOf(moved) = SumFunctionOnSet(moved, Components)
  BY SumOfIs
<1>3. SumOf(positions) \in Int /\ SumOf(shares) \in Int /\ SumOf(moved) \in Int
  BY SumOfIs
<1>4. CASE side = 1
  <2>1. \A c \in Components : moved[c] = positions[c] + shares[c]
    BY <1>4
  <2>2. SumFunctionOnSet(moved, Components) =
          SumFunctionOnSet(positions, Components) + SumFunctionOnSet(shares, Components)
    BY <1>1, <2>1, SumOfSums
  <2> QED BY <1>2, <1>3, <1>4, <2>2
<1>5. CASE side = -1
  <2>1. \A c \in Components : positions[c] = moved[c] + shares[c]
    BY <1>5
  <2>2. SumFunctionOnSet(positions, Components) =
          SumFunctionOnSet(moved, Components) + SumFunctionOnSet(shares, Components)
    BY <1>1, <2>1, SumOfSums
  <2> QED BY <1>2, <1>3, <1>5, <2>2
<1> QED BY <1>4, <1>5

\* The positions that a fill closes add up to it, but for the dust.
LEMMA ClosesNear ==
  ASSUME NEW positions \in [ Components -> Int ], NEW side \in {-1, 1}, Exclusive(positions, side),
         NEW filled \in Nat, NEW dust \in Nat, Within(SumOf(positions), 0 - (side * filled), dust)
  PROVE  LET closes == [ c \in Components |-> Amount(positions[c]) ]
         IN  /\ \A c \in Components : positions[c] + (side * closes[c]) = 0
             /\ FoldTotal(closes) \in Int /\ Within(FoldTotal(closes), filled, dust + (5 * ComponentCount))
<1> DEFINE closes == [ c \in Components |-> Amount(positions[c]) ]
           none == [ c \in Components |-> 0 ]
<1>1. closes \in [ Components -> Int ] /\ none \in [ Components -> Int ]
  BY Signed
<1>2. ASSUME NEW c \in Components PROVE none[c] = positions[c] + (side * closes[c])
  BY Signed DEF Exclusive
<1>3. SumOf(none) = 0
  <2>1. SumFunctionOnSet(none, Components) = 0
    <3>1. \A c \in Components : none[c] = 0
      OBVIOUS
    <3> HIDE DEF none
    <3> QED BY <3>1, SumZero, Keys
  <2> HIDE DEF none
  <2> QED BY <1>1, <2>1, SumOfIs
<1>4. \A c \in Components : positions[c] + (side * closes[c]) = 0
  BY <1>2
<1> HIDE DEF closes, none
<1>5. SumOf(none) = SumOf(positions) + (side * SumOf(closes))
  BY <1>1, <1>2, PartsAddUp
<1>6. /\ FoldTotal(closes) \in Int /\ Within(FoldTotal(closes), SumOf(closes), 5 * ComponentCount)
      /\ SumOf(closes) \in Int /\ SumOf(positions) \in Int
  BY <1>1, FoldNear, SumOfIs
<1>7. Within(FoldTotal(closes), filled, dust + (5 * ComponentCount))
  <2>1. ComponentCount \in Nat
    BY Keys
  <2>2. CASE side = 1
    BY <1>3, <1>5, <1>6, <2>1, <2>2 DEF Within
  <2>3. CASE side = -1
    BY <1>3, <1>5, <1>6, <2>1, <2>3 DEF Within
  <2> QED BY <2>2, <2>3
<1> QED BY <1>4, <1>6, <1>7 DEF closes

\* The components' books after a fill that was divided between them.
LEMMA PartsMove ==
  ASSUME NEW positions \in [ Components -> Int ], NEW shares \in [ Components -> Int ],
         NEW moved \in [ Components -> Int ], NEW side \in {-1, 1},
         NEW filled \in Nat, NEW after \in Int, NEW dust \in Nat,
         \A c \in Components : Within(moved[c], positions[c] + (side * shares[c]), 5),
         Within(SumOf(positions), after - (side * filled), dust),
         Within(SumOf(shares), filled, 5 * ((3 * ComponentCount) + 2))
  PROVE  /\ Within(SumOf(moved), after, dust + DustOfFill)
         /\ Within(FoldTotal(moved), after, dust + DustOfFill + (5 * ComponentCount))
<1> DEFINE exact == [ c \in Components |-> positions[c] + (side * shares[c]) ]
<1>1. exact \in [ Components -> Int ] /\ \A c \in Components : exact[c] = positions[c] + (side * shares[c])
  OBVIOUS
<1> HIDE DEF exact
<1>2. SumOf(exact) = SumOf(positions) + (side * SumOf(shares))
  BY <1>1, PartsAddUp
<1>3. Within(SumOf(moved), SumOf(exact), 5 * ComponentCount)
  BY <1>1, SumNear
<1>4. /\ SumOf(moved) \in Int /\ SumOf(positions) \in Int /\ SumOf(shares) \in Int /\ SumOf(exact) \in Int
      /\ FoldTotal(moved) \in Int /\ Within(FoldTotal(moved), SumOf(moved), 5 * ComponentCount)
  BY <1>1, SumOfIs, FoldNear
<1>5. ComponentCount \in Nat /\ DustOfFill = (20 * ComponentCount) + 10
  BY Keys DEF DustOfFill, Digit
<1> HIDE DEF DustOfFill
<1>6. Within(SumOf(moved), after, dust + DustOfFill)
  <2>1. CASE side = 1
    BY <1>2, <1>3, <1>4, <1>5, <2>1 DEF Within
  <2>2. CASE side = -1
    BY <1>2, <1>3, <1>4, <1>5, <2>2 DEF Within
  <2> QED BY <2>1, <2>2
<1> QED BY <1>4, <1>5, <1>6 DEF Within

\* A sum that is not reconciled with a quantity is off by more than the tolerance.
LEMMA Unreconciled ==
  ASSUME NEW x \in Int, NEW y \in Int, NEW d \in Nat, Within(x, y, d), ~Reconciled(x, y)
  PROVE  d > DustTolerance
<1>1. DustTolerance \in Nat
  BY LedgerAssumption
<1> QED BY <1>1 DEF Reconciled, Within, Amount

LEMMA FillKeeps == LedgerInv /\ LedgerFill => LedgerInv'
<1> SUFFICES ASSUME LedgerInv, LedgerFill PROVE LedgerInv'
  OBVIOUS
<1> DEFINE side == ledgerPending.side
           targets == ledgerPending.targets
<1>1. side \in {-1, 1} /\ targets \in [ Components -> Int ] /\ ledgerPending.quantity \in Nat
  BY DEF LedgerInv, LedgerFill, Orders
<1>2. PICK lots \in 1 .. (ledgerPending.quantity \div Lot), price \in Prices :
        LET filled == lots * Lot
            after == portfolio.position + (side * filled)
            division == PartitionFill(Positions, side, filled, targets, after)
            whole == ApplyFill(portfolio, side * filled, price)
            parts == [ c \in Components |-> ApplyFill(components[c], side * division.shares[c], price) ]
            moved == [ c \in Components |-> parts[c].book.position ]
        IN  IF division.error # "no"
            THEN /\ ledgerEnded' = division.error
                 /\ UNCHANGED << portfolio, components, sinceFlat >>
            ELSE /\ portfolio' = whole.book
                 /\ components' = [ c \in Components |-> parts[c].book ]
                 /\ ledgerEnded' = IF ~Accounted(whole, parts) THEN "Unaccounted"
                                   ELSE IF ~Reconciled(FoldTotal(moved), after)
                                   THEN "SourcesNotReconciled" ELSE "no"
                 /\ sinceFlat' = IF after = 0 THEN 0 ELSE sinceFlat + 1
  BY DEF LedgerFill
<1> DEFINE filled == lots * Lot
           after == portfolio.position + (side * filled)
           division == PartitionFill(Positions, side, filled, targets, after)
           whole == ApplyFill(portfolio, side * filled, price)
           parts == [ c \in Components |-> ApplyFill(components[c], side * division.shares[c], price) ]
           moved == [ c \in Components |-> parts[c].book.position ]
           dust == sinceFlat * DustOfFill
<1>3. PartsTrue(portfolio, components, sinceFlat) /\ sinceFlat \in Nat /\ Positions = PositionsOf(components)
  BY DEF LedgerInv, Positions, PositionsOf
<1>4. filled \in Nat /\ filled % 20 = 0 /\ price \in Nat
  <2>1. lots \in Nat
    OBVIOUS
  <2>2. price \in Nat
    BY LedgerAssumption
  <2> QED BY <2>1, <2>2, LotsAreWhole
<1>5. portfolio.position \in Int /\ BookTrue(portfolio) /\ portfolio.position % 20 = 0
  BY <1>3 DEF PartsTrue, BookTrue, Books
<1> HIDE DEF filled, side, targets
<1>6. /\ side * filled \in Int /\ after \in Int /\ portfolio.position = after - (side * filled)
      /\ after % 20 = 0
  <2>1. PICK i \in Int : portfolio.position = 20 * i
    <3>1. portfolio.position = 20 * (portfolio.position \div 20) /\ portfolio.position \div 20 \in Int
      BY <1>5
    <3> QED BY <3>1
  <2>2. PICK j \in Int : filled = 20 * j
    <3>1. filled = 20 * (filled \div 20) /\ filled \div 20 \in Int
      BY <1>4
    <3> QED BY <3>1
  <2>3. CASE side = 1
    BY <2>1, <2>2, <2>3
  <2>4. CASE side = -1
    BY <2>1, <2>2, <2>4
  <2> QED BY <1>1, <2>3, <2>4
<1>7. /\ Positions \in [ Components -> Int ] /\ dust \in Nat
      /\ Within(SumOf(Positions), after - (side * filled), dust)
  <2>1. PositionsOf(components) \in [ Components -> Int ]
    BY <1>3 DEF PositionsOf, PartsTrue, Books
  <2>2. Within(SumOf(PositionsOf(components)), portfolio.position, dust)
    BY <1>3 DEF PartsTrue
  <2> QED BY <1>3, <1>6, <2>1, <2>2, Dust
<1>8. /\ DustOfFill \in Nat /\ DustOfFill = (20 * ComponentCount) + 10 /\ ComponentCount \in Nat
      /\ (sinceFlat + 1) * DustOfFill = dust + DustOfFill
      /\ (0 + 1) * DustOfFill = DustOfFill /\ 0 * DustOfFill = 0
  BY <1>3, Dust, Keys
<1> HIDE DEF dust, DustOfFill, after
<1>9. /\ fills' = fills + 1 /\ fills' \in 0..MaxFills /\ ledgerPending' = NoOrder
      /\ sinceFlat' \in {0, sinceFlat, sinceFlat + 1} => sinceFlat' \in 0..fills'
  <2>1. /\ fills \in 0..MaxFills /\ fills < MaxFills /\ fills' = fills + 1 /\ MaxFills \in Nat
        /\ sinceFlat \in 0..fills
    BY LedgerAssumption, Zenon DEF LedgerFill, LedgerInv
  <2>2. ledgerPending' = NoOrder
    BY Zenon DEF LedgerFill
  <2> QED BY <2>1, <2>2
<1>10. ASSUME after = 0
       PROVE  \/ division = Refused("FlattenNotExclusive")
              \/ /\ Exclusive(Positions, side)
                 /\ \/ /\ division = Refused("FlattenNotReconciled")
                       /\ (sinceFlat + 1) * DustOfFill > DustTolerance
                    \/ division = Division([ c \in Components |-> Amount(Positions[c]) ])
  <2> DEFINE closes == [ c \in Components |-> Amount(Positions[c]) ]
  <2>1. division = FlattenPartition(Positions, filled, side)
    BY <1>10 DEF PartitionFill
  <2>2. \/ division = Refused("FlattenNotExclusive")
        \/ /\ Exclusive(Positions, side)
           /\ \/ division = Refused("FlattenNotReconciled") /\ ~Reconciled(FoldTotal(closes), filled)
              \/ division = Division(closes)
    BY <1>1, <1>4, <1>7, <2>1, FlattenDivides
  <2>3. ASSUME Exclusive(Positions, side), ~Reconciled(FoldTotal(closes), filled)
        PROVE  (sinceFlat + 1) * DustOfFill > DustTolerance
    <3>1. Within(SumOf(Positions), 0 - (side * filled), dust)
      BY <1>7, <1>10
    <3>2. FoldTotal(closes) \in Int /\ Within(FoldTotal(closes), filled, dust + (5 * ComponentCount))
      BY <1>1, <1>4, <1>7, <2>3, <3>1, ClosesNear
    <3> HIDE DEF closes
    <3>3. dust + (5 * ComponentCount) \in Nat
      BY <1>7, <1>8
    <3>4. dust + (5 * ComponentCount) > DustTolerance
      BY <1>4, <2>3, <3>2, <3>3, Unreconciled
    <3> QED BY <1>7, <1>8, <3>4, LedgerAssumption
  <2> HIDE DEF division, closes
  <2> QED BY <2>2, <2>3 DEF closes
<1>11. ASSUME after # 0
       PROVE  /\ division.error \notin {"FillNotReconciled", "FlattenNotReconciled", "SourcesNotReconciled"}
              /\ Divides(division, filled, (3 * ComponentCount) + 2)
  BY <1>1, <1>4, <1>6, <1>7, <1>11, FillDivides
<1>12. CASE division.error # "no"
  <2>1. ledgerEnded' = division.error /\ UNCHANGED << portfolio, components, sinceFlat >>
    BY <1>2, <1>12 DEF filled, side, targets, after
  <2> HIDE DEF division
  <2>2. ReconciliationHolds'
    <3>1. CASE after = 0
      BY <1>10, <1>12, <2>1, <3>1, Kinds DEF ReconciliationHolds
    <3>2. CASE after # 0
      BY <1>11, <2>1, <3>2 DEF ReconciliationHolds
    <3> QED BY <3>1, <3>2
  <2> QED BY <1>3, <1>9, <2>1, <2>2 DEF LedgerInv
<1>13. CASE division.error = "no"
  <2>1. /\ portfolio' = whole.book /\ components' = [ c \in Components |-> parts[c].book ]
        /\ ledgerEnded' \in { "Unaccounted", "no" }
             \/ (~Reconciled(FoldTotal(moved), after) /\ ledgerEnded' = "SourcesNotReconciled")
        /\ sinceFlat' = IF after = 0 THEN 0 ELSE sinceFlat + 1
    BY <1>2, <1>13 DEF filled, side, targets, after
  <2>2. division.shares \in [ Components -> Int ]
    <3>1. CASE after = 0
      <4>1. division.shares = [ c \in Components |-> Amount(Positions[c]) ]
        <5> HIDE DEF division
        <5> QED BY <1>10, <1>13, <3>1, Kinds
      <4>2. [ c \in Components |-> Amount(Positions[c]) ] \in [ Components -> Int ]
        BY <1>7, Signed
      <4> QED BY <4>1, <4>2
    <3>2. CASE after # 0
      <4>1. division.shares \in [ Components -> Nat ]
        BY <1>11, <1>13, <3>2 DEF Divides
      <4> HIDE DEF division
      <4> QED BY <4>1
    <3> QED BY <3>1, <3>2
  <2>3. ASSUME after = 0 PROVE \A c \in Components : Positions[c] + (side * division.shares[c]) = 0
    <3>1. Exclusive(Positions, side) /\ division.shares = [ c \in Components |-> Amount(Positions[c]) ]
      <4> HIDE DEF division
      <4> QED BY <1>10, <1>13, <2>3, Kinds
    <3>2. Within(SumOf(Positions), 0 - (side * filled), dust)
      BY <1>7, <2>3
    <3> HIDE DEF division
    <3> QED BY <1>1, <1>4, <1>7, <3>1, <3>2, ClosesNear
  <2>4. after # 0 => Within(SumOf(division.shares), filled, 5 * ((3 * ComponentCount) + 2))
    BY <1>11, <1>13 DEF Divides
  <2> HIDE DEF division
  <2>5. BookTrue(portfolio') /\ portfolio'.position = after
    <3>1. BookAfter(portfolio, side * filled, whole.book)
      BY <1>4, <1>5, <1>6, ApplyKeeps
    <3>2. after % 10 = 0
      BY <1>6
    <3>3. portfolio.position + (side * filled) = after
      BY DEF after
    <3> HIDE DEF whole
    <3> QED BY <2>1, <3>1, <3>2, <3>3 DEF BookAfter
  <2>6. ASSUME NEW c \in Components
        PROVE  BookAfter(components[c], side * division.shares[c], parts[c].book)
    <3>1. side * division.shares[c] \in Int
      BY <1>1, <2>2
    <3>2. BookTrue(components[c])
      BY <1>3 DEF PartsTrue
    <3>3. BookAfter(components[c], side * division.shares[c],
                    ApplyFill(components[c], side * division.shares[c], price).book)
      BY <1>4, <3>1, <3>2, ApplyKeeps
    <3> QED BY <3>3
  <2> HIDE DEF whole, parts
  <2>7. /\ components' \in [ Components -> Books ] /\ \A c \in Components : BookTrue(components'[c])
        /\ PositionsOf(components') = moved /\ moved \in [ Components -> Int ]
    BY <2>1, <2>6 DEF BookAfter, BookTrue, Books, PositionsOf
  <2>8. ASSUME NEW c \in Components
        PROVE  /\ Within(moved[c], Positions[c] + (side * division.shares[c]), 5)
               /\ Positions[c] + (side * division.shares[c]) = 0 => moved[c] = 0
    BY <2>6 DEF BookAfter, Positions
  <2> HIDE DEF moved
  <2>9. CASE after = 0
    <3>1. \A c \in Components : moved[c] = 0
      BY <2>3, <2>8, <2>9
    <3>2. SumOf(moved) = 0
      BY <2>7, <3>1, SumOfIs, SumZero, Keys
    <3>3. FoldTotal(moved) \in Int /\ Within(FoldTotal(moved), 0, 5 * ComponentCount)
      BY <2>7, <3>2, FoldNear
    <3>4. ~Reconciled(FoldTotal(moved), after) => DustOfFill > DustTolerance
      <4>1. 5 * ComponentCount \in Nat
        BY <1>8
      <4>2. ~Reconciled(FoldTotal(moved), after) => 5 * ComponentCount > DustTolerance
        BY <2>9, <3>3, <4>1, Unreconciled
      <4> QED BY <1>8, <4>2, LedgerAssumption
    <3>5. sinceFlat' = 0 /\ DustOfFill' = DustOfFill
      BY <2>1, <2>9 DEF DustOfFill
    <3>6. PartsTrue(portfolio', components', sinceFlat')
      <4>1. \A c \in Components : components'[c].position = 0
        BY <2>7, <3>1 DEF PositionsOf
      <4>2. Within(SumOf(PositionsOf(components')), portfolio'.position, sinceFlat' * DustOfFill)
        BY <1>8, <2>5, <2>7, <2>9, <3>2, <3>5 DEF Within
      <4> QED BY <1>6, <2>5, <2>7, <4>1, <4>2 DEF PartsTrue
    <3>7. ReconciliationHolds'
      BY <1>8, <2>1, <3>4, <3>5 DEF ReconciliationHolds
    <3> QED BY <1>9, <3>5, <3>6, <3>7 DEF LedgerInv
  <2>10. CASE after # 0
    <3>1. /\ Within(SumOf(moved), after, dust + DustOfFill)
          /\ Within(FoldTotal(moved), after, dust + DustOfFill + (5 * ComponentCount))
      BY <1>1, <1>4, <1>6, <1>7, <2>2, <2>4, <2>7, <2>8, <2>10, PartsMove
    <3>2. FoldTotal(moved) \in Int
      BY <2>7, FoldNear
    <3>3. sinceFlat' = sinceFlat + 1 /\ DustOfFill' = DustOfFill
      BY <2>1, <2>10 DEF DustOfFill
    <3>4. ~Reconciled(FoldTotal(moved), after) => (sinceFlat' + 1) * DustOfFill > DustTolerance
      <4>1. dust + DustOfFill + (5 * ComponentCount) \in Nat
        BY <1>7, <1>8
      <4>2. ~Reconciled(FoldTotal(moved), after) => dust + DustOfFill + (5 * ComponentCount) > DustTolerance
        BY <1>6, <3>1, <3>2, <4>1, Unreconciled
      <4>3. (sinceFlat' + 1) * DustOfFill = dust + DustOfFill + DustOfFill
        <5>1. sinceFlat + 1 \in Nat
          BY <1>3
        <5>2. ((sinceFlat + 1) + 1) * DustOfFill = ((sinceFlat + 1) * DustOfFill) + DustOfFill
          BY <5>1, Dust
        <5> QED BY <1>8, <3>3, <5>2
      <4> QED BY <1>7, <1>8, <4>2, <4>3, LedgerAssumption
    <3>5. PartsTrue(portfolio', components', sinceFlat')
      <4>1. Within(SumOf(PositionsOf(components')), portfolio'.position, sinceFlat' * DustOfFill)
        BY <1>8, <2>5, <2>7, <3>1, <3>3
      <4> QED BY <1>6, <2>5, <2>7, <2>10, <4>1 DEF PartsTrue
    <3>6. ReconciliationHolds'
      BY <2>1, <3>3, <3>4 DEF ReconciliationHolds
    <3> QED BY <1>9, <3>3, <3>5, <3>6 DEF LedgerInv
  <2> QED BY <2>9, <2>10
<1> QED BY <1>12, <1>13

-----------------------------------------------------------------------------
(* The results.                                                              *)

LEMMA LedgerIsTrue == LedgerSpec => []LedgerInv
<1>1. LedgerInv /\ [LedgerNext]_ledgerVars => LedgerInv'
  <2>1. LedgerInv /\ UNCHANGED ledgerVars => LedgerInv'
    BY DEF LedgerInv, ledgerVars, ReconciliationHolds
  <2> QED BY <2>1, DecideKeeps, FillKeeps DEF LedgerNext
<1> QED BY <1>1, LedgerInitTrue, PTL DEF LedgerSpec

\* The books and the pending action keep their types.
THEOREM LedgerTypeCorrect == LedgerSpec => []LedgerTypeOK
<1>1. LedgerInv => LedgerTypeOK
  BY DEF LedgerInv, PartsTrue, BookTrue, Books, Orders, LedgerTypeOK
<1> QED BY <1>1, LedgerIsTrue, PTL

\* Every book's position is the one of its open episode; a portfolio that is
\* flat leaves nothing in its components; and the components differ from the
\* portfolio by what the roundings of the fills since can have left, whatever
\* the quantities, the order of the fills and the division
\* (EpisodeBook::apply, partition_component_fill).
THEOREM BooksAlwaysAgree == LedgerSpec => []BooksAgree
<1>1. ASSUME LedgerInv PROVE BooksAgree
  <2>1. \A c \in Components : components[c].position = components[c].open.quantity
    BY <1>1 DEF LedgerInv, PartsTrue, BookTrue
  <2>2. \A b \in {portfolio} \cup Range(components) : b.position = b.open.quantity
    BY <1>1, <2>1 DEF LedgerInv, PartsTrue, BookTrue, Range
  <2>3. ASSUME portfolio.position = 0, NEW c \in Components PROVE components[c] = EmptyBook
    <3>1. BookTrue(components[c]) /\ components[c].position = 0
      BY <1>1, <2>3 DEF LedgerInv, PartsTrue
    <3> QED BY <3>1 DEF BookTrue, Books, EmptyBook
  <2>4. Amount(SumOf(Positions) - portfolio.position) <= sinceFlat * DustOfFill
    <3> DEFINE sum == SumOf(Positions)
               dust == sinceFlat * DustOfFill
    <3>1. Within(sum, portfolio.position, dust) /\ Positions \in [ Components -> Int ]
          /\ portfolio.position \in Int /\ sinceFlat \in Nat
      BY <1>1 DEF LedgerInv, PartsTrue, Positions, PositionsOf, BookTrue, Books
    <3>2. sum \in Int /\ dust \in Nat
      BY <3>1, SumOfIs, Dust
    <3> HIDE DEF sum, dust
    <3>3. Amount(sum - portfolio.position) <= dust
      BY <3>1, <3>2 DEF Within, Amount
    <3> QED BY <3>3 DEF sum, dust
  <2>5. ReconciliationHolds
    BY <1>1 DEF LedgerInv
  <2> QED BY <2>2, <2>3, <2>4, <2>5 DEF BooksAgree
<1> QED BY <1>1, LedgerIsTrue, PTL

\* A division of whole lots never ends the engine for a last digit, and the
\* tolerances of the flatten and of the check after a fill do not before as
\* many fills have come, since the portfolio was flat, as their dust takes to
\* reach them (partition_component_fill, validate_source_reconciliation).
THEOREM SourcesAlwaysReconcile == LedgerSpec => []ReconciliationHolds
<1>1. LedgerInv => ReconciliationHolds
  BY DEF LedgerInv
<1> QED BY <1>1, LedgerIsTrue, PTL
=============================================================================
