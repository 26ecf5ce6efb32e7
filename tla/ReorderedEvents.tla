---------------------------- MODULE ReorderedEvents ----------------------------
(* The observer's production state under events of the signer that arrive in *)
(* any order, again, or in conflict with what is known (production_state.rs, *)
(* reconcile_into): a bounded buffer keeps what is early, the gap's event    *)
(* applies it, the state is saved after each event, an error ends the        *)
(* process, which reloads what was saved.                                    *)
(*                                                                           *)
(* One intent, one asset; an event's hash is its payload.  Quantities and    *)
(* equities are small integers; fees and episodes are in other modules.      *)
EXTENDS Integers, Sequences, FiniteSets, Functions

CONSTANTS
  Payloads,           \* what the signer may report
  StreamLength,       \* events of a stream
  ReorderWindow,      \* MAXIMUM_REORDER_WINDOW
  StartingEquity,
  MaxReloads          \* bound on the restarts

ASSUME EventsAssumption ==
  /\ StreamLength \in Nat \ {0} /\ ReorderWindow \in Nat \ {0} /\ MaxReloads \in Nat
  /\ StartingEquity \in Nat \ {0}
  /\ \A p \in Payloads : p.kind \in {"IntentAccepted", "OrderCancelled", "Fill", "Funding",
                                   "PositionSnapshot", "EquitySnapshot"}

VARIABLES
  stream,             \* external: what the signer's outbox holds
  trading,            \* ProductionTradingState
  tradingFile,        \* its file
  tradingError,       \* the error that ended the process, or "no"
  reloads             \* restarts so far

eventsVars == <<stream, trading, tradingFile, tradingError, reloads>>

NewTrading ==
  [intent |-> "unknown", position |-> 0, equity |-> StartingEquity, fills |-> {}, funding |-> {},
   highest |-> 0, applied |-> <<>>, buffer |-> <<>>, blocked |-> FALSE, mismatch |-> FALSE,
   replan |-> FALSE]

EventsTypeOK ==
  /\ stream \in [1..StreamLength -> Payloads]
  /\ \A t \in {trading, tradingFile} :
       /\ t.highest \in 0..StreamLength
       /\ DOMAIN t.applied = 1..t.highest
       /\ DOMAIN t.buffer \subseteq 1..StreamLength
  /\ reloads \in 0..MaxReloads

EventsInit ==
  /\ stream \in [1..StreamLength -> Payloads]
  /\ trading = NewTrading /\ tradingFile = NewTrading
  /\ tradingError = "no" /\ reloads = 0

-----------------------------------------------------------------------------
\* apply_contiguous for each payload: the state afterwards, or an error.
Changed(t) == [error |-> "no", state |-> t]
Erroneous(why) == [error |-> why]

WithIntent(t, to) ==
  IF t.intent = "unknown" THEN Erroneous("UnknownIntent") ELSE Changed([t EXCEPT !.intent = to])

\* A fill of a known identity must be the same fill.
FillApplied(t, p) ==
  CASE p \in t.fills -> Changed(t)
    [] p \notin t.fills /\ \E f \in t.fills : f.id = p.id -> Erroneous("Ledger")
    [] OTHER -> WithIntent([t EXCEPT !.fills = @ \cup {p}, !.position = @ + p.delta,
                                     !.equity = p.equity, !.replan = TRUE], "PartiallyFilled")

\* Funding belongs to an open position and leaves some equity.
FundingApplied(t, p) ==
  CASE p \in t.funding -> Changed(t)
    [] p \notin t.funding /\ (t.position = 0 \/ t.equity + p.amount <= 0) -> Erroneous("Ledger")
    [] OTHER -> Changed([t EXCEPT !.funding = @ \cup {p}, !.equity = @ + p.amount, !.replan = TRUE])

Effect(t, p) ==
  CASE p.kind = "IntentAccepted" -> Changed([t EXCEPT !.intent = "AcceptedBySigner"])
    [] p.kind = "OrderCancelled" -> WithIntent(t, "Cancelled")
    [] p.kind = "Fill" -> FillApplied(t, p)
    [] p.kind = "Funding" -> FundingApplied(t, p)
    [] p.kind = "PositionSnapshot" -> Changed([t EXCEPT !.blocked = p.position # t.position])
    [] p.kind = "EquitySnapshot" -> Changed([t EXCEPT !.mismatch = p.equity # t.equity])

ApplyContiguous(t, p) ==
  LET r == Effect(t, p)
  IN  IF r.error # "no" THEN r
      ELSE Changed([r.state EXCEPT !.highest = @ + 1, !.applied = Append(@, p)])

\* The events of the buffer that follow without a gap, up to one that fails,
\* which is gone from the buffer too.
DrainedOnce(acc) ==
  LET n == acc.state.highest + 1
      rest == [acc.state EXCEPT !.buffer = Restrict(@, DOMAIN @ \ {n})]
      r == ApplyContiguous(rest, acc.state.buffer[n])
  IN  IF acc.error # "no" \/ n \notin DOMAIN acc.state.buffer THEN acc
      ELSE IF r.error # "no" THEN [error |-> r.error, state |-> rest] ELSE r
Drained(outcome) ==
  LET after[i \in 0..ReorderWindow] == IF i = 0 THEN outcome ELSE DrainedOnce(after[i - 1])
  IN  after[ReorderWindow]

\* The state with one more event in its buffer.
WithEarly(t, n, p) ==
  [t EXCEPT !.buffer = [m \in DOMAIN t.buffer \cup {n} |-> IF m = n THEN p ELSE t.buffer[m]]]

\* Fault: an event that waits is replaced by another of its sequence.
BufferedLatest(t, n, p) ==
  IF Cardinality(DOMAIN t.buffer) >= ReorderWindow THEN Erroneous("ReorderWindowExhausted")
  ELSE Changed(WithEarly(t, n, p))

\* An early event; a full buffer refuses also what it holds already.
Buffered(t, n, p) ==
  CASE Cardinality(DOMAIN t.buffer) >= ReorderWindow -> Erroneous("ReorderWindowExhausted")
    [] Cardinality(DOMAIN t.buffer) < ReorderWindow /\ n \in DOMAIN t.buffer ->
         IF t.buffer[n] # p THEN Erroneous("SequenceIdentityConflict") ELSE Changed(t)
    [] OTHER -> Changed(WithEarly(t, n, p))

\* apply_reconciliation_event
ApplyReconciliationEvent(t, n, p) ==
  CASE n \in DOMAIN t.applied ->
         IF t.applied[n] = p THEN Changed(t) ELSE Erroneous("SequenceIdentityConflict")
    [] n \notin DOMAIN t.applied /\ n <= t.highest -> Erroneous("SequenceRegression")
    [] n > t.highest + 1 -> Buffered(t, n, p)
    [] OTHER -> Drained(ApplyContiguous(t, p))

-----------------------------------------------------------------------------
TradingSaved == trading = tradingFile /\ tradingError = "no"

\* An event of the stream arrives, or, for a sequence that is known, one with
\* another payload.
DeliverEvent ==
  \E n \in 1..StreamLength, p \in Payloads :
    LET known == n \in DOMAIN trading.applied \/ n \in DOMAIN trading.buffer
        r == ApplyReconciliationEvent(trading, n, p)
    IN  /\ TradingSaved
        /\ p = stream[n] \/ known
        /\ tradingError' = r.error
        /\ trading' = IF "state" \in DOMAIN r THEN r.state ELSE trading
        /\ UNCHANGED <<stream, tradingFile, reloads>>

\* save_atomic
SaveTrading ==
  /\ tradingError = "no" /\ trading # tradingFile
  /\ tradingFile' = trading
  /\ UNCHANGED <<stream, trading, tradingError, reloads>>

\* The process stops, or has ended, and loads the file.
ReloadTrading ==
  /\ reloads < MaxReloads
  /\ reloads' = reloads + 1
  /\ trading' = tradingFile /\ tradingError' = "no"
  /\ UNCHANGED <<stream, tradingFile>>

EventsNext == DeliverEvent \/ SaveTrading \/ ReloadTrading
EventsSpec == EventsInit /\ [][EventsNext]_eventsVars

-----------------------------------------------------------------------------
\* The state after the first events of a stream, in order, or an error.
InStreamOrder(events) ==
  LET after[n \in 0..Len(events)] ==
        IF n = 0 THEN Changed(NewTrading)
        ELSE IF after[n - 1].error # "no" THEN after[n - 1]
        ELSE ApplyContiguous(after[n - 1].state, events[n])
  IN  after[Len(events)]

\* The order of arrival is invisible: what is applied is exactly what the
\* stream applied in order gives, in memory and in the file, with nothing
\* applied twice, left out, or taken from a conflicting event
\* (production_state.rs, apply_reconciliation_event).
ArrivalOrderIsInvisible ==
  \A t \in {trading, tradingFile} :
    InStreamOrder(SubSeq(stream, 1, t.highest)) = Changed([t EXCEPT !.buffer = <<>>])
=============================================================================
