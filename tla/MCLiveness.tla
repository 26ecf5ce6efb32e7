----------------------------- MODULE MCLiveness -----------------------------
(* What must happen in the end, in a small instance each of the handoff of   *)
(* intents and of the delivery of events.  They share no state, so each      *)
(* behaviour is that of one of them, chosen at the start, while the other    *)
(* stands still; the fairness is that of the one that runs.                  *)
EXTENDS Integers

\* IntentDispatch
CONSTANTS
  Intents, ReduceOnly, NoIntent, RiskCapacity, ExposureCapacity, MaxTimeouts,
  MaxObserverCrashes, MaxSignerCrashes, MaxSetAside
VARIABLES
  queue, disk, applied, worker, wcur, main, upTo, conn, toSigner, toObserver, entries, busy, log,
  timeouts, observerCrashes, signerCrashes, setAside

\* EventDelivery
CONSTANTS
  Assets, Cloids, AssetOf, DeltaOf, MaxFills, MaxFunding, MaxTime, Crashing, MaxCrashes
VARIABLES
  now, exchange, history, signer, ctx, ready, stamp, batch, snapshot, ledger, ledgerFile, outbox,
  outboxFile, acked, observer, reply, state, stateFile, crashes

VARIABLE part           \* "handoff" or "events"

Handoff == INSTANCE IntentDispatch WITH signer <- entries
Events == INSTANCE EventDelivery

\* An order that opens a position and one that closes it.
MCCloids == {"open", "close"}
MCAssetOf == [c \in MCCloids |-> "BTC"]
MCDeltaOf == [c \in MCCloids |-> IF c = "open" THEN 1 ELSE -1]
-----------------------------------------------------------------------------
handoffVars ==
  <<queue, disk, applied, worker, wcur, main, upTo, conn, toSigner, toObserver, entries, busy, log,
    timeouts, observerCrashes, signerCrashes, setAside>>
eventsVars ==
  <<now, exchange, history, signer, ctx, ready, stamp, batch, snapshot, ledger, ledgerFile, outbox,
    outboxFile, acked, observer, reply, state, stateFile, crashes>>
liveVars == <<part, handoffVars, eventsVars>>

Runs(name) == part = name

LiveInit == part \in {"handoff", "events"} /\ Handoff!Init /\ Events!Init

LiveNext ==
  \/ Runs("handoff") /\ Handoff!Next /\ UNCHANGED <<part, eventsVars>>
  \/ Runs("events") /\ Events!Next /\ UNCHANGED <<part, handoffVars>>

HandoffFairness ==
  /\ WF_handoffVars(Runs("handoff") /\ Handoff!Start)
  /\ SF_handoffVars(Runs("handoff") /\ Handoff!MainTask)
  /\ SF_handoffVars(Runs("handoff") /\ Handoff!Worker)
  /\ WF_handoffVars(Runs("handoff") /\ Handoff!Signer)

EventsFairness ==
  /\ WF_eventsVars(Runs("events") /\ Events!Signer)
  /\ WF_eventsVars(Runs("events") /\ Events!Observer)

LiveSpec == LiveInit /\ [][LiveNext]_liveVars /\ HandoffFairness /\ EventsFairness
-----------------------------------------------------------------------------
\* Every persisted intent is answered, and every fill in the signer's ledger
\* reaches the observer's: the properties of the two modules.
EveryIntentIsAnswered == Handoff!EveryIntentIsAnswered
FillsArrive == Events!FillsArrive
=============================================================================
