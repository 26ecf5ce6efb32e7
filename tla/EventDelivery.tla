--------------------------- MODULE EventDelivery ----------------------------
(***************************************************************************)
(* How a fill on the exchange reaches the observer's trading state: the    *)
(* signer reads it into its ledger (reconcile_startup), copies it to its   *)
(* outbox (sync_outbox, outbox.rs), and the observer asks for what follows *)
(* the last event it applied, applies and saves each event and             *)
(* acknowledges the last (reconcile_into, production_state.rs).            *)
(*                                                                         *)
(* Both processes keep their state in memory and in files; either may      *)
(* crash between any two steps.  The submission of the orders is in        *)
(* ProductionSigner and the connection in IntentDispatch: here an intent   *)
(* is authorized, its order fills, and a request is answered or lost.      *)
(***************************************************************************)
EXTENDS LiveLedger, FiniteSets

CONSTANTS
  Cloids,
  AssetOf,             (* CLOID -> asset of its order.                     *)
  DeltaOf,             (* CLOID -> signed lots of one fill of its order.   *)
  MaxFills,            (* Bound on the fills of an order.                  *)
  MaxFunding,          (* Bound on funding payments.                       *)
  MaxTime,             (* Bound on the clock.                              *)
  Crashing,            (* The processes that may crash.                    *)
  MaxCrashes           (* Bound on the crashes of both processes.          *)

ASSUME DeliveryAssumption ==
  /\ AssetOf \in [ Cloids -> Assets ] /\ DeltaOf \in [ Cloids -> Int \ {0} ]
  /\ {MaxFills, MaxFunding, MaxTime, MaxCrashes} \subseteq Nat
  /\ Crashing \subseteq { "signer", "observer" }

VARIABLES
  now,
  exchange,   (* The exchange's events, in the order they happened.        *)
  history,    (* Transitions of the signer's registry, all on disk.        *)
  signer,     (* Where the signer stands.                                  *)
  ctx,        (* Who called reconcile_startup: "boot" or "serve".          *)
  ready,      (* startup_reconciled.                                       *)
  stamp,      (* now_ms of the running reconcile_startup.                  *)
  batch,      (* The fills and funding read so far.                        *)
  snapshot,   (* The positions read after them.                            *)
  ledger, ledgerFile,      (* The signer's LiveTradingState.               *)
  outbox, outboxFile,      (* Its events; the sequence is the index.       *)
  acked,                   (* highest_acknowledged_sequence.               *)
  observer,   (* Where the observer stands.                                *)
  reply,      (* The events it has still to apply.                         *)
  state, stateFile,        (* Its ProductionTradingState.                  *)
  crashes

world  == << now, exchange >>
reads  == << stamp, batch, snapshot >>
signerState == << history, signer, ctx, ready, reads, ledger, ledgerFile, outbox,
                  outboxFile, acked >>
observerState == << observer, reply, state, stateFile >>
vars == << now, exchange, history, signer, ctx, ready, stamp, batch, snapshot,
           ledger, ledgerFile, outbox, outboxFile, acked, observer, reply, state,
           stateFile, crashes >>

ExchangePosition ==
  [ a \in Assets |-> FoldLeft(LAMBDA sum, e : IF e.asset = a THEN sum + e.delta ELSE sum,
                              0, exchange) ]

\* The observer's state: the payloads it applied, by sequence, and the
\* intents and the ledger they leave behind.
EmptyState == [ applied |-> << >>, intents |-> {}, ledger |-> EmptyLedger ]

NoReads == stamp' = 0 /\ batch' = {} /\ snapshot' = [ a \in Assets |-> 0 ]

Init ==
  /\ now = 0 /\ exchange = << >> /\ history = << >>
  /\ signer = "down" /\ ctx = "boot" /\ ready = FALSE
  /\ stamp = 0 /\ batch = {} /\ snapshot = [ a \in Assets |-> 0 ]
  /\ ledger = EmptyLedger /\ ledgerFile = EmptyLedger
  /\ outbox = << >> /\ outboxFile = << >> /\ acked = 0
  /\ observer = "down" /\ reply = << >> /\ state = EmptyState /\ stateFile = EmptyState
  /\ crashes = 0

-----------------------------------------------------------------------------
(* The exchange and the clock.                                             *)

Transition(op, c) == [ kind |-> op, cloid |-> c ]
Authorized(c) == Contains(history, Transition("accepted", c))
FillsOf(c) == { n \in DOMAIN exchange : IsFill(exchange[n]) /\ exchange[n].cloid = c }

Happens(kind, c, a, delta) ==
  exchange' = Append(exchange, [ kind |-> kind, id |-> Len(exchange) + 1, cloid |-> c,
                                 asset |-> a, delta |-> delta, at |-> now ])

\* An order fills until the exchange reports its outcome.
ExchangeFill(c) ==
  /\ Authorized(c) /\ ~Contains(history, Transition("settled", c))
  /\ Cardinality(FillsOf(c)) < MaxFills
  /\ Happens("fill", c, AssetOf[c], DeltaOf[c])
  /\ UNCHANGED << now, signerState, observerState, crashes >>

ExchangeFunding(a) ==
  /\ ExchangePosition[a] # 0
  /\ Cardinality({ n \in DOMAIN exchange : IsFunding(exchange[n]) }) < MaxFunding
  /\ Happens("funding", "", a, 0)
  /\ UNCHANGED << now, signerState, observerState, crashes >>

Tick ==
  /\ now < MaxTime /\ now' = now + 1
  /\ UNCHANGED << exchange, signerState, observerState, crashes >>

-----------------------------------------------------------------------------
(* The signer.                                                             *)

Boot ==
  /\ signer = "down"
  /\ ledger' = ledgerFile /\ outbox' = outboxFile /\ signer' = "begin"
  /\ UNCHANGED << world, history, ctx, ready, reads, ledgerFile, outboxFile, acked,
                  observerState, crashes >>

\* The connection is lost with the signer, and the observer exits at its
\* next request; what it would still apply it may as well have applied before.
Stop ==
  /\ signer' = "down" /\ ctx' = "boot" /\ ready' = FALSE /\ NoReads
  /\ ledger' = EmptyLedger /\ outbox' = << >>
  /\ observer' = "down" /\ reply' = << >> /\ state' = EmptyState

SignerCrash ==
  /\ "signer" \in Crashing /\ signer # "down" /\ crashes < MaxCrashes
  /\ crashes' = crashes + 1
  /\ Stop
  /\ UNCHANGED << world, history, ledgerFile, outboxFile, acked, stateFile >>

\* An intent is authorized; when it was submitted the signer reconciles.
Authorize(c) ==
  /\ signer = "idle" /\ ready /\ ~Authorized(c)
  /\ history' = Append(history, Transition("accepted", c)) /\ signer' = "begin"
  /\ UNCHANGED << world, ctx, ready, reads, ledger, ledgerFile, outbox, outboxFile,
                  acked, observerState, crashes >>

Begin ==
  /\ signer = "begin"
  /\ stamp' = now /\ ready' = FALSE /\ signer' = "read"
  /\ UNCHANGED << world, history, ctx, batch, snapshot, ledger, ledgerFile, outbox,
                  outboxFile, acked, observerState, crashes >>

\* read_all_fills and read_all_funding: from the cursor to the time of the call.
ReadEvents ==
  /\ signer = "read"
  /\ batch' = { e \in Range(exchange) : ledger.cursor <= e.at /\ e.at <= stamp }
  /\ signer' = "positions"
  /\ UNCHANGED << world, history, ctx, ready, stamp, snapshot, ledger, ledgerFile, outbox,
                  outboxFile, acked, observerState, crashes >>

ReadPositions ==
  /\ signer = "positions"
  /\ snapshot' = ExchangePosition /\ signer' = "apply"
  /\ UNCHANGED << world, history, ctx, ready, stamp, batch, ledger, ledgerFile, outbox,
                  outboxFile, acked, observerState, crashes >>

\* The ledger is saved before the positions are compared.
ApplyBatches ==
  /\ signer = "apply" /\ CanApplyBatch(ledger, batch)
  /\ ledger' = ApplyBatch(ledger, batch, stamp) /\ ledgerFile' = ledger'
  /\ signer' = "compare"
  /\ UNCHANGED << world, history, ctx, ready, reads, outbox, outboxFile, acked,
                  observerState, crashes >>

\* The orders in doubt are looked up: some are settled, some still open.
Compare ==
  /\ signer = "compare" /\ ledger.position = snapshot
  /\ \E settled \in SUBSET { c \in Cloids : Authorized(c) } :
       LET new == { c \in settled : ~Contains(history, Transition("settled", c)) }
       IN  history' = history \o SetToSeq({ Transition("settled", c) : c \in new })
  /\ signer' = "sync" /\ ready' = TRUE /\ NoReads
  /\ UNCHANGED << world, ctx, ledger, ledgerFile, outbox, outboxFile, acked,
                  observerState, crashes >>

\* A read fails, the batch is refused or the positions differ: the process
\* ends at boot, and is only not ready afterwards.
ReconcileFails ==
  /\ \/ signer \in { "read", "positions" }
     \/ signer = "apply" /\ ~CanApplyBatch(ledger, batch)
     \/ signer = "compare" /\ ledger.position # snapshot
  /\ IF ctx = "boot" THEN Stop
     ELSE /\ signer' = "sync" /\ NoReads
          /\ UNCHANGED << ctx, ready, ledger, outbox, observer, reply, state >>
  /\ UNCHANGED << world, history, ledgerFile, outboxFile, acked, stateFile, crashes >>

\* What append_once adds of the sequence q: the elements o has no entry of.
Missing(o, q) ==
  LET upTo[n \in 0..Len(q)] ==
        IF n = 0 THEN << >>
        ELSE IF Contains(o, q[n]) THEN upTo[n - 1] ELSE Append(upTo[n - 1], q[n])
  IN  upTo[Len(q)]

\* Fault: what happened on the exchange goes before the registry's history.
SyncedFillsFirst(o) ==
  o \o Missing(o, ledger.fills) \o Missing(o, ledger.funding) \o Missing(o, history)

\* Fault: an order that is settled is not looked at again.
SyncedUnsettled(o) ==
  LET unsettled(f) == ~Contains(history, Transition("settled", f.cloid))
  IN  o \o Missing(o, history) \o SelectSeq(Missing(o, ledger.fills), unsettled)
        \o Missing(o, ledger.funding)

\* append_once of every transition, then every fill, then every funding
\* payment that has no entry yet.
Synced(o) ==
  o \o Missing(o, history) \o Missing(o, ledger.fills) \o Missing(o, ledger.funding)

SyncOutbox ==
  /\ signer = "sync"
  /\ outbox' = Synced(outbox) /\ outboxFile' = outbox'
  /\ signer' = "idle" /\ ctx' = "serve"
  /\ UNCHANGED << world, history, ready, reads, ledger, ledgerFile, acked,
                  observerState, crashes >>

\* Fault: everything that is not acknowledged is sent again.
ServeReplayUnacknowledged ==
  /\ signer = "idle" /\ observer = "asked"
  /\ outbox' = Synced(outbox) /\ outboxFile' = outbox'
  /\ reply' = SubSeq(outbox', acked + 1, Len(outbox')) /\ observer' = "apply"
  /\ UNCHANGED << world, history, signer, ctx, ready, reads, ledger, ledgerFile, acked,
                  state, stateFile, crashes >>

ServeReplay ==
  /\ signer = "idle" /\ observer = "asked"
  /\ outbox' = Synced(outbox) /\ outboxFile' = outbox'
  /\ reply' = SubSeq(outbox', Len(state.applied) + 1, Len(outbox')) /\ observer' = "apply"
  /\ UNCHANGED << world, history, signer, ctx, ready, reads, ledger, ledgerFile, acked,
                  state, stateFile, crashes >>

\* An acknowledgment below the last or beyond the outbox ends the process.
CanAcknowledge(n) == acked <= n /\ n <= Len(outbox)

ServeAcknowledge ==
  /\ signer = "idle" /\ observer = "acking" /\ CanAcknowledge(Len(state.applied))
  /\ acked' = Len(state.applied) /\ outboxFile' = outbox /\ observer' = "idle"
  /\ UNCHANGED << world, history, signer, ctx, ready, reads, ledger, ledgerFile, outbox,
                  reply, state, stateFile, crashes >>

-----------------------------------------------------------------------------
(* The observer.                                                           *)

Start ==
  /\ observer = "down" /\ signer = "idle"
  /\ state' = stateFile /\ observer' = "idle"
  /\ UNCHANGED << world, signerState, reply, stateFile, crashes >>

Exit == observer' = "down" /\ reply' = << >> /\ state' = EmptyState

ObserverCrash ==
  /\ "observer" \in Crashing /\ observer # "down" /\ crashes < MaxCrashes
  /\ crashes' = crashes + 1
  /\ Exit
  /\ UNCHANGED << world, signerState, stateFile >>

Ask ==
  /\ observer = "idle" /\ observer' = "asked"
  /\ UNCHANGED << world, signerState, reply, state, stateFile, crashes >>

CanApplyEvent(s, p) ==
  CASE p.kind = "accepted" -> TRUE
    [] p.kind = "settled"  -> p.cloid \in s.intents
    [] p.kind = "fill"     -> CanApplyFill(s.ledger, p) /\ p.cloid \in s.intents
    [] p.kind = "funding"  -> CanApplyFunding(s.ledger, p)

ApplyEvent(s, p) ==
  [ applied |-> Append(s.applied, p),
    intents |-> IF p.kind = "accepted" THEN s.intents \cup { p.cloid } ELSE s.intents,
    ledger  |-> IF p.kind \in { "fill", "funding" } THEN Apply(s.ledger, p) ELSE s.ledger ]

\* Each event is applied to a copy, which replaces the state if all is well.
ApplyNext ==
  /\ observer = "apply" /\ reply # << >> /\ CanApplyEvent(state, Head(reply))
  /\ state' = ApplyEvent(state, Head(reply)) /\ reply' = Tail(reply)
  /\ observer' = "save"
  /\ UNCHANGED << world, signerState, stateFile, crashes >>

Save ==
  /\ observer = "save" /\ stateFile' = state /\ observer' = "apply"
  /\ UNCHANGED << world, signerState, reply, state, crashes >>

\* An event that cannot be applied ends the observer.
ApplyFails ==
  /\ observer = "apply" /\ reply # << >> /\ ~CanApplyEvent(state, Head(reply))
  /\ Exit
  /\ UNCHANGED << world, signerState, stateFile, crashes >>

\* Fault: the observer acknowledges what it has received.
AcknowledgeReceived ==
  /\ observer = "apply" /\ observer' = "acking"
  /\ state' = FoldLeft(ApplyEvent, state, reply) /\ reply' = << >>
  /\ UNCHANGED << world, signerState, stateFile, crashes >>

Acknowledge ==
  /\ observer = "apply" /\ reply = << >> /\ observer' = "acking"
  /\ UNCHANGED << world, signerState, reply, state, stateFile, crashes >>

-----------------------------------------------------------------------------

Reconciliation ==
  \/ Begin \/ ReadEvents \/ ReadPositions \/ ApplyBatches \/ Compare
  \/ ReconcileFails \/ SyncOutbox

Signer == Boot \/ Reconciliation \/ ServeReplay \/ ServeAcknowledge

Observer ==
  \/ Start \/ Ask \/ ApplyNext \/ Save \/ ApplyFails \/ Acknowledge

Next ==
  \/ Signer \/ Observer \/ SignerCrash \/ ObserverCrash \/ Tick
  \/ \E c \in Cloids : Authorize(c) \/ ExchangeFill(c)
  \/ \E a \in Assets : ExchangeFunding(a)

Spec == Init /\ [][Next]_vars

\* Both processes take their steps and are restarted (Restart=on-failure).
FairSpec == Spec /\ WF_vars(Signer) /\ WF_vars(Observer)

-----------------------------------------------------------------------------
(* Properties.                                                             *)

Payloads ==
  [ kind : { "accepted", "settled" }, cloid : Cloids ]
  \cup [ kind : { "fill", "funding" }, id : Nat, cloid : Cloids \cup { "" },
         asset : Assets, delta : Int, at : Nat ]

LedgerType ==
  [ position : [ Assets -> Int ], fills : Seq(Payloads), funding : Seq(Payloads),
    cursor : Nat ]
StateType ==
  [ applied : Seq(Payloads), intents : SUBSET Cloids, ledger : LedgerType ]

TypeOK ==
  /\ now \in Nat /\ exchange \in Seq(Payloads) /\ history \in Seq(Payloads)
  /\ signer \in { "down", "begin", "read", "positions", "apply", "compare",
                  "sync", "idle" }
  /\ ctx \in { "boot", "serve" } /\ ready \in BOOLEAN /\ stamp \in Nat /\ batch \subseteq Payloads
  /\ snapshot \in [ Assets -> Int ]
  /\ ledger \in LedgerType /\ ledgerFile \in LedgerType
  /\ outbox \in Seq(Payloads) /\ outboxFile \in Seq(Payloads) /\ acked \in Nat
  /\ observer \in { "down", "idle", "asked", "apply", "save", "acking" }
  /\ reply \in Seq(Payloads) /\ state \in StateType /\ stateFile \in StateType
  /\ crashes \in Nat

\* The observer acknowledges no event that a crash could make it forget, and
\* sends no acknowledgment that would end the signer.
AcknowledgedIsDurable ==
  /\ acked <= Len(stateFile.applied)
  /\ (signer = "idle" /\ observer = "acking") => CanAcknowledge(Len(state.applied))

\* When both are idle and the observer has applied the whole outbox, the two
\* ledgers agree: the outbox leaves out no fill that the signer applied, and
\* each had its effect exactly once.
LedgersAgree ==
  (signer = "idle" /\ observer = "idle" /\ state.applied = outbox) =>
    /\ state.ledger.position = ledger.position
    /\ Range(state.ledger.fills) = Range(ledger.fills)
    /\ Len(state.ledger.fills) = Len(ledger.fills)

\* The observer never meets a fill or a transition of an intent it has not
\* been told of (ReconciliationApplyError::UnknownIntent).
IntentsComeFirst ==
  \A n \in DOMAIN outbox :
    outbox[n].kind \in { "settled", "fill" } =>
      \E m \in 1..(n - 1) : outbox[m] = Transition("accepted", outbox[n].cloid)

\* Every event of the outbox can be applied where it stands: the order of a
\* fill and a funding payment matters (reconciliation.rs:42), and the
\* observer's ledger takes them in as the signer's did.
EveryEventApplies ==
  Len(stateFile.applied) < Len(outboxFile) =>
    CanApplyEvent(stateFile, outboxFile[Len(stateFile.applied) + 1])

\* The observer's durable state is a prefix of the signer's durable outbox,
\* and both only grow: delivery in order, exactly once.
Delivery ==
  INSTANCE OrderedDelivery WITH log <- outboxFile, delivered <- stateFile.applied

DeliversInOrder == Delivery!Spec

\* Every fill in the signer's ledger reaches the observer's, however often the
\* observer crashes.  A crash of the signer may end it: a fill that the
\* exchange dates into a window already read is behind the cursor for ever, and
\* the positions then differ at every start.
FillsArrive ==
  \A n \in 1..(MaxFills * Cardinality(Cloids)) :
    Len(ledgerFile.fills) >= n ~> Len(stateFile.ledger.fills) >= n
=============================================================================
