-------------------------- MODULE ProductionSigner --------------------------
(***************************************************************************)
(* The signer process (copytrade-signer/src/main.rs, production.rs): its   *)
(* one sequential request loop, the registry it keeps in memory, the last  *)
(* registry it persisted, and the exchange it submits to.                  *)
(*                                                                         *)
(* A request is handled to the end before the next one is read, so one     *)
(* program counter describes the process.  Between any two of its steps    *)
(* the process may crash, the exchange may act on a request that is still  *)
(* in flight, and time may pass.                                           *)
(*                                                                         *)
(* A request the signer rejects changes nothing and is not an action.      *)
(* What the account reads of reconcile_startup compute (fills, funding and *)
(* positions) is only whether they succeed: pc "reads".                    *)
(***************************************************************************)
EXTENDS SubmissionRegistry, Sequences

CONSTANTS
  ExpiresAt,             (* Intent -> last instant it may be authorized.   *)
  Millis,                (* Wall-clock readings offered as nonces: the     *)
                         (* clock may step back.                           *)
  RequiredConfirmations, (* "Not found" answers that settle an unknown.    *)
  MinInterval,           (* Least time between two of them.                *)
  MaxDelay,              (* Longest life of a request in the network.      *)
  MaxTime,               (* Bound on the clock.                            *)
  MaxCrashes,            (* Bound on crashes.                              *)
  MaxIoFailures          (* Bound on failed registry writes and signatures.*)

ASSUME SignerAssumption ==
  /\ DOMAIN ExpiresAt = Intents
  /\ \A i \in Intents : ExpiresAt[i] \in Nat
  /\ Millis \subseteq Nat /\ Millis # {}
  /\ RequiredConfirmations \in Nat \ {0, 1}
  /\ MinInterval \in Nat \ {0} /\ MaxDelay \in Nat
  /\ {MaxTime, MaxCrashes, MaxIoFailures} \subseteq Nat

VARIABLES
  reg,        (* registry: the registry in memory.                         *)
  disk,       (* The registry file.                                        *)
  pc,         (* Where the request loop stands.                            *)
  ctx,        (* Who called reconcile_startup: "boot" or "serve".          *)
  cur,        (* The intent being submitted.                               *)
  todo,       (* Entries reconcile_startup has still to visit.             *)
  reconciled, (* startup_reconciled.                                       *)
  nonceNext,  (* NonceAllocator.next.                                      *)
  stamp,      (* now_ms of the running reconcile_startup.                  *)
  now,        (* The clock.                                                *)
  wire,       (* Signed requests the exchange has not acted on.            *)
  orders,     (* CLOID -> its order at the exchange.                       *)
  sent,       (* Every request ever sent, in order (history variable).     *)
  accepted,   (* CLOIDs ever answered Accepted (history variable).         *)
  late,       (* CLOIDs the exchange acted on only after the span of the   *)
              (* confirmations (history variable).                         *)
  crashes, ioFailures

memory   == << reg, pc, ctx, cur, todo, reconciled, nonceNext, stamp >>
exchange == << wire, orders, late >>
bounds   == << crashes, ioFailures >>
vars     == << reg, disk, pc, ctx, cur, todo, reconciled, nonceNext, stamp,
               now, wire, orders, sent, accepted, late, crashes, ioFailures >>

PCs == { "down", "idle", "accepted", "submit", "nonce", "signed", "started",
         "await", "reconcile", "reads", "scan", "failed" }
Order   ==
  { o \in [ status : {"none", "open", "filled", "cancelled", "rejected"},
            filled : 0..Lot ] : o.status = "filled" <=> o.filled = Lot }
Request == [ cloid : Cloids, nonce : Nat, at : Nat ]

curCloid == CloidOf[cur]
LookedUp == Working \cup { "unknown_result" }
InFlight(c) == \E q \in wire : q.cloid = c

\* The least time the confirmations of an unknown order take together.
Span == (RequiredConfirmations - 1) * MinInterval

-----------------------------------------------------------------------------
(* A persist writes the whole registry; a failed one may or may not have   *)
(* replaced the file, and memory keeps the change either way.              *)

Store(r, done, failed) ==
  /\ reg' = r
  /\ \/ disk' = r /\ pc' = done /\ UNCHANGED ioFailures
     \/ /\ ioFailures < MaxIoFailures
        /\ ioFailures' = ioFailures + 1
        /\ disk' \in { disk, r }
        /\ pc' = failed

Halt ==
  /\ reg' = EmptyRegistry /\ pc' = "down" /\ ctx' = "boot" /\ cur' = NoIntent
  /\ todo' = {} /\ reconciled' = FALSE /\ nonceNext' = 0 /\ stamp' = 0

Init ==
  /\ reg = EmptyRegistry /\ disk = EmptyRegistry
  /\ pc = "down" /\ ctx = "boot" /\ cur = NoIntent /\ todo = {}
  /\ reconciled = FALSE /\ nonceNext = 0 /\ stamp = 0 /\ now = 0
  /\ wire = {} /\ orders = [ c \in Cloids |-> [ status |-> "none", filled |-> 0 ] ]
  /\ sent = << >> /\ accepted = {} /\ late = {}
  /\ crashes = 0 /\ ioFailures = 0

-----------------------------------------------------------------------------
(* Process start and stop.                                                 *)

\* restore refuses an inconsistent file; the nonce floor comes from history.
Boot ==
  /\ pc = "down" /\ Restorable(disk)
  /\ reg' = disk /\ nonceNext' = NextNonceFloor(disk)
  /\ pc' = "reconcile"
  /\ UNCHANGED << disk, ctx, cur, todo, reconciled, stamp, now, exchange,
                  sent, accepted, bounds >>

Crash ==
  /\ pc # "down" /\ crashes < MaxCrashes
  /\ crashes' = crashes + 1
  /\ Halt
  /\ UNCHANGED << disk, now, exchange, sent, accepted, ioFailures >>

-----------------------------------------------------------------------------
(* ObserverRequest::Submit.                                                *)

Known(i)   == Kind(reg, CloidOf[i]) # "absent"
Replay(i)  == /\ Known(i) /\ reg.intent[CloidOf[i]] = i
              /\ Kind(reg, CloidOf[i]) # "authorized_not_submitted"

\* A replay of a known CLOID is answered Accepted without a side effect.
SubmitReplay(i) ==
  /\ pc = "idle" /\ Replay(i)
  /\ accepted' = accepted \cup { CloidOf[i] }
  /\ UNCHANGED << memory, disk, now, exchange, sent, bounds >>

\* So is a Reconcile of an entry that needs no lookup.
AnswerReconcile(c) ==
  /\ pc = "idle" /\ Kind(reg, c) \notin LookedUp \cup { "absent" }
  /\ accepted' = accepted \cup { c }
  /\ UNCHANGED << memory, disk, now, exchange, sent, bounds >>

\* Other fields under a known CLOID are an error that leaves the serve loop.
SubmitConflict(i) ==
  /\ pc = "idle" /\ Known(i) /\ reg.intent[CloidOf[i]] # i
  /\ Halt
  /\ UNCHANGED << disk, now, exchange, sent, accepted, bounds >>

\* Fault: a rejected entry may be authorized again.
MayAuthorizeRejected(i) ==
  LET c == CloidOf[i]
  IN  /\ reconciled /\ now <= ExpiresAt[i]
      /\ \/ Kind(reg, c) \in { "authorized_not_submitted", "rejected" }
         \/ CanRegister(reg, i)

MayAuthorize(i) ==
  LET c == CloidOf[i]
      retry == Kind(reg, c) = "authorized_not_submitted"
  IN  /\ reconciled
      /\ (i \notin ReduceOnly /\ HasAuthorizedNotSubmitted(reg)) => retry
      /\ now <= ExpiresAt[i]
      /\ i \notin ReduceOnly => PermitsIncrease(reg, AssetOf[i])
      /\ (retry /\ reg.intent[c] = i) \/ CanRegister(reg, i)

Authorized(i) ==
  IF Known(i) THEN Transition(reg, CloidOf[i], Plain("authorized"))
              ELSE Register(reg, i)

Authorize(i) ==
  /\ pc = "idle" /\ MayAuthorize(i)
  /\ Store(Authorized(i), "accepted", "idle")
  /\ cur' = IF pc' = "accepted" THEN i ELSE cur
  /\ UNCHANGED << ctx, todo, reconciled, nonceNext, stamp, now, exchange,
                  sent, accepted, crashes >>

\* The reply is written before the submission; if the peer is gone the
\* request ends here with the entry left Authorized.
ReplyAccepted ==
  /\ pc = "accepted"
  /\ \/ pc' = "submit" /\ accepted' = accepted \cup { curCloid } /\ UNCHANGED cur
     \/ pc' = "idle" /\ cur' = NoIntent /\ UNCHANGED accepted
  /\ UNCHANGED << reg, disk, ctx, todo, reconciled, nonceNext, stamp, now,
                  exchange, sent, bounds >>

\* NonceAllocator::next, then NonceAllocated is persisted.
AllocateNonce ==
  /\ pc = "submit"
  /\ \E m \in Millis :
       LET nonce == IF m > nonceNext THEN m ELSE nonceNext
       IN  /\ nonceNext' = nonce + 1
           /\ Store(Transition(reg, curCloid, WithNonce("nonce_allocated", nonce)),
                    "nonce", "reconcile")
  /\ UNCHANGED << ctx, cur, todo, reconciled, stamp, now, exchange, sent,
                  accepted, crashes >>

\* wallet.sign_ioc may fail, which leaves the nonce allocated.
Sign ==
  /\ pc = "nonce"
  /\ \/ Store(Transition(reg, curCloid,
                         WithNonce("signed", reg.state[curCloid].nonce)),
              "signed", "reconcile")
     \/ /\ ioFailures < MaxIoFailures /\ ioFailures' = ioFailures + 1
        /\ pc' = "reconcile" /\ UNCHANGED << reg, disk >>
  /\ UNCHANGED << ctx, cur, todo, reconciled, nonceNext, stamp, now, exchange,
                  sent, accepted, crashes >>

\* Fault: the request goes out before its start is on disk.
MarkStartedUnsaved ==
  /\ pc = "signed"
  /\ reg' = Transition(reg, curCloid,
                WithNonce("submission_started", reg.state[curCloid].nonce))
  /\ pc' = "started" /\ reconciled' = FALSE
  /\ UNCHANGED << disk, ctx, cur, todo, nonceNext, stamp, now, exchange, sent,
                  accepted, bounds >>

MarkStarted ==
  /\ pc = "signed"
  /\ Store(Transition(reg, curCloid,
                      WithNonce("submission_started", reg.state[curCloid].nonce)),
           "started", "reconcile")
  /\ reconciled' = IF pc' = "started" THEN FALSE ELSE reconciled
  /\ UNCHANGED << ctx, cur, todo, nonceNext, stamp, now, exchange, sent,
                  accepted, crashes >>

\* transport.submit_ioc: the only external side effect.
Send ==
  /\ pc = "started"
  /\ LET nonce == reg.state[curCloid].nonce
     IN  /\ wire' = wire \cup { [ cloid |-> curCloid, nonce |-> nonce, at |-> now ] }
         /\ sent' = Append(sent, [ cloid |-> curCloid, nonce |-> nonce ])
  /\ pc' = "await"
  /\ UNCHANGED << reg, disk, ctx, cur, todo, reconciled, nonceNext, stamp, now,
                  orders, late, accepted, bounds >>

\* The outcomes submit_ioc can return for an order in the exchange's state;
\* a timeout, a server error or an unreadable answer is an unknown result.
Outcomes(c) ==
  LET o == orders[c]
      done == o.status \in { "filled", "cancelled" }
      refused == \/ o.status = "none" /\ ~InFlight(c)
                 \/ o.status = "rejected"
                 \/ o.status = "cancelled" /\ o.filled = 0
  IN  { WithNonce("unknown_result", reg.state[c].nonce) }
      \cup (IF done \/ o.status = "open"
            THEN { WithOrder("acknowledged", "cloid", 0) } ELSE {})
      \cup (IF done /\ o.filled > 0
            THEN { WithOrder("filled", "exchange", o.filled) } ELSE {})
      \cup (IF refused THEN { Plain("rejected") } ELSE {})

Respond ==
  /\ pc = "await"
  /\ \E outcome \in Outcomes(curCloid) :
       Store(Transition(reg, curCloid, outcome), "reconcile", "reconcile")
  /\ UNCHANGED << ctx, cur, todo, reconciled, nonceNext, stamp, now, exchange,
                  sent, accepted, crashes >>

-----------------------------------------------------------------------------
(* reconcile_startup, at boot, after a submission and after a Reconcile.   *)

BeginReconcile ==
  /\ pc = "reconcile"
  /\ pc' = "reads" /\ reconciled' = FALSE /\ stamp' = now /\ cur' = NoIntent
  /\ UNCHANGED << reg, disk, ctx, todo, nonceNext, now, exchange, sent,
                  accepted, bounds >>

\* Every entry but the settled ones and those already set aside.
ToVisit(r) ==
  { c \in Entries(r) :
      Kind(r, c) \notin Resolved \cup { "authorized_not_submitted" } }

ReadAccount ==
  /\ pc = "reads"
  /\ pc' = "scan" /\ todo' = ToVisit(reg)
  /\ UNCHANGED << reg, disk, ctx, cur, reconciled, nonceNext, stamp, now,
                  exchange, sent, accepted, bounds >>

\* A read, a ledger application or the position comparison fails.
ReadFails ==
  /\ pc = "reads"
  /\ pc' = "failed"
  /\ UNCHANGED << reg, disk, ctx, cur, todo, reconciled, nonceNext, stamp, now,
                  exchange, sent, accepted, bounds >>

\* The map is visited in the fixed order of its keys.
Visited == CHOOSE c \in todo : TRUE

\* What was authorized but never started is set aside for a new decision.
VisitNotStarted ==
  /\ pc = "scan" /\ todo # {}
  /\ Kind(reg, Visited) \in { "authorized", "nonce_allocated", "signed" }
  /\ Store(Transition(reg, Visited, Plain("authorized_not_submitted")),
           "scan", "failed")
  /\ todo' = todo \ { Visited }
  /\ UNCHANGED << ctx, cur, reconciled, nonceNext, stamp, now, exchange, sent,
                  accepted, crashes >>

VisitStarted ==
  /\ pc = "scan" /\ todo # {} /\ Kind(reg, Visited) = "submission_started"
  /\ Store(Transition(reg, Visited,
                      WithNonce("unknown_result", reg.state[Visited].nonce)),
           "scan", "failed")
  /\ UNCHANGED << ctx, cur, todo, reconciled, nonceNext, stamp, now, exchange,
                  sent, accepted, crashes >>

\* The state lookup_order reports for an order the exchange knows.
Observed(c) ==
  LET o == orders[c]
  IN  CASE o.status = "open" /\ o.filled = 0 -> WithOrder("acknowledged", "exchange", 0)
        [] o.status = "open" /\ o.filled > 0 -> WithOrder("partially_filled", "exchange", o.filled)
        [] o.status = "rejected" -> Plain("rejected")
        [] OTHER -> WithOrder(o.status, "exchange", o.filled)

\* reconcile_unknown: the registry it persists, if it gets that far.
MayReconcile(c, at) ==
  IF orders[c].status = "none"
  THEN CanConfirmNotFound(reg, c, at, MinInterval)
  ELSE CanTransition(reg, c, Observed(c))

ReconcileUnknown(c, at) ==
  IF orders[c].status = "none"
  THEN ConfirmNotFound(reg, c, at, RequiredConfirmations)
  ELSE Transition(reg, c, Observed(c))

\* Fault: an entry that stays unknown no longer stops the reconciliation.
VisitLookupTolerant ==
  /\ pc = "scan" /\ todo # {} /\ Kind(reg, Visited) \in LookedUp
  /\ MayReconcile(Visited, stamp)
  /\ Store(ReconcileUnknown(Visited, stamp), "scan", "failed")
  /\ todo' = todo \ { Visited }
  /\ UNCHANGED << ctx, cur, reconciled, nonceNext, stamp, now, exchange, sent,
                  accepted, crashes >>

VisitLookup ==
  /\ pc = "scan" /\ todo # {} /\ Kind(reg, Visited) \in LookedUp
  /\ MayReconcile(Visited, stamp)
  /\ LET r == ReconcileUnknown(Visited, stamp)
     IN  Store(r, IF Kind(r, Visited) = "unknown_result" THEN "failed" ELSE "scan",
               "failed")
  /\ todo' = todo \ { Visited }
  /\ UNCHANGED << ctx, cur, reconciled, nonceNext, stamp, now, exchange, sent,
                  accepted, crashes >>

\* The lookup itself fails, or its answer is refused.
LookupFails ==
  /\ pc = "scan" /\ todo # {} /\ Kind(reg, Visited) \in LookedUp
  /\ pc' = "failed"
  /\ UNCHANGED << reg, disk, ctx, cur, todo, reconciled, nonceNext, stamp, now,
                  exchange, sent, accepted, bounds >>

FinishReconcile ==
  /\ pc = "scan" /\ todo = {}
  /\ pc' = "idle" /\ ctx' = "serve" /\ reconciled' = TRUE /\ stamp' = 0
  /\ UNCHANGED << reg, disk, cur, todo, nonceNext, now, exchange, sent,
                  accepted, bounds >>

\* A failure ends the process at boot and is only logged afterwards.
FailReconcile ==
  /\ pc = "failed"
  /\ IF ctx = "boot" THEN Halt
     ELSE /\ pc' = "idle" /\ todo' = {} /\ stamp' = 0
          /\ UNCHANGED << reg, ctx, cur, reconciled, nonceNext >>
  /\ UNCHANGED << disk, now, exchange, sent, accepted, bounds >>

\* ObserverRequest::Reconcile of an unsettled CLOID.
Reconcile(c) ==
  /\ pc = "idle" /\ Kind(reg, c) \in LookedUp
  /\ MayReconcile(c, now)
  /\ Store(ReconcileUnknown(c, now), "reconcile", "idle")
  /\ UNCHANGED << ctx, cur, todo, reconciled, nonceNext, stamp, now, exchange,
                  sent, accepted, crashes >>

-----------------------------------------------------------------------------
(* The exchange and the clock.                                             *)

\* An immediate-or-cancel order fills, cancels the rest, is refused, or is
\* still being matched.
Execute(q) ==
  /\ wire' = wire \ { q }
  /\ \E s \in { "open", "filled", "cancelled", "rejected" }, f \in 0..Lot :
       /\ s = "filled" <=> f = Lot
       /\ s = "rejected" => f = 0
       /\ orders' = [ orders EXCEPT ![q.cloid] = [ status |-> s, filled |-> f ] ]
  /\ late' = IF now - q.at >= Span THEN late \cup { q.cloid } ELSE late
  /\ UNCHANGED << memory, disk, now, sent, accepted, bounds >>

Lose(q) ==
  /\ wire' = wire \ { q }
  /\ UNCHANGED << memory, disk, now, orders, late, sent, accepted, bounds >>

Progress(c) ==
  /\ orders[c].status = "open"
  /\ \/ orders' = [ orders EXCEPT ![c].status = "cancelled" ]
     \/ LET f == orders[c].filled + 1
        IN  orders' = [ orders EXCEPT ![c] =
              [ status |-> IF f = Lot THEN "filled" ELSE "open", filled |-> f ] ]
  /\ UNCHANGED << memory, disk, now, wire, late, sent, accepted, bounds >>

\* A request the exchange has not acted on within MaxDelay is lost.
Tick ==
  /\ now < MaxTime
  /\ \A q \in wire : now - q.at < MaxDelay
  /\ now' = now + 1
  /\ UNCHANGED << memory, disk, exchange, sent, accepted, bounds >>

-----------------------------------------------------------------------------

Submission ==
  \/ \E i \in Intents : SubmitReplay(i) \/ SubmitConflict(i) \/ Authorize(i)
  \/ ReplyAccepted \/ AllocateNonce \/ Sign \/ MarkStarted \/ Send \/ Respond

Reconciliation ==
  \/ BeginReconcile \/ ReadAccount \/ ReadFails
  \/ VisitNotStarted \/ VisitStarted \/ VisitLookup \/ LookupFails
  \/ FinishReconcile \/ FailReconcile
  \/ \E c \in Cloids : Reconcile(c) \/ AnswerReconcile(c)

Environment ==
  \/ \E q \in wire : Execute(q) \/ Lose(q)
  \/ \E c \in Cloids : Progress(c)
  \/ Tick

Next == Boot \/ Crash \/ Submission \/ Reconciliation \/ Environment

Spec == Init /\ [][Next]_vars
-----------------------------------------------------------------------------
(* Properties.                                                             *)

TypeOK ==
  /\ reg \in Registry /\ disk \in Registry
  /\ pc \in PCs /\ ctx \in { "boot", "serve" }
  /\ cur \in Intents \cup { NoIntent } /\ todo \subseteq Cloids
  /\ reconciled \in BOOLEAN /\ nonceNext \in Nat
  /\ stamp \in Nat /\ now \in Nat
  /\ wire \subseteq Request /\ orders \in [ Cloids -> Order ]
  /\ sent \in Seq([ cloid : Cloids, nonce : Nat ])
  /\ accepted \subseteq Cloids /\ late \subseteq Cloids
  /\ crashes \in Nat /\ ioFailures \in Nat

\* A CLOID is sent to the exchange at most once, whatever is replayed by the
\* observer and wherever the signer crashes (ipc_client.rs:269).
SubmittedAtMostOnce ==
  \A m, n \in DOMAIN sent : sent[m].cloid = sent[n].cloid => m = n

\* Every request carries a nonce larger than all before it, across restarts
\* and backward steps of the clock (NonceAllocator, next_nonce_floor).
NoncesIncrease ==
  \A m, n \in DOMAIN sent : m < n => sent[m].nonce < sent[n].nonce

\* What was sent is on disk as started or later, so that no restart takes it
\* for an order that can still be signed (submit_authorized).
StartedBeforeSent ==
  \A n \in DOMAIN sent : Kind(disk, sent[n].cloid) \notin BeforeSubmission

\* The registry keeps at most one order whose outcome is in doubt: nothing
\* new is signed before the last submission is settled (startup_reconciled).
OneInDoubt ==
  \A c, d \in Cloids :
     (Kind(disk, c) \in InDoubt /\ Kind(disk, d) \in InDoubt) => c = d

\* A settled entry says what became of the order, now and later: nothing fills
\* at the exchange that the registry calls rejected, and what it calls not found
\* appears only if its request took longer than the confirmations together
\* (confirm_not_found: nothing bounds the request by their interval).
OutcomeIsTrue ==
  \A c \in Cloids :
    LET s == reg.state[c]
        o == orders[c]
    IN  /\ s.kind = "filled" =>
             o.status \in { "filled", "cancelled" } /\ o.filled = s.filled
        /\ s.kind = "cancelled" => o.status = "cancelled" /\ o.filled = s.filled
        /\ s.kind = "rejected" => o.filled = 0 /\ o.status # "open"
        /\ s.kind \in Resolved \ { "reconciled_not_found" } => ~InFlight(c)
        /\ s.kind = "reconciled_not_found" =>
             /\ o.status # "none" => c \in late
             /\ \A q \in wire : q.cloid = c => now - q.at >= Span

\* Whatever order the exchange reports for an unsettled entry, the registry
\* accepts it: reconcile_unknown never meets an invalid transition.
EveryReportIsAccepted ==
  \A c \in Cloids :
    (Kind(reg, c) \in LookedUp /\ orders[c].status # "none") =>
      CanTransition(reg, c, Observed(c))

\* The registry file agrees with the history it carries, as the next restore
\* demands (lib.rs:487): a signer that stops can start again.
HistoryRestores == HistoryAgrees(disk)

\* A settled entry of the registry file never changes again.
SettledIsFinal ==
  [][ \A c \in Cloids : Kind(disk, c) \in Resolved =>
                          disk'.state[c] = disk.state[c] ]_vars
=============================================================================
