---------------------------- MODULE OrderLifecycle ----------------------------
(* The life of an order as the engine knows it: the lifecycle states of an   *)
(* action, the reconciliation that turns a submission of unknown outcome     *)
(* into one of the known ones, and the bounded registry of them              *)
(* (lifecycle.rs).  The exchange, external, may lose an order, shows it any  *)
(* time after it was sent, fills it in parts or cancels it; answers to the   *)
(* reads of one order may overtake each other.                               *)
EXTENDS Integers, Sequences, SequencesExt, FiniteSets, Functions

CONSTANTS
  OrderActions,             \* planned actions, one asset each
  AssetOf,                  \* the asset of an action
  MaxGeneration,            \* bound on retry_generation
  Quantity,                 \* original quantity of every order
  RequiredConfirmations,    \* required_not_found_confirmations
  ConfirmationInterval,     \* minimum_confirmation_interval_ms
  MaximumAttempts,          \* maximum_attempts
  MaximumUnknown,           \* maximum_unknown_lifetime_ms
  MaximumEntries,           \* of the registry
  MaxLifeTime,              \* bound on the clock
  MaxReadsInFlight          \* bound on the reads in flight

\* ReconciliationPolicy::validate.
ASSUME LifecycleAssumption ==
  /\ RequiredConfirmations \in Nat \ {0} /\ ConfirmationInterval \in Nat \ {0}
  /\ MaximumAttempts \in Nat /\ MaximumAttempts >= RequiredConfirmations
  /\ MaximumUnknown \in Nat \ {0}
  /\ MaximumEntries \in Nat \ {0}
  /\ Quantity \in Nat \ {0}
  /\ MaxGeneration \in Nat

\* The least time between the first and the last of the confirmations.
ConfirmationSpan == (RequiredConfirmations - 1) * ConfirmationInterval

\* A planned CLOID: an action and its retry generation.
OrderCloids == OrderActions \X (0..MaxGeneration)

VARIABLES
  lifeClock,
  lifecycles,       \* by_cloid of the registry
  blockedAssets,    \* blocked_assets of the registry
  orders,           \* external: what the exchange does with each CLOID, and whether it
                    \* showed it late, the span of the confirmations after it was sent
  lookups           \* answers in flight, for each CLOID in the order they were taken

lifeVars == <<lifeClock, lifecycles, blockedAssets, orders, lookups>>

Planned == [kind |-> "ActionPlanned"]
AwaitingSubmission == [kind |-> "AwaitingFutureSubmission"]
UnknownSince(t, confirmations) ==
  [kind |-> "SubmissionUnknown", first |-> t, confirmations |-> confirmations]
NotFound == [kind |-> "ReconciledNotFound"]
OpenState == [kind |-> "ReconciledOpen"]
PartState(filled) == [kind |-> "ReconciledPartiallyFilled", filled |-> filled]
FilledState(filled) == [kind |-> "ReconciledFilled", filled |-> filled]
CancelledState == [kind |-> "ReconciledCancelled"]
RejectedState == [kind |-> "ReconciledRejected"]

Terminal(state) ==
  state.kind \in {"ReconciledNotFound", "ReconciledFilled", "ReconciledCancelled",
                  "ReconciledRejected"}

OrderStatuses == {"unsent", "travelling", "lost", "open", "filled", "cancelled", "rejected"}

LifecycleTypeOK ==
  /\ lifeClock \in 0..MaxLifeTime
  /\ DOMAIN lifecycles \subseteq OrderCloids
  /\ Cardinality(DOMAIN lifecycles) <= MaximumEntries
  /\ blockedAssets \subseteq Range(AssetOf)
  /\ \A c \in OrderCloids : /\ orders[c].status \in OrderStatuses
                            /\ orders[c].filled \in 0..Quantity
                            /\ orders[c].late \in BOOLEAN
                            /\ Len(lookups[c]) <= MaxReadsInFlight
  /\ \A c \in DOMAIN lifecycles :
       lifecycles[c].kind = "SubmissionUnknown" =>
         Len(lifecycles[c].confirmations) < RequiredConfirmations

LifecycleInit ==
  /\ lifeClock = 0
  /\ lifecycles = <<>>
  /\ blockedAssets = {}
  /\ orders = [c \in OrderCloids |->
                 [status |-> "unsent", filled |-> 0, sent |-> 0, late |-> FALSE]]
  /\ lookups = [c \in OrderCloids |-> <<>>]

-----------------------------------------------------------------------------
Ok(state) == [error |-> "none", state |-> state]
Failure(error, state) == [error |-> error, state |-> state]

\* positive_state, of answers the exchange can give.
PositiveState(o) ==
  CASE o.kind = "Open" -> IF o.filled = 0 THEN OpenState ELSE PartState(o.filled)
    [] o.kind = "Filled" -> FilledState(o.filled)
    [] o.kind = "Cancelled" -> CancelledState
    [] o.kind = "Rejected" -> RejectedState

\* Fault: every answer counts, however soon after the one before.
UnknownNotFoundSoon(state, t) ==
  LET confirmations == Append(state.confirmations, t)
  IN  IF Len(confirmations) >= RequiredConfirmations THEN Ok(NotFound)
      ELSE Ok(UnknownSince(state.first, confirmations))

\* A not-found answer for a submission of unknown outcome.
UnknownNotFound(state, t) ==
  LET seen == state.confirmations
      confirmations == Append(seen, t)
  IN  CASE t - state.first > MaximumUnknown -> Failure("UnknownLifetimeExceeded", state)
        [] t - state.first <= MaximumUnknown /\ seen # <<>> /\ Last(seen) = t -> Ok(state)
        [] OTHER ->
             CASE Len(seen) >= MaximumAttempts -> Failure("ReconciliationAttemptLimit", state)
               [] Len(seen) < MaximumAttempts /\ seen # <<>>
                  /\ t - Last(seen) < ConfirmationInterval -> Failure("InvalidObservation", state)
               [] OTHER -> IF Len(confirmations) >= RequiredConfirmations THEN Ok(NotFound)
                           ELSE Ok(UnknownSince(state.first, confirmations))

\* Fault: the latest answer wins.
KnownPositiveLatest(state, o) ==
  IF o.kind = "NotFound" THEN Ok(state)
  ELSE IF o.kind = "Rejected" THEN Failure("ReconciliationConflict", state)
  ELSE Ok(PositiveState(o))

\* reconcile_known_positive for an order known to be on the exchange, once the
\* order reference matches: a CLOID has one order and one reference.
KnownPositive(state, o) ==
  LET candidate == PositiveState(o)
      grows == \/ candidate.kind = "ReconciledCancelled"
               \/ /\ candidate.kind \in {"ReconciledPartiallyFilled", "ReconciledFilled"}
                  /\ candidate.filled >= state.filled
  IN  CASE o.kind = "NotFound" -> Ok(state)
        [] o.kind = "Rejected" -> Failure("ReconciliationConflict", state)
        [] OTHER ->
             CASE candidate = state \/ state.kind = "ReconciledOpen" -> Ok(candidate)
               [] candidate # state /\ state.kind = "ReconciledPartiallyFilled" ->
                    IF grows THEN Ok(candidate) ELSE Failure("ReconciliationConflict", state)
               [] OTHER -> Failure("ReconciliationConflict", state)

\* apply_reconciliation_observation
ApplyObservation(state, o) ==
  CASE state.kind = "SubmissionUnknown" ->
         IF o.at < state.first THEN Failure("InvalidObservation", state)
         ELSE IF o.kind = "NotFound" THEN UnknownNotFound(state, o.at)
         ELSE Ok(PositiveState(o))
    [] state.kind = "ReconciledNotFound" ->
         IF o.kind = "NotFound" THEN Ok(state) ELSE Ok(PositiveState(o))
    [] state.kind \in {"ReconciledOpen", "ReconciledPartiallyFilled", "ReconciledFilled",
                       "ReconciledCancelled"} -> KnownPositive(state, o)
    [] state.kind = "ReconciledRejected" ->
         IF o.kind \in {"NotFound", "Rejected"} THEN Ok(state)
         ELSE Failure("ReconciliationConflict", state)
    [] OTHER -> Failure("InvalidTransition", state)

\* LifecycleRegistry::authorization_for_asset: may the asset's risk grow?
NormalPlanning(asset) ==
  /\ asset \notin blockedAssets
  /\ \A c \in DOMAIN lifecycles :
       AssetOf[c[1]] = asset => lifecycles[c].kind # "SubmissionUnknown"

HasEntryRoom == Cardinality(DOMAIN lifecycles) < MaximumEntries

\* LifecycleRegistry::insert of a planned order.
Entered(c) ==
  /\ c \notin DOMAIN lifecycles /\ HasEntryRoom
  /\ lifecycles' = [d \in DOMAIN lifecycles \cup {c} |-> IF d = c THEN Planned ELSE lifecycles[d]]

-----------------------------------------------------------------------------
\* A validated decision's action is planned and inserted; insert refuses only a
\* CLOID the registry holds, so that one compacted away may be planned again.
PlanAction ==
  \E a \in OrderActions :
    LET c == <<a, 0>>
    IN  /\ NormalPlanning(AssetOf[a]) /\ Entered(c)
        /\ UNCHANGED <<lifeClock, blockedAssets, orders, lookups>>

\* AwaitFutureSubmission, and its repetition, which changes nothing.
Await ==
  \E c \in DOMAIN lifecycles :
    /\ lifecycles[c] = Planned
    /\ lifecycles' = [lifecycles EXCEPT ![c] = AwaitingSubmission]
    /\ UNCHANGED <<lifeClock, blockedAssets, orders, lookups>>

\* The order is submitted and the outcome is not known.  The signer sends a CLOID
\* once: a submission of one already sent changes nothing on the exchange.
SubmitUnknown ==
  \E c \in DOMAIN lifecycles :
    /\ lifecycles[c] = AwaitingSubmission
    /\ lifecycles' = [lifecycles EXCEPT ![c] = UnknownSince(lifeClock, <<>>)]
    /\ orders' = IF orders[c].status # "unsent" THEN orders
                 ELSE [orders EXCEPT ![c].status = "travelling", ![c].sent = lifeClock]
    /\ UNCHANGED <<lifeClock, blockedAssets, lookups>>

\* The registry applies an answer: a conflict blocks the asset, any other
\* error leaves the registry as it is, and a CLOID that is no longer there is
\* MissingCloid.
ApplyAnswer ==
  \E c \in OrderCloids : \E i \in DOMAIN lookups[c] :
    /\ lookups' = [lookups EXCEPT ![c] = RemoveAt(@, i)]
    /\ IF c \notin DOMAIN lifecycles THEN UNCHANGED <<lifecycles, blockedAssets>>
       ELSE LET outcome == ApplyObservation(lifecycles[c], lookups[c][i])
            IN  /\ lifecycles' = [lifecycles EXCEPT ![c] = outcome.state]
                /\ blockedAssets' = IF outcome.error = "ReconciliationConflict"
                                    THEN blockedAssets \cup {AssetOf[c[1]]} ELSE blockedAssets
    /\ UNCHANGED <<lifeClock, orders>>

\* plan_reconciled_retry: only an order that was not found is sent again, with
\* the next generation and so a CLOID of its own.
RetryNotFound ==
  \E c \in DOMAIN lifecycles :
    LET retry == <<c[1], c[2] + 1>>
    IN  /\ lifecycles[c] = NotFound /\ retry \in OrderCloids
        /\ Entered(retry)
        /\ UNCHANGED <<lifeClock, blockedAssets, orders, lookups>>

\* compact_terminal(1): the first terminal entry, in the order of the CLOIDs,
\* which are hashes: any of them.
Compact ==
  \E c \in DOMAIN lifecycles :
    /\ Terminal(lifecycles[c])
    /\ lifecycles' = Restrict(lifecycles, DOMAIN lifecycles \ {c})
    /\ UNCHANGED <<lifeClock, blockedAssets, orders, lookups>>

\* External: the exchange receives, loses, refuses, fills or cancels an order.
ExchangeStep ==
  \E c \in OrderCloids :
    /\ \/ /\ orders[c].status = "travelling"
          /\ \E s \in {"rejected", "open"} :
               orders' = [orders EXCEPT ![c].status = s,
                                        ![c].late = lifeClock - orders[c].sent >= ConfirmationSpan]
       \/ /\ orders[c].status = "travelling"
          /\ orders' = [orders EXCEPT ![c].status = "lost"]
       \/ /\ orders[c].status = "open"
          /\ orders' = [orders EXCEPT ![c].status = "cancelled"]
       \/ /\ orders[c].status = "open" /\ orders[c].filled + 1 < Quantity
          /\ orders' = [orders EXCEPT ![c].filled = @ + 1]
       \/ /\ orders[c].status = "open" /\ orders[c].filled + 1 = Quantity
          /\ orders' = [orders EXCEPT ![c].filled = @ + 1, ![c].status = "filled"]
    /\ UNCHANGED <<lifeClock, lifecycles, blockedAssets, lookups>>

ReadsOf(c) == Len(lookups[c])
ReadsInFlight == MapThenSumSet(ReadsOf, OrderCloids)

\* External: a lookup by CLOID finds what the exchange shows now; the signer
\* asks only for orders it has sent.
Lookup ==
  \E c \in OrderCloids :
    /\ orders[c].status # "unsent" /\ ReadsInFlight < MaxReadsInFlight
    /\ lookups' = [lookups EXCEPT ![c] = Append(@,
         [at |-> lifeClock, filled |-> orders[c].filled,
          kind |-> CASE orders[c].status \in {"travelling", "lost"} -> "NotFound"
                     [] orders[c].status = "open" -> "Open"
                     [] orders[c].status = "filled" -> "Filled"
                     [] orders[c].status = "cancelled" -> "Cancelled"
                     [] orders[c].status = "rejected" -> "Rejected"])]
    /\ UNCHANGED <<lifeClock, lifecycles, blockedAssets, orders>>

LifeTick ==
  /\ lifeClock < MaxLifeTime
  /\ lifeClock' = lifeClock + 1
  /\ UNCHANGED <<lifecycles, blockedAssets, orders, lookups>>

LifecycleNext ==
  \/ PlanAction \/ Await \/ SubmitUnknown \/ ApplyAnswer \/ RetryNotFound \/ Compact
  \/ ExchangeStep \/ Lookup \/ LifeTick
LifecycleSpec == LifecycleInit /\ [][LifecycleNext]_lifeVars

-----------------------------------------------------------------------------
\* An action is sent again only when its earlier order has not shown for the
\* span of the confirmations, however its answers were delayed or reordered and
\* whatever was compacted and planned again: an earlier order stands beside a
\* later one of its action only if it showed late.
OneOrderPerAction ==
  \A c, d \in OrderCloids :
    /\ c[1] = d[1] /\ c[2] < d[2] /\ orders[d].status # "unsent"
    /\ orders[c].status \in {"open", "filled", "cancelled"}
    => orders[c].late

\* What is known of an order never shrinks, in whichever order its answers are
\* applied: fills are not unlearnt and a final outcome is final.
KnowledgeGrows ==
  [][\A c \in DOMAIN lifecycles \cap DOMAIN lifecycles' :
       LET old == lifecycles[c]
           new == lifecycles'[c]
       IN  /\ old.kind = "ReconciledPartiallyFilled" =>
                \/ new.kind = "ReconciledCancelled"
                \/ /\ new.kind \in {"ReconciledPartiallyFilled", "ReconciledFilled"}
                   /\ new.filled >= old.filled
           /\ old.kind \in {"ReconciledFilled", "ReconciledCancelled", "ReconciledRejected"} =>
                new = old]_lifeVars
=============================================================================
