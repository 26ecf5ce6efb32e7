--------------------------- MODULE RequestScheduler ---------------------------
(***************************************************************************)
(* The scheduler of the observer's reads of the exchange                   *)
(* (copytrade-core/src/scheduler.rs, RequestScheduler) as the observer's   *)
(* loop uses it (copytrade-observer/src/qualification.rs): the loop        *)
(* schedules a read when it is due, begins what the budget and the permits *)
(* allow, and finishes a dispatch when its task ends.  A task that dies    *)
(* drops its dispatch, at any moment.                                      *)
(*                                                                         *)
(* A read has a key (what is read of whom).  The queue holds at most one   *)
(* read of a key, and a read of a key in flight waits as its successor.    *)
(* What a read returns is only whether it may be tried again.  The loop    *)
(* ends when a read it schedules finds no room (qualification.rs:1434),    *)
(* which the model does not do: the scheduler has other callers.           *)
(***************************************************************************)
EXTENDS WeightedTokenBucket, FiniteSets

CONSTANTS
  Keys,            (* RequestKeys, numbered in their order.                *)
  ClassOf,         (* Key -> budget class.                                 *)
  TierOf,          (* Key -> source tier, or "none".                       *)
  ReadWeightOf,        (* Key -> endpoint weight.                          *)
  PrioritiesOf,    (* Key -> priorities its reads may have, 0 to 3.        *)
  LifetimeOf,      (* Key -> time from creation to expiry.                 *)
  Target,          (* source_tier_dispatch_targets_per_window.             *)
  MaxConcurrency, QueueCapacity,
  MaxAttempts, MaxLifetime,  (* Of the retry policy.                       *)
  Delays,          (* What delay_ms may return.                            *)
  MaxQueueTime          (* Bound on the clock.                             *)

Tiers    == { "active", "inactive" }
Critical == 3

ASSUME SchedulerAssumption ==
  /\ Keys \subseteq Nat /\ IsFiniteSet(Keys)
  /\ ClassOf \in [ Keys -> Classes ] /\ TierOf \in [ Keys -> Tiers \cup { "none" } ]
  /\ ReadWeightOf \in [ Keys -> Nat \ {0} ] /\ LifetimeOf \in [ Keys -> Nat \ {0} ]
  /\ PrioritiesOf \in [ Keys -> SUBSET (0..Critical) ]
  /\ Target \in [ Tiers -> Nat \ {0} ]
  /\ {MaxConcurrency, QueueCapacity, MaxAttempts} \subseteq Nat \ {0}
  /\ MaxLifetime \in Nat /\ Delays \subseteq Nat \ {0} /\ MaxQueueTime \in Nat

VARIABLES
  queueClock,
  queueBucket,      (* The budget.                                         *)
  pending, successors, dispatched,   (* Sets of reads.                     *)
  tierCount,   (* Dispatches of a tier in the window.                      *)
  tierWindow   (* dispatch_window_started_ms.                              *)

queueVars ==
  << queueClock, queueBucket, pending, successors, dispatched, tierCount, tierWindow >>

ReadRequest ==
  [ key : Keys, priority : 0..Critical, created : Nat, notBefore : Nat,
    expires : Nat, attempt : Nat ]

Queued  == pending \cup successors
Live(s) == { r \in s : r.expires > queueClock }
KeysOf(s) == { r.key : r \in s }
Of(s, k)  == { r \in s : r.key = k }

NewRead(k, p) ==
  [ key |-> k, priority |-> p, created |-> queueClock, notBefore |-> queueClock,
    expires |-> queueClock + LifetimeOf[k], attempt |-> 0 ]

QueueInit ==
  /\ queueClock = 0 /\ queueBucket = FullBucket(0)
  /\ pending = {} /\ successors = {} /\ dispatched = {}
  /\ tierCount = [ t \in Tiers |-> 0 ] /\ tierWindow = 0

-----------------------------------------------------------------------------
(* schedule.                                                               *)

IsNewer(r, s) ==
  r.created > s.created \/ (r.created = s.created /\ r.attempt > s.attempt)

\* compare_value: r is worth less than s.
WorthLess(r, s) ==
  \/ r.priority < s.priority
  \/ r.priority = s.priority /\ r.expires > s.expires
  \/ r.priority = s.priority /\ r.expires = s.expires /\ r.created > s.created

\* Fault: critical reads may be evicted.
CanEvictAny(p, s) == { r \in p \cup s : \A q \in p \cup s : ~WorthLess(q, r) }

\* The first of those worth least that are not critical, pending ones first.
Evicted(p, s) ==
  LET evictable == { r \in p \cup s : r.priority # Critical }
      first(r, q) == \/ WorthLess(r, q)
                     \/ /\ ~WorthLess(q, r)
                        /\ \/ r \in p /\ q \in s
                           \/ (r \in p <=> q \in p) /\ r.key <= q.key
  IN  { r \in evictable : \A q \in evictable : first(r, q) }

\* make_queue_room: the reads to evict for r, if there is room for it then.
Room(p, s, r) ==
  IF Cardinality(p \cup s) < QueueCapacity THEN {}
  ELSE { q \in Evicted(p, s) : WorthLess(q, r) }

HasRoom(p, s, r) == Cardinality(p \cup s) < QueueCapacity \/ Room(p, s, r) # {}

\* Where a read goes that is neither of an invalid weight nor expired.
Enqueue(r, inFlightNow) ==
  LET p == Live(pending)
      s == Live(successors)
      queue == IF r.key \in KeysOf(inFlightNow) THEN s ELSE p
      older == Of(queue, r.key)
      gone == IF older = {} THEN Room(p, s, r) ELSE older
      takes == IF older = {} THEN HasRoom(p, s, r) ELSE \A q \in older : IsNewer(r, q)
      kept(q) == IF takes THEN q \ gone ELSE q
      added(q) == kept(q) \cup (IF takes THEN { r } ELSE {})
  IN  /\ pending'    = IF r.key \in KeysOf(inFlightNow) THEN kept(p) ELSE added(p)
      /\ successors' = IF r.key \in KeysOf(inFlightNow) THEN added(s) ELSE kept(s)

\* The window of the tier counts is looked at here only.
NewWindow ==
  IF queueClock - tierWindow >= Window
  THEN tierWindow' = queueClock /\ tierCount' = [ t \in Tiers |-> 0 ]
  ELSE UNCHANGED << tierWindow, tierCount >>

Schedule(k, p) ==
  /\ Enqueue(NewRead(k, p), dispatched)
  /\ NewWindow
  /\ UNCHANGED << queueClock, queueBucket, dispatched >>

-----------------------------------------------------------------------------
(* begin_next.                                                             *)

\* dispatch_order_with_fairness: r goes before s.
Before(r, s) ==
  LET share(a, b) == tierCount[TierOf[a.key]] * Target[TierOf[b.key]]
      tiers == { TierOf[r.key], TierOf[s.key] } \subseteq Tiers
  IN  \/ r.priority > s.priority
      \/ /\ r.priority = s.priority
         /\ \/ tiers /\ share(r, s) < share(s, r)
            \/ /\ tiers => share(r, s) = share(s, r)
               /\ \/ r.expires < s.expires
                  \/ r.expires = s.expires /\ r.created < s.created
                  \/ r.expires = s.expires /\ r.created = s.created /\ r.key < s.key

Eligible == { r \in Live(pending) : r.notBefore <= queueClock }

Affordable(b) == { r \in Eligible : CanCharge(b, ClassOf[r.key], ReadWeightOf[r.key]) }

\* The first read in the order that the budget holds is dispatched; the
\* others before it have only refilled the queueBucket.
BeginNext ==
  LET b == Refilled(queueBucket, queueClock)
  IN  /\ Cardinality(dispatched) < MaxConcurrency
      /\ successors' = Live(successors)
      /\ \/ \E r \in Affordable(b) :
              /\ \A s \in Affordable(b) \ { r } : Before(r, s)
              /\ pending' = Live(pending) \ { r }
              /\ dispatched' = dispatched \cup { r }
              /\ queueBucket' = Charged(b, ClassOf[r.key], ReadWeightOf[r.key])
              /\ tierCount' = [ t \in Tiers |->
                   IF t = TierOf[r.key] THEN tierCount[t] + 1 ELSE tierCount[t] ]
         \/ /\ Affordable(b) = {}
            /\ pending' = Live(pending)
            /\ queueBucket' = IF Eligible = {} THEN queueBucket ELSE b
            /\ UNCHANGED << dispatched, tierCount >>
      /\ UNCHANGED << queueClock, tierWindow >>

-----------------------------------------------------------------------------
(* finish and the end of a task.                                           *)

\* release: the successor takes the place of the read.
Release(d) ==
  /\ dispatched' = dispatched \ { d }
  /\ pending' = pending \cup Of(successors, d.key)
  /\ successors' = successors \ Of(successors, d.key)

\* The read is done, was refused for good, or has a successor; or its task
\* died and the dispatch was dropped.
FinishOrDrop(d) ==
  /\ Release(d)
  /\ UNCHANGED << queueClock, queueBucket, tierCount, tierWindow >>

\* schedule_retry.
MayRetry(d, delay) ==
  /\ d.attempt + 1 < MaxAttempts
  /\ queueClock - d.created < MaxLifetime
  /\ queueClock + delay < d.expires
  /\ queueClock + delay - d.created <= MaxLifetime

\* Rate limiting, a timeout, and a transport or server error.
Retry(d, delay) ==
  /\ Of(successors, d.key) = {} /\ MayRetry(d, delay)
  /\ dispatched' = dispatched \ { d }
  /\ Enqueue([ d EXCEPT !.attempt = @ + 1, !.notBefore = queueClock + delay ], dispatched \ { d })
  /\ NewWindow
  /\ UNCHANGED << queueClock, queueBucket >>

QueueTick ==
  /\ queueClock < MaxQueueTime /\ queueClock' = queueClock + 1
  /\ UNCHANGED << queueBucket, pending, successors, dispatched, tierCount, tierWindow >>

QueueNext ==
  \/ \E k \in Keys : \E p \in PrioritiesOf[k] : Schedule(k, p)
  \/ BeginNext
  \/ \E d \in dispatched : FinishOrDrop(d) \/ \E delay \in Delays : Retry(d, delay)
  \/ QueueTick

QueueSpec == QueueInit /\ [][QueueNext]_queueVars

-----------------------------------------------------------------------------
(* Properties.                                                             *)

QueueTypeOK ==
  /\ queueClock \in Nat /\ queueBucket \in Bucket /\ tierWindow \in Nat
  /\ pending \subseteq ReadRequest /\ successors \subseteq ReadRequest /\ dispatched \subseteq ReadRequest
  /\ tierCount \in [ Tiers -> Nat ]

\* A critical read that waits is not given up for another key's read: it is
\* dispatched, expires, or gives way to a newer one of its own key.
CriticalIsKept ==
  [][ \A r \in Live(Queued) :
        r.priority = Critical =>
          \/ r \in Queued' \/ r \in dispatched'
          \/ \E s \in Queued' : s.key = r.key /\ IsNewer(s, r) ]_queueVars
=============================================================================
