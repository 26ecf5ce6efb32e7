------------------------- MODULE WeightedTokenBucket -------------------------
(***************************************************************************)
(* The weighted token bucket that limits the observer's reads of the       *)
(* exchange (copytrade-core/src/scheduler.rs, WeightedTokenBucket).        *)
(*                                                                         *)
(* Four pools share one account.  Every read draws on the total; all but   *)
(* the critical reads draw on the normal pool too, which is the total less *)
(* a reserve, and on one of its two parts: source polling or enrichment.   *)
(* A pool holds tokens in units of weight times milliseconds, refilled in  *)
(* proportion to the time, and counts the weight used in the accounting    *)
(* window.  A bucket is a value here.                                      *)
(***************************************************************************)
EXTENDS Integers

CONSTANTS
  TotalWeight,     (* total_weight_per_window.                             *)
  ReservedWeight,  (* reserved_weight_per_window.                          *)
  SourceWeight,    (* source_polling_weight_per_window.                    *)
  Window           (* window_ms.                                           *)

\* ReadApiPolicy::validate.
ASSUME PolicyAssumption ==
  /\ {TotalWeight, SourceWeight, Window} \subseteq Nat \ {0}
  /\ ReservedWeight \in Nat /\ ReservedWeight < TotalWeight
  /\ SourceWeight < TotalWeight - ReservedWeight

Pools   == { "total", "normal", "source", "enrichment" }
Classes == { "critical", "source", "normal" }

PoolWeight ==
  [ p \in Pools |->
      CASE p = "total"      -> TotalWeight
        [] p = "normal"     -> TotalWeight - ReservedWeight
        [] p = "source"     -> SourceWeight
        [] p = "enrichment" -> TotalWeight - ReservedWeight - SourceWeight ]

Capacity == [ p \in Pools |-> PoolWeight[p] * Window ]

\* The pools a read of a budget class draws on.
PoolsOf(class) ==
  CASE class = "critical" -> { "total" }
    [] class = "source"   -> { "total", "normal", "source" }
    [] class = "normal"   -> { "total", "normal", "enrichment" }

Bucket ==
  [ units : [ Pools -> Nat ], used : [ Pools -> Nat ], refilledAt : Nat, windowAt : Nat ]

FullBucket(at) ==
  [ units |-> Capacity, used |-> [ p \in Pools |-> 0 ], refilledAt |-> at, windowAt |-> at ]

AtMost(n, limit) == IF n < limit THEN n ELSE limit

\* refill: the counters of the window start again when it is over.
Refilled(b, at) ==
  IF at <= b.refilledAt THEN b
  ELSE LET over == at - b.windowAt >= Window
       IN  [ units |-> [ p \in Pools |->
                AtMost(b.units[p] + (at - b.refilledAt) * PoolWeight[p], Capacity[p]) ],
             used |-> IF over THEN [ p \in Pools |-> 0 ] ELSE b.used,
             refilledAt |-> at,
             windowAt |-> IF over THEN at ELSE b.windowAt ]

\* Fault: every read is measured by the total only.
CanChargeTotal(b, class, weight) ==
  /\ b.used["total"] + weight <= PoolWeight["total"]
  /\ weight * Window <= b.units["total"]

\* try_charge on a refilled bucket: every pool the read draws on must hold it.
CanCharge(b, class, weight) ==
  \A p \in PoolsOf(class) :
    /\ weight <= PoolWeight[p]
    /\ b.used[p] + weight <= PoolWeight[p]
    /\ weight * Window <= b.units[p]

Charged(b, class, weight) ==
  [ units |-> [ p \in Pools |-> IF p \in PoolsOf(class) THEN b.units[p] - weight * Window
                                                       ELSE b.units[p] ],
    used  |-> [ p \in Pools |-> IF p \in PoolsOf(class) THEN b.used[p] + weight
                                                       ELSE b.used[p] ],
    refilledAt |-> b.refilledAt, windowAt |-> b.windowAt ]
=============================================================================
