------------------------------ MODULE ReadBudget ------------------------------
(***************************************************************************)
(* The read budget under every sequence of calls: try_charge of any class  *)
(* and weight, and the health report, which refills the bucket as well.    *)
(*                                                                         *)
(* Three history variables say what the calls were promised.  "drawn" is   *)
(* what the critical reads have taken of a reserve of their own, which     *)
(* nothing in the code keeps as a pool: it regains ReservedWeight units in *)
(* a millisecond.  "marked" is any instant, chosen once or again, and      *)
(* "spent" the units charged since then.                                   *)
(***************************************************************************)
EXTENDS WeightedTokenBucket

CONSTANTS
  Weights,   (* endpoint_weights: the weights of the reads.                *)
  MaxBudgetTime    (* Bound on the clock.                                  *)

ASSUME WeightsAssumption == Weights \subseteq Nat \ {0} /\ MaxBudgetTime \in Nat

VARIABLES budgetClock, bucket, drawn, marked, spent

budgetVars == << budgetClock, bucket, drawn, marked, spent >>

Reserve == ReservedWeight * Window

BudgetInit ==
  /\ budgetClock = 0 /\ bucket = FullBucket(0)
  /\ drawn = 0 /\ marked = 0 /\ spent = 0

\* What is left of the draws d on the reserve when bucket b is refilled.
RegainedAt(b, d, at) ==
  LET back == (at - b.refilledAt) * ReservedWeight
  IN  IF d > back THEN d - back ELSE 0

Regained == RegainedAt(bucket, drawn, budgetClock)

\* A read that the budget does not hold leaves the bucket refilled.
TryCharge(class, weight) ==
  LET b == Refilled(bucket, budgetClock)
  IN  \/ /\ CanCharge(b, class, weight)
         /\ bucket' = Charged(b, class, weight)
         /\ drawn' = IF class = "critical" THEN Regained + weight * Window ELSE Regained
         /\ spent' = spent + weight * Window
         /\ UNCHANGED << budgetClock, marked >>
      \/ /\ ~CanCharge(b, class, weight)
         /\ bucket' = b /\ drawn' = Regained
         /\ UNCHANGED << budgetClock, marked, spent >>

Health ==
  /\ bucket' = Refilled(bucket, budgetClock) /\ drawn' = Regained
  /\ UNCHANGED << budgetClock, marked, spent >>

Mark == marked' = budgetClock /\ spent' = 0 /\ UNCHANGED << budgetClock, bucket, drawn >>

BudgetTick ==
  /\ budgetClock < MaxBudgetTime /\ budgetClock' = budgetClock + 1
  /\ UNCHANGED << bucket, drawn, marked, spent >>

BudgetNext ==
  \/ \E class \in Classes, weight \in Weights : TryCharge(class, weight)
  \/ Health \/ Mark \/ BudgetTick

BudgetSpec == BudgetInit /\ [][BudgetNext]_budgetVars

-----------------------------------------------------------------------------
(* Properties.                                                             *)

BudgetTypeOK ==
  /\ bucket \in Bucket /\ {budgetClock, drawn, marked, spent} \subseteq Nat

\* The weight the critical reads used in the accounting window.
UsedByCritical == Refilled(bucket, budgetClock).used["total"] - Refilled(bucket, budgetClock).used["normal"]

\* "weighted budget preserves reserve" (scheduler.rs:1304): whatever source
\* polling and enrichment do, a critical read that fits what the critical
\* reads left of the reserve is never refused.  No pool holds the reserve.
ReserveIsKept ==
  \A weight \in 1..TotalWeight :
    (UsedByCritical + weight <= ReservedWeight /\ Regained + weight * Window <= Reserve)
      => CanCharge(Refilled(bucket, budgetClock), "critical", weight)

\* As long as the critical reads keep to the reserve, source polling and
\* enrichment cannot take from each other: a read that fits its own pool is
\* not refused for what was charged to the other
\* (source_polling_weight_per_window, scheduler.rs:99).
OwnPoolDecides ==
  LET b == Refilled(bucket, budgetClock)
  IN  (UsedByCritical <= ReservedWeight /\ Regained <= Reserve) =>
        \A weight \in 1..TotalWeight :
          /\ (/\ b.used["source"] + weight <= PoolWeight["source"]
              /\ weight * Window <= b.units["source"]) => CanCharge(b, "source", weight)
          /\ (/\ b.used["enrichment"] + weight <= PoolWeight["enrichment"]
              /\ weight * Window <= b.units["enrichment"]) => CanCharge(b, "normal", weight)

\* "caps burst credit" (scheduler.rs:1304): between any two instants no more
\* is charged than a full bucket and the refill of the time between them.
BurstIsBounded == spent <= Capacity["total"] + (budgetClock - marked) * TotalWeight
=============================================================================
