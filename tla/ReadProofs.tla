----------------------------- MODULE ReadProofs -----------------------------
(* What holds of the observer's reads.  ReadBudget, for every policy and every *)
(* sequence of reads: the reserve, the separation of source polling and      *)
(* enrichment, and the bound on bursts.  RequestScheduler, for every set of  *)
(* keys and every capacity: the types, one read of a key, the bound of the   *)
(* queue, and that a critical read is kept.                                  *)
(*                                                                           *)
(* The argument for the budget: call what is missing from a pool its deficit. *)
(* No pool holds the reserve, but the deficit of the total never exceeds the *)
(* deficit of the normal pool and the draws on the reserve together, for each *)
(* charge adds the same to both sides, and a refill takes as much from the   *)
(* left as from the right or leaves the left at zero.  In the same way the   *)
(* deficit of the normal pool never exceeds those of its two parts.          *)
EXTENDS ReadBudget, RequestScheduler, FiniteSetTheorems, TLAPS

\* The inductive invariant of a bucket b with draws d on the reserve.
Sound(b, d) ==
  /\ b \in Bucket /\ d \in Nat
  /\ \A p \in Pools : b.units[p] <= Capacity[p] /\ b.used[p] <= PoolWeight[p]
  /\ b.used["normal"] = b.used["source"] + b.used["enrichment"]
  /\ b.used["normal"] <= b.used["total"]
  /\ Capacity["total"] - b.units["total"]
       <= (Capacity["normal"] - b.units["normal"]) + d
  /\ Capacity["normal"] - b.units["normal"]
       <= (Capacity["source"] - b.units["source"])
            + (Capacity["enrichment"] - b.units["enrichment"])

\* What the refills since the mark have added at most.
Gained(at) == IF at > marked THEN (at - marked) * TotalWeight ELSE 0

IInv ==
  /\ budgetClock \in Nat /\ marked \in Nat /\ spent \in Nat
  /\ bucket.refilledAt <= budgetClock /\ marked <= budgetClock
  /\ Sound(bucket, drawn)
  /\ bucket.units["total"] + spent <= Capacity["total"] + Gained(bucket.refilledAt)
  /\ bucket.refilledAt < marked => spent = 0

-----------------------------------------------------------------------------
(* The constants.                                                          *)

LEMMA Parameters ==
  /\ TotalWeight \in Nat /\ SourceWeight \in Nat /\ Window \in Nat \ {0}
  /\ ReservedWeight \in Nat /\ ReservedWeight < TotalWeight
  /\ SourceWeight < TotalWeight - ReservedWeight
BY PolicyAssumption

LEMMA PoolWeights ==
  /\ PoolWeight \in [ Pools -> Nat ]
  /\ PoolWeight["total"] = TotalWeight
  /\ PoolWeight["normal"] = TotalWeight - ReservedWeight
  /\ PoolWeight["source"] = SourceWeight
  /\ PoolWeight["enrichment"] = TotalWeight - ReservedWeight - SourceWeight
BY Parameters DEF PoolWeight, Pools

\* The product of two naturals, for the provers to use without arithmetic.
LEMMA NatProduct == \A m, n \in Nat : m * n \in Nat
OBVIOUS

LEMMA Distributes ==
  ASSUME NEW k \in Nat, NEW a \in Int, NEW b \in Int
  PROVE  k * (a + b) = k * a + k * b /\ (a + b) * k = a * k + b * k
OBVIOUS

\* The total is the normal pool and the reserve; the normal pool its parts.
LEMMA Capacities ==
  /\ Capacity \in [ Pools -> Nat ]
  /\ Capacity["total"] = Capacity["normal"] + Reserve /\ Reserve \in Nat
  /\ Capacity["normal"] = Capacity["source"] + Capacity["enrichment"]
<1>1. \A p \in Pools : Capacity[p] = PoolWeight[p] * Window /\ Capacity[p] \in Nat
  BY PoolWeights, Parameters, NatProduct DEF Capacity
<1>2. Capacity["total"] = Capacity["normal"] + Reserve /\ Reserve \in Nat
  <2>1. (PoolWeight["normal"] + ReservedWeight) * Window
          = PoolWeight["normal"] * Window + ReservedWeight * Window
    BY PoolWeights, Parameters, Distributes DEF Pools
  <2> QED BY <1>1, <2>1, PoolWeights, Parameters, NatProduct DEF Reserve, Pools
<1>3. Capacity["normal"] = Capacity["source"] + Capacity["enrichment"]
  <2>1. (PoolWeight["source"] + PoolWeight["enrichment"]) * Window
          = PoolWeight["source"] * Window + PoolWeight["enrichment"] * Window
    BY PoolWeights, Parameters, Distributes DEF Pools
  <2> QED BY <1>1, <2>1, PoolWeights, Parameters DEF Pools
<1> QED BY <1>1, <1>2, <1>3 DEF Capacity

LEMMA FullIsSound == Sound(FullBucket(0), 0)
BY Capacities, PoolWeights DEF Sound, FullBucket, Bucket, Pools

-----------------------------------------------------------------------------
(* Refilling.                                                              *)

\* A deficit that is bounded by another and by d stays so when the one
\* regains x1, the other x2 and d the difference.
LEMMA DeficitLemma ==
  ASSUME NEW C1 \in Nat, NEW C2 \in Nat, NEW u1 \in Nat, NEW u2 \in Nat,
         NEW d \in Nat, NEW x1 \in Nat, NEW x2 \in Nat, NEW r \in Nat,
         u1 <= C1, u2 <= C2, x1 = x2 + r, C1 - u1 <= (C2 - u2) + d
  PROVE  C1 - AtMost(u1 + x1, C1)
           <= (C2 - AtMost(u2 + x2, C2)) + (IF d > r THEN d - r ELSE 0)
BY DEF AtMost

\* refill leaves a sound bucket sound while the reserve regains its share.
LEMMA RefillKeeps ==
  ASSUME NEW b, NEW d, NEW at \in Nat, Sound(b, d), b.refilledAt <= at
  PROVE  /\ Sound(Refilled(b, at), RegainedAt(b, d, at))
         /\ Refilled(b, at).refilledAt = at
<1>0. /\ b \in Bucket /\ d \in Nat
      /\ b.units \in [ Pools -> Nat ] /\ b.used \in [ Pools -> Nat ]
      /\ b.refilledAt \in Nat /\ b.windowAt \in Nat
  BY DEF Sound, Bucket
<1>1. CASE at = b.refilledAt
  <2>1. RegainedAt(b, d, at) = d
    BY <1>0, <1>1, Parameters DEF RegainedAt
  <2> QED BY <1>0, <1>1, <2>1 DEF Refilled
<1>2. CASE at # b.refilledAt
  <2> DEFINE e == at - b.refilledAt
             x == [ p \in Pools |-> e * PoolWeight[p] ]
             r == e * ReservedWeight
             units == [ p \in Pools |-> AtMost(b.units[p] + x[p], Capacity[p]) ]
  <2>1. e \in Nat /\ ~(at <= b.refilledAt)
    BY <1>0, <1>2
  <2>2. \A p \in Pools : x[p] \in Nat
    BY <2>1, PoolWeights, NatProduct
  <2>3. r \in Nat
    BY <2>1, Parameters, NatProduct
  <2>4. x["total"] = x["normal"] + r
    <3>1. e * (PoolWeight["normal"] + ReservedWeight)
            = e * PoolWeight["normal"] + e * ReservedWeight
      BY <2>1, PoolWeights, Parameters, Distributes DEF Pools
    <3> QED BY <3>1, PoolWeights, Parameters DEF Pools
  <2>5. x["normal"] = x["source"] + x["enrichment"]
    <3>1. e * (PoolWeight["source"] + PoolWeight["enrichment"])
            = e * PoolWeight["source"] + e * PoolWeight["enrichment"]
      BY <2>1, PoolWeights, Distributes DEF Pools
    <3> QED BY <3>1, PoolWeights, Parameters DEF Pools
  <2>6. /\ Refilled(b, at).units = units /\ Refilled(b, at).refilledAt = at
        /\ Refilled(b, at).used \in { b.used, [ p \in Pools |-> 0 ] }
        /\ Refilled(b, at).windowAt \in { b.windowAt, at }
        /\ Refilled(b, at) = [ units |-> Refilled(b, at).units,
                               used |-> Refilled(b, at).used,
                               refilledAt |-> Refilled(b, at).refilledAt,
                               windowAt |-> Refilled(b, at).windowAt ]
    BY <2>1 DEF Refilled
  <2>7. RegainedAt(b, d, at) = IF d > r THEN d - r ELSE 0
    BY DEF RegainedAt
  <2> HIDE DEF e, x, r
  <2>8. \A p \in Pools : units[p] \in Nat /\ units[p] <= Capacity[p]
    BY <1>0, <2>2, Capacities DEF AtMost
  <2>9. Capacity["total"] - units["total"]
          <= (Capacity["normal"] - units["normal"]) + (IF d > r THEN d - r ELSE 0)
    BY <1>0, <2>2, <2>3, <2>4, Capacities, DeficitLemma DEF Sound, Pools
  <2>10. Capacity["normal"] - units["normal"]
           <= (Capacity["source"] - units["source"])
                + (Capacity["enrichment"] - units["enrichment"])
    <3> DEFINE d2 == Capacity["enrichment"] - b.units["enrichment"]
    <3>1. d2 \in Nat
      BY <1>0, Capacities DEF Sound, Pools
    <3>2. Capacity["normal"] - b.units["normal"]
            <= (Capacity["source"] - b.units["source"]) + d2
      BY DEF Sound
    <3> HIDE DEF d2
    <3>3. Capacity["normal"] - units["normal"]
            <= (Capacity["source"] - units["source"])
                 + (IF d2 > x["enrichment"] THEN d2 - x["enrichment"] ELSE 0)
      BY <1>0, <2>2, <2>5, <3>1, <3>2, Capacities, DeficitLemma DEF Sound, Pools
    <3>4. (IF d2 > x["enrichment"] THEN d2 - x["enrichment"] ELSE 0)
            = Capacity["enrichment"] - units["enrichment"]
      BY <1>0, <2>2, Capacities DEF d2, AtMost, Pools
    <3> QED BY <3>3, <3>4
  <2>11. Refilled(b, at) \in Bucket
    <3>1. units \in [ Pools -> Nat ]
      BY <2>8
    <3>2. Refilled(b, at).used \in [ Pools -> Nat ]
      BY <1>0, <2>6
    <3> HIDE DEF units
    <3> QED BY <1>0, <2>6, <3>1, <3>2 DEF Bucket
  <2>12. LET used == Refilled(b, at).used
         IN  /\ \A p \in Pools : used[p] <= PoolWeight[p]
             /\ used["normal"] = used["source"] + used["enrichment"]
             /\ used["normal"] <= used["total"]
    <3>1. CASE Refilled(b, at).used = b.used
      BY <3>1 DEF Sound
    <3>2. CASE Refilled(b, at).used = [ p \in Pools |-> 0 ]
      BY <3>2, PoolWeights DEF Pools
    <3> QED BY <2>6, <3>1, <3>2
  <2>13. (IF d > r THEN d - r ELSE 0) \in Nat
    BY <1>0, <2>3
  <2> HIDE DEF units
  <2> QED BY <2>6, <2>7, <2>8, <2>9, <2>10, <2>11, <2>12, <2>13 DEF Sound
<1> QED BY <1>1, <1>2

\* A pool never loses more than it holds, and regains what a refill gives.
LEMMA RefillGains ==
  ASSUME NEW b \in Bucket, NEW at \in Nat, b.refilledAt <= at
  PROVE  Refilled(b, at).units["total"]
           <= b.units["total"] + (at - b.refilledAt) * TotalWeight
<1>0. b.units["total"] \in Nat /\ b.refilledAt \in Nat
  BY DEF Bucket, Pools
<1>1. CASE at <= b.refilledAt
  <2>1. at - b.refilledAt = 0 /\ Refilled(b, at) = b
    BY <1>0, <1>1 DEF Refilled
  <2> QED BY <1>0, <2>1, Parameters
<1>2. CASE ~(at <= b.refilledAt)
  <2> DEFINE g == (at - b.refilledAt) * TotalWeight
  <2>1. at - b.refilledAt \in Nat
    BY <1>0, <1>2
  <2>2. g \in Nat
    BY <2>1, Parameters, NatProduct
  <2>3. Refilled(b, at).units["total"] = AtMost(b.units["total"] + g, Capacity["total"])
    BY <1>2, PoolWeights DEF Refilled, Pools
  <2> HIDE DEF g
  <2>4. Refilled(b, at).units["total"] <= b.units["total"] + g
    BY <1>0, <2>2, <2>3, Capacities DEF AtMost, Pools
  <2> QED BY <2>4 DEF g
<1> QED BY <1>1, <1>2

-----------------------------------------------------------------------------
(* Charging.                                                               *)

\* A charge that try_charge allows leaves the bucket sound: what is taken
\* of the total is taken of the normal pool or drawn on the reserve.
LEMMA ChargeKeeps ==
  ASSUME NEW b, NEW d, NEW class \in Classes, NEW w \in Nat,
         Sound(b, d), CanCharge(b, class, w)
  PROVE  /\ Sound(Charged(b, class, w),
                  IF class = "critical" THEN d + w * Window ELSE d)
         /\ Charged(b, class, w).units["total"] = b.units["total"] - w * Window
         /\ Charged(b, class, w).refilledAt = b.refilledAt
<1> DEFINE c == w * Window
           pools == PoolsOf(class)
           units == [ p \in Pools |-> IF p \in pools THEN b.units[p] - c ELSE b.units[p] ]
           used  == [ p \in Pools |-> IF p \in pools THEN b.used[p] + w ELSE b.used[p] ]
<1>0. /\ b \in Bucket /\ d \in Nat
      /\ b.units \in [ Pools -> Nat ] /\ b.used \in [ Pools -> Nat ]
      /\ b.refilledAt \in Nat /\ b.windowAt \in Nat
  BY DEF Sound, Bucket
<1>1. c \in Nat
  BY Parameters, NatProduct
<1>2. Charged(b, class, w) = [ units |-> units, used |-> used,
                               refilledAt |-> b.refilledAt, windowAt |-> b.windowAt ]
  BY DEF Charged
<1>3. \A p \in pools : b.used[p] + w <= PoolWeight[p] /\ c <= b.units[p]
  BY DEF CanCharge
<1> HIDE DEF c
<1>4. \A p \in Pools : units[p] \in Nat /\ units[p] <= Capacity[p]
                       /\ used[p] \in Nat /\ used[p] <= PoolWeight[p]
  BY <1>0, <1>1, <1>3, Capacities, PoolWeights DEF Sound
<1>5. units \in [ Pools -> Nat ] /\ used \in [ Pools -> Nat ]
  BY <1>4
<1>6. CASE class = "critical"
  <2>1. pools = { "total" }
    BY <1>6 DEF PoolsOf
  <2>2. /\ units["total"] = b.units["total"] - c /\ used["total"] = b.used["total"] + w
        /\ \A p \in Pools \ { "total" } : units[p] = b.units[p] /\ used[p] = b.used[p]
    BY <2>1 DEF Pools
  <2>3. d + c \in Nat
    BY <1>0, <1>1
  <2> HIDE DEF units, used, pools
  <2>4. /\ used["normal"] = used["source"] + used["enrichment"]
        /\ used["normal"] <= used["total"]
    BY <1>0, <2>2 DEF Sound, Pools
  <2>5. /\ Capacity["total"] - units["total"]
             <= (Capacity["normal"] - units["normal"]) + (d + c)
        /\ Capacity["normal"] - units["normal"]
             <= (Capacity["source"] - units["source"])
                  + (Capacity["enrichment"] - units["enrichment"])
    BY <1>0, <1>1, <2>2, Capacities DEF Sound, Pools
  <2>6. Sound(Charged(b, class, w), d + c)
    BY <1>0, <1>2, <1>4, <1>5, <2>3, <2>4, <2>5 DEF Sound, Bucket
  <2> QED BY <1>2, <1>6, <2>2, <2>6 DEF c
<1>7. CASE class # "critical"
  <2> PICK own \in { "source", "enrichment" } : pools = { "total", "normal", own }
    BY <1>7 DEF PoolsOf, Classes
  <2>2. /\ \A p \in { "total", "normal", own } :
             units[p] = b.units[p] - c /\ used[p] = b.used[p] + w
        /\ \A p \in { "source", "enrichment" } \ { own } :
             units[p] = b.units[p] /\ used[p] = b.used[p]
    BY DEF Pools
  <2> HIDE DEF units, used, pools
  <2>4. /\ used["normal"] = used["source"] + used["enrichment"]
        /\ used["normal"] <= used["total"]
    BY <1>0, <2>2 DEF Sound, Pools
  <2>5. /\ Capacity["total"] - units["total"]
             <= (Capacity["normal"] - units["normal"]) + d
        /\ Capacity["normal"] - units["normal"]
             <= (Capacity["source"] - units["source"])
                  + (Capacity["enrichment"] - units["enrichment"])
    BY <1>0, <1>1, <2>2, Capacities DEF Sound, Pools
  <2> QED BY <1>0, <1>2, <1>4, <1>5, <1>7, <2>2, <2>4, <2>5 DEF Sound, Bucket, c
<1> QED BY <1>6, <1>7

-----------------------------------------------------------------------------
(* The invariant.                                                          *)

LEMMA InitIsSound == BudgetInit => IInv
<1> SUFFICES ASSUME BudgetInit PROVE IInv
  OBVIOUS
<1>1. bucket.refilledAt = 0 /\ bucket.units = Capacity
  BY DEF BudgetInit, FullBucket
<1>2. Capacity["total"] \in Nat
  BY Capacities DEF Pools
<1> QED BY <1>1, <1>2, FullIsSound DEF BudgetInit, IInv, Gained

\* A refill now adds to the total no more than the time it stands for.
LEMMA RefillBound ==
  ASSUME IInv
  PROVE  Refilled(bucket, budgetClock).units["total"] + spent <= Capacity["total"] + Gained(budgetClock)
<1> DEFINE at == bucket.refilledAt
           u == bucket.units["total"]
           v == Refilled(bucket, budgetClock).units["total"]
<1>1. /\ at \in Nat /\ u \in Nat /\ v \in Nat /\ v <= Capacity["total"]
      /\ Capacity["total"] \in Nat /\ spent \in Nat /\ budgetClock \in Nat /\ marked \in Nat
      /\ at <= budgetClock /\ marked <= budgetClock /\ bucket \in Bucket
      /\ TotalWeight \in Nat
  <2>1. Sound(Refilled(bucket, budgetClock), RegainedAt(bucket, drawn, budgetClock))
    BY RefillKeeps DEF IInv
  <2>2. v \in Nat /\ v <= Capacity["total"]
    BY <2>1 DEF Sound, Bucket, Pools
  <2>3. at \in Nat /\ u \in Nat /\ bucket \in Bucket
    BY DEF IInv, Sound, Bucket, Pools
  <2>4. at <= budgetClock /\ marked <= budgetClock /\ spent \in Nat /\ budgetClock \in Nat /\ marked \in Nat
    BY DEF IInv
  <2>5. Capacity["total"] \in Nat
    BY Capacities DEF Pools
  <2> QED BY <2>2, <2>3, <2>4, <2>5, Parameters
<1>2. v <= u + (budgetClock - at) * TotalWeight
  BY <1>1, RefillGains
<1>3. u + spent <= Capacity["total"] + Gained(at)
  BY DEF IInv
<1>4. (budgetClock - marked) * TotalWeight \in Nat /\ (budgetClock - at) * TotalWeight \in Nat
  BY <1>1, NatProduct
<1>5. CASE at > marked
  <2>1. (budgetClock - marked) * TotalWeight
          = (budgetClock - at) * TotalWeight + (at - marked) * TotalWeight
    BY <1>1
  <2>2. (at - marked) * TotalWeight \in Nat
    BY <1>1, <1>5, NatProduct
  <2> QED BY <1>1, <1>2, <1>3, <1>4, <1>5, <2>1, <2>2 DEF Gained
<1>6. CASE at = marked
  BY <1>1, <1>2, <1>3, <1>4, <1>6 DEF Gained
<1>7. CASE at < marked
  BY <1>1, <1>4, <1>7 DEF IInv, Gained
<1> QED BY <1>1, <1>5, <1>6, <1>7

LEMMA StepKeeps == IInv /\ [BudgetNext]_budgetVars => IInv'
<1> SUFFICES ASSUME IInv, [BudgetNext]_budgetVars PROVE IInv'
  OBVIOUS
<1> DEFINE b == Refilled(bucket, budgetClock)
<1>0. /\ budgetClock \in Nat /\ marked \in Nat /\ spent \in Nat /\ marked <= budgetClock
      /\ bucket \in Bucket /\ bucket.refilledAt \in Nat /\ bucket.refilledAt <= budgetClock
  BY DEF IInv, Sound, Bucket
<1>1. Sound(b, Regained) /\ b.refilledAt = budgetClock
  BY <1>0, RefillKeeps DEF IInv, Regained
<1>2. b.units["total"] + spent <= Capacity["total"] + Gained(budgetClock)
  BY RefillBound
<1>3. b.units["total"] \in Nat /\ Capacity["total"] \in Nat
  BY <1>1, Capacities DEF Sound, Bucket, Pools
<1> HIDE DEF b
<1>4. ASSUME NEW class \in Classes, NEW weight \in Weights, TryCharge(class, weight)
      PROVE  IInv'
  <2>1. CASE CanCharge(b, class, weight)
    <3>1. weight \in Nat /\ weight * Window \in Nat
      BY WeightsAssumption, Parameters, NatProduct
    <3>2. /\ bucket' = Charged(b, class, weight) /\ spent' = spent + weight * Window
          /\ drawn' = IF class = "critical" THEN Regained + weight * Window ELSE Regained
          /\ budgetClock' = budgetClock /\ marked' = marked
      BY <1>4, <2>1 DEF TryCharge, b
    <3>3. /\ Sound(bucket', drawn')
          /\ bucket'.units["total"] = b.units["total"] - weight * Window
          /\ bucket'.refilledAt = budgetClock
      BY <1>1, <2>1, <3>1, <3>2, ChargeKeeps
    <3>4. bucket'.units["total"] + spent' <= Capacity["total"] + Gained(budgetClock)
      BY <1>0, <1>2, <1>3, <3>1, <3>2, <3>3
    <3> QED BY <1>0, <3>1, <3>2, <3>3, <3>4 DEF IInv, Gained
  <2>2. CASE ~CanCharge(b, class, weight)
    <3>1. /\ bucket' = b /\ drawn' = Regained
          /\ budgetClock' = budgetClock /\ marked' = marked /\ spent' = spent
      BY <1>4, <2>2 DEF TryCharge, b
    <3> QED BY <1>0, <1>1, <1>2, <3>1 DEF IInv, Gained
  <2> QED BY <2>1, <2>2
<1>5. CASE Health
  <2>1. /\ bucket' = b /\ drawn' = Regained
        /\ budgetClock' = budgetClock /\ marked' = marked /\ spent' = spent
    BY <1>5 DEF Health, b
  <2> QED BY <1>0, <1>1, <1>2, <2>1 DEF IInv, Gained
<1>6. CASE Mark
  <2>1. /\ marked' = budgetClock /\ spent' = 0
        /\ budgetClock' = budgetClock /\ bucket' = bucket /\ drawn' = drawn
    BY <1>6 DEF Mark
  <2>2. bucket.units["total"] \in Nat /\ bucket.units["total"] <= Capacity["total"]
    BY DEF IInv, Sound, Bucket, Pools
  <2>3. Gained(bucket.refilledAt)' = 0
    BY <1>0, <2>1 DEF Gained
  <2> QED BY <1>0, <1>3, <2>1, <2>2, <2>3 DEF IInv
<1>7. CASE BudgetTick
  <2>1. /\ budgetClock' = budgetClock + 1
        /\ bucket' = bucket /\ drawn' = drawn /\ marked' = marked /\ spent' = spent
    BY <1>7 DEF BudgetTick
  <2> QED BY <1>0, <2>1 DEF IInv, Gained
<1>8. CASE UNCHANGED budgetVars
  BY <1>8 DEF budgetVars, IInv, Gained
<1> QED BY <1>4, <1>5, <1>6, <1>7, <1>8 DEF BudgetNext

LEMMA Inductive == BudgetSpec => []IInv
<1>1. BudgetInit => IInv
  BY InitIsSound
<1>2. IInv /\ [BudgetNext]_budgetVars => IInv'
  BY StepKeeps
<1> QED BY <1>1, <1>2, PTL DEF BudgetSpec

-----------------------------------------------------------------------------
(* The theorems.                                                           *)

\* The variables keep their types; no pool is ever overdrawn, although
\* try_charge subtracts without a check of its own (scheduler.rs:425).
THEOREM TypeCorrect == BudgetSpec => []BudgetTypeOK
<1>1. IInv => BudgetTypeOK
  BY DEF IInv, Sound, BudgetTypeOK
<1> QED BY <1>1, Inductive, PTL

\* What the account of a refilled bucket says of a read's pools.
LEMMA RefilledNow ==
  ASSUME IInv
  PROVE  /\ Sound(Refilled(bucket, budgetClock), Regained) /\ Regained \in Nat
         /\ \A p \in Pools : /\ Refilled(bucket, budgetClock).units[p] \in Nat
                             /\ Refilled(bucket, budgetClock).used[p] \in Nat
<1>1. /\ budgetClock \in Nat /\ bucket.refilledAt <= budgetClock /\ Sound(bucket, drawn)
  BY DEF IInv
<1>2. Sound(Refilled(bucket, budgetClock), Regained)
  BY <1>1, RefillKeeps DEF Regained
<1> QED BY <1>2 DEF Sound, Bucket

\* A critical read that fits what is left of the reserve is never refused
\* (try_charge, permits_reserved_budget).
THEOREM ReserveKept == BudgetSpec => []ReserveIsKept
<1>1. ASSUME IInv, NEW w \in 1..TotalWeight,
             UsedByCritical + w <= ReservedWeight, Regained + w * Window <= Reserve
      PROVE  CanCharge(Refilled(bucket, budgetClock), "critical", w)
  <2> DEFINE b == Refilled(bucket, budgetClock)
             c == w * Window
  <2>1. /\ w \in Nat /\ c \in Nat /\ Regained \in Nat
        /\ \A p \in Pools : b.units[p] \in Nat /\ b.used[p] \in Nat
        /\ Sound(b, Regained)
    BY <1>1, RefilledNow, Parameters, NatProduct
  <2>2. b.used["total"] - b.used["normal"] + w <= ReservedWeight
    BY <1>1 DEF UsedByCritical
  <2>3. Regained + c <= Reserve
    BY <1>1
  <2> HIDE DEF b, c
  <2>4. b.used["total"] + w <= PoolWeight["total"]
    BY <2>1, <2>2, PoolWeights, Parameters DEF Sound, Pools
  <2>5. c <= b.units["total"]
    BY <2>1, <2>3, Capacities DEF Sound, Pools
  <2>6. w <= PoolWeight["total"]
    BY <2>1, <2>4, PoolWeights, Parameters DEF Pools
  <2> QED BY <2>4, <2>5, <2>6 DEF CanCharge, PoolsOf, b, c
<1>2. IInv => ReserveIsKept
  BY <1>1 DEF ReserveIsKept
<1> QED BY <1>2, Inductive, PTL

\* While critical reads keep to the reserve, source polling and enrichment
\* are refused only for what was charged to their own pool (try_charge).
THEOREM OwnPoolDecided == BudgetSpec => []OwnPoolDecides
<1>1. ASSUME IInv, NEW w \in 1..TotalWeight,
             UsedByCritical <= ReservedWeight, Regained <= Reserve,
             NEW own \in { "source", "enrichment" },
             Refilled(bucket, budgetClock).used[own] + w <= PoolWeight[own],
             w * Window <= Refilled(bucket, budgetClock).units[own]
      PROVE  \A p \in { "total", "normal", own } :
               /\ w <= PoolWeight[p]
               /\ Refilled(bucket, budgetClock).used[p] + w <= PoolWeight[p]
               /\ w * Window <= Refilled(bucket, budgetClock).units[p]
  <2> DEFINE b == Refilled(bucket, budgetClock)
             c == w * Window
  <2>1. /\ w \in Nat /\ c \in Nat /\ Regained \in Nat
        /\ \A p \in Pools : b.units[p] \in Nat /\ b.used[p] \in Nat
        /\ Sound(b, Regained)
    BY <1>1, RefilledNow, Parameters, NatProduct
  <2>2. b.used["total"] - b.used["normal"] <= ReservedWeight
    BY <1>1 DEF UsedByCritical
  <2>3. b.used[own] + w <= PoolWeight[own] /\ c <= b.units[own] /\ Regained <= Reserve
    BY <1>1
  <2> HIDE DEF b, c
  <2>4. \A p \in Pools : /\ b.units[p] <= Capacity[p] /\ Capacity[p] \in Nat
                         /\ b.used[p] <= PoolWeight[p] /\ PoolWeight[p] \in Nat
    BY <2>1, Capacities, PoolWeights DEF Sound
  <2>5. PoolWeight["normal"] = PoolWeight["source"] + PoolWeight["enrichment"]
        /\ PoolWeight["total"] = PoolWeight["normal"] + ReservedWeight
    BY PoolWeights, Parameters
  <2>6. b.used["normal"] + w <= PoolWeight["normal"] /\ c <= b.units["normal"]
    BY <2>1, <2>3, <2>4, <2>5, Capacities DEF Sound, Pools
  <2>7. b.used["total"] + w <= PoolWeight["total"] /\ c <= b.units["total"]
    BY <2>1, <2>2, <2>3, <2>4, <2>5, <2>6, Capacities, Parameters DEF Sound, Pools
  <2>8. \A p \in { "total", "normal", own } : w <= PoolWeight[p]
    BY <2>1, <2>3, <2>4, <2>6, <2>7 DEF Pools
  <2> QED BY <2>3, <2>6, <2>7, <2>8 DEF b, c
<1>2. ASSUME IInv PROVE OwnPoolDecides
  <2>1. ASSUME UsedByCritical <= ReservedWeight, Regained <= Reserve,
               NEW w \in 1..TotalWeight
        PROVE  /\ (/\ Refilled(bucket, budgetClock).used["source"] + w <= PoolWeight["source"]
                   /\ w * Window <= Refilled(bucket, budgetClock).units["source"])
                     => CanCharge(Refilled(bucket, budgetClock), "source", w)
               /\ (/\ Refilled(bucket, budgetClock).used["enrichment"] + w <= PoolWeight["enrichment"]
                   /\ w * Window <= Refilled(bucket, budgetClock).units["enrichment"])
                     => CanCharge(Refilled(bucket, budgetClock), "normal", w)
    BY <1>1, <1>2, <2>1 DEF CanCharge, PoolsOf
  <2> QED BY <2>1 DEF OwnPoolDecides
<1> QED BY <1>2, Inductive, PTL

\* Between two instants no more is charged than a full bucket and the refill
\* of the time between them (refill, try_charge).
THEOREM BurstBounded == BudgetSpec => []BurstIsBounded
<1>1. ASSUME IInv PROVE BurstIsBounded
  <2>1. Refilled(bucket, budgetClock).units["total"] + spent <= Capacity["total"] + Gained(budgetClock)
    BY <1>1, RefillBound
  <2>2. Refilled(bucket, budgetClock).units["total"] \in Nat /\ Capacity["total"] \in Nat
    BY <1>1, RefilledNow, Capacities DEF Pools
  <2>3. /\ budgetClock \in Nat /\ marked \in Nat /\ marked <= budgetClock /\ spent \in Nat
    BY <1>1 DEF IInv
  <2>4. Gained(budgetClock) = (budgetClock - marked) * TotalWeight
    BY <2>3, Parameters DEF Gained
  <2>5. (budgetClock - marked) * TotalWeight \in Nat
    BY <2>3, Parameters, NatProduct
  <2> QED BY <2>1, <2>2, <2>3, <2>4, <2>5 DEF BurstIsBounded
<1> QED BY <1>1, Inductive, PTL

-----------------------------------------------------------------------------
(* The queue.  Whatever a read displaces, it takes one place for at least one, *)
(* or there was room; and the reads it displaces are not critical, or older  *)
(* ones of its own key.                                                      *)

\* A set of reads has one of each key.
OnePerKey(s) == \A r, q \in s : r.key = q.key => r = q

ReadSet(s) == s \subseteq ReadRequest /\ IsFiniteSet(s)

QueueTyped == QueueTypeOK /\ ReadSet(pending) /\ ReadSet(successors)

\* The queue holds one read of a key, or one besides that in flight.
OneReadPerKey ==
  /\ OnePerKey(pending) /\ OnePerKey(successors) /\ OnePerKey(dispatched)
  /\ KeysOf(pending) \cap KeysOf(dispatched) = {}
  /\ KeysOf(successors) \subseteq KeysOf(dispatched)

\* The queue never holds more than it has room for.
QueueIsBounded == Cardinality(Queued) <= QueueCapacity

\* The inductive invariant.
QueueInv == QueueTyped /\ OneReadPerKey /\ QueueIsBounded

\* A read that is put where there is room for it, or in the place of others.
LEMMA Replaced ==
  ASSUME NEW X, IsFiniteSet(X), NEW G, G \subseteq X, NEW r,
         NEW C \in Nat, Cardinality(X) <= C, Cardinality(X) < C \/ G # {}
  PROVE  Cardinality((X \ G) \cup { r }) <= C
<1>1. /\ IsFiniteSet(X \ G) /\ Cardinality(X \ G) <= Cardinality(X)
      /\ Cardinality(X) = Cardinality(X \ G) => X = X \ G
  BY X \ G \in SUBSET X, FS_Subset
<1>2. Cardinality(X) \in Nat /\ Cardinality(X \ G) \in Nat
  BY <1>1, FS_CardinalityType
<1>3. G # {} => Cardinality(X \ G) < Cardinality(X)
  <2>1. G # {} => X # X \ G
    OBVIOUS
  <2> QED BY <1>1, <1>2, <2>1
<1>4. Cardinality((X \ G) \cup { r }) <= Cardinality(X \ G) + 1
  <2>1. Cardinality((X \ G) \cup { r })
          = IF r \in X \ G THEN Cardinality(X \ G) ELSE Cardinality(X \ G) + 1
    BY <1>1, FS_AddElement
  <2> QED BY <2>1, <1>2
<1>5. Cardinality((X \ G) \cup { r }) \in Nat
  BY <1>1, FS_AddElement, FS_CardinalityType
<1> QED BY <1>1, <1>2, <1>3, <1>4, <1>5

-----------------------------------------------------------------------------
(* schedule and schedule_retry.                                            *)

\* The reads `gone' give way to r: none of them is critical, or each is an
\* older read of the same key.
GiveWay(gone, r) ==
  \/ \A q \in gone : q.priority # Critical
  \/ \A q \in gone : q.key = r.key /\ IsNewer(r, q)

\* r joins the reads q, others give way, and p is what stays of the rest.
Joined(r, q, p, gone, q2, p2) ==
  /\ q2 = (q \ gone) \cup { r } /\ p2 = p \ gone
  /\ gone \subseteq q \cup p /\ Of(q, r.key) \subseteq gone
  /\ Cardinality(q \cup p) < QueueCapacity \/ gone # {}
  /\ GiveWay(gone, r)

\* What Enqueue does to the live reads: nothing, or r joins one of the queues.
Outcome(r, f) ==
  \/ pending' = Live(pending) /\ successors' = Live(successors)
  \/ /\ r.key \in KeysOf(f)
     /\ \E gone : Joined(r, Live(successors), Live(pending), gone, successors', pending')
  \/ /\ r.key \notin KeysOf(f)
     /\ \E gone : Joined(r, Live(pending), Live(successors), gone, pending', successors')

LEMMA RoomGivesWay ==
  ASSUME NEW p, NEW s, NEW r
  PROVE  /\ Room(p, s, r) \subseteq p \cup s
         /\ GiveWay(Room(p, s, r), r)
         /\ HasRoom(p, s, r) => Cardinality(p \cup s) < QueueCapacity \/ Room(p, s, r) # {}
BY DEF Room, HasRoom, Evicted, GiveWay

LEMMA EnqueueOutcome ==
  ASSUME NEW r, NEW f, Enqueue(r, f)
  PROVE  Outcome(r, f)
<1> DEFINE p == Live(pending)
           s == Live(successors)
           queue == IF r.key \in KeysOf(f) THEN s ELSE p
           older == Of(queue, r.key)
           gone == IF older = {} THEN Room(p, s, r) ELSE older
           takes == IF older = {} THEN HasRoom(p, s, r) ELSE \A q \in older : IsNewer(r, q)
           kept(q) == IF takes THEN q \ gone ELSE q
           added(q) == kept(q) \cup (IF takes THEN { r } ELSE {})
<1>1. /\ pending'    = IF r.key \in KeysOf(f) THEN kept(p) ELSE added(p)
      /\ successors' = IF r.key \in KeysOf(f) THEN added(s) ELSE kept(s)
  BY DEF Enqueue
<1>2. CASE ~takes
  <2>1. kept(p) = p /\ kept(s) = s /\ added(p) = p /\ added(s) = s
    BY <1>2
  <2> HIDE DEF p, s, kept, added
  <2> QED BY <1>1, <2>1 DEF Outcome, p, s
<1>3. CASE takes
  <2>1. /\ kept(p) = p \ gone /\ kept(s) = s \ gone
        /\ added(p) = (p \ gone) \cup { r } /\ added(s) = (s \ gone) \cup { r }
    BY <1>3
  <2>2. queue \in { p, s } /\ older \subseteq queue /\ (\A q \in older : q.key = r.key)
    BY DEF Of
  <2>3. gone \subseteq p \cup s
    <3> HIDE DEF p, s, older, queue
    <3> QED BY <2>2, RoomGivesWay
  <2>4. GiveWay(gone, r)
    <3>1. CASE older = {}
      <4> HIDE DEF p, s, older
      <4> QED BY <3>1, RoomGivesWay
    <3>2. CASE older # {}
      <4>1. \A q \in older : IsNewer(r, q)
        BY <1>3, <3>2
      <4> HIDE DEF older, queue
      <4> QED BY <3>2, <4>1, <2>2 DEF GiveWay
    <3> QED BY <3>1, <3>2
  <2>5. Cardinality(p \cup s) < QueueCapacity \/ gone # {}
    <3>1. older = {} => HasRoom(p, s, r)
      BY <1>3
    <3> HIDE DEF p, s, older
    <3> QED BY <3>1, RoomGivesWay
  <2>6. older \subseteq gone
    OBVIOUS
  <2>7. p \cup s = s \cup p
    OBVIOUS
  <2>8. CASE r.key \in KeysOf(f)
    <3>1. Of(s, r.key) \subseteq gone
      BY <2>6, <2>8
    <3>2. successors' = (s \ gone) \cup { r } /\ pending' = p \ gone
      BY <1>1, <2>1, <2>8
    <3> HIDE DEF p, s, gone
    <3>3. Joined(r, s, p, gone, successors', pending')
      BY <2>3, <2>4, <2>5, <2>7, <3>1, <3>2 DEF Joined
    <3> QED BY <2>8, <3>3 DEF Outcome, p, s
  <2>9. CASE r.key \notin KeysOf(f)
    <3>1. Of(p, r.key) \subseteq gone
      BY <2>6, <2>9
    <3>2. pending' = (p \ gone) \cup { r } /\ successors' = s \ gone
      BY <1>1, <2>1, <2>9
    <3> HIDE DEF p, s, gone
    <3>3. Joined(r, p, s, gone, pending', successors')
      BY <2>3, <2>4, <2>5, <3>1, <3>2 DEF Joined
    <3> QED BY <2>9, <3>3 DEF Outcome, p, s
  <2> QED BY <2>8, <2>9
<1> QED BY <1>2, <1>3

\* What of the queue is alive is still a queue.
LEMMA LiveKeeps ==
  ASSUME QueueInv
  PROVE  /\ ReadSet(Live(pending)) /\ ReadSet(Live(successors))
         /\ OnePerKey(Live(pending)) /\ OnePerKey(Live(successors))
         /\ KeysOf(Live(pending)) \cap KeysOf(dispatched) = {}
         /\ KeysOf(Live(successors)) \subseteq KeysOf(successors)
         /\ IsFiniteSet(Live(pending) \cup Live(successors))
         /\ Cardinality(Live(pending) \cup Live(successors)) <= QueueCapacity
<1>1. Live(pending) \in SUBSET pending /\ Live(successors) \in SUBSET successors
  BY DEF Live
<1>2. IsFiniteSet(Live(pending)) /\ IsFiniteSet(Live(successors))
  BY <1>1, FS_Subset DEF QueueInv, QueueTyped, ReadSet
<1>3. IsFiniteSet(pending \cup successors)
  BY FS_Union DEF QueueInv, QueueTyped, ReadSet
<1>4. Live(pending) \cup Live(successors) \in SUBSET (pending \cup successors)
  BY <1>1
<1>5. /\ IsFiniteSet(Live(pending) \cup Live(successors))
      /\ Cardinality(Live(pending) \cup Live(successors)) <= Cardinality(pending \cup successors)
  BY <1>3, <1>4, FS_Subset
<1>6. /\ Cardinality(Live(pending) \cup Live(successors)) \in Nat
      /\ Cardinality(pending \cup successors) \in Nat
  BY <1>3, <1>5, FS_CardinalityType
<1>7. Cardinality(pending \cup successors) <= QueueCapacity /\ QueueCapacity \in Nat
  BY SchedulerAssumption DEF QueueInv, QueueIsBounded, Queued
<1>8. Cardinality(Live(pending) \cup Live(successors)) <= QueueCapacity
  BY <1>5, <1>6, <1>7
<1>9. /\ ReadSet(Live(pending)) /\ ReadSet(Live(successors))
      /\ OnePerKey(Live(pending)) /\ OnePerKey(Live(successors))
  BY <1>1, <1>2 DEF ReadSet, OnePerKey, QueueInv, QueueTyped, OneReadPerKey
<1>10. /\ KeysOf(Live(pending)) \cap KeysOf(dispatched) = {}
       /\ KeysOf(Live(successors)) \subseteq KeysOf(successors)
  BY <1>1 DEF QueueInv, OneReadPerKey, KeysOf
<1> QED BY <1>5, <1>8, <1>9, <1>10

\* The queue beside the reads f in flight.
QueueBeside(p, s, f) ==
  /\ ReadSet(p) /\ ReadSet(s) /\ OnePerKey(p) /\ OnePerKey(s)
  /\ KeysOf(p) \cap KeysOf(f) = {} /\ KeysOf(s) \subseteq KeysOf(f)
  /\ Cardinality(p \cup s) <= QueueCapacity

\* Where r joins, no other read has its key.
LEMMA JoinedKeeps ==
  ASSUME NEW r \in ReadRequest, NEW q, NEW p, NEW gone, NEW q2, NEW p2,
         Joined(r, q, p, gone, q2, p2),
         ReadSet(q), ReadSet(p), OnePerKey(q), OnePerKey(p),
         Cardinality(q \cup p) <= QueueCapacity
  PROVE  /\ ReadSet(q2) /\ ReadSet(p2) /\ OnePerKey(q2) /\ OnePerKey(p2)
         /\ KeysOf(q2) \subseteq KeysOf(q) \cup { r.key } /\ KeysOf(p2) \subseteq KeysOf(p)
         /\ Cardinality(q2 \cup p2) <= QueueCapacity
<1>1. /\ q2 = (q \ gone) \cup { r } /\ p2 = p \ gone
      /\ gone \subseteq q \cup p /\ Of(q, r.key) \subseteq gone
      /\ Cardinality(q \cup p) < QueueCapacity \/ gone # {}
  BY DEF Joined
<1>2. q \ gone \in SUBSET q /\ p2 \in SUBSET p
  BY <1>1
<1>3. IsFiniteSet(q \ gone) /\ IsFiniteSet(p2)
  BY <1>2, FS_Subset DEF ReadSet
<1>4. ReadSet(q2) /\ ReadSet(p2)
  BY <1>1, <1>2, <1>3, FS_AddElement DEF ReadSet
<1>5. \A t \in q \ gone : t.key # r.key
  BY <1>1 DEF Of
<1>6. OnePerKey(q2) /\ OnePerKey(p2)
  BY <1>1, <1>2, <1>5 DEF OnePerKey
<1>7. KeysOf(q2) \subseteq KeysOf(q) \cup { r.key } /\ KeysOf(p2) \subseteq KeysOf(p)
  BY <1>1, <1>2 DEF KeysOf
<1>8. Cardinality(q2 \cup p2) <= QueueCapacity
  <2>1. q2 \cup p2 = ((q \cup p) \ gone) \cup { r }
    BY <1>1
  <2>2. IsFiniteSet(q \cup p)
    BY FS_Union DEF ReadSet
  <2>3. QueueCapacity \in Nat
    BY SchedulerAssumption
  <2> QED BY <1>1, <2>1, <2>2, <2>3, Replaced
<1> QED BY <1>4, <1>6, <1>7, <1>8

\* A read of a key in flight becomes a successor, any other one is pending.
LEMMA EnqueueKeeps ==
  ASSUME QueueInv, NEW r \in ReadRequest, NEW f, f \subseteq dispatched,
         KeysOf(successors) \subseteq KeysOf(f), Enqueue(r, f)
  PROVE  QueueBeside(pending', successors', f)
<1>1. Outcome(r, f)
  BY EnqueueOutcome
<1>2. /\ ReadSet(Live(pending)) /\ ReadSet(Live(successors))
      /\ OnePerKey(Live(pending)) /\ OnePerKey(Live(successors))
      /\ KeysOf(Live(pending)) \cap KeysOf(f) = {}
      /\ KeysOf(Live(successors)) \subseteq KeysOf(f)
      /\ Cardinality(Live(pending) \cup Live(successors)) <= QueueCapacity
  <2>1. KeysOf(f) \subseteq KeysOf(dispatched)
    BY DEF KeysOf
  <2> QED BY <2>1, LiveKeeps
<1>3. CASE pending' = Live(pending) /\ successors' = Live(successors)
  BY <1>2, <1>3 DEF QueueBeside
<1>4. ASSUME r.key \in KeysOf(f),
             NEW gone, Joined(r, Live(successors), Live(pending), gone, successors', pending')
      PROVE  QueueBeside(pending', successors', f)
  <2>1. Live(pending) \cup Live(successors) = Live(successors) \cup Live(pending)
    BY Zenon
  <2>2. Cardinality(Live(successors) \cup Live(pending)) <= QueueCapacity
    BY <1>2, <2>1
  <2>3. /\ ReadSet(successors') /\ ReadSet(pending')
        /\ OnePerKey(successors') /\ OnePerKey(pending')
        /\ KeysOf(successors') \subseteq KeysOf(Live(successors)) \cup { r.key }
        /\ KeysOf(pending') \subseteq KeysOf(Live(pending))
        /\ Cardinality(successors' \cup pending') <= QueueCapacity
    BY ONLY JoinedKeeps, r \in ReadRequest, <1>2, <1>4, <2>2
  <2>4. successors' \cup pending' = pending' \cup successors'
    OBVIOUS
  <2> QED BY <1>2, <1>4, <2>3, <2>4 DEF QueueBeside
<1>5. ASSUME r.key \notin KeysOf(f),
             NEW gone, Joined(r, Live(pending), Live(successors), gone, pending', successors')
      PROVE  QueueBeside(pending', successors', f)
  <2>1. /\ ReadSet(pending') /\ ReadSet(successors')
        /\ OnePerKey(pending') /\ OnePerKey(successors')
        /\ KeysOf(pending') \subseteq KeysOf(Live(pending)) \cup { r.key }
        /\ KeysOf(successors') \subseteq KeysOf(Live(successors))
        /\ Cardinality(pending' \cup successors') <= QueueCapacity
    BY ONLY JoinedKeeps, r \in ReadRequest, <1>2, <1>5
  <2> QED BY <1>2, <1>5, <2>1 DEF QueueBeside
<1> QED BY <1>1, <1>3, <1>4, <1>5 DEF Outcome

\* A read that r takes the place of is an older one of its key, or is not critical.
LEMMA EnqueueSpares ==
  ASSUME NEW r, NEW f, Enqueue(r, f), NEW q \in Live(Queued), q.priority = Critical
  PROVE  q \in Queued' \/ \E s \in Queued' : s.key = q.key /\ IsNewer(s, q)
<1>1. Outcome(r, f)
  BY EnqueueOutcome
<1>2. q \in Live(pending) \cup Live(successors)
  BY DEF Live, Queued
<1>3. CASE pending' = Live(pending) /\ successors' = Live(successors)
  BY <1>2, <1>3 DEF Queued
<1>4. ASSUME NEW gone, GiveWay(gone, r), r \in Queued',
             (Live(pending) \cup Live(successors)) \ gone \subseteq Queued'
      PROVE  q \in Queued' \/ \E s \in Queued' : s.key = q.key /\ IsNewer(s, q)
  BY <1>2, <1>4 DEF GiveWay
<1>5. ASSUME NEW gone, Joined(r, Live(successors), Live(pending), gone, successors', pending')
      PROVE  /\ GiveWay(gone, r) /\ r \in Queued'
             /\ (Live(pending) \cup Live(successors)) \ gone \subseteq Queued'
  BY <1>5 DEF Joined, Queued
<1>6. ASSUME NEW gone, Joined(r, Live(pending), Live(successors), gone, pending', successors')
      PROVE  /\ GiveWay(gone, r) /\ r \in Queued'
             /\ (Live(pending) \cup Live(successors)) \ gone \subseteq Queued'
  BY <1>6 DEF Joined, Queued
<1> QED BY <1>1, <1>3, <1>4, <1>5, <1>6 DEF Outcome

-----------------------------------------------------------------------------
(* The steps.                                                              *)

LEMMA RefilledType ==
  ASSUME NEW b \in Bucket, NEW at \in Nat
  PROVE  Refilled(b, at) \in Bucket
<1>1. \A p \in Pools : PoolWeight[p] \in Nat /\ Capacity[p] \in Nat
  BY PoolWeights, Capacities
<1>2. CASE at <= b.refilledAt
  BY <1>2 DEF Refilled
<1>3. CASE ~(at <= b.refilledAt)
  <2>1. at - b.refilledAt \in Nat
    BY <1>3 DEF Bucket
  <2>2. \A p \in Pools : (at - b.refilledAt) * PoolWeight[p] \in Nat
    BY <1>1, <2>1, NatProduct
  <2>3. \A p \in Pools :
          AtMost(b.units[p] + (at - b.refilledAt) * PoolWeight[p], Capacity[p]) \in Nat
    BY <1>1, <2>2 DEF AtMost, Bucket
  <2> QED BY <1>3, <2>3 DEF Refilled, Bucket
<1> QED BY <1>2, <1>3

LEMMA ChargedType ==
  ASSUME NEW b \in Bucket, NEW class, NEW weight \in Nat, CanCharge(b, class, weight)
  PROVE  Charged(b, class, weight) \in Bucket
<1>1. weight * Window \in Nat
  BY Parameters, NatProduct
<1>2. \A p \in PoolsOf(class) : weight * Window <= b.units[p]
  BY DEF CanCharge
<1>3. \A p \in Pools : p \in PoolsOf(class) => b.units[p] - weight * Window \in Nat
  BY <1>1, <1>2 DEF Bucket
<1>4. \A p \in Pools : b.used[p] + weight \in Nat
  BY DEF Bucket
<1> QED BY <1>3, <1>4 DEF Charged, Bucket

LEMMA QueueInitTrue == QueueInit => QueueInv
<1> SUFFICES ASSUME QueueInit PROVE QueueInv
  OBVIOUS
<1>1. FullBucket(0) \in Bucket
  BY FullIsSound DEF Sound
<1>2. IsFiniteSet({}) /\ Cardinality({}) = 0
  BY FS_EmptySet
<1>3. QueueTypeOK
  BY <1>1 DEF QueueInit, QueueTypeOK
<1>4. Queued = {}
  BY DEF QueueInit, Queued
<1> QED BY <1>2, <1>3, <1>4, SchedulerAssumption
        DEF QueueInit, QueueInv, QueueTyped, ReadSet, OneReadPerKey, OnePerKey, KeysOf,
            QueueIsBounded

LEMMA NewWindowType ==
  ASSUME QueueTypeOK, NewWindow
  PROVE  tierWindow' \in Nat /\ tierCount' \in [ Tiers -> Nat ]
BY DEF NewWindow, QueueTypeOK

LEMMA NewReadType ==
  ASSUME QueueTypeOK, NEW k \in Keys, NEW p \in PrioritiesOf[k]
  PROVE  NewRead(k, p) \in ReadRequest
<1>1. p \in 0..Critical /\ LifetimeOf[k] \in Nat
  BY SchedulerAssumption
<1>2. queueClock \in Nat /\ queueClock + LifetimeOf[k] \in Nat
  BY <1>1 DEF QueueTypeOK
<1> QED BY <1>1, <1>2 DEF NewRead, ReadRequest

LEMMA ScheduleKeeps ==
  ASSUME QueueInv, NEW k \in Keys, NEW p \in PrioritiesOf[k], Schedule(k, p)
  PROVE  QueueInv'
<1>1. NewRead(k, p) \in ReadRequest
  BY NewReadType DEF QueueInv, QueueTyped
<1>2. KeysOf(successors) \subseteq KeysOf(dispatched)
  BY DEF QueueInv, OneReadPerKey
<1>3. QueueBeside(pending', successors', dispatched)
  BY <1>1, <1>2, EnqueueKeeps DEF Schedule
<1>4. /\ UNCHANGED << queueClock, queueBucket, dispatched >>
      /\ tierWindow' \in Nat /\ tierCount' \in [ Tiers -> Nat ]
  BY NewWindowType DEF Schedule, QueueInv, QueueTyped
<1>5. QueueTypeOK'
  BY <1>3, <1>4 DEF QueueInv, QueueTyped, QueueTypeOK, QueueBeside, ReadSet
<1>6. OnePerKey(dispatched)'
  BY <1>4 DEF QueueInv, OneReadPerKey, OnePerKey
<1> QED BY <1>3, <1>4, <1>5, <1>6
        DEF QueueInv, QueueTyped, OneReadPerKey, QueueIsBounded, QueueBeside, ReadSet,
            OnePerKey, KeysOf, Queued

\* schedule_retry: the read is queued again, and its dispatch has ended.
LEMMA RetryKeeps ==
  ASSUME QueueInv, NEW d \in dispatched, NEW delay \in Delays, Retry(d, delay)
  PROVE  QueueInv'
<1> DEFINE r == [ d EXCEPT !.attempt = @ + 1, !.notBefore = queueClock + delay ]
           f == dispatched \ { d }
<1>1. d \in ReadRequest /\ queueClock \in Nat /\ delay \in Nat
  BY SchedulerAssumption DEF QueueInv, QueueTyped, QueueTypeOK
<1>2. r \in ReadRequest
  <2>1. queueClock + delay \in Nat /\ d.attempt + 1 \in Nat
    BY <1>1 DEF ReadRequest
  <2>2. r = [ d EXCEPT !.attempt = d.attempt + 1, !.notBefore = queueClock + delay ]
    BY <1>1 DEF ReadRequest
  <2> QED BY <1>1, <2>1, <2>2 DEF ReadRequest
<1>3. KeysOf(successors) \subseteq KeysOf(f)
  BY DEF Retry, Of, KeysOf, QueueInv, OneReadPerKey
<1>4. /\ Enqueue(r, f) /\ dispatched' = f /\ NewWindow
      /\ UNCHANGED << queueClock, queueBucket >>
  BY DEF Retry
<1>5. QueueBeside(pending', successors', f)
  <2> HIDE DEF r
  <2> QED BY <1>2, <1>3, <1>4, EnqueueKeeps
<1>6. tierWindow' \in Nat /\ tierCount' \in [ Tiers -> Nat ]
  BY <1>4, NewWindowType DEF QueueInv, QueueTyped
<1>7. QueueTypeOK'
  BY <1>4, <1>5, <1>6 DEF QueueInv, QueueTyped, QueueTypeOK, QueueBeside, ReadSet
<1>8. OnePerKey(dispatched)'
  BY <1>4 DEF QueueInv, OneReadPerKey, OnePerKey
<1> HIDE DEF r
<1> QED BY <1>4, <1>5, <1>7, <1>8
        DEF QueueInv, QueueTyped, OneReadPerKey, QueueIsBounded, QueueBeside, ReadSet,
            OnePerKey, KeysOf, Queued

\* begin_next only takes from the queue, and what it takes is in flight.
LEMMA BeginNextKeeps ==
  ASSUME QueueInv, BeginNext
  PROVE  QueueInv'
<1> DEFINE b == Refilled(queueBucket, queueClock)
<1>1. /\ QueueTypeOK /\ queueBucket \in Bucket /\ queueClock \in Nat
      /\ tierCount \in [ Tiers -> Nat ]
  BY DEF QueueInv, QueueTyped, QueueTypeOK
<1>2. b \in Bucket
  BY <1>1, RefilledType
<1>3. /\ successors' = Live(successors) /\ UNCHANGED << queueClock, tierWindow >>
      /\ pending' \subseteq Live(pending)
  BY DEF BeginNext
<1>4. /\ ReadSet(Live(pending)) /\ ReadSet(Live(successors))
      /\ OnePerKey(Live(pending)) /\ OnePerKey(Live(successors))
      /\ KeysOf(Live(pending)) \cap KeysOf(dispatched) = {}
      /\ KeysOf(Live(successors)) \subseteq KeysOf(successors)
      /\ IsFiniteSet(Live(pending) \cup Live(successors))
      /\ Cardinality(Live(pending) \cup Live(successors)) <= QueueCapacity
  BY LiveKeeps
<1>5. /\ ReadSet(pending') /\ ReadSet(successors')
      /\ OnePerKey(pending') /\ OnePerKey(successors')
  <2>1. pending' \in SUBSET Live(pending)
    BY <1>3
  <2>2. IsFiniteSet(pending')
    BY <1>4, <2>1, FS_Subset DEF ReadSet
  <2> QED BY <1>3, <1>4, <2>1, <2>2 DEF ReadSet, OnePerKey
<1>6. QueueIsBounded'
  <2>1. Queued' \in SUBSET (Live(pending) \cup Live(successors))
    BY <1>3 DEF Queued
  <2>2. /\ IsFiniteSet(Queued')
        /\ Cardinality(Queued') <= Cardinality(Live(pending) \cup Live(successors))
    BY <1>4, <2>1, FS_Subset
  <2>3. Cardinality(Queued') \in Nat /\ Cardinality(Live(pending) \cup Live(successors)) \in Nat
    BY <1>4, <2>2, FS_CardinalityType
  <2>4. QueueCapacity \in Nat
    BY SchedulerAssumption
  <2> QED BY <1>4, <2>2, <2>3, <2>4 DEF QueueIsBounded
<1>7. ASSUME NEW r \in Affordable(b), pending' = Live(pending) \ { r },
             dispatched' = dispatched \cup { r },
             queueBucket' = Charged(b, ClassOf[r.key], ReadWeightOf[r.key]),
             tierCount' = [ t \in Tiers |->
               IF t = TierOf[r.key] THEN tierCount[t] + 1 ELSE tierCount[t] ]
      PROVE  QueueInv'
  <2>1. r \in Live(pending) /\ CanCharge(b, ClassOf[r.key], ReadWeightOf[r.key])
    BY <1>7 DEF Affordable, Eligible
  <2>2. r \in ReadRequest
    BY <1>4, <2>1 DEF ReadSet
  <2>3. ReadWeightOf[r.key] \in Nat
    BY <2>2, SchedulerAssumption DEF ReadRequest
  <2>4. queueBucket' \in Bucket
    <3> HIDE DEF b
    <3> QED BY <1>2, <1>7, <2>1, <2>3, ChargedType
  <2>5. tierCount' \in [ Tiers -> Nat ]
    BY <1>1, <1>7
  <2>6. QueueTypeOK'
    BY <1>1, <1>3, <1>5, <1>7, <2>2, <2>4, <2>5 DEF QueueTypeOK, ReadSet
  <2>7. r.key \notin KeysOf(dispatched)
    BY <1>4, <2>1 DEF KeysOf
  <2>8. OnePerKey(dispatched')
    BY <1>7, <2>7 DEF OnePerKey, KeysOf, QueueInv, OneReadPerKey
  <2>9. KeysOf(pending') \cap KeysOf(dispatched') = {}
    BY <1>4, <1>7, <2>1 DEF KeysOf, OnePerKey
  <2>10. KeysOf(successors') \subseteq KeysOf(dispatched')
    BY <1>3, <1>4, <1>7 DEF KeysOf, QueueInv, OneReadPerKey
  <2> QED BY <1>5, <1>6, <2>6, <2>8, <2>9, <2>10
          DEF QueueInv, QueueTyped, OneReadPerKey, ReadSet, OnePerKey, KeysOf
<1>8. ASSUME pending' = Live(pending), queueBucket' \in { queueBucket, b },
             UNCHANGED << dispatched, tierCount >>
      PROVE  QueueInv'
  <2>1. QueueTypeOK'
    BY <1>1, <1>2, <1>3, <1>5, <1>8 DEF QueueTypeOK, ReadSet
  <2>2. /\ OnePerKey(dispatched') /\ KeysOf(pending') \cap KeysOf(dispatched') = {}
        /\ KeysOf(successors') \subseteq KeysOf(dispatched')
    BY <1>3, <1>4, <1>8 DEF QueueInv, OneReadPerKey
  <2> QED BY <1>5, <1>6, <2>1, <2>2
          DEF QueueInv, QueueTyped, OneReadPerKey, ReadSet, OnePerKey, KeysOf
<1>9. \/ \E r \in Affordable(b) :
           /\ pending' = Live(pending) \ { r }
           /\ dispatched' = dispatched \cup { r }
           /\ queueBucket' = Charged(b, ClassOf[r.key], ReadWeightOf[r.key])
           /\ tierCount' = [ t \in Tiers |->
                IF t = TierOf[r.key] THEN tierCount[t] + 1 ELSE tierCount[t] ]
      \/ /\ pending' = Live(pending) /\ queueBucket' \in { queueBucket, b }
         /\ UNCHANGED << dispatched, tierCount >>
  BY DEF BeginNext
<1> HIDE DEF b
<1> QED BY <1>7, <1>8, <1>9

\* release: the successor of a read that ended has no other one beside it.
LEMMA FinishKeeps ==
  ASSUME QueueInv, NEW d \in dispatched, FinishOrDrop(d)
  PROVE  QueueInv'
<1>1. /\ dispatched' = dispatched \ { d }
      /\ pending' = pending \cup Of(successors, d.key)
      /\ successors' = successors \ Of(successors, d.key)
      /\ UNCHANGED << queueClock, queueBucket, tierCount, tierWindow >>
  BY DEF FinishOrDrop, Release
<1>2. Queued' = Queued
  BY <1>1 DEF Queued, Of
<1>3. Of(successors, d.key) \in SUBSET successors /\ successors' \in SUBSET successors
  BY <1>1 DEF Of
<1>4. ReadSet(pending) /\ ReadSet(successors)
  BY DEF QueueInv, QueueTyped
<1>5. ReadSet(pending') /\ ReadSet(successors')
  <2>1. IsFiniteSet(Of(successors, d.key)) /\ IsFiniteSet(successors')
    BY <1>3, <1>4, FS_Subset DEF ReadSet
  <2>2. IsFiniteSet(pending \cup Of(successors, d.key))
    BY <1>4, <2>1, FS_Union DEF ReadSet
  <2> QED BY <1>1, <1>3, <1>4, <2>1, <2>2 DEF ReadSet
<1>6. QueueTypeOK'
  BY <1>1, <1>5 DEF QueueInv, QueueTyped, QueueTypeOK, ReadSet
<1>7. d.key \notin KeysOf(pending)
  BY DEF QueueInv, OneReadPerKey, KeysOf
<1>8. OnePerKey(pending')
  BY <1>1, <1>3, <1>7 DEF OnePerKey, KeysOf, Of, QueueInv, OneReadPerKey
<1>9. OnePerKey(successors') /\ OnePerKey(dispatched')
  BY <1>1, <1>3 DEF OnePerKey, QueueInv, OneReadPerKey
<1>10. KeysOf(pending') \cap KeysOf(dispatched') = {}
  BY <1>1 DEF KeysOf, Of, OnePerKey, QueueInv, OneReadPerKey
<1>11. KeysOf(successors') \subseteq KeysOf(dispatched')
  BY <1>1 DEF KeysOf, Of, QueueInv, OneReadPerKey
<1>12. QueueIsBounded'
  BY <1>2 DEF QueueIsBounded, QueueInv
<1> QED BY <1>5, <1>6, <1>8, <1>9, <1>10, <1>11, <1>12
        DEF QueueInv, QueueTyped, OneReadPerKey, ReadSet, OnePerKey, KeysOf

LEMMA QueueTickKeeps ==
  ASSUME QueueInv, QueueTick \/ UNCHANGED queueVars
  PROVE  QueueInv'
<1>1. /\ UNCHANGED << queueBucket, pending, successors, dispatched, tierCount, tierWindow >>
      /\ queueClock' \in Nat
  BY DEF QueueTick, queueVars, QueueInv, QueueTyped, QueueTypeOK
<1>2. QueueTypeOK'
  BY <1>1 DEF QueueInv, QueueTyped, QueueTypeOK, ReadRequest
<1> QED BY <1>1, <1>2
        DEF QueueInv, QueueTyped, OneReadPerKey, QueueIsBounded, ReadSet, OnePerKey, KeysOf, Queued

LEMMA QueueIsTrue == QueueSpec => []QueueInv
<1>1. QueueInit => QueueInv
  BY QueueInitTrue
<1>2. QueueInv /\ [QueueNext]_queueVars => QueueInv'
  BY ScheduleKeeps, RetryKeeps, BeginNextKeeps, FinishKeeps, QueueTickKeeps DEF QueueNext
<1> QED BY <1>1, <1>2, PTL DEF QueueSpec

\* RequestScheduler's state has its type: no pool of its budget is overdrawn.
THEOREM QueueTypeCorrect == QueueSpec => []QueueTypeOK
<1>1. QueueInv => QueueTypeOK
  BY DEF QueueInv, QueueTyped
<1> QED BY <1>1, QueueIsTrue, PTL

\* Deduplication: of a key there is one read in the queue, or one in flight with
\* at most one successor, through retries, evictions and dropped dispatches;
\* so no read waits as the successor of nothing.
THEOREM OneReadOfAKey == QueueSpec => []OneReadPerKey
<1>1. QueueInv => OneReadPerKey
  BY DEF QueueInv
<1> QED BY <1>1, QueueIsTrue, PTL

\* The queue never holds more reads than its capacity, whatever is scheduled.
THEOREM QueueBounded == QueueSpec => []QueueIsBounded
<1>1. QueueInv => QueueIsBounded
  BY DEF QueueInv
<1> QED BY <1>1, QueueIsTrue, PTL

\* A critical read that waits is not given up for another key's read.
THEOREM CriticalKept == QueueSpec => CriticalIsKept
<1> DEFINE Kept ==
      \A r \in Live(Queued) :
        r.priority = Critical =>
          \/ r \in Queued' \/ r \in dispatched'
          \/ \E s \in Queued' : s.key = r.key /\ IsNewer(s, r)
<1>1. ASSUME NEW k \in Keys, NEW p \in PrioritiesOf[k], Schedule(k, p)
      PROVE  Kept
  BY <1>1, EnqueueSpares DEF Schedule
<1>2. ASSUME BeginNext
      PROVE  Kept
  BY <1>2 DEF BeginNext, Queued, Live
<1>3. ASSUME NEW d \in dispatched, FinishOrDrop(d)
      PROVE  Kept
  BY <1>3 DEF FinishOrDrop, Release, Of, Queued, Live
<1>4. ASSUME NEW d \in dispatched, NEW delay \in Delays, Retry(d, delay)
      PROVE  Kept
  BY <1>4, EnqueueSpares DEF Retry
<1>5. ASSUME QueueTick \/ UNCHANGED queueVars
      PROVE  Kept
  BY <1>5 DEF QueueTick, queueVars, Queued, Live
<1>6. [QueueNext]_queueVars => Kept
  <2> HIDE DEF Kept
  <2> QED BY <1>1, <1>2, <1>3, <1>4, <1>5 DEF QueueNext
<1> QED BY <1>6, PTL DEF QueueSpec, CriticalIsKept
=============================================================================
