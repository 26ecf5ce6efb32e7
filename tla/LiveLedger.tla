----------------------------- MODULE LiveLedger -----------------------------
(***************************************************************************)
(* The live ledger that the signer and the observer each keep of what      *)
(* happened on the exchange (copytrade-core/src/live_trading.rs), and how  *)
(* the signer feeds it the fills and funding payments it reads             *)
(* (copytrade-signer/src/reconciliation.rs).                               *)
(*                                                                         *)
(* Quantities are whole lots; prices, fees and equity are left out.  An    *)
(* episode is open on an asset exactly while its position is not zero.     *)
(***************************************************************************)
EXTENDS Integers, SequencesExt

CONSTANT Assets

\* An exchange event: a fill of an order (delta # 0) or a funding payment.
IsFill(e)    == e.kind = "fill"
IsFunding(e) == e.kind = "funding"

EmptyLedger == [ position |-> [ a \in Assets |-> 0 ], fills |-> << >>,
                 funding |-> << >>, cursor |-> 0 ]

\* A fill of a known identity with another payload is refused.
CanApplyFill(L, f) == \A n \in DOMAIN L.fills : L.fills[n].id = f.id => L.fills[n] = f

ApplyFill(L, f) ==
  IF Contains(L.fills, f) THEN L
  ELSE [ L EXCEPT !.position[f.asset] = @ + f.delta, !.fills = Append(@, f) ]

\* Funding belongs to the open episode of its asset.
CanApplyFunding(L, e) == Contains(L.funding, e) \/ L.position[e.asset] # 0

ApplyFunding(L, e) ==
  IF Contains(L.funding, e) THEN L ELSE [ L EXCEPT !.funding = Append(@, e) ]

CanApply(L, e) == IF IsFill(e) THEN CanApplyFill(L, e) ELSE CanApplyFunding(L, e)
Apply(L, e)    == IF IsFill(e) THEN ApplyFill(L, e) ELSE ApplyFunding(L, e)

-----------------------------------------------------------------------------
(* apply_authenticated_batches: one batch, in the order of its events.     *)

Earlier(d, e) ==
  \/ d.at < e.at
  \/ d.at = e.at /\ IsFill(d) /\ IsFunding(e)
  \/ d.at = e.at /\ d.kind = e.kind /\ d.id < e.id

\* The n-th event has n - 1 before it.
InOrder(batch) ==
  [ n \in 1..Cardinality(batch) |->
      CHOOSE e \in batch : Cardinality({ d \in batch : Earlier(d, e) }) = n - 1 ]

\* Neighbours that only the kind tells apart have no order.
Ambiguous(batch) ==
  LET s == InOrder(batch)
  IN  \E n \in 1..(Len(s) - 1) :
        s[n].at = s[n + 1].at /\ s[n].asset = s[n + 1].asset /\ s[n].kind # s[n + 1].kind

\* The ledgers the batch goes through, the given one first.
Steps(L, batch) ==
  LET s == InOrder(batch)
      step[n \in 0..Len(s)] == IF n = 0 THEN L ELSE Apply(step[n - 1], s[n])
  IN  step

CanApplyBatch(L, batch) ==
  LET s == InOrder(batch)
      step == Steps(L, batch)
  IN  ~Ambiguous(batch) /\ \A n \in DOMAIN s : CanApply(step[n - 1], s[n])

\* The cursor moves past the end of the window that was read.
ApplyBatch(L, batch, upTo) ==
  [ Steps(L, batch)[Cardinality(batch)] EXCEPT
      !.cursor = IF @ > upTo + 1 THEN @ ELSE upTo + 1 ]
=============================================================================
