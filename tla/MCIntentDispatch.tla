-------------------------- MODULE MCIntentDispatch --------------------------
(* Small instances of IntentDispatch: increases, and a reduction.           *)
EXTENDS IntentDispatch

TwoIntents == { "grow", "shrink" }
TwoReductions == { "shrink", "cover" }
ThreeIntents == { "grow", "shrink", "cover" }
OneReduction == { "shrink" }
=============================================================================
