-------------------------- MODULE OrderedDelivery ---------------------------
(***************************************************************************)
(* What the delivery of reconciliation events promises: a log that only    *)
(* grows at its end, and a receiver that has taken in a prefix of it,      *)
(* each event once and in order, and never gives one back.                 *)
(***************************************************************************)
EXTENDS Naturals, Sequences

CONSTANT Payloads

VARIABLES log, delivered

IsPrefixOf(s, t) == Len(s) <= Len(t) /\ \A n \in 1..Len(s) : s[n] = t[n]

Init == log = << >> /\ delivered = << >>

Extend ==
  /\ log' \in Seq(Payloads) /\ IsPrefixOf(log, log')
  /\ UNCHANGED delivered

Deliver ==
  /\ IsPrefixOf(delivered, delivered') /\ IsPrefixOf(delivered', log)
  /\ UNCHANGED log

Next == Extend \/ Deliver

Spec == Init /\ [][Next]_<< log, delivered >>
=============================================================================
