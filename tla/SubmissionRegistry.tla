------------------------- MODULE SubmissionRegistry -------------------------
(***************************************************************************)
(* The signer's durable submission registry (copytrade-signer/src/lib.rs): *)
(* one submission state per client order id (CLOID) with the guards of     *)
(* register, transition_at, confirm_not_found and restore.  A registry is  *)
(* a value here; ProductionSigner holds one in memory and one on disk.     *)
(*                                                                         *)
(* Of the transition history the code reads three things, and the model    *)
(* keeps those: the last recorded state of a CLOID ("recorded"), and one   *)
(* more than the largest recorded nonce ("floor").  Of the confirmation    *)
(* timestamps it reads the length and the last.                            *)
(***************************************************************************)
EXTENDS Integers, FiniteSets

CONSTANTS
  Intents,      (* Approved execution intents the observer can hand over.  *)
  CloidOf,      (* Intent -> its planned CLOID.                            *)
  AssetOf,      (* Intent -> its asset.                                    *)
  ReduceOnly,   (* The intents that only reduce exposure.                  *)
  NoIntent,     (* Stands for the absence of an intent.                    *)
  MaxEntries,   (* maximum_entries of the registry.                        *)
  Lot           (* Order quantity, in units of one fill.                   *)

ASSUME IntentsAssumption ==
  /\ DOMAIN CloidOf = Intents /\ DOMAIN AssetOf = Intents
  /\ ReduceOnly \subseteq Intents
  /\ NoIntent \notin Intents

ASSUME BoundsAssumption ==
  /\ MaxEntries \in Nat \ {0}
  /\ Lot \in Nat \ {0}

Cloids == { CloidOf[i] : i \in Intents }
Assets == { AssetOf[i] : i \in Intents }

\* The kinds of SubmissionState; "absent" is a CLOID the map does not hold.
BeforeSubmission ==
  { "absent", "authorized", "authorized_not_submitted",
    "nonce_allocated", "signed" }
InDoubt  == { "submission_started", "unknown_result" }
Working  == { "acknowledged", "partially_filled" }
Resolved == { "filled", "cancelled", "rejected", "reconciled_not_found" }
Kinds    == BeforeSubmission \cup InDoubt \cup Working \cup Resolved

\* Kinds that carry the nonce of the signed request.
NonceKinds ==
  { "nonce_allocated", "signed", "submission_started", "unknown_result" }

\* An order id is the CLOID itself (the placeholder of an acknowledgment
\* without an id) or the one id the exchange gave the order.
SubmissionState ==
  [ kind : Kinds, nonce : Nat, order : {"none", "cloid", "exchange"},
    filled : 0..Lot ]

Plain(kind) ==
  [ kind |-> kind, nonce |-> 0, order |-> "none", filled |-> 0 ]
WithNonce(kind, nonce) == [ Plain(kind) EXCEPT !.nonce = nonce ]
WithOrder(kind, order, filled) ==
  [ Plain(kind) EXCEPT !.order = order, !.filled = filled ]

Registry ==
  [ intent   : [ Cloids -> Intents \cup {NoIntent} ],
    state    : [ Cloids -> SubmissionState ],
    unknown  : SUBSET Assets,
    confirms : [ Cloids -> [ count : Nat, last : Nat ] ],
    recorded : [ Cloids -> SubmissionState ],
    floor    : Nat ]

NoConfirms == [ count |-> 0, last |-> 0 ]

EmptyRegistry ==
  [ intent   |-> [ c \in Cloids |-> NoIntent ],
    state    |-> [ c \in Cloids |-> Plain("absent") ],
    unknown  |-> {},
    confirms |-> [ c \in Cloids |-> NoConfirms ],
    recorded |-> [ c \in Cloids |-> Plain("absent") ],
    floor    |-> 0 ]

Entries(r)    == { c \in Cloids : r.state[c].kind # "absent" }
Kind(r, c)    == r.state[c].kind
EntryAsset(r, c) == AssetOf[r.intent[c]]

HasAuthorizedNotSubmitted(r) ==
  \E c \in Cloids : Kind(r, c) = "authorized_not_submitted"

PermitsIncrease(r, asset) == asset \notin r.unknown

\* Fault: the history no longer raises the nonce floor.
RecordedWithoutFloor(r, c, next) == [ r EXCEPT !.recorded[c] = next ]

\* history.push: the record the next restore and nonce floor will read.
Recorded(r, c, next) ==
  [ r EXCEPT
      !.recorded[c] = next,
      !.floor = IF next.kind \in NonceKinds /\ next.nonce + 1 > @
                THEN next.nonce + 1 ELSE @ ]

CanRegister(r, i) ==
  /\ Kind(r, CloidOf[i]) = "absent"
  /\ i \notin ReduceOnly => AssetOf[i] \notin r.unknown
  /\ Cardinality(Entries(r)) < MaxEntries

Register(r, i) ==
  LET c == CloidOf[i]
  IN  Recorded([ r EXCEPT !.intent[c] = i, !.state[c] = Plain("authorized") ],
               c, Plain("authorized"))

\* Fault: the table lacks one row of an unknown result.
ValidTransitionNoCancel(from, to) ==
  /\ from = "unknown_result"
  /\ to \in { "acknowledged", "partially_filled", "filled", "rejected" }

ValidTransition(from, to) ==
  \/ /\ from \in { "authorized", "nonce_allocated", "signed" }
     /\ to \in { "authorized_not_submitted", "rejected" }
  \/ from = "authorized" /\ to = "nonce_allocated"
  \/ /\ from = "authorized_not_submitted"
     /\ to \in { "nonce_allocated", "authorized", "rejected" }
  \/ from = "nonce_allocated" /\ to = "signed"
  \/ from = "signed" /\ to = "submission_started"
  \/ /\ from = "submission_started"
     /\ to \in { "acknowledged", "unknown_result", "filled", "rejected" }
  \/ /\ from = "acknowledged"
     /\ to \in { "acknowledged", "partially_filled", "filled",
                 "cancelled", "rejected" }
  \/ /\ from = "partially_filled"
     /\ to \in { "partially_filled", "filled", "cancelled" }
  \/ /\ from = "unknown_result"
     /\ to \in { "acknowledged", "partially_filled", "filled",
                 "cancelled", "rejected" }

\* The order id of a state never changes once it is the exchange's, a repeated
\* acknowledgment may only supply the missing id, and fills never shrink.
OrderConsistent(from, to) ==
  /\ (from.order # "none" /\ to.order # "none") =>
        from.order \in { "cloid", to.order }
  /\ (from.kind = "acknowledged" /\ to.kind = "acknowledged") =>
        from.order = "cloid" /\ to.order # "cloid"
  /\ (from.kind = "partially_filled" /\ to.kind = "partially_filled") =>
        from.order = to.order /\ to.filled >= from.filled

CanTransition(r, c, next) ==
  /\ Kind(r, c) # "absent"
  /\ \/ r.state[c] = next
     \/ /\ OrderConsistent(r.state[c], next)
        /\ ValidTransition(Kind(r, c), next.kind)

Transition(r, c, next) ==
  IF r.state[c] = next THEN r
  ELSE Recorded(
         [ r EXCEPT
             !.state[c] = next,
             !.unknown =
                IF next.kind = "unknown_result" THEN @ \cup {EntryAsset(r, c)}
                ELSE IF next.kind \in Resolved THEN @ \ {EntryAsset(r, c)}
                ELSE @,
             !.confirms[c] = IF next.kind \in Resolved THEN NoConfirms ELSE @ ],
         c, next)

\* Fault: two answers may come in the same instant.
CanConfirmAtOnce(r, c, at, interval) == Kind(r, c) = "unknown_result"

\* A "not found" answer for an unknown result counts only if it comes at
\* least the minimum interval after the one before it.
CanConfirmNotFound(r, c, at, interval) ==
  /\ Kind(r, c) = "unknown_result"
  /\ r.confirms[c].count > 0 => at >= r.confirms[c].last + interval

\* The last required confirmation resolves the entry.  The code assigns the
\* new state without a history record.
ConfirmNotFound(r, c, at, required) ==
  IF r.confirms[c].count + 1 < required
  THEN [ r EXCEPT !.confirms[c] =
           [ count |-> r.confirms[c].count + 1, last |-> at ] ]
  ELSE [ r EXCEPT !.state[c] = Plain("reconciled_not_found"),
                  !.unknown = @ \ {EntryAsset(r, c)},
                  !.confirms[c] = NoConfirms ]

\* What restore demands of a persisted registry.
UnknownAssetsExact(r) ==
  r.unknown = { EntryAsset(r, c) :
                  c \in { d \in Cloids : Kind(r, d) = "unknown_result" } }

HistoryAgrees(r) == \A c \in Cloids : r.recorded[c] = r.state[c]

Restorable(r) ==
  /\ Cardinality(Entries(r)) <= MaxEntries
  /\ UnknownAssetsExact(r)
  /\ HistoryAgrees(r)

NextNonceFloor(r) == r.floor
=============================================================================
