----------------------- MODULE ProductionSignerProofs -----------------------
(***************************************************************************)
(* Proofs about ProductionSigner for every set of intents, every clock and *)
(* every bound: the state is well typed, no CLOID is sent twice, whatever  *)
(* was sent is on disk as started, nonces only grow, and the registry is   *)
(* true of what the exchange did.                                          *)
(*                                                                         *)
(* The inductive invariant has two layers.  The first says the same of the *)
(* registry file and of the registry in memory (Good), and what the        *)
(* request in progress knows of its own entry (Progressing); the second    *)
(* relates entries to orders (Fits).                                       *)
(***************************************************************************)
EXTENDS ProductionSigner, SequenceTheorems, TLAPS

\* A registry that agrees with the requests s sent so far: none of them can
\* be signed again, and its nonce floor lies above all nonces it carries and
\* all nonces sent.
Good(r, s) ==
  /\ r \in Registry
  /\ \A c \in Cloids : Kind(r, c) # "absent" => r.intent[c] \in Intents
  /\ \A c \in Cloids : Kind(r, c) \in NonceKinds => r.state[c].nonce < r.floor
  /\ \A n \in DOMAIN s : /\ Kind(r, s[n].cloid) \notin BeforeSubmission
                         /\ s[n].nonce < r.floor

\* What holds of the entry being submitted at each step of the submission.
Progressing ==
  /\ pc \in { "accepted", "submit", "nonce", "signed", "started", "await" } =>
       cur \in Intents
  /\ pc \in { "accepted", "submit" } => Kind(reg, curCloid) = "authorized"
  /\ pc = "nonce"   => Kind(reg, curCloid) = "nonce_allocated"
  /\ pc = "signed"  => Kind(reg, curCloid) = "signed"
  /\ pc \in { "started", "await" } => Kind(reg, curCloid) = "submission_started"
  /\ pc \in { "nonce", "signed", "started" } =>
       \A n \in DOMAIN sent : sent[n].nonce < reg.state[curCloid].nonce
  /\ pc = "started" =>
       /\ disk = reg
       /\ \A n \in DOMAIN sent : sent[n].cloid # curCloid

Ordered == disk.floor <= reg.floor /\ reg.floor <= nonceNext

IInv ==
  /\ TypeOK
  /\ Good(disk, sent)
  /\ pc # "down" => Good(reg, sent) /\ Ordered
  /\ Progressing
  /\ SubmittedAtMostOnce
  /\ NoncesIncrease

-----------------------------------------------------------------------------
(* Lemmas about the registry operators.                                    *)

\* The history keeps the other parts of a registry and raises the floor above
\* the recorded nonce.
LEMMA RecordedEffect ==
  ASSUME NEW r \in Registry, NEW c \in Cloids, NEW next \in SubmissionState
  PROVE  LET t == Recorded(r, c, next)
         IN  /\ t \in Registry
             /\ t.intent = r.intent /\ t.state = r.state
             /\ t.confirms = r.confirms
             /\ t.floor = IF next.kind \in NonceKinds /\ next.nonce + 1 > r.floor
                          THEN next.nonce + 1 ELSE r.floor
<1> DEFINE fl == IF next.kind \in NonceKinds /\ next.nonce + 1 > r.floor
                 THEN next.nonce + 1 ELSE r.floor
           q == [ r EXCEPT !.recorded = [ @ EXCEPT ![c] = next ] ]
<1>1. fl \in Nat
  BY DEF Registry, SubmissionState
<1>2. /\ q \in Registry
      /\ q.intent = r.intent /\ q.state = r.state /\ q.floor = r.floor
      /\ q.confirms = r.confirms
  BY DEF Registry
<1>3. Recorded(r, c, next) = [ q EXCEPT !.floor = fl ]
  BY <1>2 DEF Recorded
<1> HIDE DEF fl, q
<1>4. /\ [ q EXCEPT !.floor = fl ] \in Registry
      /\ [ q EXCEPT !.floor = fl ].intent = q.intent
      /\ [ q EXCEPT !.floor = fl ].state = q.state
      /\ [ q EXCEPT !.floor = fl ].confirms = q.confirms
      /\ [ q EXCEPT !.floor = fl ].floor = fl
  BY <1>1, <1>2 DEF Registry
<1> QED BY <1>2, <1>3, <1>4 DEF fl

\* A settled entry has no use for its confirmations.
ConfirmsAfter(r, c, next) ==
  IF r.state[c] # next /\ next.kind \in Resolved THEN NoConfirms ELSE r.confirms[c]

\* t differs from r at most in the confirmations k of c.
ConfirmsChange(r, c, k, t) == t.confirms = [ r.confirms EXCEPT ![c] = k ]

\* transition_at replaces one state, never forgets an intent and never
\* lowers the nonce floor.
LEMMA TransitionEffect ==
  ASSUME NEW r \in Registry, NEW c \in Cloids, NEW next \in SubmissionState,
         r.intent[c] \in Intents, NEW t, t = Transition(r, c, next)
  PROVE  /\ t \in Registry
         /\ t.intent = r.intent
         /\ t.state = [ r.state EXCEPT ![c] = next ]
         /\ ConfirmsChange(r, c, ConfirmsAfter(r, c, next), t)
         /\ t.floor = IF /\ r.state[c] # next /\ next.kind \in NonceKinds
                         /\ next.nonce + 1 > r.floor
                      THEN next.nonce + 1 ELSE r.floor
<1> DEFINE u == IF next.kind = "unknown_result" THEN r.unknown \cup {EntryAsset(r, c)}
                ELSE IF next.kind \in Resolved THEN r.unknown \ {EntryAsset(r, c)}
                ELSE r.unknown
           v == IF next.kind \in Resolved THEN NoConfirms ELSE r.confirms[c]
           q1 == [ r EXCEPT !.state = [ @ EXCEPT ![c] = next ] ]
           q2 == [ q1 EXCEPT !.unknown = u ]
           q3 == [ q2 EXCEPT !.confirms = [ @ EXCEPT ![c] = v ] ]
<1>1. EntryAsset(r, c) \in Assets
  BY DEF EntryAsset, Assets
<1>2. u \in SUBSET Assets /\ v \in [ count : Nat, last : Nat ]
  BY <1>1 DEF Registry, NoConfirms
<1>3. CASE r.state[c] = next
  BY <1>3 DEF Transition, Registry, ConfirmsAfter, ConfirmsChange
<1>4. CASE r.state[c] # next
  <2>1. /\ q1 \in Registry /\ q1.intent = r.intent /\ q1.floor = r.floor
        /\ q1.state = [ r.state EXCEPT ![c] = next ]
        /\ q1.unknown = r.unknown /\ q1.confirms = r.confirms
    BY DEF Registry
  <2> HIDE DEF q1, u, v
  <2>2. /\ q2 \in Registry /\ q2.intent = q1.intent /\ q2.floor = q1.floor
        /\ q2.state = q1.state /\ q2.confirms = q1.confirms
    BY <1>2, <2>1 DEF Registry
  <2> HIDE DEF q2
  <2>3. /\ q3 \in Registry /\ q3.intent = q2.intent /\ q3.floor = q2.floor
        /\ q3.state = q2.state
        /\ q3.confirms = [ q2.confirms EXCEPT ![c] = v ]
    BY <1>2, <2>2 DEF Registry
  <2>4. Transition(r, c, next) = Recorded(q3, c, next)
    BY <1>4, <2>1, <2>2 DEF Transition, q1, q2, u, v
  <2> HIDE DEF q3
  <2>5. v = ConfirmsAfter(r, c, next)
    BY <1>4 DEF v, ConfirmsAfter
  <2> QED BY <1>4, <2>1, <2>2, <2>3, <2>4, <2>5, RecordedEffect
     DEF ConfirmsChange
<1> QED BY <1>3, <1>4

\* register adds one authorized entry.
LEMMA RegisterEffect ==
  ASSUME NEW r \in Registry, NEW i \in Intents
  PROVE  LET t == Register(r, i)
         IN  /\ t \in Registry
             /\ t.intent = [ r.intent EXCEPT ![CloidOf[i]] = i ]
             /\ t.state = [ r.state EXCEPT ![CloidOf[i]] = Plain("authorized") ]
             /\ t.confirms = r.confirms
             /\ t.floor = r.floor
<1> DEFINE c == CloidOf[i]
           q1 == [ r EXCEPT !.intent = [ @ EXCEPT ![c] = i ] ]
           q2 == [ q1 EXCEPT !.state = [ @ EXCEPT ![c] = Plain("authorized") ] ]
<1>1. c \in Cloids
  BY DEF Cloids
<1>2. /\ Plain("authorized") \in SubmissionState
      /\ Plain("authorized").kind \notin NonceKinds
  BY BoundsAssumption
     DEF Plain, SubmissionState, Kinds, BeforeSubmission, NonceKinds
<1>3. /\ q1 \in Registry /\ q1.state = r.state /\ q1.floor = r.floor
      /\ q1.confirms = r.confirms
      /\ q1.intent = [ r.intent EXCEPT ![c] = i ]
  BY DEF Registry
<1>4. Register(r, i) = Recorded(q2, c, Plain("authorized"))
  BY <1>3 DEF Register, Registry
<1> HIDE DEF c, q1
<1>5. /\ q2 \in Registry /\ q2.intent = q1.intent /\ q2.floor = q1.floor
      /\ q2.state = [ q1.state EXCEPT ![c] = Plain("authorized") ]
      /\ q2.confirms = q1.confirms
  BY <1>1, <1>2, <1>3 DEF Registry
<1> HIDE DEF q2
<1> QED BY <1>1, <1>2, <1>3, <1>4, <1>5, RecordedEffect DEF c

\* What a "not found" answer for c may make of the registry r.
ConfirmOutcome(r, c, at, required, t) ==
  /\ t \in Registry
  /\ t.intent = r.intent
  /\ t.floor = r.floor
  /\ \/ /\ t.state = r.state
        /\ t.confirms = [ r.confirms EXCEPT ![c] =
             [ count |-> r.confirms[c].count + 1, last |-> at ] ]
     \/ /\ r.confirms[c].count + 1 >= required
        /\ t.state = [ r.state EXCEPT ![c] = Plain("reconciled_not_found") ]
        /\ t.confirms = [ r.confirms EXCEPT ![c] = NoConfirms ]

\* confirm_not_found leaves an unknown result unknown or settles it.
LEMMA ConfirmEffect ==
  ASSUME NEW r \in Registry, NEW c \in Cloids, r.intent[c] \in Intents,
         NEW at \in Nat, NEW required \in Nat
  PROVE  ConfirmOutcome(r, c, at, required, ConfirmNotFound(r, c, at, required))
<1>1. EntryAsset(r, c) \in Assets
  BY DEF EntryAsset, Assets
<1>2. Plain("reconciled_not_found") \in SubmissionState
  BY BoundsAssumption DEF Plain, SubmissionState, Kinds, Resolved
<1>3. CASE r.confirms[c].count + 1 < required
  <2> DEFINE v == [ count |-> r.confirms[c].count + 1, last |-> at ]
             q == [ r EXCEPT !.confirms = [ @ EXCEPT ![c] = v ] ]
  <2>1. v \in [ count : Nat, last : Nat ]
    BY DEF Registry
  <2>2. ConfirmNotFound(r, c, at, required) = q
    BY <1>3 DEF ConfirmNotFound
  <2> HIDE DEF v
  <2>3. /\ q \in Registry /\ q.intent = r.intent /\ q.floor = r.floor
        /\ q.state = r.state /\ q.confirms = [ r.confirms EXCEPT ![c] = v ]
    BY <2>1 DEF Registry
  <2> HIDE DEF q
  <2> QED BY <2>2, <2>3 DEF ConfirmOutcome, v
<1>4. CASE ~(r.confirms[c].count + 1 < required)
  <2> DEFINE q1 == [ r EXCEPT !.state = [ @ EXCEPT ![c] = Plain("reconciled_not_found") ] ]
             q2 == [ q1 EXCEPT !.unknown = @ \ { EntryAsset(r, c) } ]
             q3 == [ q2 EXCEPT !.confirms = [ @ EXCEPT ![c] = NoConfirms ] ]
  <2>1. /\ q1 \in Registry /\ q1.intent = r.intent /\ q1.floor = r.floor
        /\ q1.state = [ r.state EXCEPT ![c] = Plain("reconciled_not_found") ]
        /\ q1.unknown = r.unknown /\ q1.confirms = r.confirms
    BY <1>2 DEF Registry
  <2> HIDE DEF q1
  <2>2. /\ q2 \in Registry /\ q2.intent = q1.intent /\ q2.floor = q1.floor
        /\ q2.state = q1.state /\ q2.confirms = q1.confirms
    BY <1>1, <2>1 DEF Registry
  <2> HIDE DEF q2
  <2>3. ConfirmNotFound(r, c, at, required) = q3
    BY <1>4, <2>1, <2>2 DEF ConfirmNotFound, q1, q2
  <2>4. /\ q3 \in Registry /\ q3.intent = q2.intent /\ q3.floor = q2.floor
        /\ q3.state = q2.state
        /\ q3.confirms = [ q2.confirms EXCEPT ![c] = NoConfirms ]
    BY <2>2 DEF Registry, NoConfirms
  <2> HIDE DEF q3
  <2>5. r.confirms[c].count + 1 >= required
    BY <1>4 DEF Registry
  <2> QED BY <2>1, <2>2, <2>3, <2>4, <2>5 DEF ConfirmOutcome
<1> QED BY <1>3, <1>4

LEMMA EmptyRegistryType ==
  /\ EmptyRegistry \in Registry
  /\ \A c \in Cloids : Kind(EmptyRegistry, c) = "absent"
  /\ EmptyRegistry.floor = 0
<1>1. Plain("absent") \in SubmissionState
  BY BoundsAssumption DEF Plain, SubmissionState, Kinds, BeforeSubmission
<1> QED BY <1>1 DEF EmptyRegistry, Registry, NoConfirms, Kind, Plain

-----------------------------------------------------------------------------
(* What the operators do to a good registry.                               *)

Requests == Seq([ cloid : Cloids, nonce : Nat ])

LEMMA RequestType ==
  \A s \in Requests : \A n \in DOMAIN s :
    /\ s[n].cloid \in Cloids /\ s[n].nonce \in Nat
<1> TAKE s \in Requests
<1>1. DOMAIN s = 1..Len(s) /\ s \in Seq([ cloid : Cloids, nonce : Nat ])
  BY DEF Requests
<1>2. \A n \in DOMAIN s : s[n] \in [ cloid : Cloids, nonce : Nat ]
  BY <1>1, ElementOfSeq
<1> QED BY <1>2

\* A transition that never takes a submitted entry back before its submission
\* keeps a registry good.
LEMMA GoodTransition ==
  ASSUME NEW s \in Requests, NEW r, Good(r, s),
         NEW c \in Cloids, Kind(r, c) # "absent",
         NEW next \in SubmissionState, next.kind # "absent",
         next.kind \in BeforeSubmission => Kind(r, c) \in BeforeSubmission,
         NEW t, t = Transition(r, c, next)
  PROVE  /\ Good(t, s)
         /\ t.intent = r.intent /\ t.state[c] = next
         /\ r.floor <= t.floor
         /\ t.floor = r.floor \/ t.floor = next.nonce + 1
         /\ next.kind \in NonceKinds => next.nonce < t.floor
         /\ (next.kind \notin NonceKinds \/ next.nonce < r.floor) =>
              t.floor = r.floor
<1>1. /\ r \in Registry /\ r.intent[c] \in Intents
      /\ r.floor \in Nat /\ r.state \in [ Cloids -> SubmissionState ]
  BY DEF Good, Registry
<1>2. /\ t \in Registry /\ t.intent = r.intent
      /\ t.state = [ r.state EXCEPT ![c] = next ]
      /\ t.floor = IF /\ r.state[c] # next /\ next.kind \in NonceKinds
                      /\ next.nonce + 1 > r.floor
                   THEN next.nonce + 1 ELSE r.floor
  BY <1>1, TransitionEffect
<1>3. t.state[c] = next /\ \A d \in Cloids \ {c} : t.state[d] = r.state[d]
  BY <1>1, <1>2
<1>4. next.nonce \in Nat /\ t.floor \in Nat
  BY <1>2 DEF SubmissionState, Registry
<1>5. next.kind \in NonceKinds => next.nonce < t.floor
  BY <1>1, <1>2, <1>4 DEF Good, Kind
<1>6. r.floor <= t.floor
  BY <1>1, <1>2, <1>4
<1>7. \A d \in Cloids : Kind(t, d) # "absent" => t.intent[d] \in Intents
  BY <1>1, <1>2, <1>3 DEF Good, Kind
<1>8. ASSUME NEW d \in Cloids, Kind(t, d) \in NonceKinds
      PROVE  t.state[d].nonce < t.floor
  <2>1. CASE d = c
    BY <1>3, <1>5, <1>8, <2>1 DEF Kind
  <2>2. CASE d # c
    <3>1. t.state[d] = r.state[d] /\ r.state[d].nonce \in Nat
      BY <1>1, <1>3, <2>2 DEF SubmissionState
    <3>2. r.state[d].nonce < r.floor
      BY <1>8, <3>1 DEF Good, Kind
    <3> QED BY <1>1, <1>4, <1>6, <3>1, <3>2
  <2> QED BY <2>1, <2>2
<1>9. ASSUME NEW n \in DOMAIN s
      PROVE  Kind(t, s[n].cloid) \notin BeforeSubmission /\ s[n].nonce < t.floor
  <2>1. s[n].cloid \in Cloids /\ s[n].nonce \in Nat
    BY RequestType
  <2>2. Kind(r, s[n].cloid) \notin BeforeSubmission /\ s[n].nonce < r.floor
    BY DEF Good
  <2>3. s[n].nonce < t.floor
    BY <1>1, <1>4, <1>6, <2>1, <2>2
  <2>4. CASE s[n].cloid = c
    BY <1>3, <2>2, <2>3, <2>4 DEF Kind
  <2>5. CASE s[n].cloid # c
    BY <1>3, <2>1, <2>2, <2>3, <2>5 DEF Kind
  <2> QED BY <2>4, <2>5
<1>10. Good(t, s)
  BY <1>2, <1>7, <1>8, <1>9 DEF Good
<1>11. /\ t.floor = r.floor \/ t.floor = next.nonce + 1
       /\ (next.kind \notin NonceKinds \/ next.nonce < r.floor) => t.floor = r.floor
  BY <1>1, <1>2, <1>4
<1> QED BY <1>2, <1>3, <1>5, <1>6, <1>10, <1>11

\* A new entry is good: its CLOID has not been sent.
LEMMA GoodRegister ==
  ASSUME NEW s \in Requests, NEW r, Good(r, s), NEW i \in Intents,
         Kind(r, CloidOf[i]) = "absent",
         NEW t, t = Register(r, i)
  PROVE  /\ Good(t, s) /\ t.floor = r.floor
         /\ Kind(t, CloidOf[i]) = "authorized"
<1> DEFINE c == CloidOf[i]
<1>1. r \in Registry /\ r.state \in [ Cloids -> SubmissionState ]
      /\ r.intent \in [ Cloids -> Intents \cup {NoIntent} ] /\ c \in Cloids
  BY DEF Good, Registry, Cloids
<1>2. /\ t \in Registry /\ t.intent = [ r.intent EXCEPT ![c] = i ]
      /\ t.state = [ r.state EXCEPT ![c] = Plain("authorized") ]
      /\ t.floor = r.floor
  BY <1>1, RegisterEffect
<1> HIDE DEF c
<1>3. /\ t.state[c].kind = "authorized"
      /\ \A d \in Cloids \ {c} : t.state[d] = r.state[d] /\ t.intent[d] = r.intent[d]
      /\ t.intent[c] = i
  BY <1>1, <1>2 DEF Plain
<1>4. \A d \in Cloids : Kind(t, d) # "absent" => t.intent[d] \in Intents
  BY <1>1, <1>3 DEF Good, Kind
<1>5. \A d \in Cloids : Kind(t, d) \in NonceKinds => t.state[d].nonce < t.floor
  BY <1>1, <1>2, <1>3 DEF Good, Kind, NonceKinds
<1>6. ASSUME NEW n \in DOMAIN s
      PROVE  Kind(t, s[n].cloid) \notin BeforeSubmission /\ s[n].nonce < t.floor
  <2>1. s[n].cloid \in Cloids
    BY RequestType
  <2>2. Kind(r, s[n].cloid) \notin BeforeSubmission /\ s[n].nonce < r.floor
    BY DEF Good
  <2>3. s[n].cloid # c
    BY <2>2 DEF BeforeSubmission, c
  <2> QED BY <1>2, <1>3, <2>1, <2>2, <2>3 DEF Kind
<1> QED BY <1>2, <1>3, <1>4, <1>5, <1>6 DEF Good, Kind, c

\* A "not found" answer keeps a registry good.
LEMMA GoodConfirm ==
  ASSUME NEW s \in Requests, NEW r, Good(r, s), NEW c \in Cloids,
         Kind(r, c) # "absent", NEW at \in Nat, NEW required \in Nat,
         NEW t, t = ConfirmNotFound(r, c, at, required)
  PROVE  Good(t, s) /\ t.floor = r.floor
<1>1. /\ r \in Registry /\ r.intent[c] \in Intents
      /\ r.state \in [ Cloids -> SubmissionState ]
  BY DEF Good, Registry
<1>2. /\ t \in Registry /\ t.intent = r.intent /\ t.floor = r.floor
      /\ \/ t.state = r.state
         \/ t.state = [ r.state EXCEPT ![c] = Plain("reconciled_not_found") ]
  <2>1. ConfirmOutcome(r, c, at, required, ConfirmNotFound(r, c, at, required))
    BY <1>1, ConfirmEffect, Zenon
  <2>2. ConfirmOutcome(r, c, at, required, t)
    BY <2>1
  <2> QED BY <2>2 DEF ConfirmOutcome
<1>3. CASE t.state = r.state
  BY <1>2, <1>3 DEF Good, Kind
<1>4. CASE t.state = [ r.state EXCEPT ![c] = Plain("reconciled_not_found") ]
  <2>1. /\ t.state[c].kind = "reconciled_not_found"
        /\ \A d \in Cloids \ {c} : t.state[d] = r.state[d]
    BY <1>1, <1>4 DEF Plain
  <2>2. \A d \in Cloids : Kind(t, d) # "absent" => t.intent[d] \in Intents
    BY <1>1, <1>2, <2>1 DEF Good, Kind
  <2>3. \A d \in Cloids : Kind(t, d) \in NonceKinds => t.state[d].nonce < t.floor
    BY <1>2, <2>1 DEF Good, Kind, NonceKinds
  <2>4. \A n \in DOMAIN s : /\ Kind(t, s[n].cloid) \notin BeforeSubmission
                             /\ s[n].nonce < t.floor
    <3>1. \A n \in DOMAIN s : s[n].cloid \in Cloids
      BY RequestType
    <3> QED BY <1>2, <2>1, <3>1 DEF Good, Kind, BeforeSubmission
  <2> QED BY <1>2, <2>2, <2>3, <2>4 DEF Good
<1> QED BY <1>2, <1>3, <1>4

-----------------------------------------------------------------------------
(* Steps in general.                                                       *)

Submitting == { "accepted", "submit", "nonce", "signed", "started", "await" }

LEMMA InitIInv == Init => IInv
<1> SUFFICES ASSUME Init PROVE IInv
  OBVIOUS
<1>1. TypeOK
  <2>1. orders \in [ Cloids -> Order ]
    <3>1. [ status |-> "none", filled |-> 0 ] \in Order
      BY BoundsAssumption DEF Order
    <3> QED BY <3>1 DEF Init
  <2>2. reg \in Registry /\ disk \in Registry
    BY EmptyRegistryType DEF Init
  <2>3. sent \in Seq([ cloid : Cloids, nonce : Nat ])
    BY DEF Init
  <2> QED BY <2>1, <2>2, <2>3 DEF Init, TypeOK, PCs
<1>2. Good(disk, sent)
  BY EmptyRegistryType, DOMAIN sent = {} DEF Init, Good, NonceKinds
<1>3. Progressing /\ SubmittedAtMostOnce /\ NoncesIncrease
  BY DOMAIN sent = {}
     DEF Init, Progressing, SubmittedAtMostOnce, NoncesIncrease
<1> QED BY <1>1, <1>2, <1>3 DEF Init, IInv

\* A step that touches neither registry nor the nonces.
LEMMA QuietStep ==
  ASSUME IInv, UNCHANGED << reg, disk, sent, nonceNext >>, TypeOK',
         \/ UNCHANGED << pc, cur >>
         \/ pc # "down" /\ pc' \notin Submitting
  PROVE  IInv'
<1>1. Good(disk, sent)' /\ (pc' # "down" => Good(reg, sent)' /\ Ordered')
  BY DEF IInv, Good, Ordered
<1>2. Progressing'
  <2>1. CASE UNCHANGED << pc, cur >>
    BY <2>1 DEF IInv, Progressing, curCloid, Kind
  <2>2. CASE pc' \notin Submitting
    BY <2>2 DEF Progressing, Submitting
  <2> QED BY <2>1, <2>2
<1>3. SubmittedAtMostOnce' /\ NoncesIncrease'
  BY DEF IInv, SubmittedAtMostOnce, NoncesIncrease
<1> QED BY <1>1, <1>2, <1>3 DEF IInv

\* The process stops: what counts is the registry file.
LEMMA HaltStep ==
  ASSUME IInv, Halt, UNCHANGED << disk, sent >>, TypeOK'
  PROVE  IInv'
<1>1. Good(disk, sent)' /\ pc' = "down"
  BY DEF IInv, Good, Halt
<1>2. Progressing'
  BY <1>1 DEF Progressing
<1>3. SubmittedAtMostOnce' /\ NoncesIncrease'
  BY DEF IInv, SubmittedAtMostOnce, NoncesIncrease
<1> QED BY <1>1, <1>2, <1>3 DEF IInv

\* A registry that is good and keeps the order of the floors may be stored,
\* whether the write succeeds or fails.
LEMMA StoreStep ==
  ASSUME IInv, pc # "down", sent' = sent, TypeOK',
         NEW r, Good(r, sent), reg.floor <= r.floor, r.floor <= nonceNext',
         NEW done, NEW failed, Store(r, done, failed), Progressing'
  PROVE  IInv'
<1>1. reg' = r /\ disk' \in { disk, r }
  BY DEF Store
<1>2. Good(disk, sent)' /\ Good(reg, sent)'
  BY <1>1 DEF IInv, Good
<1>3. Ordered'
  <2>1. disk.floor \in Nat /\ reg.floor \in Nat /\ r.floor \in Nat
        /\ disk.floor <= reg.floor
    BY DEF IInv, Good, Ordered, Registry
  <2> QED BY <1>1, <2>1 DEF Ordered
<1>4. SubmittedAtMostOnce' /\ NoncesIncrease'
  BY DEF IInv, SubmittedAtMostOnce, NoncesIncrease
<1> QED BY <1>2, <1>3, <1>4 DEF IInv

\* What a failed or a successful write leaves behind.
LEMMA StoreType ==
  ASSUME TypeOK, NEW r \in Registry, NEW done \in PCs, NEW failed \in PCs,
         Store(r, done, failed)
  PROVE  /\ reg' = r /\ reg' \in Registry /\ disk' \in Registry
         /\ pc' \in { done, failed } /\ pc' \in PCs /\ ioFailures' \in Nat
BY DEF Store, TypeOK

\* The same for a step that leaves the submission.
LEMMA StoreQuietStep ==
  ASSUME IInv, pc # "down", UNCHANGED << sent, nonceNext >>, TypeOK',
         NEW r, Good(r, sent), r.floor = reg.floor,
         NEW done \in PCs \ Submitting, NEW failed \in PCs \ Submitting,
         Store(r, done, failed)
  PROVE  IInv'
<1>1. pc' \notin Submitting
  BY DEF Store
<1>2. Progressing'
  BY <1>1 DEF Progressing, Submitting
<1>3. reg.floor <= r.floor /\ r.floor <= nonceNext'
  BY DEF IInv, Ordered, Good, Registry
<1> QED BY <1>2, <1>3, StoreStep

-----------------------------------------------------------------------------
(* The states the program records.                                         *)

LEMMA StateTypes ==
  ASSUME NEW kind \in Kinds, NEW nonce \in Nat,
         NEW order \in {"none", "cloid", "exchange"}, NEW filled \in 0..Lot
  PROVE  /\ Plain(kind) \in SubmissionState
         /\ Plain(kind).kind = kind /\ Plain(kind).nonce = 0
         /\ WithNonce(kind, nonce) \in SubmissionState
         /\ WithNonce(kind, nonce).kind = kind
         /\ WithNonce(kind, nonce).nonce = nonce
         /\ WithOrder(kind, order, filled) \in SubmissionState
         /\ WithOrder(kind, order, filled).kind = kind
<1>1. 0 \in 0..Lot /\ 0 \in Nat
  BY BoundsAssumption
<1>2. Plain(kind) = [ kind |-> kind, nonce |-> 0, order |-> "none", filled |-> 0 ]
  BY DEF Plain
<1>3. WithNonce(kind, nonce)
      = [ kind |-> kind, nonce |-> nonce, order |-> "none", filled |-> 0 ]
  BY <1>2 DEF WithNonce
<1>4. WithOrder(kind, order, filled)
      = [ kind |-> kind, nonce |-> 0, order |-> order, filled |-> filled ]
  <2> DEFINE p == [ kind |-> kind, nonce |-> 0, order |-> order, filled |-> 0 ]
  <2>1. p = [ Plain(kind) EXCEPT !.order = order ]
    BY <1>2
  <2>2. [ p EXCEPT !.filled = filled ]
        = [ kind |-> kind, nonce |-> 0, order |-> order, filled |-> filled ]
    OBVIOUS
  <2> HIDE DEF p
  <2>3. WithOrder(kind, order, filled) = [ p EXCEPT !.filled = filled ]
    BY <2>1 DEF WithOrder
  <2> QED BY <2>2, <2>3
<1>5. Plain(kind) \in SubmissionState /\ Plain(kind).kind = kind
      /\ Plain(kind).nonce = 0
  BY <1>1, <1>2 DEF SubmissionState
<1>6. WithNonce(kind, nonce) \in SubmissionState
      /\ WithNonce(kind, nonce).kind = kind /\ WithNonce(kind, nonce).nonce = nonce
  BY <1>1, <1>3 DEF SubmissionState
<1>7. WithOrder(kind, order, filled) \in SubmissionState
      /\ WithOrder(kind, order, filled).kind = kind
  BY <1>1, <1>4 DEF SubmissionState
<1> QED BY <1>5, <1>6, <1>7

\* What a submission or a lookup may report comes after the submission.
AfterSubmission(next, nonce) ==
  /\ next \in SubmissionState /\ next.kind \notin BeforeSubmission
  /\ next.kind \in NonceKinds => next.nonce = nonce

LEMMA ObservedType ==
  ASSUME NEW c \in Cloids, orders \in [ Cloids -> Order ],
         orders[c].status # "none", NEW nonce
  PROVE  AfterSubmission(Observed(c), nonce)
<1>1. /\ orders[c].filled \in 0..Lot /\ 0 \in 0..Lot
      /\ orders[c].status \in { "open", "filled", "cancelled", "rejected" }
  BY BoundsAssumption DEF Order
<1>2. \A k \in { "acknowledged", "partially_filled", "filled", "cancelled" } :
        \A f \in 0..Lot : AfterSubmission(WithOrder(k, "exchange", f), nonce)
  BY StateTypes DEF AfterSubmission, Kinds, Working, Resolved,
                    BeforeSubmission, NonceKinds
<1>3. AfterSubmission(Plain("rejected"), nonce)
  BY StateTypes, BoundsAssumption DEF AfterSubmission, Kinds, Resolved, BeforeSubmission, NonceKinds
<1> QED BY <1>1, <1>2, <1>3 DEF Observed

LEMMA OutcomeType ==
  ASSUME NEW c \in Cloids, orders \in [ Cloids -> Order ],
         reg.state[c].nonce \in Nat, NEW outcome \in Outcomes(c)
  PROVE  AfterSubmission(outcome, reg.state[c].nonce)
<1>1. orders[c].filled \in 0..Lot /\ 0 \in 0..Lot
  BY BoundsAssumption DEF Order
<1>2. AfterSubmission(WithNonce("unknown_result", reg.state[c].nonce),
                      reg.state[c].nonce)
  <2>1. "unknown_result" \in Kinds /\ "unknown_result" \notin BeforeSubmission
    BY DEF Kinds, InDoubt, BeforeSubmission
  <2> QED BY <1>1, <2>1, StateTypes DEF AfterSubmission
<1>3. \A k \in { "acknowledged", "filled" } : \A o \in { "cloid", "exchange" } :
        \A f \in 0..Lot : AfterSubmission(WithOrder(k, o, f), reg.state[c].nonce)
  <2>1. \A k \in { "acknowledged", "filled" } :
          k \in Kinds /\ k \notin BeforeSubmission \cup NonceKinds
    BY DEF Kinds, Working, Resolved, BeforeSubmission, NonceKinds
  <2>2. \A k \in { "acknowledged", "filled" } : \A o \in { "cloid", "exchange" } :
          \A f \in 0..Lot : /\ WithOrder(k, o, f) \in SubmissionState
                           /\ WithOrder(k, o, f).kind = k
    <3> SUFFICES ASSUME NEW k \in { "acknowledged", "filled" },
                        NEW o \in { "cloid", "exchange" }, NEW f \in 0..Lot
                 PROVE  /\ WithOrder(k, o, f) \in SubmissionState
                        /\ WithOrder(k, o, f).kind = k
      OBVIOUS
    <3>1. k \in Kinds /\ 0 \in Nat /\ o \in { "none", "cloid", "exchange" }
      BY <2>1
    <3> QED BY <3>1, StateTypes
  <2> QED BY <2>1, <2>2 DEF AfterSubmission
<1>4. AfterSubmission(Plain("rejected"), reg.state[c].nonce)
  BY StateTypes, BoundsAssumption DEF AfterSubmission, Kinds, Resolved, BeforeSubmission, NonceKinds
<1> QED BY <1>1, <1>2, <1>3, <1>4 DEF Outcomes

\* Recording what became of a submitted entry keeps the registry good.
LEMMA GoodOutcome ==
  ASSUME NEW s \in Requests, NEW r, Good(r, s), NEW c \in Cloids,
         Kind(r, c) # "absent",
         NEW next, AfterSubmission(next, r.state[c].nonce),
         next.kind \in NonceKinds => Kind(r, c) \in NonceKinds,
         NEW t, t = Transition(r, c, next)
  PROVE  Good(t, s) /\ t.floor = r.floor
<1>1. /\ next \in SubmissionState /\ next.kind # "absent"
      /\ next.kind \notin BeforeSubmission
  BY DEF AfterSubmission, BeforeSubmission
<1>2. next.kind \notin NonceKinds \/ next.nonce < r.floor
  BY DEF AfterSubmission, Good
<1> QED BY <1>1, <1>2, GoodTransition

\* The two halves of reconcile_unknown.
LEMMA GoodReconcileUnknown ==
  ASSUME TypeOK, NEW s \in Requests, Good(reg, s), NEW c \in Cloids,
         Kind(reg, c) # "absent", NEW at \in Nat,
         NEW t, t = ReconcileUnknown(c, at)
  PROVE  Good(t, s) /\ t.floor = reg.floor
<1>1. CASE orders[c].status = "none"
  BY <1>1, GoodConfirm, SignerAssumption DEF ReconcileUnknown
<1>2. CASE orders[c].status # "none"
  <2>1. AfterSubmission(Observed(c), reg.state[c].nonce)
    BY <1>2, ObservedType DEF TypeOK
  <2>2. Observed(c).kind \notin NonceKinds
    BY <1>2, BoundsAssumption
       DEF Observed, WithOrder, Plain, NonceKinds, TypeOK, Order
  <2>3. t = Transition(reg, c, Observed(c))
    BY <1>2 DEF ReconcileUnknown
  <2> QED BY <2>1, <2>2, <2>3, GoodOutcome
<1> QED BY <1>1, <1>2

-----------------------------------------------------------------------------
(* One lemma per action, or per group of actions of one shape.             *)

\* What the invariant says of a running process, in the form the steps use.
LEMMA Running ==
  ASSUME IInv, pc # "down"
  PROVE  /\ TypeOK /\ Good(reg, sent) /\ Good(disk, sent) /\ sent \in Requests
         /\ reg \in Registry /\ reg.floor \in Nat /\ disk.floor \in Nat
         /\ nonceNext \in Nat /\ reg.floor <= nonceNext /\ disk.floor <= reg.floor
         /\ \A c \in Cloids : reg.state[c].nonce \in Nat
BY DEF IInv, Good, Ordered, Registry, TypeOK, Requests, SubmissionState

\* The entry being submitted.
LEMMA Current ==
  ASSUME IInv, pc \in Submitting
  PROVE  /\ pc # "down" /\ cur \in Intents /\ curCloid \in Cloids
         /\ Kind(reg, curCloid) # "absent"
BY DEF IInv, Progressing, Submitting, curCloid, Cloids

LEMMA BootStep == IInv /\ Boot => IInv'
<1> SUFFICES ASSUME IInv, Boot PROVE IInv'
  OBVIOUS
<1>1. disk \in Registry /\ disk.floor \in Nat
  BY DEF IInv, Good, Registry
<1>2. TypeOK'
  BY <1>1 DEF IInv, TypeOK, Boot, exchange, bounds, NextNonceFloor, PCs
<1>3. Good(disk, sent)' /\ Good(reg, sent)' /\ Ordered'
  BY <1>1 DEF IInv, Good, Ordered, Boot, NextNonceFloor
<1>4. Progressing'
  BY DEF Boot, Progressing
<1>5. SubmittedAtMostOnce' /\ NoncesIncrease'
  BY DEF IInv, SubmittedAtMostOnce, NoncesIncrease, Boot
<1> QED BY <1>2, <1>3, <1>4, <1>5 DEF IInv

LEMMA HaltType ==
  ASSUME TypeOK, Halt, UNCHANGED << disk, now, exchange, sent, accepted, ioFailures >>,
         crashes' \in Nat
  PROVE  TypeOK'
BY EmptyRegistryType DEF TypeOK, Halt, exchange, PCs

LEMMA CrashStep == IInv /\ Crash => IInv'
<1> SUFFICES ASSUME IInv, Crash PROVE IInv'
  OBVIOUS
<1>1. TypeOK'
  BY HaltType DEF Crash, IInv, TypeOK
<1> QED BY <1>1, HaltStep DEF Crash

LEMMA SubmitConflictStep ==
  ASSUME IInv, NEW i \in Intents, SubmitConflict(i)
  PROVE  IInv'
<1>1. TypeOK'
  BY HaltType DEF SubmitConflict, IInv, TypeOK, bounds
<1> QED BY <1>1, HaltStep DEF SubmitConflict

LEMMA FailReconcileStep == IInv /\ FailReconcile => IInv'
<1> SUFFICES ASSUME IInv, FailReconcile PROVE IInv'
  OBVIOUS
<1>1. CASE ctx = "boot"
  <2>1. TypeOK'
    BY <1>1, HaltType DEF FailReconcile, IInv, TypeOK, bounds
  <2> QED BY <1>1, <2>1, HaltStep DEF FailReconcile
<1>2. CASE ctx # "boot"
  <2>1. TypeOK'
    BY <1>2 DEF FailReconcile, IInv, TypeOK, exchange, bounds, PCs
  <2> QED BY <1>2, <2>1, QuietStep DEF FailReconcile, Submitting
<1> QED BY <1>1, <1>2

\* The steps that answer, read or finish without touching the registry.
QuietActions ==
  \/ \E i \in Intents : SubmitReplay(i)
  \/ \E c \in Cloids : AnswerReconcile(c)
  \/ BeginReconcile \/ ReadAccount \/ ReadFails \/ LookupFails \/ FinishReconcile

LEMMA QuietActionsStep == IInv /\ QuietActions => IInv'
<1> SUFFICES ASSUME IInv, QuietActions PROVE IInv'
  OBVIOUS
<1> USE DEF exchange, bounds
<1>1. ASSUME NEW i \in Intents, SubmitReplay(i) PROVE IInv'
  <2>1. TypeOK'
    BY <1>1 DEF SubmitReplay, IInv, TypeOK, memory, Cloids
  <2> QED BY <1>1, <2>1, QuietStep DEF SubmitReplay, memory
<1>2. ASSUME NEW c \in Cloids, AnswerReconcile(c) PROVE IInv'
  <2>1. TypeOK'
    BY <1>2 DEF AnswerReconcile, IInv, TypeOK, memory
  <2> QED BY <1>2, <2>1, QuietStep DEF AnswerReconcile, memory
<1>3. CASE BeginReconcile
  <2>1. TypeOK'
    BY <1>3 DEF BeginReconcile, IInv, TypeOK, PCs
  <2> QED BY <1>3, <2>1, QuietStep DEF BeginReconcile, Submitting
<1>4. CASE ReadAccount
  <2>1. TypeOK'
    BY <1>4 DEF ReadAccount, IInv, TypeOK, PCs, ToVisit, Entries
  <2> QED BY <1>4, <2>1, QuietStep DEF ReadAccount, Submitting
<1>5. CASE ReadFails \/ LookupFails
  <2>1. TypeOK'
    BY <1>5 DEF ReadFails, LookupFails, IInv, TypeOK, PCs
  <2> QED BY <1>5, <2>1, QuietStep DEF ReadFails, LookupFails, Submitting
<1>6. CASE FinishReconcile
  <2>1. TypeOK'
    BY <1>6 DEF FinishReconcile, IInv, TypeOK, PCs
  <2> QED BY <1>6, <2>1, QuietStep DEF FinishReconcile, Submitting
<1> QED BY <1>1, <1>2, <1>3, <1>4, <1>5, <1>6 DEF QuietActions

LEMMA EnvironmentStep == IInv /\ Environment => IInv'
<1> SUFFICES ASSUME IInv, Environment PROVE IInv'
  OBVIOUS
<1>1. TypeOK /\ wire \subseteq Request
  BY DEF IInv, TypeOK
<1> DEFINE Kept == UNCHANGED << reg, disk, sent, nonceNext, pc, cur >>
<1>2. ASSUME NEW q \in wire, Execute(q) PROVE TypeOK' /\ Kept
  <2>1. PICK s \in { "open", "filled", "cancelled", "rejected" }, f \in 0..Lot :
          /\ s = "filled" <=> f = Lot
          /\ orders' = [ orders EXCEPT ![q.cloid] = [ status |-> s, filled |-> f ] ]
    BY <1>2 DEF Execute
  <2>2. [ status |-> s, filled |-> f ] \in Order
    BY <2>1 DEF Order
  <2>3. orders' \in [ Cloids -> Order ]
    BY <1>1, <2>1, <2>2 DEF TypeOK
  <2>4. wire' \subseteq Request
    BY <1>1, <1>2 DEF Execute
  <2> QED BY <1>1, <1>2, <2>3, <2>4 DEF Execute, TypeOK, memory, bounds
<1>3. ASSUME NEW q \in wire, Lose(q) PROVE TypeOK' /\ Kept
  BY <1>1, <1>3 DEF Lose, TypeOK, memory, bounds
<1>4. ASSUME NEW c \in Cloids, Progress(c) PROVE TypeOK' /\ Kept
  <2> DEFINE f == orders[c].filled + 1
             o == [ status |-> IF f = Lot THEN "filled" ELSE "open", filled |-> f ]
  <2>1. orders \in [ Cloids -> Order ] /\ orders[c].status = "open"
    BY <1>1, <1>4 DEF Progress, TypeOK
  <2>2. orders' \in [ Cloids -> Order ]
    <3>1. CASE orders' = [ orders EXCEPT ![c].status = "cancelled" ]
      BY <2>1, <3>1 DEF Order
    <3>2. CASE orders' = [ orders EXCEPT ![c] = o ]
      <4>1. orders[c].filled \in 0..Lot /\ orders[c].filled # Lot
        BY <2>1 DEF Order
      <4>2. o \in Order
        BY <4>1, BoundsAssumption DEF Order
      <4> QED BY <2>1, <3>2, <4>2
    <3> QED BY <1>4, <3>1, <3>2 DEF Progress
  <2> QED BY <1>1, <1>4, <2>2 DEF Progress, TypeOK, memory, bounds
<1>5. ASSUME Tick PROVE TypeOK' /\ Kept
  BY <1>1, <1>5 DEF Tick, TypeOK, memory, bounds, exchange
<1>6. TypeOK' /\ Kept
  BY <1>2, <1>3, <1>4, <1>5 DEF Environment
<1> QED BY <1>6, QuietStep

-----------------------------------------------------------------------------
(* The steps of a submission.                                              *)

LEMMA AuthorizeStep ==
  ASSUME IInv, NEW i \in Intents, Authorize(i)
  PROVE  IInv'
<1> DEFINE c == CloidOf[i]
           r == Authorized(i)
<1>1. pc = "idle" /\ MayAuthorize(i) /\ Store(r, "accepted", "idle")
  BY DEF Authorize
<1>2. /\ TypeOK /\ Good(reg, sent) /\ sent \in Requests /\ c \in Cloids
      /\ reg.floor \in Nat /\ nonceNext \in Nat /\ reg.floor <= nonceNext
  BY <1>1, Running DEF Cloids
<1>3. Good(r, sent) /\ r.floor = reg.floor /\ Kind(r, c) = "authorized"
  <2>1. CASE Known(i)
    <3>1. Kind(reg, c) = "authorized_not_submitted"
      BY <1>1, <2>1 DEF MayAuthorize, Known, CanRegister
    <3>2. /\ Plain("authorized") \in SubmissionState
          /\ Plain("authorized").kind = "authorized"
          /\ "authorized" \notin NonceKinds
      BY StateTypes, BoundsAssumption DEF Kinds, BeforeSubmission, NonceKinds
    <3>3. r = Transition(reg, c, Plain("authorized"))
      BY <2>1 DEF Authorized
    <3> QED BY <1>2, <3>1, <3>2, <3>3, GoodTransition DEF BeforeSubmission, Kind
  <2>2. CASE ~Known(i)
    <3>1. r = Register(reg, i) /\ Kind(reg, c) = "absent"
      BY <2>2 DEF Authorized, Known
    <3> QED BY <1>2, <3>1, GoodRegister
  <2> QED BY <2>1, <2>2
<1> HIDE DEF r
<1>4. r \in Registry
  BY <1>3 DEF Good
<1>5. TypeOK'
  <2>1. /\ reg' \in Registry /\ disk' \in Registry /\ pc' \in PCs
        /\ ioFailures' \in Nat
    BY <1>1, <1>2, <1>4, StoreType DEF PCs
  <2>2. cur' \in Intents \cup { NoIntent }
    BY <1>2 DEF Authorize, TypeOK
  <2> QED BY <1>2, <2>1, <2>2 DEF Authorize, TypeOK, exchange
<1>6. Progressing'
  <2>1. reg' = r /\ pc' \in { "idle", "accepted" } /\ (pc' = "accepted" => cur' = i)
    BY <1>1 DEF Authorize, Store
  <2> QED BY <1>3, <2>1 DEF Progressing, curCloid
<1>7. sent' = sent /\ nonceNext' = nonceNext
  BY DEF Authorize
<1> QED BY <1>1, <1>2, <1>3, <1>5, <1>6, <1>7, StoreStep

LEMMA ReplyAcceptedStep == IInv /\ ReplyAccepted => IInv'
<1> SUFFICES ASSUME IInv, ReplyAccepted PROVE IInv'
  OBVIOUS
<1>1. /\ pc = "accepted" /\ pc' \in { "submit", "idle" }
      /\ UNCHANGED << reg, disk, sent, nonceNext >>
      /\ pc' = "submit" => cur' = cur
  BY DEF ReplyAccepted
<1>2. curCloid \in Cloids
  BY <1>1, Current DEF Submitting
<1>3. TypeOK'
  BY <1>1, <1>2 DEF ReplyAccepted, IInv, TypeOK, exchange, bounds, PCs
<1>4. Progressing'
  BY <1>1 DEF IInv, Progressing, curCloid, Kind
<1>5. /\ Good(disk, sent)' /\ Good(reg, sent)' /\ Ordered'
      /\ SubmittedAtMostOnce' /\ NoncesIncrease'
  BY <1>1 DEF IInv, Good, Ordered, SubmittedAtMostOnce, NoncesIncrease
<1> QED BY <1>3, <1>4, <1>5 DEF IInv

\* The nonce is at least the floor of the registry, which lies above all
\* nonces sent.
LEMMA AllocateNonceStep == IInv /\ AllocateNonce => IInv'
<1> SUFFICES ASSUME IInv, AllocateNonce PROVE IInv'
  OBVIOUS
<1> DEFINE c == curCloid
<1>1. pc = "submit" /\ pc \in Submitting
  BY DEF AllocateNonce, Submitting
<1>2. /\ TypeOK /\ Good(reg, sent) /\ sent \in Requests /\ c \in Cloids
      /\ reg.floor \in Nat /\ nonceNext \in Nat /\ reg.floor <= nonceNext
      /\ cur \in Intents /\ pc # "down"
  BY <1>1, Running, Current
<1>3. Kind(reg, c) = "authorized"
  BY <1>1 DEF IInv, Progressing
<1>4. PICK nonce \in Nat :
        /\ nonceNext <= nonce /\ nonceNext' = nonce + 1
        /\ Store(Transition(reg, c, WithNonce("nonce_allocated", nonce)),
                 "nonce", "reconcile")
  BY <1>2, SignerAssumption DEF AllocateNonce
<1> DEFINE next == WithNonce("nonce_allocated", nonce)
           r == Transition(reg, c, next)
<1>5. /\ next \in SubmissionState /\ next.kind = "nonce_allocated"
      /\ next.nonce = nonce
  BY StateTypes, BoundsAssumption DEF Kinds, BeforeSubmission
<1> HIDE DEF next
<1>6. /\ Good(r, sent) /\ r.state[c] = next /\ reg.floor <= r.floor
      /\ r.floor = reg.floor \/ r.floor = nonce + 1
  BY <1>2, <1>3, <1>5, GoodTransition DEF BeforeSubmission, Kind
<1>7. r.floor <= nonceNext'
  BY <1>2, <1>4, <1>6
<1>8. \A n \in DOMAIN sent : sent[n].nonce < nonce
  BY <1>2, <1>4, RequestType DEF Good
<1> HIDE DEF r
<1>9. Store(r, "nonce", "reconcile")
  BY <1>4 DEF r, next
<1>10. UNCHANGED << sent, cur >>
  BY DEF AllocateNonce
<1>11. TypeOK'
  <2>1. /\ reg' \in Registry /\ disk' \in Registry /\ pc' \in PCs
        /\ ioFailures' \in Nat
    BY <1>2, <1>6, <1>9, StoreType DEF PCs, Good
  <2>2. nonceNext' \in Nat
    BY <1>4
  <2> QED BY <1>2, <2>1, <2>2 DEF AllocateNonce, TypeOK, exchange
<1>12. Progressing'
  <2>1. reg' = r /\ pc' \in { "nonce", "reconcile" }
    BY <1>9 DEF Store
  <2>2. curCloid' = c /\ Kind(reg, curCloid)' = "nonce_allocated"
        /\ reg'.state[c].nonce = nonce
    BY <1>5, <1>6, <1>10, <2>1 DEF curCloid, Kind
  <2> QED BY <1>2, <1>8, <1>10, <2>1, <2>2 DEF Progressing
<1> QED BY <1>2, <1>6, <1>7, <1>9, <1>10, <1>11, <1>12, StoreStep

\* wallet.sign_ioc and the start of the submission only change the kind.
LEMMA SignStep == IInv /\ Sign => IInv'
<1> SUFFICES ASSUME IInv, Sign PROVE IInv'
  OBVIOUS
<1> DEFINE c == curCloid
           next == WithNonce("signed", reg.state[c].nonce)
           r == Transition(reg, c, next)
<1>1. pc = "nonce" /\ pc \in Submitting
  BY DEF Sign, Submitting
<1>2. /\ TypeOK /\ Good(reg, sent) /\ sent \in Requests /\ c \in Cloids
      /\ reg.floor \in Nat /\ nonceNext \in Nat /\ reg.floor <= nonceNext
      /\ cur \in Intents /\ pc # "down" /\ reg.state[c].nonce \in Nat
  BY <1>1, Running, Current
<1>3. Kind(reg, c) = "nonce_allocated" /\ reg.state[c].nonce < reg.floor
  BY <1>1, <1>2 DEF IInv, Progressing, Good, NonceKinds
<1>4. UNCHANGED << sent, cur, nonceNext >>
  BY DEF Sign
<1>5. CASE pc' = "reconcile" /\ UNCHANGED << reg, disk >> /\ ioFailures' = ioFailures + 1
  <2>1. TypeOK'
    BY <1>2, <1>5 DEF Sign, TypeOK, exchange, PCs
  <2> QED BY <1>2, <1>4, <1>5, <2>1, QuietStep DEF Submitting
<1>6. CASE Store(r, "signed", "reconcile")
  <2>1. /\ next \in SubmissionState /\ next.kind = "signed"
        /\ next.nonce = reg.state[c].nonce
    <3>1. "signed" \in Kinds /\ 0 \in 0..Lot
      BY BoundsAssumption DEF Kinds, BeforeSubmission
    <3> QED BY <1>2, <3>1, StateTypes
  <2> HIDE DEF next
  <2>2. Good(r, sent) /\ r.state[c] = next /\ r.floor = reg.floor
    BY <1>2, <1>3, <2>1, GoodTransition DEF BeforeSubmission
  <2> HIDE DEF r
  <2>3. TypeOK'
    <3>1. /\ reg' \in Registry /\ disk' \in Registry /\ pc' \in PCs
          /\ ioFailures' \in Nat
      BY <1>2, <1>6, <2>2, StoreType DEF PCs, Good
    <3> QED BY <1>2, <3>1 DEF Sign, TypeOK, exchange
  <2>4. Progressing'
    <3>1. reg' = r /\ pc' \in { "signed", "reconcile" }
      BY <1>6 DEF Store
    <3>2. curCloid' = c /\ Kind(reg, curCloid)' = "signed"
          /\ reg'.state[c].nonce = reg.state[c].nonce
      BY <1>4, <2>1, <2>2, <3>1 DEF curCloid, Kind
    <3>3. \A n \in DOMAIN sent : sent[n].nonce < reg.state[c].nonce
      BY <1>1 DEF IInv, Progressing
    <3> QED BY <1>2, <1>4, <3>1, <3>2, <3>3 DEF Progressing
  <2> QED BY <1>2, <1>4, <1>6, <2>2, <2>3, <2>4, StoreStep
<1> QED BY <1>5, <1>6 DEF Sign

LEMMA MarkStartedStep == IInv /\ MarkStarted => IInv'
<1> SUFFICES ASSUME IInv, MarkStarted PROVE IInv'
  OBVIOUS
<1> DEFINE c == curCloid
           next == WithNonce("submission_started", reg.state[c].nonce)
           r == Transition(reg, c, next)
<1>1. pc = "signed" /\ pc \in Submitting /\ Store(r, "started", "reconcile")
  BY DEF MarkStarted, Submitting
<1>2. /\ TypeOK /\ Good(reg, sent) /\ sent \in Requests /\ c \in Cloids
      /\ reg.floor \in Nat /\ nonceNext \in Nat /\ reg.floor <= nonceNext
      /\ cur \in Intents /\ pc # "down" /\ reg.state[c].nonce \in Nat
  BY <1>1, Running, Current
<1>3. Kind(reg, c) = "signed" /\ reg.state[c].nonce < reg.floor
  BY <1>1, <1>2 DEF IInv, Progressing, Good, NonceKinds
<1>4. UNCHANGED << sent, cur, nonceNext >>
  BY DEF MarkStarted
<1>5. /\ next \in SubmissionState /\ next.kind = "submission_started"
      /\ next.nonce = reg.state[c].nonce
  <2>1. "submission_started" \in Kinds /\ 0 \in 0..Lot
    BY BoundsAssumption DEF Kinds, InDoubt
  <2> QED BY <1>2, <2>1, StateTypes
<1> HIDE DEF next
<1>6. Good(r, sent) /\ r.state[c] = next /\ r.floor = reg.floor
  BY <1>2, <1>3, <1>5, GoodTransition DEF BeforeSubmission
<1> HIDE DEF r
<1>7. TypeOK'
  <2>1. /\ reg' \in Registry /\ disk' \in Registry /\ pc' \in PCs
        /\ ioFailures' \in Nat
    BY <1>1, <1>2, <1>6, StoreType DEF PCs, Good
  <2> QED BY <1>2, <2>1 DEF MarkStarted, TypeOK, exchange
<1>8. Progressing'
  <2>1. /\ reg' = r /\ pc' \in { "started", "reconcile" }
        /\ pc' = "started" => disk' = r
    BY <1>1 DEF Store
  <2>2. curCloid' = c /\ Kind(reg, curCloid)' = "submission_started"
        /\ reg'.state[c].nonce = reg.state[c].nonce
    BY <1>4, <1>5, <1>6, <2>1 DEF curCloid, Kind
  <2>3. \A n \in DOMAIN sent : sent[n].nonce < reg.state[c].nonce
    BY <1>1 DEF IInv, Progressing
  <2>4. \A n \in DOMAIN sent : sent[n].cloid # c
    BY <1>2, <1>3 DEF Good, BeforeSubmission
  <2> QED BY <1>2, <1>4, <2>1, <2>2, <2>3, <2>4 DEF Progressing
<1> QED BY <1>1, <1>2, <1>4, <1>6, <1>7, <1>8, StoreStep

\* The only step that reaches the exchange: the entry is on disk as started,
\* its CLOID has not been sent and its nonce is the largest so far.
LEMMA SendStep == IInv /\ Send => IInv'
<1> SUFFICES ASSUME IInv, Send PROVE IInv'
  OBVIOUS
<1> DEFINE c == curCloid
           k == reg.state[c].nonce
           request == [ cloid |-> c, nonce |-> k ]
           last == Len(sent) + 1
<1>1. pc = "started" /\ pc \in Submitting /\ pc' = "await"
  BY DEF Send, Submitting
<1>2. /\ TypeOK /\ Good(reg, sent) /\ Good(disk, sent) /\ sent \in Requests
      /\ c \in Cloids /\ reg.floor \in Nat /\ nonceNext \in Nat
      /\ reg.floor <= nonceNext
      /\ cur \in Intents /\ pc # "down" /\ k \in Nat
  BY <1>1, Running, Current
<1>3. /\ Kind(reg, c) = "submission_started" /\ disk = reg
      /\ \A n \in DOMAIN sent : sent[n].nonce < k /\ sent[n].cloid # c
  BY <1>1 DEF IInv, Progressing
<1>4. k < reg.floor
  BY <1>2, <1>3 DEF Good, NonceKinds
<1>5. UNCHANGED << reg, disk, cur, nonceNext >> /\ sent' = Append(sent, request)
  BY DEF Send
<1>6. /\ Len(sent) \in Nat /\ DOMAIN sent = 1..Len(sent)
      /\ DOMAIN sent' = 1..last
      /\ \A n \in DOMAIN sent : sent'[n] = sent[n]
      /\ sent'[last] = request
      /\ sent' \in Requests
  <2>1. /\ sent \in Seq([ cloid : Cloids, nonce : Nat ])
        /\ request \in [ cloid : Cloids, nonce : Nat ]
    BY <1>2 DEF Requests
  <2> HIDE DEF request
  <2> QED BY <1>5, <2>1, AppendProperties DEF Requests
<1>7. /\ last \notin DOMAIN sent
      /\ \A n \in DOMAIN sent' : n \in DOMAIN sent \/ n = last
      /\ \A n \in DOMAIN sent : n < last
  BY <1>6
<1>8. request.cloid = c /\ request.nonce = k
  OBVIOUS
<1> HIDE DEF last, request, k
<1>9. Good(reg, sent')
  <2>1. ASSUME NEW n \in DOMAIN sent'
        PROVE  /\ Kind(reg, sent'[n].cloid) \notin BeforeSubmission
               /\ sent'[n].nonce < reg.floor
    <3>1. CASE n \in DOMAIN sent
      BY <1>2, <1>6, <3>1 DEF Good
    <3>2. CASE n = last
      <4>1. sent'[n].cloid = c /\ sent'[n].nonce = k
        BY <1>6, <1>8, <3>2
      <4> QED BY <1>3, <1>4, <4>1 DEF BeforeSubmission
    <3> QED BY <1>7, <2>1, <3>1, <3>2
  <2> QED BY <1>2, <2>1 DEF Good
<1>10. /\ Good(reg, sent)' /\ Good(disk, sent)' /\ Ordered'
  BY <1>2, <1>3, <1>5, <1>9 DEF Good, Ordered, IInv
<1>11. SubmittedAtMostOnce'
  <2>1. ASSUME NEW m \in DOMAIN sent', NEW n \in DOMAIN sent',
               sent'[m].cloid = sent'[n].cloid
        PROVE  m = n
    BY <1>3, <1>6, <1>7, <1>8, <2>1 DEF IInv, SubmittedAtMostOnce
  <2> QED BY <2>1 DEF SubmittedAtMostOnce
<1>12. NoncesIncrease'
  <2>1. ASSUME NEW m \in DOMAIN sent', NEW n \in DOMAIN sent', m < n
        PROVE  sent'[m].nonce < sent'[n].nonce
    <3>1. m \in DOMAIN sent
      BY <1>6, <1>7, <2>1 DEF last
    <3> QED BY <1>3, <1>6, <1>7, <1>8, <2>1, <3>1 DEF IInv, NoncesIncrease
  <2> QED BY <2>1 DEF NoncesIncrease
<1>13. Progressing'
  BY <1>1, <1>2, <1>3, <1>5 DEF Progressing, curCloid, Kind
<1>14. TypeOK'
  <2>1. wire' \subseteq Request
    BY <1>2 DEF Send, TypeOK, Request, k
  <2> QED BY <1>2, <1>6, <2>1 DEF Send, TypeOK, bounds, PCs, Requests
<1> QED BY <1>10, <1>11, <1>12, <1>13, <1>14 DEF IInv

LEMMA RespondStep == IInv /\ Respond => IInv'
<1> SUFFICES ASSUME IInv, Respond PROVE IInv'
  OBVIOUS
<1>1. pc = "await" /\ pc \in Submitting
  BY DEF Respond, Submitting
<1>2. /\ TypeOK /\ Good(reg, sent) /\ sent \in Requests /\ curCloid \in Cloids
      /\ pc # "down" /\ reg.state[curCloid].nonce \in Nat
      /\ orders \in [ Cloids -> Order ]
  BY <1>1, Running, Current DEF TypeOK
<1>3. Kind(reg, curCloid) = "submission_started"
  BY <1>1 DEF IInv, Progressing
<1>4. PICK outcome \in Outcomes(curCloid) :
        Store(Transition(reg, curCloid, outcome), "reconcile", "reconcile")
  BY DEF Respond
<1> DEFINE r == Transition(reg, curCloid, outcome)
<1>5. AfterSubmission(outcome, reg.state[curCloid].nonce)
  BY <1>2, OutcomeType
<1>6. Good(r, sent) /\ r.floor = reg.floor
  BY <1>2, <1>3, <1>5, GoodOutcome DEF NonceKinds
<1>7. Store(r, "reconcile", "reconcile")
  BY <1>4
<1> HIDE DEF r
<1>8. TypeOK'
  <2>1. /\ reg' \in Registry /\ disk' \in Registry /\ pc' \in PCs
        /\ ioFailures' \in Nat
    BY <1>2, <1>6, <1>7, StoreType DEF PCs, Good
  <2> QED BY <1>2, <2>1 DEF Respond, TypeOK, exchange
<1> QED BY <1>2, <1>6, <1>7, <1>8, StoreQuietStep DEF Respond, PCs, Submitting

-----------------------------------------------------------------------------
(* The steps of a reconciliation that write the registry.                  *)

LEMMA VisitedType ==
  ASSUME TypeOK, todo # {}
  PROVE  Visited \in Cloids /\ Visited \in todo
BY DEF TypeOK, Visited

LEMMA VisitNotStartedStep == IInv /\ VisitNotStarted => IInv'
<1> SUFFICES ASSUME IInv, VisitNotStarted PROVE IInv'
  OBVIOUS
<1> DEFINE c == Visited
           next == Plain("authorized_not_submitted")
           r == Transition(reg, c, next)
<1>1. /\ pc = "scan" /\ pc # "down" /\ todo # {} /\ Store(r, "scan", "failed")
      /\ Kind(reg, c) \in { "authorized", "nonce_allocated", "signed" }
  BY DEF VisitNotStarted
<1>2. /\ TypeOK /\ Good(reg, sent) /\ sent \in Requests /\ c \in Cloids
  BY <1>1, Running, VisitedType
<1>3. /\ next \in SubmissionState /\ next.kind = "authorized_not_submitted"
      /\ "authorized_not_submitted" \notin NonceKinds
  <2>1. "authorized_not_submitted" \in Kinds /\ 0 \in 0..Lot
    BY BoundsAssumption DEF Kinds, BeforeSubmission
  <2> QED BY <2>1, StateTypes DEF NonceKinds
<1> HIDE DEF next, c
<1>4. Good(r, sent) /\ r.floor = reg.floor
  BY <1>1, <1>2, <1>3, GoodTransition DEF BeforeSubmission
<1> HIDE DEF r
<1>5. TypeOK'
  <2>1. /\ reg' \in Registry /\ disk' \in Registry /\ pc' \in PCs
        /\ ioFailures' \in Nat
    BY <1>1, <1>2, <1>4, StoreType DEF PCs, Good
  <2> QED BY <1>2, <2>1 DEF VisitNotStarted, TypeOK, exchange
<1> QED BY <1>1, <1>2, <1>4, <1>5, StoreQuietStep
        DEF VisitNotStarted, PCs, Submitting

LEMMA VisitStartedStep == IInv /\ VisitStarted => IInv'
<1> SUFFICES ASSUME IInv, VisitStarted PROVE IInv'
  OBVIOUS
<1> DEFINE c == Visited
           next == WithNonce("unknown_result", reg.state[c].nonce)
           r == Transition(reg, c, next)
<1>1. /\ pc = "scan" /\ pc # "down" /\ todo # {} /\ Store(r, "scan", "failed")
      /\ Kind(reg, c) = "submission_started"
  BY DEF VisitStarted
<1>2. /\ TypeOK /\ Good(reg, sent) /\ sent \in Requests /\ c \in Cloids
      /\ reg.state[c].nonce \in Nat
  BY <1>1, Running, VisitedType
<1>3. AfterSubmission(next, reg.state[c].nonce)
  <2>1. /\ "unknown_result" \in Kinds /\ "unknown_result" \notin BeforeSubmission
        /\ 0 \in 0..Lot
    BY BoundsAssumption DEF Kinds, InDoubt, BeforeSubmission
  <2> QED BY <1>2, <2>1, StateTypes DEF AfterSubmission
<1> HIDE DEF next, c
<1>4. Good(r, sent) /\ r.floor = reg.floor
  BY <1>1, <1>2, <1>3, GoodOutcome DEF NonceKinds
<1> HIDE DEF r
<1>5. TypeOK'
  <2>1. /\ reg' \in Registry /\ disk' \in Registry /\ pc' \in PCs
        /\ ioFailures' \in Nat
    BY <1>1, <1>2, <1>4, StoreType DEF PCs, Good
  <2> QED BY <1>2, <2>1 DEF VisitStarted, TypeOK, exchange
<1> QED BY <1>1, <1>2, <1>4, <1>5, StoreQuietStep
        DEF VisitStarted, PCs, Submitting

LEMMA VisitLookupStep == IInv /\ VisitLookup => IInv'
<1> SUFFICES ASSUME IInv, VisitLookup PROVE IInv'
  OBVIOUS
<1> DEFINE c == Visited
           r == ReconcileUnknown(c, stamp)
           done == IF Kind(r, c) = "unknown_result" THEN "failed" ELSE "scan"
<1>1. /\ pc = "scan" /\ pc # "down" /\ todo # {} /\ Store(r, done, "failed")
      /\ Kind(reg, c) # "absent"
  BY DEF VisitLookup, LookedUp, Working
<1>2. /\ TypeOK /\ Good(reg, sent) /\ sent \in Requests /\ c \in Cloids
      /\ stamp \in Nat
  BY <1>1, Running, VisitedType DEF TypeOK
<1>3. Good(r, sent) /\ r.floor = reg.floor
  BY <1>1, <1>2, GoodReconcileUnknown
<1>4. done \in { "failed", "scan" }
  OBVIOUS
<1> HIDE DEF r, done, c
<1>5. TypeOK'
  <2>1. /\ reg' \in Registry /\ disk' \in Registry /\ pc' \in PCs
        /\ ioFailures' \in Nat
    BY <1>1, <1>2, <1>3, <1>4, StoreType DEF PCs, Good
  <2> QED BY <1>2, <2>1 DEF VisitLookup, TypeOK, exchange
<1> QED BY <1>1, <1>2, <1>3, <1>4, <1>5, StoreQuietStep
        DEF VisitLookup, PCs, Submitting

LEMMA ReconcileStep ==
  ASSUME IInv, NEW c \in Cloids, Reconcile(c)
  PROVE  IInv'
<1> DEFINE r == ReconcileUnknown(c, now)
<1>1. /\ pc = "idle" /\ pc # "down" /\ Store(r, "reconcile", "idle")
      /\ Kind(reg, c) # "absent"
  BY DEF Reconcile, LookedUp, Working
<1>2. /\ TypeOK /\ Good(reg, sent) /\ sent \in Requests /\ now \in Nat
  BY <1>1, Running DEF TypeOK
<1>3. Good(r, sent) /\ r.floor = reg.floor
  BY <1>1, <1>2, GoodReconcileUnknown
<1> HIDE DEF r
<1>4. TypeOK'
  <2>1. /\ reg' \in Registry /\ disk' \in Registry /\ pc' \in PCs
        /\ ioFailures' \in Nat
    BY <1>1, <1>2, <1>3, StoreType DEF PCs, Good
  <2> QED BY <1>2, <2>1 DEF Reconcile, TypeOK, exchange
<1> QED BY <1>1, <1>2, <1>3, <1>4, StoreQuietStep
        DEF Reconcile, PCs, Submitting

-----------------------------------------------------------------------------
(* The theorems.                                                           *)

LEMMA NextIInv == IInv /\ [Next]_vars => IInv'
<1> SUFFICES ASSUME IInv, [Next]_vars PROVE IInv'
  OBVIOUS
<1>1. CASE Boot \/ Crash
  BY <1>1, BootStep, CrashStep
<1>2. ASSUME NEW i \in Intents, SubmitReplay(i) \/ SubmitConflict(i) \/ Authorize(i)
      PROVE  IInv'
  BY <1>2, QuietActionsStep, SubmitConflictStep, AuthorizeStep DEF QuietActions
<1>3. CASE ReplyAccepted \/ AllocateNonce \/ Sign \/ MarkStarted \/ Send \/ Respond
  BY <1>3, ReplyAcceptedStep, AllocateNonceStep, SignStep, MarkStartedStep,
     SendStep, RespondStep
<1>4. CASE BeginReconcile \/ ReadAccount \/ ReadFails \/ LookupFails \/ FinishReconcile
  BY <1>4, QuietActionsStep DEF QuietActions
<1>5. CASE VisitNotStarted \/ VisitStarted \/ VisitLookup \/ FailReconcile
  BY <1>5, VisitNotStartedStep, VisitStartedStep, VisitLookupStep, FailReconcileStep
<1>6. ASSUME NEW c \in Cloids, Reconcile(c) \/ AnswerReconcile(c)
      PROVE  IInv'
  BY <1>6, QuietActionsStep, ReconcileStep DEF QuietActions
<1>7. CASE Environment
  BY <1>7, EnvironmentStep
<1>8. CASE UNCHANGED vars
  <2>1. TypeOK'
    BY <1>8 DEF vars, IInv, TypeOK
  <2> QED BY <1>8, <2>1, QuietStep DEF vars
<1> QED BY <1>1, <1>2, <1>3, <1>4, <1>5, <1>6, <1>7, <1>8
        DEF Next, Submission, Reconciliation

LEMMA InductiveInvariant == Spec => []IInv
BY InitIInv, NextIInv, PTL DEF Spec

\* Every variable keeps its type: in particular whatever the file holds, in
\* whatever order requests, failures and crashes come, is a registry.
THEOREM TypeCorrect == Spec => []TypeOK
<1>1. IInv => TypeOK
  BY DEF IInv
<1> QED BY <1>1, InductiveInvariant, PTL

\* No CLOID is ever sent to the exchange twice, for any set of intents, any
\* number of crashes and failed writes, and any behaviour of the exchange
\* (submit_authorized, reconcile_startup).
THEOREM AtMostOnce == Spec => []SubmittedAtMostOnce
<1>1. IInv => SubmittedAtMostOnce
  BY DEF IInv
<1> QED BY <1>1, InductiveInvariant, PTL

\* Nonces grow strictly over all requests ever sent, although the clock may
\* step back and the process restart (NonceAllocator, next_nonce_floor).
THEOREM NonceOrder == Spec => []NoncesIncrease
<1>1. IInv => NoncesIncrease
  BY DEF IInv
<1> QED BY <1>1, InductiveInvariant, PTL

\* What was sent is on disk as started: no restart finds a sent CLOID in a
\* state from which it could be signed again (submit_authorized).
THEOREM StartIsDurable == Spec => []StartedBeforeSent
<1>1. IInv => StartedBeforeSent
  BY DEF IInv, Good, StartedBeforeSent
<1> QED BY <1>1, InductiveInvariant, PTL

-----------------------------------------------------------------------------
(***************************************************************************)
(* The registry is true of the exchange: one entry at most is in doubt, a  *)
(* settled entry says what became of its order and stays settled, and      *)
(* whatever the exchange reports of an unsettled one is accepted.          *)
(*                                                                         *)
(* This second layer of the inductive invariant relates each entry to its  *)
(* order and to the requests still in the network (Fits); the times of the *)
(* confirmations are in it because they are what settles an order as not   *)
(* found.                                                                  *)
(***************************************************************************)

\* An entry of c with state s and confirmations k is true of the order o and
\* the requests w in the network: a settled one says what became of the order,
\* an unsettled one is what any later report continues, and its confirmations
\* came after its request left, each the interval after the one before it.
Fits(c, s, k, o, w) ==
  /\ s.kind = "filled" => o.status \in { "filled", "cancelled" } /\ o.filled = s.filled
  /\ s.kind = "cancelled" => o.status = "cancelled" /\ o.filled = s.filled
  /\ s.kind = "rejected" => o.filled = 0 /\ o.status # "open"
  /\ s.kind \in Resolved \ { "reconciled_not_found" } => \A q \in w : q.cloid # c
  /\ s.kind = "acknowledged" =>
       s.order \in { "cloid", "exchange" } /\ s.filled = 0 /\ s.nonce = 0
  /\ s.kind = "partially_filled" =>
       /\ s.order = "exchange" /\ o.status \in { "open", "filled", "cancelled" }
       /\ 0 < s.filled /\ s.filled <= o.filled
  /\ s.kind = "unknown_result" => s.order = "none"
  /\ s.kind \in BeforeSubmission \cup { "submission_started" } => k.count = 0
  /\ k.count > 0 => \A q \in w : q.cloid = c =>
                       q.at + (k.count - 1) * MinInterval <= k.last

EntriesTrue(r) ==
  \A c \in Cloids : Fits(c, r.state[c], r.confirms[c], orders[c], wire)

\* The exchange has no order of c, or acted on it late, and a request of it
\* that is still in the network is late already.
Gone(c) ==
  /\ orders[c].status # "none" => c \in late
  /\ \A q \in wire : q.cloid = c => now - q.at >= Span

NotFoundGone(r) == \A c \in Cloids : Kind(r, c) = "reconciled_not_found" => Gone(c)

NoDoubt(r) == \A c \in Cloids : Kind(r, c) \notin InDoubt

OneDoubt(r) ==
  \A c, d \in Cloids : Kind(r, c) \in InDoubt /\ Kind(r, d) \in InDoubt => c = d

\* Requests in the network and orders at the exchange.
WireTrue ==
  /\ \A p, q \in wire : p.cloid = q.cloid => p = q
  /\ \A q \in wire : /\ q.at <= now /\ now <= q.at + MaxDelay
                     /\ orders[q.cloid].status = "none"
                     /\ \E n \in DOMAIN sent : sent[n].cloid = q.cloid

OrdersTrue ==
  \A c \in Cloids :
    /\ orders[c].status \in { "none", "rejected" } => orders[c].filled = 0
    /\ orders[c].status # "none" => \E n \in DOMAIN sent : sent[n].cloid = c

\* Where the loop stands and what it may then rely on.
Phases ==
  /\ pc \in { "accepted", "submit", "nonce", "signed" } => reconciled
  /\ reconciled /\ pc \in { "idle", "accepted", "submit", "nonce", "signed" } => NoDoubt(reg)
  /\ pc \in { "started", "await", "reads", "scan", "failed" } => ~reconciled
  /\ pc = "scan" => \A c \in Cloids : Kind(reg, c) \in InDoubt => c \in todo
  /\ pc \in { "reads", "scan" } => stamp <= now /\ \A q \in wire : q.at <= stamp

\* What the file has settled is settled in memory.
SettledKept ==
  pc # "down" => \A c \in Cloids : Kind(disk, c) \in Resolved => reg.state[c] = disk.state[c]

\* A step leaves alone what the file has settled.
FileKeepsSettled ==
  \A c \in Cloids : Kind(disk, c) \in Resolved => disk'.state[c] = disk.state[c]

Records ==
  /\ EntriesTrue(reg) /\ EntriesTrue(disk) /\ OneDoubt(reg) /\ OneDoubt(disk)
  /\ NotFoundGone(reg) /\ NotFoundGone(disk)
  /\ SettledKept

World == WireTrue /\ OrdersTrue

OutcomeInv == Records /\ World /\ Phases

-----------------------------------------------------------------------------
(* The entry and its order.                                                *)

\* Losing requests never makes an entry untrue.
LEMMA FitsFewer ==
  ASSUME NEW c, NEW s, NEW k, NEW o, NEW w, Fits(c, s, k, o, w),
         NEW v, v \subseteq w
  PROVE  Fits(c, s, k, o, v)
BY DEF Fits

\* The exchange acts on a request in flight: its entry is not settled.
LEMMA FitsExecuted ==
  ASSUME NEW c, NEW s, NEW k, NEW o, NEW w, Fits(c, s, k, o, w),
         NEW v, v \subseteq w, \E q \in w : q.cloid = c, o.status = "none",
         NEW p
  PROVE  Fits(c, s, k, p, v)
BY DEF Fits, Resolved

\* An open order advances: only an unsettled entry has one.
LEMMA FitsProgress ==
  ASSUME NEW c, NEW s, NEW k, NEW o, NEW w, Fits(c, s, k, o, w),
         o.status = "open", NEW p, p.status \in { "open", "filled", "cancelled" },
         s.filled \in Nat, o.filled \in Nat, p.filled \in Nat, o.filled <= p.filled
  PROVE  Fits(c, s, k, p, w)
BY DEF Fits, Resolved

\* Nothing is in flight once the exchange has the order.
LEMMA FitsNoWire ==
  ASSUME World, NEW c \in Cloids, orders[c].status # "none"
  PROVE  \A q \in wire : q.cloid # c
BY DEF World, WireTrue

-----------------------------------------------------------------------------
(* What a step that writes one entry keeps.                                *)

\* The registry t differs from r in the entry of c at most.
Rewritten(r, c, s, k, t) ==
  /\ t.state = [ r.state EXCEPT ![c] = s ]
  /\ ConfirmsChange(r, c, k, t)

LEMMA RewrittenEntries ==
  ASSUME NEW r \in Registry, NEW c \in Cloids, NEW s, NEW k, NEW t, Rewritten(r, c, s, k, t)
  PROVE  /\ t.state[c] = s /\ t.confirms[c] = k /\ Kind(t, c) = s.kind
         /\ \A d \in Cloids : d # c => /\ t.state[d] = r.state[d]
                                       /\ t.confirms[d] = r.confirms[d]
                                       /\ Kind(t, d) = Kind(r, d)
<1>1. /\ r.state \in [ Cloids -> SubmissionState ]
      /\ r.confirms \in [ Cloids -> [ count : Nat, last : Nat ] ]
  BY DEF Registry
<1> QED BY <1>1 DEF Rewritten, ConfirmsChange, Kind

\* An unsettled entry is rewritten by one that is true and in doubt only if it
\* was before or nothing else is.
LEMMA StoreRecords ==
  ASSUME TypeOK, Records, pc # "down", NEW r, NEW done, NEW failed, Store(r, done, failed),
         UNCHANGED << orders, wire, late, now >>,
         NEW c \in Cloids, Kind(reg, c) \notin Resolved,
         NEW s, NEW k, Rewritten(reg, c, s, k, r), Fits(c, s, k, orders[c], wire),
         s.kind = "reconciled_not_found" => Gone(c),
         s.kind \in InDoubt => Kind(reg, c) \in InDoubt \/ NoDoubt(reg)
  PROVE  Records' /\ FileKeepsSettled
<1>1. reg' = r /\ disk' \in { disk, r }
  BY DEF Store
<1>2. /\ r.state[c] = s /\ r.confirms[c] = k /\ Kind(r, c) = s.kind
      /\ \A d \in Cloids : d # c => /\ r.state[d] = reg.state[d]
                                    /\ r.confirms[d] = reg.confirms[d]
                                    /\ Kind(r, d) = Kind(reg, d)
  BY RewrittenEntries DEF TypeOK
<1>3. \A d \in Cloids : Fits(d, r.state[d], r.confirms[d], orders[d], wire)
  <2> TAKE d \in Cloids
  <2>1. CASE d = c
    BY <1>2, <2>1
  <2>2. CASE d # c
    BY <1>2, <2>2 DEF Records, EntriesTrue
  <2> QED BY <2>1, <2>2
<1>4. OneDoubt(r)
  BY <1>2 DEF Records, OneDoubt, NoDoubt
<1>5. \A d \in Cloids : Kind(disk, d) \in Resolved => r.state[d] = disk.state[d]
  <2> SUFFICES ASSUME NEW d \in Cloids, Kind(disk, d) \in Resolved
               PROVE  r.state[d] = disk.state[d]
    OBVIOUS
  <2>1. reg.state[d] = disk.state[d]
    BY DEF Records, SettledKept
  <2>2. d # c
    BY <2>1 DEF Kind
  <2> QED BY <1>2, <2>1, <2>2
<1>6. /\ EntriesTrue(reg)' /\ EntriesTrue(disk)'
  BY <1>1, <1>3 DEF EntriesTrue, Records
<1>7. OneDoubt(reg)' /\ OneDoubt(disk)'
  BY <1>1, <1>4 DEF OneDoubt, Records, Kind
<1>8. SettledKept'
  BY <1>1, <1>5 DEF SettledKept, Kind
<1>9. FileKeepsSettled
  BY <1>1, <1>5 DEF FileKeepsSettled
<1>10. NotFoundGone(reg)' /\ NotFoundGone(disk)'
  <2>1. \A d \in Cloids : Gone(d)' <=> Gone(d)
    BY DEF Gone
  <2>2. \A d \in Cloids : Kind(r, d) = "reconciled_not_found" => Gone(d)
    BY <1>2 DEF Records, NotFoundGone
  <2> QED BY <1>1, <2>1, <2>2 DEF Records, NotFoundGone, Kind
<1> QED BY <1>6, <1>7, <1>8, <1>9, <1>10 DEF Records

LEMMA WorldKept ==
  ASSUME World, UNCHANGED << orders, wire, now, sent >>
  PROVE  World'
BY DEF World, WireTrue, OrdersTrue

LEMMA RecordsKept ==
  ASSUME Records, UNCHANGED << reg, disk, orders, wire, late, now >>,
         pc # "down" \/ pc' = "down"
  PROVE  Records'
BY DEF Records, EntriesTrue, NotFoundGone, Gone, OneDoubt, SettledKept, Kind
-----------------------------------------------------------------------------
(* One lemma per action, or per group of actions of one shape.             *)

\* The steps that touch neither registry nor the exchange.
LEMMA QuietOutcome ==
  ASSUME OutcomeInv, UNCHANGED << reg, disk, orders, wire, late, now, sent >>,
         pc # "down" \/ pc' = "down", Phases'
  PROVE  OutcomeInv'
BY RecordsKept, WorldKept DEF OutcomeInv

LEMMA QuietActionsOutcome ==
  ASSUME IInv, OutcomeInv,
         \/ QuietActions \/ ReplyAccepted \/ UNCHANGED vars
         \/ FailReconcile /\ ctx # "boot"
  PROVE  OutcomeInv'
<1> USE DEF exchange, memory
<1>1. Phases /\ World /\ \A q \in wire : q.at <= now
  BY DEF OutcomeInv, World, WireTrue
<1>2. CASE \/ \E i \in Intents : SubmitReplay(i)
           \/ \E c \in Cloids : AnswerReconcile(c)
           \/ UNCHANGED vars
  <2>1. UNCHANGED << reg, disk, orders, wire, late, now, sent, pc, reconciled, todo, stamp >>
    BY <1>2 DEF SubmitReplay, AnswerReconcile, vars
  <2>2. Phases'
    BY <1>1, <2>1 DEF Phases, NoDoubt, Kind
  <2> QED BY <2>1, <2>2, QuietOutcome
<1>3. CASE BeginReconcile
  <2>1. Phases'
    BY <1>1, <1>3 DEF BeginReconcile, Phases, IInv, TypeOK
  <2> QED BY <1>3, <2>1, QuietOutcome DEF BeginReconcile
<1>4. CASE ReadAccount
  <2>1. \A c \in Cloids : Kind(reg, c) \in InDoubt => c \in ToVisit(reg)
    BY DEF InDoubt, ToVisit, Entries, Kind, Resolved
  <2>2. Phases'
    BY <1>1, <1>4, <2>1 DEF ReadAccount, Phases, Kind
  <2> QED BY <1>4, <2>2, QuietOutcome DEF ReadAccount
<1>5. CASE ReadFails \/ LookupFails
  <2>1. Phases'
    BY <1>1, <1>5 DEF ReadFails, LookupFails, Phases
  <2> QED BY <1>5, <2>1, QuietOutcome DEF ReadFails, LookupFails
<1>6. CASE FinishReconcile
  <2>1. Phases'
    BY <1>1, <1>6 DEF FinishReconcile, Phases, NoDoubt, Kind
  <2> QED BY <1>6, <2>1, QuietOutcome DEF FinishReconcile
<1>7. CASE FailReconcile /\ ctx # "boot"
  <2>1. Phases'
    BY <1>1, <1>7 DEF FailReconcile, Phases
  <2> QED BY <1>7, <2>1, QuietOutcome DEF FailReconcile
<1>8. CASE ReplyAccepted
  <2>1. Phases'
    BY <1>1, <1>8 DEF ReplyAccepted, Phases, NoDoubt, Kind
  <2> QED BY <1>8, <2>1, QuietOutcome DEF ReplyAccepted
<1> QED BY <1>2, <1>3, <1>4, <1>5, <1>6, <1>7, <1>8 DEF QuietActions

\* The process stops, or starts from the file.
LEMMA HaltOutcome ==
  ASSUME IInv, OutcomeInv, Halt, UNCHANGED << disk, now, exchange, sent >>
  PROVE  OutcomeInv'
<1>1. World'
  BY WorldKept DEF OutcomeInv, exchange
<1>2. Phases'
  BY DEF Halt, Phases
<1>3. \A c \in Cloids : /\ EmptyRegistry.state[c].kind = "absent"
                        /\ EmptyRegistry.confirms[c].count = 0
  BY DEF EmptyRegistry, Plain, NoConfirms
<1>4. EntriesTrue(reg)' /\ OneDoubt(reg)' /\ SettledKept'
  <2>1. \A c \in Cloids :
          Fits(c, EmptyRegistry.state[c], EmptyRegistry.confirms[c], orders[c], wire)
    BY <1>3 DEF Fits, Resolved
  <2> QED BY <1>3, <2>1 DEF Halt, exchange, EntriesTrue, OneDoubt, Kind, InDoubt, SettledKept
<1>5. EntriesTrue(disk)' /\ OneDoubt(disk)' /\ NotFoundGone(disk)'
  BY DEF OutcomeInv, Records, EntriesTrue, NotFoundGone, Gone, OneDoubt, Kind, exchange
<1>6. NotFoundGone(reg)'
  BY <1>3 DEF Halt, NotFoundGone, Kind
<1> QED BY <1>1, <1>2, <1>4, <1>5, <1>6 DEF OutcomeInv, Records

LEMMA BootOutcome ==
  ASSUME IInv, OutcomeInv, Boot
  PROVE  OutcomeInv'
<1>1. World'
  BY WorldKept DEF OutcomeInv, Boot, exchange
<1>2. Phases'
  BY DEF Boot, Phases
<1>3. Records'
  BY DEF OutcomeInv, Records, Boot, EntriesTrue, NotFoundGone, Gone, OneDoubt, Kind,
         exchange, SettledKept
<1> QED BY <1>1, <1>2, <1>3 DEF OutcomeInv

-----------------------------------------------------------------------------
(* The exchange and the clock.                                             *)

LEMMA ExchangeRecords ==
  ASSUME Records, UNCHANGED << reg, disk, pc >>,
         \A c \in Cloids, s \in SubmissionState, k \in [ count : Nat, last : Nat ] :
            Fits(c, s, k, orders[c], wire) => Fits(c, s, k, orders'[c], wire'),
         \A c \in Cloids : Gone(c) => Gone(c)',
         TypeOK
  PROVE  Records'
<1>1. \A r \in Registry : \A c \in Cloids :
        r.state[c] \in SubmissionState /\ r.confirms[c] \in [ count : Nat, last : Nat ]
  BY DEF Registry
<1>2. EntriesTrue(reg)' /\ EntriesTrue(disk)'
  BY <1>1 DEF TypeOK, Records, EntriesTrue
<1>3. NotFoundGone(reg)' /\ NotFoundGone(disk)'
  BY DEF Records, NotFoundGone, Kind
<1> QED BY <1>2, <1>3 DEF Records, OneDoubt, SettledKept, Kind

LEMMA ExecuteOutcome ==
  ASSUME IInv, OutcomeInv, NEW q \in wire, Execute(q)
  PROVE  OutcomeInv'
<1>1. /\ Records /\ WireTrue /\ OrdersTrue /\ Phases /\ TypeOK
      /\ q.cloid \in Cloids /\ orders \in [ Cloids -> Order ]
  BY DEF OutcomeInv, World, IInv, TypeOK, Request
<1>2. PICK s \in { "open", "filled", "cancelled", "rejected" }, f \in 0..Lot :
        /\ s = "rejected" => f = 0
        /\ orders' = [ orders EXCEPT ![q.cloid] = [ status |-> s, filled |-> f ] ]
  BY DEF Execute
<1>3. /\ wire' = wire \ { q } /\ UNCHANGED << reg, disk, pc, reconciled, todo, stamp, now, sent >>
  BY DEF Execute, memory
<1>4. /\ orders'[q.cloid] = [ status |-> s, filled |-> f ]
      /\ \A c \in Cloids : c # q.cloid => orders'[c] = orders[c]
  BY <1>1, <1>2
<1>5. Records'
  <2>1. ASSUME NEW c \in Cloids, NEW t \in SubmissionState,
               NEW k \in [ count : Nat, last : Nat ], Fits(c, t, k, orders[c], wire)
        PROVE  Fits(c, t, k, orders'[c], wire')
    <3>1. wire' \subseteq wire
      BY <1>3
    <3>2. CASE c = q.cloid
      BY <1>1, <2>1, <3>1, <3>2, FitsExecuted DEF WireTrue
    <3>3. CASE c # q.cloid
      BY <1>4, <2>1, <3>1, <3>3, FitsFewer
    <3> QED BY <3>2, <3>3
  <2>2. ASSUME NEW c \in Cloids, Gone(c) PROVE Gone(c)'
    <3>1. late \subseteq late' /\ (now - q.at >= Span => q.cloid \in late')
      BY DEF Execute
    <3>2. /\ orders'[c].status # "none" => c \in late'
      BY <1>4, <2>2, <3>1 DEF Gone
    <3> QED BY <1>3, <2>2, <3>2 DEF Gone, Span
  <2> QED BY <1>1, <1>3, <2>1, <2>2, ExchangeRecords
<1>6. WireTrue'
  <2>1. ASSUME NEW p \in wire' PROVE p \in wire /\ p.cloid # q.cloid /\ p.cloid \in Cloids
    BY <1>1, <1>3 DEF WireTrue, TypeOK, Request
  <2> QED BY <1>1, <1>3, <1>4, <2>1 DEF WireTrue
<1>7. OrdersTrue'
  BY <1>1, <1>2, <1>3, <1>4 DEF OrdersTrue, WireTrue
<1>8. Phases'
  BY <1>1, <1>3 DEF Phases, NoDoubt, Kind
<1> QED BY <1>5, <1>6, <1>7, <1>8 DEF OutcomeInv, World

LEMMA LoseOutcome ==
  ASSUME IInv, OutcomeInv, NEW q \in wire, Lose(q)
  PROVE  OutcomeInv'
<1>1. /\ Records /\ WireTrue /\ OrdersTrue /\ Phases /\ TypeOK
  BY DEF OutcomeInv, World, IInv
<1>2. /\ wire' \subseteq wire
      /\ UNCHANGED << reg, disk, pc, reconciled, todo, stamp, now, sent, orders, late >>
  BY DEF Lose, memory
<1>3. Records'
  <2>1. \A c \in Cloids : Gone(c) => Gone(c)'
    BY <1>2 DEF Gone, Span
  <2> QED BY <1>1, <1>2, <2>1, FitsFewer, ExchangeRecords
<1>4. WireTrue' /\ OrdersTrue' /\ Phases'
  BY <1>1, <1>2 DEF WireTrue, OrdersTrue, Phases, NoDoubt, Kind
<1> QED BY <1>3, <1>4 DEF OutcomeInv, World

LEMMA ProgressOutcome ==
  ASSUME IInv, OutcomeInv, NEW c \in Cloids, Progress(c)
  PROVE  OutcomeInv'
<1>1. /\ Records /\ WireTrue /\ OrdersTrue /\ Phases /\ TypeOK
      /\ orders \in [ Cloids -> Order ] /\ wire \subseteq Request
  BY DEF OutcomeInv, World, IInv, TypeOK
<1>2. UNCHANGED << reg, disk, pc, reconciled, todo, stamp, now, sent, wire, late >>
  BY DEF Progress, memory
<1>3. /\ orders[c].status = "open" /\ orders[c].filled \in Nat
      /\ orders'[c].status \in { "open", "filled", "cancelled" }
      /\ orders'[c].filled \in Nat /\ orders[c].filled <= orders'[c].filled
      /\ \A d \in Cloids : d # c => orders'[d] = orders[d]
  <2>1. orders[c].status = "open" /\ orders[c] \in Order /\ orders[c].filled \in Nat
    BY <1>1 DEF Progress, Order
  <2>2. CASE orders' = [ orders EXCEPT ![c].status = "cancelled" ]
    BY <1>1, <2>1, <2>2 DEF Order
  <2>3. CASE orders' = [ orders EXCEPT ![c] =
              [ status |-> IF orders[c].filled + 1 = Lot THEN "filled" ELSE "open",
                filled |-> orders[c].filled + 1 ] ]
    BY <1>1, <2>1, <2>3
  <2> QED BY <2>1, <2>2, <2>3 DEF Progress
<1>4. Records'
  <2>1. ASSUME NEW d \in Cloids, NEW t \in SubmissionState,
               NEW k \in [ count : Nat, last : Nat ], Fits(d, t, k, orders[d], wire)
        PROVE  Fits(d, t, k, orders'[d], wire')
    <3>1. t.filled \in Nat
      BY BoundsAssumption DEF SubmissionState
    <3>2. CASE d = c
      BY <1>2, <1>3, <2>1, <3>1, <3>2, FitsProgress
    <3>3. CASE d # c
      BY <1>2, <1>3, <2>1, <3>3
    <3> QED BY <3>2, <3>3
  <2>2. ASSUME NEW d \in Cloids, Gone(d) PROVE Gone(d)'
    <3>1. orders'[d].status # "none" => orders[d].status # "none"
      BY <1>3
    <3> QED BY <1>2, <2>2, <3>1 DEF Gone, Span
  <2> QED BY <1>1, <1>2, <2>1, <2>2, ExchangeRecords
<1>5. WireTrue'
  <2>1. \A q \in wire : q.cloid \in Cloids /\ q.cloid # c
    BY <1>1, <1>3 DEF WireTrue, Request
  <2> QED BY <1>1, <1>2, <1>3, <2>1 DEF WireTrue
<1>6. OrdersTrue' /\ Phases'
  BY <1>1, <1>2, <1>3 DEF OrdersTrue, Phases, NoDoubt, Kind
<1> QED BY <1>4, <1>5, <1>6 DEF OutcomeInv, World

LEMMA TickOutcome ==
  ASSUME IInv, OutcomeInv, Tick
  PROVE  OutcomeInv'
<1>1. /\ Records /\ WireTrue /\ OrdersTrue /\ Phases
      /\ now \in Nat /\ stamp \in Nat /\ wire \subseteq Request
  BY DEF OutcomeInv, World, IInv, TypeOK
<1>2. /\ UNCHANGED << reg, disk, pc, reconciled, todo, stamp, wire, orders, late, sent >>
      /\ now' = now + 1 /\ \A q \in wire : now - q.at < MaxDelay
  BY DEF Tick, memory, exchange
<1>3. Records'
  <2>1. Span \in Int /\ \A q \in wire : q.at \in Nat
    BY <1>1, SignerAssumption DEF Request, Span
  <2>2. \A c \in Cloids : Gone(c) => Gone(c)'
    BY <1>1, <1>2, <2>1 DEF Gone, Span
  <2>3. NotFoundGone(reg)' /\ NotFoundGone(disk)'
    BY <1>1, <1>2, <2>2 DEF Records, NotFoundGone, Kind
  <2> QED BY <1>1, <1>2, <2>3 DEF Records, EntriesTrue, OneDoubt, SettledKept, Kind
<1>4. WireTrue'
  <2>1. \A q \in wire : q.at \in Nat
    BY <1>1 DEF Request
  <2> QED BY <1>1, <1>2, <2>1, SignerAssumption DEF WireTrue
<1>5. OrdersTrue' /\ Phases'
  BY <1>1, <1>2 DEF OrdersTrue, Phases, NoDoubt, Kind
<1> QED BY <1>3, <1>4, <1>5 DEF OutcomeInv, World
-----------------------------------------------------------------------------
(* The steps of a submission.                                              *)

\* What a write leaves behind, when it rewrites one entry of memory.
LEMMA StoreOutcome ==
  ASSUME IInv, OutcomeInv, pc # "down", NEW r, NEW done, NEW failed,
         Store(r, done, failed), UNCHANGED << exchange, now, sent >>,
         NEW c \in Cloids, Kind(reg, c) \notin Resolved,
         NEW s, NEW k, Rewritten(reg, c, s, k, r), Fits(c, s, k, orders[c], wire),
         s.kind = "reconciled_not_found" => Gone(c),
         s.kind \in InDoubt => Kind(reg, c) \in InDoubt \/ NoDoubt(reg),
         Phases'
  PROVE  OutcomeInv' /\ FileKeepsSettled
<1>1. TypeOK /\ Records /\ World
  BY DEF IInv, OutcomeInv
<1>2. Records' /\ FileKeepsSettled
  BY <1>1, StoreRecords DEF exchange
<1>3. World'
  BY <1>1, WorldKept DEF exchange
<1> QED BY <1>2, <1>3 DEF OutcomeInv

\* A transition rewrites one entry.
LEMMA TransitionRewrites ==
  ASSUME NEW r, NEW h, Good(r, h), NEW c \in Cloids, Kind(r, c) # "absent",
         NEW next \in SubmissionState
  PROVE  Rewritten(r, c, next, ConfirmsAfter(r, c, next), Transition(r, c, next))
<1>1. r \in Registry /\ r.intent[c] \in Intents
  BY DEF Good
<1> QED BY <1>1, TransitionEffect DEF Rewritten

\* A step towards the submission fits whatever the order is: there are no
\* confirmations.
LEMMA FitsBefore ==
  ASSUME NEW c, NEW s, NEW k, NEW o, NEW w,
         s.kind \in { "authorized", "authorized_not_submitted", "nonce_allocated",
                      "signed", "submission_started" },
         k.count = 0
  PROVE  Fits(c, s, k, o, w) /\ s.kind \notin Resolved
BY DEF Fits, Resolved

\* The confirmations of an entry that was not submitted or not answered.
LEMMA NoConfirmsBefore ==
  ASSUME TypeOK, EntriesTrue(reg), NEW c \in Cloids,
         Kind(reg, c) \in BeforeSubmission \cup { "submission_started" },
         NEW s, s.kind \notin Resolved
  PROVE  /\ reg.confirms[c].count = 0 /\ ConfirmsAfter(reg, c, s).count = 0
         /\ Kind(reg, c) \notin Resolved
BY DEF EntriesTrue, Fits, ConfirmsAfter, Kind, BeforeSubmission, Resolved

LEMMA AuthorizeOutcome ==
  ASSUME IInv, OutcomeInv, NEW i \in Intents, Authorize(i)
  PROVE  OutcomeInv' /\ FileKeepsSettled
<1> DEFINE c == CloidOf[i]
           r == Authorized(i)
           s == Plain("authorized")
<1>1. /\ pc = "idle" /\ pc # "down" /\ MayAuthorize(i) /\ Store(r, "accepted", "idle")
      /\ UNCHANGED << exchange, now, sent, reconciled >>
  BY DEF Authorize
<1>2. /\ TypeOK /\ Good(reg, sent) /\ c \in Cloids /\ reg \in Registry
      /\ EntriesTrue(reg) /\ Phases
  BY <1>1, Running DEF Cloids, OutcomeInv, Records
<1>3. s \in SubmissionState /\ s.kind = "authorized"
  BY StateTypes, BoundsAssumption DEF Kinds, BeforeSubmission
<1>4. \E k : /\ Rewritten(reg, c, s, k, r) /\ Fits(c, s, k, orders[c], wire)
             /\ Kind(reg, c) \notin Resolved
  <2>1. CASE Known(i)
    <3>1. Kind(reg, c) = "authorized_not_submitted"
      BY <1>1, <2>1 DEF MayAuthorize, Known, CanRegister
    <3>2. r = Transition(reg, c, s)
      BY <2>1 DEF Authorized
    <3> HIDE DEF s, c, r
    <3>3. Rewritten(reg, c, s, ConfirmsAfter(reg, c, s), r)
      BY <1>2, <1>3, <3>1, <3>2, TransitionRewrites
    <3>4. ConfirmsAfter(reg, c, s).count = 0 /\ Kind(reg, c) \notin Resolved
      BY <1>2, <1>3, <3>1, NoConfirmsBefore DEF BeforeSubmission, Resolved
    <3> QED BY <1>3, <3>3, <3>4, FitsBefore
  <2>2. CASE ~Known(i)
    <3>1. r = Register(reg, i) /\ Kind(reg, c) = "absent"
      BY <2>2 DEF Authorized, Known
    <3> HIDE DEF r
    <3>2. r.state = [ reg.state EXCEPT ![c] = s ] /\ r.confirms = reg.confirms
      <4>1. LET t == Register(reg, i)
            IN  t.state = [ reg.state EXCEPT ![c] = s ] /\ t.confirms = reg.confirms
        BY <1>2, RegisterEffect, Zenon
      <4> QED BY <3>1, <4>1
    <3> HIDE DEF s, c
    <3>3. Rewritten(reg, c, s, reg.confirms[c], r)
      BY <1>2, <3>2 DEF Rewritten, ConfirmsChange, Registry
    <3>4. reg.confirms[c].count = 0 /\ Kind(reg, c) \notin Resolved
      BY <1>2, <1>3, <3>1, NoConfirmsBefore DEF BeforeSubmission, Resolved
    <3> QED BY <1>3, <3>3, <3>4, FitsBefore
  <2> QED BY <2>1, <2>2
<1> HIDE DEF r, s, c
<1>5. PICK k : /\ Rewritten(reg, c, s, k, r) /\ Fits(c, s, k, orders[c], wire)
               /\ Kind(reg, c) \notin Resolved
  BY <1>4
<1>6. Phases'
  <2>1. reg' = r /\ pc' \in { "accepted", "idle" } /\ reconciled
    BY <1>1 DEF Store, MayAuthorize
  <2>2. NoDoubt(r)
    BY <1>1, <1>2, <1>3, <1>5, <2>1, RewrittenEntries DEF Phases, NoDoubt, InDoubt
  <2> QED BY <1>1, <2>1, <2>2 DEF Phases, NoDoubt, Kind
<1> QED BY <1>1, <1>2, <1>3, <1>5, <1>6, StoreOutcome DEF InDoubt

\* From an authorized entry to a signed one, and the mark that it starts.
LEMMA PrepareOutcome ==
  ASSUME IInv, OutcomeInv, pc \in { "submit", "nonce", "signed" }, NEW s \in SubmissionState,
         s.kind \in { "nonce_allocated", "signed", "submission_started" },
         NEW done \in { "nonce", "signed", "started" },
         s.kind = "submission_started" <=> done = "started",
         Store(Transition(reg, curCloid, s), done, "reconcile"),
         UNCHANGED << exchange, now, sent >>,
         reconciled' = IF pc' = "started" THEN FALSE ELSE reconciled
  PROVE  OutcomeInv' /\ FileKeepsSettled
<1> DEFINE c == curCloid
           r == Transition(reg, c, s)
           k == ConfirmsAfter(reg, c, s)
<1>1. /\ TypeOK /\ Good(reg, sent) /\ pc # "down" /\ c \in Cloids
      /\ reg \in Registry /\ EntriesTrue(reg) /\ Phases /\ Kind(reg, c) # "absent"
  BY Running, Current DEF Submitting, OutcomeInv, Records
<1>2. Kind(reg, c) \in { "authorized", "nonce_allocated", "signed" }
  BY DEF IInv, Progressing
<1>3. Rewritten(reg, c, s, k, r)
  BY <1>1, TransitionRewrites
<1>4. k.count = 0 /\ Kind(reg, c) \notin Resolved
  BY <1>1, <1>2, NoConfirmsBefore DEF BeforeSubmission, Resolved
<1>5. Fits(c, s, k, orders[c], wire)
  BY <1>4, FitsBefore
<1>6. reconciled /\ NoDoubt(reg)
  BY <1>1 DEF Phases
<1> HIDE DEF r, k
<1>7. Phases'
  <2>1. /\ reg' = r /\ pc' \in { done, "reconcile" }
    BY DEF Store, r
  <2>2. s.kind # "submission_started" => NoDoubt(r)
    BY <1>1, <1>3, <1>6, RewrittenEntries DEF NoDoubt, InDoubt
  <2> QED BY <1>6, <2>1, <2>2 DEF Phases, NoDoubt, Kind
<1>8. Store(r, done, "reconcile")
  BY DEF r
<1> HIDE DEF c
<1> QED BY <1>1, <1>3, <1>4, <1>5, <1>6, <1>7, <1>8, StoreOutcome

LEMMA AllocateNonceOutcome ==
  ASSUME IInv, OutcomeInv, AllocateNonce
  PROVE  OutcomeInv' /\ FileKeepsSettled
<1>1. PICK m \in Millis :
        LET nonce == IF m > nonceNext THEN m ELSE nonceNext
        IN  Store(Transition(reg, curCloid, WithNonce("nonce_allocated", nonce)),
                  "nonce", "reconcile")
  BY DEF AllocateNonce
<1> DEFINE nonce == IF m > nonceNext THEN m ELSE nonceNext
           s == WithNonce("nonce_allocated", nonce)
<1>2. nonce \in Nat
  BY SignerAssumption DEF IInv, TypeOK
<1>3. Store(Transition(reg, curCloid, s), "nonce", "reconcile")
  BY <1>1
<1>4. s \in SubmissionState /\ s.kind = "nonce_allocated"
  BY <1>2, StateTypes, BoundsAssumption DEF Kinds, BeforeSubmission
<1> HIDE DEF s
<1>5. pc = "submit" /\ pc' \in { "nonce", "reconcile" }
      /\ UNCHANGED << exchange, now, sent, reconciled >>
  BY <1>3 DEF AllocateNonce, Store
<1> QED BY <1>3, <1>4, <1>5, PrepareOutcome

LEMMA SignOutcome ==
  ASSUME IInv, OutcomeInv, Sign
  PROVE  OutcomeInv' /\ FileKeepsSettled
<1> DEFINE s == WithNonce("signed", reg.state[curCloid].nonce)
<1>1. pc = "nonce" /\ UNCHANGED << exchange, now, sent, reconciled >>
  BY DEF Sign
<1>2. CASE Store(Transition(reg, curCloid, s), "signed", "reconcile")
  <2>1. reg.state[curCloid].nonce \in Nat
    BY <1>1, Running, Current DEF Submitting
  <2>2. s \in SubmissionState /\ s.kind = "signed"
    BY <2>1, StateTypes, BoundsAssumption DEF Kinds, BeforeSubmission
  <2> HIDE DEF s
  <2>3. pc' \in { "signed", "reconcile" }
    BY <1>2 DEF Store
  <2> QED BY <1>1, <1>2, <2>2, <2>3, PrepareOutcome
<1>3. CASE pc' = "reconcile" /\ UNCHANGED << reg, disk >>
  <2>1. Phases'
    BY <1>3 DEF Phases
  <2> QED BY <1>1, <1>3, <2>1, QuietOutcome DEF exchange, FileKeepsSettled
<1> QED BY <1>2, <1>3 DEF Sign

LEMMA MarkStartedOutcome ==
  ASSUME IInv, OutcomeInv, MarkStarted
  PROVE  OutcomeInv' /\ FileKeepsSettled
<1> DEFINE s == WithNonce("submission_started", reg.state[curCloid].nonce)
<1>1. /\ pc = "signed" /\ UNCHANGED << exchange, now, sent >>
      /\ Store(Transition(reg, curCloid, s), "started", "reconcile")
      /\ reconciled' = IF pc' = "started" THEN FALSE ELSE reconciled
  BY DEF MarkStarted
<1>2. reg.state[curCloid].nonce \in Nat
  BY <1>1, Running, Current DEF Submitting
<1>3. s \in SubmissionState /\ s.kind = "submission_started"
  <2>1. "submission_started" \in Kinds /\ 0 \in 0..Lot
    BY BoundsAssumption DEF Kinds, InDoubt
  <2> QED BY <1>2, <2>1, StateTypes
<1> HIDE DEF s
<1> QED BY <1>1, <1>3, PrepareOutcome

\* The request leaves: its CLOID was never sent, so the exchange has no order
\* and the network no request of it.
LEMMA SendOutcome ==
  ASSUME IInv, OutcomeInv, Send
  PROVE  OutcomeInv'
<1> DEFINE c == curCloid
           request == [ cloid |-> c, nonce |-> reg.state[c].nonce, at |-> now ]
<1>1. /\ pc = "started" /\ pc' = "await" /\ wire' = wire \cup { request }
      /\ sent' = Append(sent, [ cloid |-> c, nonce |-> reg.state[c].nonce ])
      /\ UNCHANGED << reg, disk, reconciled, now, orders, late >>
  BY DEF Send
<1>2. /\ pc # "down" /\ c \in Cloids /\ TypeOK /\ Records /\ WireTrue /\ OrdersTrue
      /\ Phases /\ now \in Nat /\ sent \in Requests /\ reg.state[c].nonce \in Nat
  BY <1>1, Running, Current DEF Submitting, OutcomeInv, World, TypeOK
<1>3. /\ Kind(reg, c) = "submission_started" /\ disk = reg
      /\ \A n \in DOMAIN sent : sent[n].cloid # c
  BY <1>1 DEF IInv, Progressing
<1>4. /\ orders[c].status = "none" /\ \A q \in wire : q.cloid # c
  BY <1>2, <1>3 DEF WireTrue, OrdersTrue
<1>5. request.cloid = c /\ request.at = now
  OBVIOUS
<1>6. /\ DOMAIN sent \subseteq DOMAIN sent'
      /\ \A n \in DOMAIN sent : sent'[n] = sent[n]
      /\ \E n \in DOMAIN sent' : sent'[n].cloid = c
  <2> DEFINE entry == [ cloid |-> c, nonce |-> reg.state[c].nonce ]
  <2>1. /\ sent \in Seq([ cloid : Cloids, nonce : Nat ])
        /\ entry \in [ cloid : Cloids, nonce : Nat ] /\ entry.cloid = c
    BY <1>2 DEF Requests
  <2> HIDE DEF entry
  <2>2. sent' = Append(sent, entry)
    BY <1>1 DEF entry
  <2>3. /\ Len(sent) \in Nat /\ DOMAIN sent = 1..Len(sent)
        /\ DOMAIN sent' = 1..(Len(sent) + 1)
        /\ \A n \in DOMAIN sent : sent'[n] = sent[n]
        /\ sent'[Len(sent) + 1] = entry
    BY <2>1, <2>2, AppendProperties
  <2>4. Len(sent) + 1 \in DOMAIN sent'
    BY <2>3
  <2> QED BY <2>1, <2>3, <2>4
<1> HIDE DEF request, c
<1>7. \A d \in Cloids : Fits(d, reg.state[d], reg.confirms[d], orders[d], wire')
  <2> TAKE d \in Cloids
  <2>1. Fits(d, reg.state[d], reg.confirms[d], orders[d], wire)
    BY <1>2 DEF Records, EntriesTrue
  <2>2. CASE d = c
    <3>1. reg.state[d].kind = "submission_started" /\ reg.confirms[d].count = 0
      BY <1>3, <2>1, <2>2 DEF Fits, Kind
    <3> QED BY <3>1, FitsBefore
  <2>3. CASE d # c
    BY <1>1, <1>5, <2>1, <2>3 DEF Fits
  <2> QED BY <2>2, <2>3
<1>8. NotFoundGone(reg)' /\ NotFoundGone(disk)'
  <2>1. ASSUME NEW d \in Cloids, Kind(reg, d) = "reconciled_not_found" PROVE Gone(d)'
    <3>1. Gone(d) /\ d # c
      BY <1>2, <1>3, <2>1 DEF Records, NotFoundGone
    <3> QED BY <1>1, <1>5, <3>1 DEF Gone, Span
  <2> QED BY <1>1, <1>3, <2>1 DEF NotFoundGone, Kind
<1>12. Records'
  BY <1>1, <1>2, <1>3, <1>7, <1>8 DEF Records, EntriesTrue, OneDoubt, SettledKept, Kind
<1>9. WireTrue'
  BY <1>1, <1>2, <1>4, <1>5, <1>6, SignerAssumption DEF WireTrue
<1>10. OrdersTrue'
  BY <1>1, <1>2, <1>6 DEF OrdersTrue
<1>11. Phases'
  BY <1>1, <1>2 DEF Phases
<1> QED BY <1>9, <1>10, <1>11, <1>12 DEF OutcomeInv, World
-----------------------------------------------------------------------------
(* What is learnt of an order.                                             *)

\* The fields of the states that are reported.
LEMMA StateFields ==
  ASSUME NEW kind, NEW nonce, NEW order, NEW filled
  PROVE  /\ Plain(kind).kind = kind /\ Plain(kind).nonce = 0
         /\ Plain(kind).order = "none" /\ Plain(kind).filled = 0
         /\ WithNonce(kind, nonce).kind = kind /\ WithNonce(kind, nonce).order = "none"
         /\ WithOrder(kind, order, filled).kind = kind
         /\ WithOrder(kind, order, filled).nonce = 0
         /\ WithOrder(kind, order, filled).order = order
         /\ WithOrder(kind, order, filled).filled = filled
         /\ WithOrder(kind, order, filled)
            = [ kind |-> kind, nonce |-> 0, order |-> order, filled |-> filled ]
<1>1. Plain(kind) = [ kind |-> kind, nonce |-> 0, order |-> "none", filled |-> 0 ]
  BY DEF Plain
<1>2. WithNonce(kind, nonce)
      = [ kind |-> kind, nonce |-> nonce, order |-> "none", filled |-> 0 ]
  BY <1>1 DEF WithNonce
<1>3. WithOrder(kind, order, filled)
      = [ kind |-> kind, nonce |-> 0, order |-> order, filled |-> filled ]
  <2> DEFINE p == [ kind |-> kind, nonce |-> 0, order |-> order, filled |-> 0 ]
  <2>1. p = [ Plain(kind) EXCEPT !.order = order ]
    BY <1>1
  <2>2. [ p EXCEPT !.filled = filled ]
        = [ kind |-> kind, nonce |-> 0, order |-> order, filled |-> filled ]
    OBVIOUS
  <2> HIDE DEF p
  <2> QED BY <2>1, <2>2 DEF WithOrder
<1> QED BY <1>1, <1>2, <1>3

\* The answer to a submission is true of the order.
LEMMA OutcomeFits ==
  ASSUME TypeOK, World, NEW c \in Cloids, NEW s \in Outcomes(c),
         NEW k, k.count = 0
  PROVE  /\ Fits(c, s, k, orders[c], wire)
         /\ s.kind \in { "unknown_result", "acknowledged", "filled", "rejected" }
<1> DEFINE o == orders[c]
<1>1. orders \in [ Cloids -> Order ] /\ o \in Order
  BY DEF TypeOK
<1>2. o.status \in { "none", "rejected" } => o.filled = 0
  BY DEF World, OrdersTrue
<1>3. o.status # "none" => ~InFlight(c)
  BY FitsNoWire DEF InFlight
<1>4. ~InFlight(c) => \A q \in wire : q.cloid # c
  BY DEF InFlight
<1>5. CASE s = WithNonce("unknown_result", reg.state[c].nonce)
  <2>1. s.kind = "unknown_result" /\ s.order = "none"
    BY <1>5, StateFields
  <2> QED BY <2>1 DEF Fits, Resolved, BeforeSubmission
<1>6. CASE s = WithOrder("acknowledged", "cloid", 0)
  <2>1. s.kind = "acknowledged" /\ s.order = "cloid" /\ s.filled = 0 /\ s.nonce = 0
    BY <1>6, StateFields
  <2> QED BY <2>1 DEF Fits, Resolved, BeforeSubmission
<1>7. CASE /\ s = WithOrder("filled", "exchange", o.filled)
           /\ o.status \in { "filled", "cancelled" }
  <2>1. s.kind = "filled" /\ s.filled = o.filled
    BY <1>7, StateFields
  <2> QED BY <1>3, <1>4, <1>7, <2>1 DEF Fits, Resolved, BeforeSubmission
<1>8. CASE /\ s = Plain("rejected")
           /\ \/ o.status = "none" /\ ~InFlight(c)
              \/ o.status = "rejected"
              \/ o.status = "cancelled" /\ o.filled = 0
  <2>1. s.kind = "rejected"
    BY <1>8, StateFields
  <2>2. o.filled = 0 /\ o.status # "open" /\ ~InFlight(c)
    BY <1>2, <1>3, <1>8
  <2> QED BY <1>4, <2>1, <2>2 DEF Fits, Resolved, BeforeSubmission
<1>9. \/ s = WithNonce("unknown_result", reg.state[c].nonce)
      \/ s = WithOrder("acknowledged", "cloid", 0)
      \/ /\ s = WithOrder("filled", "exchange", o.filled)
         /\ o.status \in { "filled", "cancelled" }
      \/ /\ s = Plain("rejected")
         /\ \/ o.status = "none" /\ ~InFlight(c)
            \/ o.status = "rejected"
            \/ o.status = "cancelled" /\ o.filled = 0
  BY DEF Outcomes
<1> QED BY <1>5, <1>6, <1>7, <1>8, <1>9

LEMMA RespondOutcome ==
  ASSUME IInv, OutcomeInv, Respond
  PROVE  OutcomeInv' /\ FileKeepsSettled
<1> DEFINE c == curCloid
<1>1. pc = "await" /\ UNCHANGED << exchange, now, sent, reconciled >>
  BY DEF Respond
<1>2. PICK s \in Outcomes(c) : Store(Transition(reg, c, s), "reconcile", "reconcile")
  BY DEF Respond
<1>3. /\ TypeOK /\ World /\ EntriesTrue(reg) /\ Good(reg, sent) /\ pc # "down"
      /\ c \in Cloids /\ reg \in Registry /\ reg.state[c].nonce \in Nat
      /\ orders \in [ Cloids -> Order ]
  BY <1>1, Running, Current DEF Submitting, OutcomeInv, Records, TypeOK
<1>4. Kind(reg, c) = "submission_started"
  BY <1>1 DEF IInv, Progressing
<1>5. s \in SubmissionState
  BY <1>3, OutcomeType DEF AfterSubmission
<1> DEFINE k == ConfirmsAfter(reg, c, s)
<1>6. Rewritten(reg, c, s, k, Transition(reg, c, s))
  BY <1>3, <1>4, <1>5, TransitionRewrites
<1>7. k.count = 0
  <2>1. reg.confirms[c].count = 0
    BY <1>3, <1>4 DEF EntriesTrue, Fits, Kind
  <2> QED BY <2>1 DEF ConfirmsAfter, NoConfirms
<1> HIDE DEF k
<1>8. Fits(c, s, k, orders[c], wire)
  BY <1>3, <1>7, OutcomeFits
<1>11. s.kind # "reconciled_not_found"
  BY <1>3, <1>7, OutcomeFits
<1>9. Phases'
  BY <1>2 DEF Store, Phases
<1>10. Kind(reg, c) \notin Resolved /\ Kind(reg, c) \in InDoubt
  BY <1>4 DEF Resolved, InDoubt
<1> HIDE DEF c
<1> QED BY <1>1, <1>2, <1>3, <1>5, <1>6, <1>8, <1>9, <1>10, <1>11, StoreOutcome

\* The report of an order the exchange knows is true, and it settles nothing
\* that is in flight.
LEMMA ObservedFits ==
  ASSUME TypeOK, World, NEW c \in Cloids, orders[c].status # "none",
         NEW k
  PROVE  /\ Fits(c, Observed(c), k, orders[c], wire)
         /\ Observed(c).kind \in Working \cup { "filled", "cancelled", "rejected" }
<1> DEFINE o == orders[c]
           s == Observed(c)
<1>1. /\ o.status \in { "open", "filled", "cancelled", "rejected" } /\ o.filled \in Nat
      /\ o.filled >= 0
  BY BoundsAssumption DEF TypeOK, Order
<1>2. o.status = "rejected" => o.filled = 0
  BY DEF World, OrdersTrue
<1>3. \A q \in wire : q.cloid # c
  BY FitsNoWire
<1>4. CASE o.status = "open" /\ o.filled = 0
  <2>1. s = WithOrder("acknowledged", "exchange", 0)
    BY <1>4 DEF Observed
  <2>2. s.kind = "acknowledged" /\ s.order = "exchange" /\ s.filled = 0 /\ s.nonce = 0
    BY <2>1, StateFields
  <2> QED BY <1>3, <2>2 DEF Fits, Resolved, BeforeSubmission, Working
<1>5. CASE o.status = "open" /\ o.filled > 0
  <2>1. s = WithOrder("partially_filled", "exchange", o.filled)
    BY <1>1, <1>5 DEF Observed
  <2>2. s.kind = "partially_filled" /\ s.order = "exchange" /\ s.filled = o.filled
    BY <2>1, StateFields
  <2> QED BY <1>1, <1>3, <1>5, <2>2 DEF Fits, Resolved, BeforeSubmission, Working
<1>6. CASE o.status = "rejected"
  <2>1. s = Plain("rejected")
    BY <1>6 DEF Observed
  <2>2. s.kind = "rejected"
    BY <2>1, StateFields
  <2> QED BY <1>2, <1>3, <1>6, <2>2 DEF Fits, Resolved, BeforeSubmission, Working
<1>7. CASE o.status \in { "filled", "cancelled" }
  <2>1. s = WithOrder(o.status, "exchange", o.filled)
    BY <1>7 DEF Observed
  <2>2. s.kind = o.status /\ s.filled = o.filled
    BY <2>1, StateFields
  <2> QED BY <1>3, <1>7, <2>2 DEF Fits, Resolved, BeforeSubmission, Working
<1> QED BY <1>1, <1>4, <1>5, <1>6, <1>7

\* Confirmations one interval apart take their number less one of intervals.
LEMMA IntervalsAddUp ==
  ASSUME NEW n \in Nat, NEW m \in Nat, NEW start \in Nat, NEW last \in Nat, NEW at \in Nat,
         n > 0 => start + (n - 1) * m <= last /\ at >= last + m,
         n = 0 => start <= at
  PROVE  start + ((n + 1) - 1) * m <= at
<1>1. CASE n = 0
  BY <1>1
<1>2. CASE n > 0
  <2>1. (n - 1) * m + m = n * m /\ n * m \in Int /\ (n - 1) * m \in Int
    OBVIOUS
  <2>2. (n + 1) - 1 = n
    OBVIOUS
  <2> QED BY <1>2, <2>1, <2>2
<1> QED BY <1>1, <1>2

LEMMA MoreIntervals ==
  ASSUME NEW n \in Nat, NEW r \in Nat, r <= n, NEW m \in Nat
  PROVE  r * m <= n * m /\ r * m \in Int /\ n * m \in Int
<1>1. PICK e \in Nat : n = r + e
  <2>1. n - r \in Nat /\ n = r + (n - r)
    OBVIOUS
  <2> QED BY <2>1
<1>2. (r + e) * m = r * m + e * m /\ e * m >= 0 /\ e * m \in Int /\ r * m \in Int
  OBVIOUS
<1> QED BY <1>1, <1>2

\* What reconcile_unknown persists: the last confirmation comes so long after
\* the first that a request still in flight has outlived their span.
LEMMA ReconcileRewrites ==
  ASSUME IInv, OutcomeInv, pc # "down", NEW c \in Cloids, Kind(reg, c) \in LookedUp,
         NEW at \in Nat, at <= now, \A q \in wire : q.at <= at,
         MayReconcile(c, at)
  PROVE  \E s, k : /\ Rewritten(reg, c, s, k, ReconcileUnknown(c, at))
                   /\ Fits(c, s, k, orders[c], wire)
                   /\ s.kind = "reconciled_not_found" => Gone(c)
                   /\ s.kind \in InDoubt => s.kind = "unknown_result" /\ Kind(reg, c) \in InDoubt
<1> DEFINE r == ReconcileUnknown(c, at)
           k0 == reg.confirms[c]
<1>1. /\ TypeOK /\ World /\ Good(reg, sent) /\ reg \in Registry /\ now \in Nat
      /\ orders \in [ Cloids -> Order ] /\ wire \subseteq Request
      /\ Fits(c, reg.state[c], k0, orders[c], wire) /\ Kind(reg, c) # "absent"
      /\ reg.intent[c] \in Intents /\ k0 \in [ count : Nat, last : Nat ]
  BY Running DEF OutcomeInv, Records, EntriesTrue, TypeOK, LookedUp, Working, Good, Registry
<1>4. ASSUME orders[c].status = "none", NEW q \in wire, q.cloid = c
      PROVE  q.at + ((k0.count + 1) - 1) * MinInterval <= at
  <2>1. k0.count > 0 => at >= k0.last + MinInterval
    BY <1>4 DEF MayReconcile, CanConfirmNotFound
  <2>2. k0.count > 0 => q.at + (k0.count - 1) * MinInterval <= k0.last
    BY <1>1, <1>4 DEF Fits
  <2>3. /\ k0.count \in Nat /\ k0.last \in Nat /\ q.at \in Nat /\ MinInterval \in Nat
        /\ q.at <= at
    BY <1>1, SignerAssumption DEF Request
  <2> HIDE DEF k0
  <2> QED BY <2>1, <2>2, <2>3, IntervalsAddUp
<1>2. CASE orders[c].status = "none"
  <2>1. /\ Kind(reg, c) = "unknown_result"
        /\ k0.count > 0 => at >= k0.last + MinInterval
    BY <1>2 DEF MayReconcile, CanConfirmNotFound
  <2>2. ConfirmOutcome(reg, c, at, RequiredConfirmations, r)
    <3>1. r = ConfirmNotFound(reg, c, at, RequiredConfirmations)
      BY <1>2 DEF ReconcileUnknown
    <3> QED BY <1>1, <3>1, ConfirmEffect, SignerAssumption
  <2>3. \/ Rewritten(reg, c, reg.state[c], [ count |-> k0.count + 1, last |-> at ], r)
        \/ /\ k0.count + 1 >= RequiredConfirmations
           /\ Rewritten(reg, c, Plain("reconciled_not_found"), NoConfirms, r)
    <3>1. reg.state = [ reg.state EXCEPT ![c] = reg.state[c] ]
      BY <1>1 DEF Registry
    <3> QED BY <2>2, <3>1 DEF ConfirmOutcome, Rewritten, ConfirmsChange
  <2> HIDE DEF r
  <2>4. CASE Rewritten(reg, c, reg.state[c], [ count |-> k0.count + 1, last |-> at ], r)
    <3> DEFINE s == reg.state[c]
               k == [ count |-> k0.count + 1, last |-> at ]
    <3>1. s.kind = "unknown_result" /\ k.last = at /\ k.count = k0.count + 1
      BY <2>1 DEF Kind
    <3>2. \A q \in wire : q.cloid = c => q.at + (k.count - 1) * MinInterval <= k.last
      BY <1>2, <1>4, <3>1
    <3> HIDE DEF k
    <3>3. Fits(c, s, k, orders[c], wire)
      BY <1>1, <3>1, <3>2 DEF Fits, Resolved, BeforeSubmission
    <3>4. Rewritten(reg, c, s, k, r)
      BY <2>4 DEF k
    <3> HIDE DEF s
    <3> QED BY <2>1, <3>1, <3>3, <3>4 DEF InDoubt, r
  <2>5. CASE /\ k0.count + 1 >= RequiredConfirmations
             /\ Rewritten(reg, c, Plain("reconciled_not_found"), NoConfirms, r)
    <3> DEFINE s == Plain("reconciled_not_found")
    <3>1. ASSUME NEW q \in wire, q.cloid = c PROVE now - q.at >= Span
      <4>1. q.at + ((k0.count + 1) - 1) * MinInterval <= at
        BY <1>2, <1>4, <3>1
      <4>2. /\ RequiredConfirmations - 1 \in Nat /\ RequiredConfirmations - 1 <= k0.count
            /\ MinInterval \in Nat /\ k0.count \in Nat /\ q.at \in Nat
            /\ (k0.count + 1) - 1 = k0.count
        BY <1>1, <2>5, SignerAssumption DEF Request
      <4>3. Span <= k0.count * MinInterval /\ Span \in Int /\ k0.count * MinInterval \in Int
        BY <4>2, MoreIntervals DEF Span
      <4>4. q.at + k0.count * MinInterval <= at
        BY <4>1, <4>2
      <4> HIDE DEF k0
      <4> DEFINE width == k0.count * MinInterval
      <4>5. q.at + width <= at /\ Span <= width /\ width \in Int
        BY <4>3, <4>4
      <4> HIDE DEF width
      <4> QED BY <1>1, <4>2, <4>3, <4>5
    <3>2. Gone(c)
      BY <1>2, <3>1 DEF Gone
    <3>3. s.kind = "reconciled_not_found"
      BY StateFields
    <3>4. NoConfirms.count = 0
      BY DEF NoConfirms
    <3>5. Fits(c, s, NoConfirms, orders[c], wire)
      BY <1>2, <3>3, <3>4 DEF Fits, Resolved, BeforeSubmission
    <3>6. Rewritten(reg, c, s, NoConfirms, r)
      BY <2>5
    <3> HIDE DEF s
    <3> QED BY <3>2, <3>3, <3>5, <3>6 DEF InDoubt, r
  <2> QED BY <2>3, <2>4, <2>5
<1>3. CASE orders[c].status # "none"
  <2> DEFINE s == Observed(c)
             k == ConfirmsAfter(reg, c, s)
  <2>1. r = Transition(reg, c, s)
    BY <1>3 DEF ReconcileUnknown
  <2>2. s \in SubmissionState
    BY <1>1, <1>3, ObservedType DEF AfterSubmission
  <2>3. Rewritten(reg, c, s, k, r)
    BY <1>1, <2>1, <2>2, TransitionRewrites
  <2> HIDE DEF k
  <2>5. /\ Fits(c, s, k, orders[c], wire)
        /\ s.kind \in Working \cup { "filled", "cancelled", "rejected" }
    BY <1>1, <1>3, ObservedFits
  <2>6. s.kind \notin InDoubt \cup { "reconciled_not_found" }
    BY <2>5 DEF Working, InDoubt
  <2> QED BY <2>3, <2>5, <2>6
<1> QED BY <1>2, <1>3

-----------------------------------------------------------------------------
(* The steps of a reconciliation that write the registry.                  *)

LEMMA VisitNotStartedOutcome ==
  ASSUME IInv, OutcomeInv, VisitNotStarted
  PROVE  OutcomeInv' /\ FileKeepsSettled
<1> DEFINE c == Visited
           s == Plain("authorized_not_submitted")
           r == Transition(reg, c, s)
           k == ConfirmsAfter(reg, c, s)
<1>1. /\ pc = "scan" /\ pc # "down" /\ todo # {} /\ Store(r, "scan", "failed")
      /\ Kind(reg, c) \in { "authorized", "nonce_allocated", "signed" }
      /\ todo' = todo \ { c }
      /\ UNCHANGED << exchange, now, sent, reconciled, stamp >>
  BY DEF VisitNotStarted
<1>2. /\ TypeOK /\ Good(reg, sent) /\ c \in Cloids /\ reg \in Registry
      /\ EntriesTrue(reg) /\ Phases /\ Kind(reg, c) # "absent"
  BY <1>1, Running, VisitedType DEF OutcomeInv, Records
<1>3. s \in SubmissionState /\ s.kind = "authorized_not_submitted"
  <2>1. "authorized_not_submitted" \in Kinds /\ 0 \in 0..Lot
    BY BoundsAssumption DEF Kinds, BeforeSubmission
  <2> QED BY <2>1, StateTypes
<1> HIDE DEF s, c
<1>4. Rewritten(reg, c, s, k, r)
  BY <1>2, <1>3, TransitionRewrites
<1>5. k.count = 0 /\ Kind(reg, c) \notin Resolved
  BY <1>1, <1>2, <1>3, NoConfirmsBefore DEF BeforeSubmission, Resolved
<1>6. Fits(c, s, k, orders[c], wire)
  BY <1>3, <1>5, FitsBefore
<1> HIDE DEF r, k
<1>7. Phases'
  <2>1. reg' = r /\ pc' \in { "scan", "failed" } /\ wire' = wire
    BY <1>1 DEF Store, exchange
  <2>2. \A d \in Cloids : Kind(r, d) \in InDoubt => d \in todo'
    BY <1>1, <1>2, <1>3, <1>4, RewrittenEntries DEF Phases, InDoubt
  <2> QED BY <1>1, <1>2, <2>1, <2>2 DEF Phases, Kind
<1> QED BY <1>1, <1>2, <1>3, <1>4, <1>5, <1>6, <1>7, StoreOutcome DEF InDoubt

LEMMA VisitStartedOutcome ==
  ASSUME IInv, OutcomeInv, VisitStarted
  PROVE  OutcomeInv' /\ FileKeepsSettled
<1> DEFINE c == Visited
           s == WithNonce("unknown_result", reg.state[c].nonce)
           r == Transition(reg, c, s)
           k == ConfirmsAfter(reg, c, s)
<1>1. /\ pc = "scan" /\ pc # "down" /\ todo # {} /\ Store(r, "scan", "failed")
      /\ Kind(reg, c) = "submission_started"
      /\ UNCHANGED << exchange, now, sent, reconciled, stamp, todo >>
  BY DEF VisitStarted
<1>2. /\ TypeOK /\ Good(reg, sent) /\ c \in Cloids /\ reg \in Registry /\ c \in todo
      /\ EntriesTrue(reg) /\ Phases /\ Kind(reg, c) # "absent" /\ reg.state[c].nonce \in Nat
  BY <1>1, Running, VisitedType DEF OutcomeInv, Records
<1>3. s \in SubmissionState /\ s.kind = "unknown_result" /\ s.order = "none"
  <2>1. "unknown_result" \in Kinds /\ 0 \in 0..Lot
    BY BoundsAssumption DEF Kinds, InDoubt
  <2> QED BY <1>2, <2>1, StateTypes, StateFields
<1> HIDE DEF s, c
<1>4. Rewritten(reg, c, s, k, r)
  BY <1>2, <1>3, TransitionRewrites
<1>5. k.count = 0 /\ Kind(reg, c) \notin Resolved /\ Kind(reg, c) \in InDoubt
  BY <1>1, <1>2, <1>3, NoConfirmsBefore DEF BeforeSubmission, Resolved, InDoubt
<1>6. Fits(c, s, k, orders[c], wire)
  BY <1>3, <1>5 DEF Fits, Resolved, BeforeSubmission
<1> HIDE DEF r, k
<1>7. Phases'
  <2>1. reg' = r /\ pc' \in { "scan", "failed" } /\ wire' = wire
    BY <1>1 DEF Store, exchange
  <2>2. \A d \in Cloids : Kind(r, d) \in InDoubt => d \in todo
    BY <1>1, <1>2, <1>4, RewrittenEntries DEF Phases
  <2> QED BY <1>1, <1>2, <2>1, <2>2 DEF Phases, Kind
<1> QED BY <1>1, <1>2, <1>3, <1>4, <1>5, <1>6, <1>7, StoreOutcome

LEMMA VisitLookupOutcome ==
  ASSUME IInv, OutcomeInv, VisitLookup
  PROVE  OutcomeInv' /\ FileKeepsSettled
<1> DEFINE c == Visited
           r == ReconcileUnknown(c, stamp)
           done == IF Kind(r, c) = "unknown_result" THEN "failed" ELSE "scan"
<1>1. /\ pc = "scan" /\ pc # "down" /\ todo # {} /\ Store(r, done, "failed")
      /\ Kind(reg, c) \in LookedUp /\ MayReconcile(c, stamp)
      /\ todo' = todo \ { c }
      /\ UNCHANGED << exchange, now, sent, reconciled, stamp >>
  BY DEF VisitLookup
<1>2. /\ TypeOK /\ c \in Cloids /\ reg \in Registry /\ stamp \in Nat /\ Phases
      /\ stamp <= now /\ \A q \in wire : q.at <= stamp
  BY <1>1, Running, VisitedType DEF OutcomeInv, Phases, TypeOK
<1> HIDE DEF c
<1>3. PICK s, k : /\ Rewritten(reg, c, s, k, r) /\ Fits(c, s, k, orders[c], wire)
                  /\ s.kind = "reconciled_not_found" => Gone(c)
                  /\ s.kind \in InDoubt => s.kind = "unknown_result" /\ Kind(reg, c) \in InDoubt
  BY <1>1, <1>2, ReconcileRewrites
<1>4. Kind(reg, c) \notin Resolved
  BY <1>1 DEF LookedUp, Working, Resolved
<1> HIDE DEF r
<1>5. Phases'
  <2>1. /\ reg' = r /\ pc' \in { "scan", "failed" } /\ wire' = wire
        /\ pc' = "scan" => Kind(r, c) # "unknown_result"
    BY <1>1 DEF Store, exchange
  <2>2. pc' = "scan" => \A d \in Cloids : Kind(r, d) \in InDoubt => d \in todo'
    BY <1>1, <1>2, <1>3, <2>1, RewrittenEntries DEF Phases
  <2> QED BY <1>1, <1>2, <2>1, <2>2 DEF Phases, Kind
<1> HIDE DEF done
<1> QED BY <1>1, <1>2, <1>3, <1>4, <1>5, StoreOutcome

LEMMA ReconcileOutcome ==
  ASSUME IInv, OutcomeInv, NEW c \in Cloids, Reconcile(c)
  PROVE  OutcomeInv' /\ FileKeepsSettled
<1> DEFINE r == ReconcileUnknown(c, now)
<1>1. /\ pc = "idle" /\ pc # "down" /\ Store(r, "reconcile", "idle")
      /\ Kind(reg, c) \in LookedUp /\ MayReconcile(c, now)
      /\ UNCHANGED << exchange, now, sent, reconciled >>
  BY DEF Reconcile
<1>2. /\ TypeOK /\ reg \in Registry /\ now \in Nat /\ now <= now /\ Phases
      /\ \A q \in wire : q.at <= now
  BY <1>1, Running DEF OutcomeInv, World, WireTrue, TypeOK
<1>3. PICK s, k : /\ Rewritten(reg, c, s, k, r) /\ Fits(c, s, k, orders[c], wire)
                  /\ s.kind = "reconciled_not_found" => Gone(c)
                  /\ s.kind \in InDoubt => s.kind = "unknown_result" /\ Kind(reg, c) \in InDoubt
  BY <1>1, <1>2, ReconcileRewrites
<1>4. Kind(reg, c) \notin Resolved
  BY <1>1 DEF LookedUp, Working, Resolved
<1> HIDE DEF r
<1>5. Phases'
  <2>1. reg' = r /\ pc' \in { "reconcile", "idle" }
    BY <1>1 DEF Store
  <2>2. reconciled => NoDoubt(r)
    BY <1>1, <1>2, <1>3, RewrittenEntries DEF Phases, NoDoubt
  <2> QED BY <1>1, <2>1, <2>2 DEF Phases, NoDoubt, Kind
<1> QED BY <1>1, <1>2, <1>3, <1>4, <1>5, StoreOutcome

-----------------------------------------------------------------------------
(* The theorems.                                                           *)

LEMMA InitOutcome == Init => OutcomeInv
<1> SUFFICES ASSUME Init PROVE OutcomeInv
  OBVIOUS
<1>1. \A c \in Cloids : /\ EmptyRegistry.state[c].kind = "absent"
                        /\ EmptyRegistry.confirms[c].count = 0
  BY DEF EmptyRegistry, Plain, NoConfirms
<1>2. EntriesTrue(EmptyRegistry)
  BY <1>1 DEF EntriesTrue, Fits, Resolved
<1>3. OneDoubt(EmptyRegistry)
  BY <1>1 DEF OneDoubt, Kind, InDoubt
<1>4. World
  BY DEF Init, World, WireTrue, OrdersTrue
<1>5. NotFoundGone(EmptyRegistry)
  BY <1>1 DEF NotFoundGone, Kind
<1> QED BY <1>2, <1>3, <1>4, <1>5 DEF Init, OutcomeInv, Records, SettledKept, Phases

LEMMA NextOutcome ==
  ASSUME IInv, OutcomeInv, [Next]_vars
  PROVE  OutcomeInv' /\ FileKeepsSettled
<1> USE DEF FileKeepsSettled
<1>1. CASE Boot
  BY <1>1, BootOutcome DEF Boot
<1>2. CASE Crash
  BY <1>2, HaltOutcome DEF Crash
<1>3. ASSUME NEW i \in Intents, SubmitReplay(i) \/ SubmitConflict(i) \/ Authorize(i)
      PROVE  OutcomeInv' /\ FileKeepsSettled
  BY <1>3, QuietActionsOutcome, HaltOutcome, AuthorizeOutcome
     DEF QuietActions, SubmitConflict, SubmitReplay
<1>4. CASE ReplyAccepted \/ AllocateNonce \/ Sign \/ MarkStarted \/ Send \/ Respond
  BY <1>4, QuietActionsOutcome, AllocateNonceOutcome, SignOutcome,
     MarkStartedOutcome, SendOutcome, RespondOutcome DEF ReplyAccepted, Send
<1>5. CASE BeginReconcile \/ ReadAccount \/ ReadFails \/ LookupFails \/ FinishReconcile
  BY <1>5, QuietActionsOutcome DEF QuietActions, BeginReconcile, ReadAccount, ReadFails,
     LookupFails, FinishReconcile
<1>6. CASE VisitNotStarted \/ VisitStarted \/ VisitLookup
  BY <1>6, VisitNotStartedOutcome, VisitStartedOutcome, VisitLookupOutcome
<1>7. CASE FailReconcile
  <2>1. CASE ctx = "boot"
    BY <1>7, <2>1, HaltOutcome DEF FailReconcile
  <2>2. CASE ctx # "boot"
    BY <1>7, <2>2, QuietActionsOutcome DEF FailReconcile
  <2> QED BY <2>1, <2>2
<1>8. ASSUME NEW c \in Cloids, Reconcile(c) \/ AnswerReconcile(c)
      PROVE  OutcomeInv' /\ FileKeepsSettled
  BY <1>8, QuietActionsOutcome, ReconcileOutcome DEF QuietActions, AnswerReconcile
<1>9. CASE Environment
  BY <1>9, ExecuteOutcome, LoseOutcome, ProgressOutcome, TickOutcome
     DEF Environment, Execute, Lose, Progress, Tick
<1>10. CASE UNCHANGED vars
  BY <1>10, QuietActionsOutcome DEF vars
<1> QED BY <1>1, <1>2, <1>3, <1>4, <1>5, <1>6, <1>7, <1>8, <1>9, <1>10
        DEF Next, Submission, Reconciliation

LEMMA OutcomeInvariant == Spec => [](IInv /\ OutcomeInv)
<1>1. IInv /\ OutcomeInv /\ [Next]_vars => OutcomeInv'
  BY NextOutcome
<1> QED BY <1>1, InitIInv, NextIInv, InitOutcome, PTL DEF Spec

\* At most one order of the registry file is in doubt, for any set of intents,
\* crashes and failed writes: nothing new is signed before the reconciliation
\* that clears startup_reconciled has settled the last one (main.rs, serve).
THEOREM OneDoubtAtATime == Spec => []OneInDoubt
<1>1. OutcomeInv => OneInDoubt
  BY DEF OutcomeInv, Records, OneDoubt, OneInDoubt
<1> QED BY <1>1, OutcomeInvariant, PTL

\* A settled entry of the registry is true of the exchange, now and later, over
\* any loss, delay or crash: no order it calls rejected ever fills, and one it
\* calls not found appears only if the exchange acted on its request after the
\* span of the confirmations.  No bound on the life of a request is assumed: the
\* code has none (confirm_not_found, reconcile_unknown).
THEOREM SettledIsTrue == Spec => []OutcomeIsTrue
<1>1. OutcomeInv => OutcomeIsTrue
  BY DEF OutcomeInv, Records, EntriesTrue, NotFoundGone, Gone, Kind, Fits, OutcomeIsTrue,
         InFlight
<1> QED BY <1>1, OutcomeInvariant, PTL

\* Whatever the exchange reports of an unsettled order, the transition is
\* valid: no interleaving of acknowledgments, partial fills and lookups leads
\* reconcile_unknown to an error it cannot get out of (valid_transition).
THEOREM ReportsAccepted == Spec => []EveryReportIsAccepted
<1>1. ASSUME IInv, OutcomeInv, NEW c \in Cloids, Kind(reg, c) \in LookedUp,
             orders[c].status # "none"
      PROVE  CanTransition(reg, c, Observed(c))
  <2> DEFINE s == reg.state[c]
             o == orders[c]
             next == Observed(c)
  <2>1. /\ TypeOK /\ World /\ s \in SubmissionState
        /\ Fits(c, s, reg.confirms[c], o, wire)
        /\ o.status \in { "open", "filled", "cancelled", "rejected" }
        /\ o.filled \in Nat
    <3>1. TypeOK /\ World /\ EntriesTrue(reg)
      BY <1>1 DEF IInv, OutcomeInv, Records
    <3>2. reg \in Registry /\ orders \in [ Cloids -> Order ]
      BY <3>1 DEF TypeOK
    <3>3. Fits(c, s, reg.confirms[c], o, wire)
      BY <3>1 DEF EntriesTrue
    <3>4. s \in SubmissionState
      BY <3>2 DEF Registry
    <3>5. o \in Order
      BY <3>2
    <3>6. /\ o.status \in { "open", "filled", "cancelled", "rejected" }
          /\ o.filled \in Nat
      BY <1>1, <3>5, BoundsAssumption DEF Order
    <3> QED BY <3>1, <3>3, <3>4, <3>6
  <2>2. s.kind \in { "acknowledged", "partially_filled", "unknown_result" }
    BY <1>1 DEF LookedUp, Working, Kind
  <2>3. next.order = "none" \/ next.order = "exchange"
    BY <2>1, StateFields DEF Observed
  <2>4. \/ /\ next = WithOrder("acknowledged", "exchange", 0)
           /\ o.status = "open" /\ o.filled = 0
        \/ /\ next.kind = "partially_filled" /\ next.order = "exchange"
           /\ next.filled = o.filled /\ o.status = "open"
        \/ next.kind \in { "filled", "cancelled" } /\ o.status = next.kind
        \/ next.kind = "rejected" /\ o.status = "rejected"
    <3>1. o.filled = 0 \/ o.filled > 0
      BY <2>1
    <3> QED BY <2>1, <3>1, StateFields DEF Observed
  <2> HIDE DEF next, o
  <2>5. CASE s.kind = "unknown_result"
    <3>1. s.order = "none"
      BY <2>1, <2>5 DEF Fits
    <3>2. next.kind \in { "acknowledged", "partially_filled", "filled", "cancelled", "rejected" }
      BY <2>4, StateFields
    <3> QED BY <2>5, <3>1, <3>2
            DEF CanTransition, OrderConsistent, ValidTransition, Kind, next
  <2>6. CASE s.kind = "acknowledged"
    <3>1. s.order \in { "cloid", "exchange" } /\ s.filled = 0 /\ s.nonce = 0
      BY <2>1, <2>6 DEF Fits
    <3>2. WithOrder("acknowledged", "exchange", 0)
          = [ kind |-> "acknowledged", nonce |-> 0, order |-> "exchange", filled |-> 0 ]
      BY StateFields
    <3>3. s.order = "exchange" => s = WithOrder("acknowledged", "exchange", 0)
      BY <2>1, <2>6, <3>1, <3>2 DEF SubmissionState
    <3>4. next.kind \in { "acknowledged", "partially_filled", "filled", "cancelled", "rejected" }
      BY <2>4, StateFields
    <3>5. next.kind = "acknowledged" => next = WithOrder("acknowledged", "exchange", 0)
      BY <2>4
    <3>6. s = next \/ OrderConsistent(s, next)
      BY <2>3, <2>6, <3>1, <3>3, <3>5, StateFields DEF OrderConsistent
    <3> QED BY <2>6, <3>4, <3>6 DEF CanTransition, ValidTransition, Kind, next
  <2>7. CASE s.kind = "partially_filled"
    <3>1. /\ s.order = "exchange" /\ o.status \in { "open", "filled", "cancelled" }
          /\ 0 < s.filled /\ s.filled <= o.filled
      BY <2>1, <2>7 DEF Fits
    <3>2. s.filled \in Nat
      BY <2>1, BoundsAssumption DEF SubmissionState
    <3>3. next.kind \in { "partially_filled", "filled", "cancelled" }
          /\ (next.kind = "partially_filled" => next.filled = o.filled)
      BY <2>1, <2>4, <3>1, <3>2
    <3>4. OrderConsistent(s, next)
      BY <2>1, <2>3, <2>4, <2>7, <3>1, <3>2, <3>3 DEF OrderConsistent
    <3> QED BY <2>7, <3>3, <3>4 DEF CanTransition, ValidTransition, Kind, next
  <2> QED BY <2>2, <2>5, <2>6, <2>7
<1>2. IInv /\ OutcomeInv => EveryReportIsAccepted
  BY <1>1 DEF EveryReportIsAccepted
<1> QED BY <1>2, OutcomeInvariant, PTL

\* What the file has settled never changes again, whatever answers come late:
\* memory agrees with it, and no step rewrites a settled entry of memory.
THEOREM SettledStays == Spec => SettledIsFinal
<1>1. IInv /\ OutcomeInv /\ [Next]_vars =>
        [ \A c \in Cloids : Kind(disk, c) \in Resolved =>
                               disk'.state[c] = disk.state[c] ]_vars
  BY NextOutcome DEF FileKeepsSettled
<1> QED BY <1>1, OutcomeInvariant, PTL DEF Spec, SettledIsFinal
=============================================================================
