------------------------ MODULE IntentDispatchProofs ------------------------
(***************************************************************************)
(* Proofs about IntentDispatch, for any number of intents, any capacity of *)
(* the lanes and any number of crashes and late answers: what the observer *)
(* believes accepted the signer has on disk, and what the signer has on    *)
(* disk is in the observer's journal.                                      *)
(*                                                                         *)
(* The invariant says where the knowledge of an intent travels: a frame of *)
(* an intent is on its way only if the journal has it, and an answer       *)
(* "accepted" only if the signer has.  Neither side ever forgets, so a     *)
(* frame may wait in the stream, or be answered late, over any restart.    *)
(***************************************************************************)
EXTENDS IntentDispatch, FiniteSetTheorems, SequenceTheorems, TLAPS

WorkerStates == { "idle", "picked", "queue", "written", "await", "replayed" }
Entries == { "absent", "authorized", "set_aside", "submitted" }
Events  == [ op : { "accepted", "set_aside" }, cloid : Intents ]

\* A frame of an intent is of one in the journal d, an answer "accepted" is
\* about an entry of the signer's file e.
FrameTrue(f, d)  == f.op \in { "submit", "reconcile" } => f.cloid \in Intents /\ d[f.cloid] # "absent"
AnswerTrue(f, e) == f.op = "accepted" => f.cloid \in Intents /\ e[f.cloid] # "absent"

FramesTrue(s, d) ==
  s \in Seq(FrameType) /\ \A n \in 1..Len(s) : FrameTrue(s[n], d)
AnswersTrue(s, e) ==
  s \in Seq(FrameType) /\ \A n \in 1..Len(s) : AnswerTrue(s[n], e)

\* An observer that runs has in memory what the journal has; one that does
\* not has nothing, and its worker holds no intent.
MemoryTrue(q, d) ==
  /\ main = "down" => worker = "idle" /\ \A i \in Intents : q[i] = "absent"
  /\ main # "down" => \A i \in Intents : q[i] = "absent" <=> d[i] = "absent"
  /\ worker # "idle" => wcur \in Intents /\ d[wcur] # "absent"

\* What is marked accepted in q is an entry of the signer's file e.
MarksTrue(q, e) == \A i \in Intents : q[i] = "accepted" => e[i] # "absent"

\* What the file e has an entry of the journal d has.
EntriesTrue(d, e) == \A i \in Intents : e[i] # "absent" => d[i] # "absent"

\* The signer submits an entry of its file e.
BusyTrue(e) == busy # NoIntent => busy \in Intents /\ e[busy] # "absent"

\* The inductive invariant.
DispatchInv ==
  /\ TypeOK /\ BusyTrue(signer)
  /\ MemoryTrue(queue.state, disk.state)
  /\ FramesTrue(toSigner, disk.state) /\ AnswersTrue(toObserver, signer)
  /\ MarksTrue(queue.state, signer) /\ MarksTrue(disk.state, signer)
  /\ EntriesTrue(disk.state, signer)

\* A file d2 has every intent that d has.
Keeps(d, d2) == \A i \in Intents : d[i] # "absent" => d2[i] # "absent"

-----------------------------------------------------------------------------
(* Streams.                                                                *)

\* A later file makes no frame and no answer untrue.
LEMMA FramesLater ==
  ASSUME NEW s, NEW d, NEW d2, FramesTrue(s, d), Keeps(d, d2)
  PROVE  FramesTrue(s, d2)
BY DEF FramesTrue, FrameTrue, Keeps

LEMMA AnswersLater ==
  ASSUME NEW s, NEW e, NEW e2, AnswersTrue(s, e), Keeps(e, e2)
  PROVE  AnswersTrue(s, e2)
BY DEF AnswersTrue, AnswerTrue, Keeps

\* A true frame is put at the end.
LEMMA FramesAppend ==
  ASSUME NEW s, NEW d, NEW f \in FrameType, FramesTrue(s, d), FrameTrue(f, d)
  PROVE  FramesTrue(Append(s, f), d)
<1>1. s \in Seq(FrameType) /\ \A n \in 1..Len(s) : FrameTrue(s[n], d)
  BY DEF FramesTrue
<1>2. /\ Append(s, f) \in Seq(FrameType) /\ Len(Append(s, f)) = Len(s) + 1 /\ Len(s) \in Nat
      /\ \A n \in 1..Len(s) : Append(s, f)[n] = s[n]
      /\ Append(s, f)[Len(s) + 1] = f
  BY <1>1, AppendProperties, LenProperties
<1>3. ASSUME NEW n \in 1..Len(s) + 1 PROVE FrameTrue(Append(s, f)[n], d)
  <2>1. n \in 1..Len(s) \/ n = Len(s) + 1
    BY <1>2
  <2> QED BY <2>1, <1>1, <1>2
<1> QED BY <1>2, <1>3 DEF FramesTrue

LEMMA AnswersAppend ==
  ASSUME NEW s, NEW e, NEW f \in FrameType, AnswersTrue(s, e), AnswerTrue(f, e)
  PROVE  AnswersTrue(Append(s, f), e)
<1>1. s \in Seq(FrameType) /\ \A n \in 1..Len(s) : AnswerTrue(s[n], e)
  BY DEF AnswersTrue
<1>2. /\ Append(s, f) \in Seq(FrameType) /\ Len(Append(s, f)) = Len(s) + 1 /\ Len(s) \in Nat
      /\ \A n \in 1..Len(s) : Append(s, f)[n] = s[n]
      /\ Append(s, f)[Len(s) + 1] = f
  BY <1>1, AppendProperties, LenProperties
<1>3. ASSUME NEW n \in 1..Len(s) + 1 PROVE AnswerTrue(Append(s, f)[n], e)
  <2>1. n \in 1..Len(s) \/ n = Len(s) + 1
    BY <1>2
  <2> QED BY <2>1, <1>1, <1>2
<1> QED BY <1>2, <1>3 DEF AnswersTrue

\* The first is read.
LEMMA FramesRead ==
  ASSUME NEW s, NEW d, FramesTrue(s, d), s # << >>
  PROVE  FramesTrue(Tail(s), d) /\ FrameTrue(Head(s), d) /\ Head(s) \in FrameType
<1>1. s \in Seq(FrameType) /\ \A n \in 1..Len(s) : FrameTrue(s[n], d)
  BY DEF FramesTrue
<1>2. /\ Head(s) \in FrameType /\ Tail(s) \in Seq(FrameType) /\ Len(Tail(s)) = Len(s) - 1
      /\ \A n \in 1..Len(Tail(s)) : Tail(s)[n] = s[n + 1]
      /\ Len(s) \in Nat \ {0} /\ Head(s) = s[1]
  BY <1>1, HeadTailProperties, EmptySeq
<1>3. ASSUME NEW n \in 1..Len(Tail(s)) PROVE FrameTrue(Tail(s)[n], d)
  <2>1. n + 1 \in 1..Len(s)
    BY <1>2
  <2> QED BY <2>1, <1>1, <1>2
<1>4. 1 \in 1..Len(s)
  BY <1>2
<1> QED BY <1>1, <1>2, <1>3, <1>4 DEF FramesTrue

LEMMA AnswersRead ==
  ASSUME NEW s, NEW e, AnswersTrue(s, e), s # << >>
  PROVE  AnswersTrue(Tail(s), e) /\ AnswerTrue(Head(s), e) /\ Head(s) \in FrameType
<1>1. s \in Seq(FrameType) /\ \A n \in 1..Len(s) : AnswerTrue(s[n], e)
  BY DEF AnswersTrue
<1>2. /\ Head(s) \in FrameType /\ Tail(s) \in Seq(FrameType) /\ Len(Tail(s)) = Len(s) - 1
      /\ \A n \in 1..Len(Tail(s)) : Tail(s)[n] = s[n + 1]
      /\ Len(s) \in Nat \ {0} /\ Head(s) = s[1]
  BY <1>1, HeadTailProperties, EmptySeq
<1>3. ASSUME NEW n \in 1..Len(Tail(s)) PROVE AnswerTrue(Tail(s)[n], e)
  <2>1. n + 1 \in 1..Len(s)
    BY <1>2
  <2> QED BY <2>1, <1>1, <1>2
<1>4. 1 \in 1..Len(s)
  BY <1>2
<1> QED BY <1>1, <1>2, <1>3, <1>4 DEF AnswersTrue

\* A reader that stops leaves at most the first frame (Exit).
LEMMA FramesFront ==
  ASSUME NEW s, NEW d, FramesTrue(s, d)
  PROVE  FramesTrue(SubSeq(s, 1, IF s = << >> THEN 0 ELSE 1), d)
<1>1. s \in Seq(FrameType) /\ \A n \in 1..Len(s) : FrameTrue(s[n], d)
  BY DEF FramesTrue
<1>2. CASE s = << >>
  <2>1. SubSeq(s, 1, 0) = << >>
    BY SubSeqEmpty
  <2> QED BY <2>1, <1>2, <1>1
<1>3. CASE s # << >>
  <2>1. Len(s) \in Nat \ {0} /\ s[1] \in FrameType /\ FrameTrue(s[1], d)
    BY <1>1, <1>3, EmptySeq, ElementOfSeq
  <2>2. \A n \in 1..1 : s[n] \in FrameType
    BY <2>1
  <2>3. /\ SubSeq(s, 1, 1) \in Seq(FrameType) /\ Len(SubSeq(s, 1, 1)) = 1
        /\ SubSeq(s, 1, 1)[1] = s[1]
    BY <2>2, SubSeqProperties
  <2>4. ASSUME NEW n \in 1..Len(SubSeq(s, 1, 1)) PROVE FrameTrue(SubSeq(s, 1, 1)[n], d)
    <3>1. n = 1
      BY <2>3
    <3> QED BY <3>1, <2>1, <2>3
  <2>5. FramesTrue(SubSeq(s, 1, 1), d)
    BY <2>3, <2>4 DEF FramesTrue
  <2> QED BY <2>5, <1>3
<1> QED BY <1>2, <1>3

\* An empty stream is true.
LEMMA NothingInStream ==
  ASSUME NEW d
  PROVE  FramesTrue(<< >>, d) /\ AnswersTrue(<< >>, d)
<1>1. << >> \in Seq(FrameType) /\ Len(<< >>) = 0
  BY EmptySeq
<1> QED BY <1>1 DEF FramesTrue, AnswersTrue

\* A frame of the protocol has the type of frames (Frame).
LEMMA FrameTyped ==
  ASSUME NEW op \in { "submit", "reconcile", "replay", "ack", "accepted", "rejected",
                      "not_found", "events", "acked" },
         NEW i \in Intents \cup { NoIntent }, NEW n \in Nat
  PROVE  /\ Frame(op, i, n) \in FrameType
         /\ Frame(op, i, n).op = op /\ Frame(op, i, n).cloid = i
BY DEF Frame, FrameType

-----------------------------------------------------------------------------
(* The queue and the signer's file.                                        *)

\* A state is set in the queue (mark_submitting, mark_disconnect, accept).
LEMMA Marked ==
  ASSUME NEW i, NEW s \in QueueStates, queue \in QueueType
  PROVE  /\ Mark(i, s) \in QueueType
         /\ \A k \in Intents : Mark(i, s).state[k] = IF k = i THEN s ELSE queue.state[k]
BY DEF Mark, QueueType

LEMMA EnqueuedState ==
  ASSUME NEW i \in Intents, queue \in QueueType
  PROVE  /\ Enqueued(i) \in QueueType
         /\ \A k \in Intents : Enqueued(i).state[k] = IF k = i THEN "persisted" ELSE queue.state[k]
<1>1. /\ Mark(i, "persisted") \in QueueType
      /\ \A k \in Intents : Mark(i, "persisted").state[k] = IF k = i THEN "persisted" ELSE queue.state[k]
  BY Marked DEF QueueStates
<1>2. Append(Mark(i, "persisted").order, i) \in Seq(Intents)
  BY <1>1, AppendProperties DEF QueueType
<1>3. Enqueued(i) = [ state |-> Mark(i, "persisted").state,
                      order |-> Append(Mark(i, "persisted").order, i) ]
  <2> DEFINE q == Mark(i, "persisted")
  <2>1. q \in [ state : [ Intents -> QueueStates ], order : Seq(Intents) ]
    BY <1>1 DEF QueueType
  <2> HIDE DEF q
  <2>2. [ q EXCEPT !.order = Append(@, i) ] = [ state |-> q.state, order |-> Append(q.order, i) ]
    BY <2>1
  <2> QED BY <2>2 DEF Enqueued, q
<1>4. Mark(i, "persisted").state \in [ Intents -> QueueStates ]
  BY <1>1 DEF QueueType
<1> QED BY <1>1, <1>2, <1>3, <1>4 DEF QueueType

LEMMA EmptyState ==
  EmptyQueue \in QueueType /\ \A k \in Intents : EmptyQueue.state[k] = "absent"
<1>1. << >> \in Seq(Intents)
  BY EmptySeq
<1> QED BY <1>1 DEF EmptyQueue, QueueType, QueueStates

\* A queue has a state of every intent.
LEMMA QueueTyped ==
  ASSUME NEW q \in QueueType
  PROVE  q.state \in [ Intents -> QueueStates ] /\ q.order \in Seq(Intents)
BY DEF QueueType

\* Setting aside keeps what the file has (confirm of AuthorizedNotSubmitted).
SetsAside(entries, s) ==
  /\ signer' \in [ Intents -> Entries ] /\ log' \in Seq(Events)
  /\ \A i \in Intents : signer'[i] = IF i \in entries /\ s[i] = "authorized" THEN "set_aside" ELSE s[i]

LEMMA SetAsideKeeps ==
  ASSUME NEW entries \in SUBSET Intents, NEW s \in [ Intents -> Entries ],
         log \in Seq(Events), SetAside(entries, s)
  PROVE  SetsAside(entries, s)
<1> DEFINE these == { i \in entries : s[i] = "authorized" }
           order == SetToSeq(these)
           noted == [ n \in 1..Cardinality(these) |-> Event("set_aside", order[n]) ]
<1>1. IsFiniteSet(these) /\ these \subseteq Intents
  BY DispatchAssumption, FS_Subset
<1>2. Cardinality(these) \in Nat /\ ExistsBijection(1..Cardinality(these), these)
  BY <1>1, FS_CardinalityType
<1>3. \E f \in [ 1..Cardinality(these) -> these ] : IsInjective(f)
  BY <1>2 DEF ExistsBijection, Bijection, Injection
<1>4. order \in [ 1..Cardinality(these) -> these ]
  BY <1>3 DEF SetToSeq
<1>5. \A n \in 1..Cardinality(these) : noted[n] \in Events
  BY <1>1, <1>4 DEF Event, Events
<1>6. noted \in Seq(Events)
  <2>1. noted \in [ 1..Cardinality(these) -> Events ]
    BY <1>5
  <2> QED BY <2>1, <1>2, SeqDef
<1>7. log' = log \o noted
  BY DEF SetAside
<1>8. log' \in Seq(Events)
  BY <1>6, <1>7, ConcatProperties
<1>9. signer' = [ i \in Intents |-> IF i \in these THEN "set_aside" ELSE s[i] ]
  BY DEF SetAside
<1> QED BY <1>8, <1>9 DEF SetsAside, Entries

-----------------------------------------------------------------------------
(* The steps of the observer.                                              *)

LEMMA InitTrue == Init => DispatchInv
<1> SUFFICES ASSUME Init PROVE DispatchInv
  OBVIOUS
<1>1. TypeOK
  <2>1. << >> \in Seq(FrameType) /\ << >> \in Seq(Events)
    BY EmptySeq
  <2> QED BY <2>1, EmptyState DEF Init, TypeOK, Events
<1>2. FramesTrue(toSigner, disk.state) /\ AnswersTrue(toObserver, signer)
  BY NothingInStream DEF Init
<1> QED BY <1>1, <1>2, EmptyState DEF Init, DispatchInv, MemoryTrue, MarksTrue, EntriesTrue, BusyTrue

\* A start reads the journal (restore).
LEMMA StartKeeps == DispatchInv /\ Start => DispatchInv'
<1> SUFFICES ASSUME DispatchInv, Start PROVE DispatchInv'
  OBVIOUS
<1> QED BY DEF BusyTrue, DispatchInv, Start, TypeOK, MemoryTrue, MarksTrue, files, ends, bounds

\* The end of the process keeps the files and the first frame under way.
LEMMA ExitKeeps ==
  ASSUME DispatchInv, Exit, UNCHANGED << files, ends >>,
         { timeouts', observerCrashes', signerCrashes', setAside' } \subseteq Nat
  PROVE  DispatchInv'
<1>1. FramesTrue(toSigner', disk.state')
  BY FramesFront DEF DispatchInv, Exit, files
<1>2. AnswersTrue(toObserver', signer')
  BY NothingInStream DEF Exit
<1>3. TypeOK'
  BY <1>1, <1>2, EmptyState DEF DispatchInv, TypeOK, Exit, files, ends, FramesTrue, AnswersTrue
<1> QED BY <1>1, <1>2, <1>3, EmptyState
        DEF BusyTrue, DispatchInv, Exit, MemoryTrue, MarksTrue, EntriesTrue, files, ends

\* An intent is journaled with the step that takes it into the queue
\* (persist_and_queue).
LEMMA PersistKeeps ==
  ASSUME DispatchInv, NEW i \in Intents, PersistIntent(i)
  PROVE  DispatchInv'
<1>1. queue' = Enqueued(i) /\ disk' = queue' /\ main = "run"
  BY DEF PersistIntent
<1>2. /\ queue' \in QueueType
      /\ \A k \in Intents : queue'.state[k] = IF k = i THEN "persisted" ELSE queue.state[k]
  BY <1>1, EnqueuedState DEF DispatchInv, TypeOK
<1>3. Keeps(disk.state, disk'.state)
  BY <1>1, <1>2 DEF DispatchInv, MemoryTrue, Keeps
<1>4. FramesTrue(toSigner', disk'.state) /\ AnswersTrue(toObserver', signer')
  BY <1>3, FramesLater DEF DispatchInv, PersistIntent, ends
<1>5. TypeOK'
  BY <1>1, <1>2 DEF DispatchInv, TypeOK, PersistIntent, tasks, ends, bounds
<1>6. MemoryTrue(queue.state, disk.state)'
  BY <1>1, <1>3 DEF DispatchInv, MemoryTrue, PersistIntent, Keeps, tasks
<1>7. MarksTrue(queue'.state, signer') /\ EntriesTrue(disk'.state, signer')
  BY <1>2, <1>3 DEF DispatchInv, MarksTrue, EntriesTrue, PersistIntent, Keeps, ends
<1>8. BusyTrue(signer)'
  BY DEF BusyTrue, DispatchInv, PersistIntent, ends
<1> QED BY <1>1, <1>4, <1>5, <1>6, <1>7, <1>8 DEF DispatchInv, PersistIntent, ends

\* The requests of the main task are about no intent.
LEMMA RequestKeeps ==
  ASSUME DispatchInv, RequestEvents \/ AcknowledgeEvents
  PROVE  DispatchInv'
<1>1. PICK op \in { "replay", "ack" } : toSigner' = Append(toSigner, Frame(op, NoIntent, applied))
  BY DEF RequestEvents, AcknowledgeEvents
<1>2. applied \in Nat /\ NoIntent \in Intents \cup { NoIntent }
  BY DEF DispatchInv, TypeOK
<1>3. Frame(op, NoIntent, applied) \in FrameType /\ Frame(op, NoIntent, applied).op = op
  BY <1>2, FrameTyped
<1>4. FrameTrue(Frame(op, NoIntent, applied), disk.state)
  BY <1>3 DEF FrameTrue
<1>5. FramesTrue(toSigner', disk.state)
  BY <1>1, <1>3, <1>4, FramesAppend DEF DispatchInv
<1> QED BY <1>5 DEF BusyTrue, DispatchInv, RequestEvents, AcknowledgeEvents, TypeOK, FramesTrue, MemoryTrue,
                    files, ends, bounds

\* The main task reads a reply that says nothing of an intent.
LEMMA ReceiveKeeps ==
  ASSUME DispatchInv, ReceiveEvents \/ ReceiveAcknowledged
  PROVE  DispatchInv'
<1>1. toObserver # << >> /\ toObserver' = Tail(toObserver)
  BY DEF ReceiveEvents, ReceiveAcknowledged
<1>2. AnswersTrue(toObserver', signer) /\ Head(toObserver) \in FrameType
  BY <1>1, AnswersRead DEF DispatchInv
<1>3. Head(toObserver).upTo \in Nat
  BY <1>2 DEF FrameType
<1>4. /\ BusyTrue(signer)' /\ MemoryTrue(queue.state, disk.state)'
      /\ FramesTrue(toSigner, disk.state)' /\ EntriesTrue(disk.state, signer)'
      /\ MarksTrue(queue.state, signer)' /\ MarksTrue(disk.state, signer)'
  BY DEF BusyTrue, DispatchInv, ReceiveEvents, ReceiveAcknowledged, MemoryTrue, files, ends, bounds
<1>5. TypeOK'
  BY <1>2, <1>3 DEF DispatchInv, ReceiveEvents, ReceiveAcknowledged, TypeOK, AnswersTrue,
                    files, ends, bounds
<1>6. signer' = signer
  BY DEF ReceiveEvents, ReceiveAcknowledged, files, ends, bounds
<1> QED BY <1>2, <1>4, <1>5, <1>6 DEF DispatchInv

LEMMA ApplyKeeps ==
  ASSUME DispatchInv, ApplyEvent
  PROVE  DispatchInv'
BY DEF BusyTrue, DispatchInv, ApplyEvent, TypeOK, MemoryTrue, ends, bounds

\* The queue is journaled with a state set in it: the step of every reply and
\* of an intent to be dispatched again.
LEMMA MarkKeeps ==
  ASSUME DispatchInv, main # "down", NEW i, NEW s \in QueueStates \ { "absent" },
         i \in Intents /\ s = "accepted" => signer[i] # "absent"
  PROVE  /\ Mark(i, s) \in QueueType
         /\ Keeps(disk.state, Mark(i, s).state)
         /\ MarksTrue(Mark(i, s).state, signer) /\ EntriesTrue(Mark(i, s).state, signer)
<1>1. /\ Mark(i, s) \in QueueType
      /\ \A k \in Intents : Mark(i, s).state[k] = IF k = i THEN s ELSE queue.state[k]
  BY Marked DEF DispatchInv, TypeOK
<1>2. Keeps(disk.state, Mark(i, s).state)
  BY <1>1 DEF DispatchInv, MemoryTrue, Keeps
<1> QED BY <1>1, <1>2 DEF DispatchInv, MarksTrue, EntriesTrue, Keeps

\* The memory and the journal after a step that writes both.
LEMMA Rewritten ==
  ASSUME DispatchInv, queue' \in QueueType, disk' = queue', Keeps(disk.state, queue'.state),
         MarksTrue(queue'.state, signer), EntriesTrue(queue'.state, signer),
         FramesTrue(toSigner', disk.state), AnswersTrue(toObserver', signer), signer' = signer,
         main' \in { "boot", "run", "replay", "apply", "reset", "ack" },
         worker' \in WorkerStates, wcur' \in Intents \cup { NoIntent },
         worker' # "idle" => wcur' \in Intents /\ disk.state[wcur'] # "absent",
         UNCHANGED << applied, upTo, conn, busy, log >>,
         { timeouts', observerCrashes', signerCrashes', setAside' } \subseteq Nat
  PROVE  DispatchInv'
<1>1. FramesTrue(toSigner', disk'.state)
  BY FramesLater
<1>2. TypeOK'
  BY <1>1 DEF DispatchInv, TypeOK, FramesTrue, AnswersTrue, WorkerStates
<1>3. MemoryTrue(queue.state, disk.state)'
  BY DEF MemoryTrue, Keeps
<1> QED BY <1>1, <1>2, <1>3 DEF BusyTrue, DispatchInv

\* An intent that the signer set aside is to be dispatched again.
LEMMA ResetKeeps ==
  ASSUME DispatchInv, ResetIntent
  PROVE  DispatchInv'
<1>1. queue' = Mark(log[applied].cloid, "persisted") /\ disk' = queue' /\ main = "reset"
  BY DEF ResetIntent
<1>2. /\ queue' \in QueueType /\ Keeps(disk.state, queue'.state)
      /\ MarksTrue(queue'.state, signer) /\ EntriesTrue(queue'.state, signer)
  BY <1>1, MarkKeeps DEF QueueStates
<1> QED BY <1>1, <1>2, Rewritten
        DEF DispatchInv, TypeOK, MemoryTrue, ResetIntent, ends, bounds, WorkerStates

-----------------------------------------------------------------------------
(* The steps of the dispatch worker.                                       *)

\* The worker takes an intent of the queue (next_dispatchable).
LEMMA PickKeeps ==
  ASSUME DispatchInv, Pick \/ LockQueue
  PROVE  DispatchInv'
<1>1. CASE Pick
  <2>1. PICK i \in Intents : queue.state[i] \in Dispatchable /\ wcur' = i
    BY <1>1 DEF Pick, NextDispatchable
  <2>2. disk.state[i] # "absent"
    BY <1>1, <2>1 DEF DispatchInv, MemoryTrue, Pick, Dispatchable
  <2> QED BY <1>1, <2>1, <2>2 DEF BusyTrue, DispatchInv, TypeOK, MemoryTrue, Pick, files, ends, bounds
<1>2. CASE LockQueue
  BY <1>2 DEF BusyTrue, DispatchInv, TypeOK, MemoryTrue, LockQueue, files, ends, bounds
<1> QED BY <1>1, <1>2

\* The frame of the worker's intent is of one in the journal.
LEMMA OwnFrame ==
  ASSUME DispatchInv, worker # "idle", NEW op \in { "submit", "reconcile" }
  PROVE  FramesTrue(Append(toSigner, Frame(op, wcur, 0)), disk.state)
<1>1. wcur \in Intents /\ disk.state[wcur] # "absent"
  BY DEF DispatchInv, MemoryTrue
<1>2. /\ Frame(op, wcur, 0) \in FrameType
      /\ Frame(op, wcur, 0).op = op /\ Frame(op, wcur, 0).cloid = wcur
  BY <1>1, FrameTyped
<1>3. FrameTrue(Frame(op, wcur, 0), disk.state)
  BY <1>1, <1>2 DEF FrameTrue
<1> QED BY <1>2, <1>3, FramesAppend DEF DispatchInv

\* A running worker is one of a running observer.
LEMMA WorkerRuns ==
  ASSUME DispatchInv, worker # "idle"
  PROVE  main # "down" /\ wcur \in Intents /\ disk.state[wcur] # "absent" /\ queue.state[wcur] # "absent"
BY DEF DispatchInv, MemoryTrue

LEMMA WriteKeeps ==
  ASSUME DispatchInv, WriteFrame
  PROVE  DispatchInv'
<1>1. worker = "queue" /\ main # "down" /\ wcur \in Intents /\ queue.state[wcur] # "absent"
  BY WorkerRuns DEF WriteFrame
<1>2. CASE queue.state[wcur] = "unknown"
  <2>1. FramesTrue(toSigner', disk.state)
    BY <1>1, <1>2, OwnFrame DEF WriteFrame
  <2> QED BY <1>1, <1>2, <2>1
          DEF BusyTrue, DispatchInv, TypeOK, MemoryTrue, WriteFrame, FramesTrue, files, ends, bounds
<1>3. CASE queue.state[wcur] # "unknown"
  <2>1. FramesTrue(toSigner', disk.state)
    BY <1>1, <1>3, OwnFrame DEF WriteFrame
  <2>2. queue' = Mark(wcur, "sent") /\ worker' = "written"
    BY <1>3 DEF WriteFrame
  <2>3. /\ queue' \in QueueType
        /\ \A k \in Intents : queue'.state[k] = IF k = wcur THEN "sent" ELSE queue.state[k]
    BY <2>2, Marked DEF DispatchInv, TypeOK, QueueStates
  <2>4. TypeOK'
    BY <2>1, <2>2, <2>3 DEF DispatchInv, TypeOK, WriteFrame, FramesTrue, files, ends, bounds
  <2>5. MemoryTrue(queue.state, disk.state)' /\ MarksTrue(queue'.state, signer)
    BY <1>1, <2>2, <2>3 DEF DispatchInv, MemoryTrue, MarksTrue, WriteFrame, files
  <2> QED BY <2>1, <2>4, <2>5 DEF BusyTrue, DispatchInv, WriteFrame, files, ends
<1> QED BY <1>2, <1>3

LEMMA PersistSentKeeps ==
  ASSUME DispatchInv, PersistSent
  PROVE  DispatchInv'
<1>1. main # "down" /\ wcur \in Intents /\ disk.state[wcur] # "absent"
  BY WorkerRuns DEF PersistSent
<1>2. disk' = queue /\ queue' = queue /\ queue \in QueueType
  BY DEF PersistSent, DispatchInv, TypeOK
<1>3. Keeps(disk.state, queue.state) /\ MarksTrue(queue.state, signer) /\ EntriesTrue(queue.state, signer)
  BY <1>1 DEF DispatchInv, MemoryTrue, Keeps, EntriesTrue
<1> QED BY <1>1, <1>2, <1>3, Rewritten DEF DispatchInv, TypeOK, PersistSent, ends, bounds, WorkerStates

LEMMA ReplayKeeps ==
  ASSUME DispatchInv, ReplayFrame
  PROVE  DispatchInv'
<1>1. worker # "idle" /\ main # "down" /\ wcur \in Intents
  BY WorkerRuns DEF ReplayFrame
<1>2. FramesTrue(toSigner', disk.state)
  BY <1>1, OwnFrame DEF ReplayFrame, DispatchInv
<1>3. AnswersTrue(toObserver', signer)
  BY AnswersRead DEF ReplayFrame, DispatchInv
<1> QED BY <1>1, <1>2, <1>3
        DEF BusyTrue, DispatchInv, TypeOK, MemoryTrue, ReplayFrame, FramesTrue, AnswersTrue, files, ends, bounds

\* The end of a dispatch, with the state that the reply gives the intent.
LEMMA AnsweredKeeps ==
  ASSUME DispatchInv, worker # "idle", NEW s \in QueueStates \ { "absent" },
         s = "accepted" => signer[wcur] # "absent",
         Answered(Mark(wcur, s)) \/ Answered(queue), AnswersTrue(toObserver', signer),
         { timeouts', observerCrashes', signerCrashes', setAside' } \subseteq Nat
  PROVE  DispatchInv'
<1>1. main # "down" /\ wcur \in Intents
  BY WorkerRuns
<1>2. disk' = queue' /\ worker' = "idle" /\ wcur' = NoIntent
  BY DEF Answered
<1>3. /\ queue' \in QueueType /\ Keeps(disk.state, queue'.state)
      /\ MarksTrue(queue'.state, signer) /\ EntriesTrue(queue'.state, signer)
  <2>1. CASE Answered(Mark(wcur, s))
    BY <2>1, <1>1, MarkKeeps DEF Answered
  <2>2. CASE Answered(queue)
    BY <2>2, <1>1 DEF Answered, DispatchInv, TypeOK, MemoryTrue, Keeps, EntriesTrue
  <2> QED BY <2>1, <2>2
<1> QED BY <1>1, <1>2, <1>3, Rewritten DEF DispatchInv, TypeOK, Answered, ends, WorkerStates

\* An intent is kept for another try (mark_disconnect).
LEMMA RetainedKeeps ==
  ASSUME DispatchInv, worker # "idle", Retained, AnswersTrue(toObserver', signer),
         { timeouts', observerCrashes', signerCrashes', setAside' } \subseteq Nat
  PROVE  DispatchInv'
<1>1. Answered(Mark(wcur, "unknown")) \/ Answered(queue)
  BY DEF Retained
<1> QED BY <1>1, AnsweredKeeps DEF QueueStates

\* A reply is the answer to this intent or an error, whatever was sent when.
LEMMA ReplyKeeps ==
  ASSUME DispatchInv, ReceiveReply
  PROVE  DispatchInv'
<1> DEFINE reply == Head(toObserver)
<1>1. worker # "idle" /\ toObserver # << >> /\ toObserver' = Tail(toObserver)
  BY DEF ReceiveReply
<1>2. AnswersTrue(toObserver', signer) /\ AnswerTrue(reply, signer)
  BY <1>1, AnswersRead DEF DispatchInv
<1>3. { timeouts', observerCrashes', signerCrashes', setAside' } \subseteq Nat
  BY DEF DispatchInv, TypeOK, ReceiveReply, bounds
<1>4. CASE reply.op \in { "accepted", "rejected" } /\ reply.cloid = wcur
  <2>1. Answered(Mark(wcur, reply.op))
    BY <1>4 DEF ReceiveReply
  <2>2. reply.op = "accepted" => signer[wcur] # "absent"
    BY <1>2, <1>4 DEF AnswerTrue
  <2>3. reply.op \in QueueStates \ { "absent" }
    BY <1>4 DEF QueueStates
  <2> HIDE DEF reply
  <2> QED BY <1>1, <1>2, <1>3, <2>1, <2>2, <2>3, AnsweredKeeps
<1>5. CASE ~(reply.op \in { "accepted", "rejected" } /\ reply.cloid = wcur)
  <2>1. Retained
    BY <1>5 DEF ReceiveReply
  <2> QED BY <1>1, <1>2, <1>3, <2>1, RetainedKeeps
<1> QED BY <1>4, <1>5

LEMMA FailureKeeps ==
  ASSUME DispatchInv, ReplyTimeout \/ DispatchFails
  PROVE  DispatchInv'
<1>1. worker # "idle" /\ Retained /\ toObserver' = toObserver
  BY DEF ReplyTimeout, DispatchFails
<1>2. { timeouts', observerCrashes', signerCrashes', setAside' } \subseteq Nat
  BY DEF DispatchInv, TypeOK, ReplyTimeout, DispatchFails, bounds
<1> QED BY <1>1, <1>2, RetainedKeeps DEF DispatchInv

-----------------------------------------------------------------------------
(* The steps of the signer.                                                *)

\* A later file of the signer: it has what it had, and a new entry only for a
\* journaled intent.
LEMMA LaterFile ==
  ASSUME DispatchInv, signer' \in [ Intents -> Entries ], log' \in Seq(Events),
         Keeps(signer, signer'), EntriesTrue(disk.state, signer'),
         FramesTrue(toSigner', disk.state), AnswersTrue(toObserver', signer'),
         busy' \in Intents \cup { NoIntent }, BusyTrue(signer)', conn' \in { "open", "closed", "broken" },
         UNCHANGED << queue, files, tasks >>,
         { timeouts', observerCrashes', signerCrashes', setAside' } \subseteq Nat
  PROVE  DispatchInv'
<1>1. TypeOK'
  BY DEF DispatchInv, TypeOK, FramesTrue, AnswersTrue, Entries, Events, files, tasks
<1>2. MemoryTrue(queue.state, disk.state)'
  BY DEF DispatchInv, MemoryTrue, files, tasks
<1>3. MarksTrue(queue.state, signer)' /\ MarksTrue(disk.state, signer)'
  <2>1. MarksTrue(queue.state, signer) /\ MarksTrue(disk.state, signer)
    BY DEF DispatchInv
  <2> QED BY <2>1 DEF MarksTrue, Keeps, files
<1> QED BY <1>1, <1>2, <1>3 DEF DispatchInv, files

\* The signer answers a frame (Replying), truly.
LEMMA ReplyTrue ==
  ASSUME DispatchInv, toSigner # << >>, NEW e, Keeps(signer, e),
         NEW op \in { "accepted", "rejected", "not_found", "events", "acked" },
         NEW i \in Intents \cup { NoIntent }, NEW n \in Nat, Replying(op, i, n),
         op = "accepted" => i \in Intents /\ e[i] # "absent"
  PROVE  FramesTrue(toSigner', disk.state) /\ AnswersTrue(toObserver', e)
<1>1. FramesTrue(toSigner', disk.state)
  BY FramesRead, NothingInStream DEF DispatchInv, Replying
<1>2. /\ Frame(op, i, n) \in FrameType
      /\ Frame(op, i, n).op = op /\ Frame(op, i, n).cloid = i
  BY ONLY op \in { "accepted", "rejected", "not_found", "events", "acked" },
          i \in Intents \cup { NoIntent }, n \in Nat, FrameTyped
<1>3. AnswersTrue(toObserver, e) /\ AnswerTrue(Frame(op, i, n), e)
  <2>1. AnswersTrue(toObserver, e)
    BY AnswersLater, Zenon DEF DispatchInv
  <2>2. AnswerTrue(Frame(op, i, n), e)
    BY <1>2, Zenon DEF AnswerTrue
  <2> QED BY <2>1, <2>2
<1>4. AnswersTrue(toObserver', e)
  BY <1>2, <1>3, AnswersAppend DEF Replying
<1> QED BY <1>1, <1>4

\* The first frame is of a journaled intent.
LEMMA FirstFrame ==
  ASSUME DispatchInv, toSigner # << >>
  PROVE  /\ FrameTrue(Head(toSigner), disk.state) /\ Head(toSigner) \in FrameType
         /\ Head(toSigner).upTo \in Nat
BY FramesRead DEF DispatchInv, FrameType

LEMMA ServeSubmitKeeps ==
  ASSUME DispatchInv, ServeSubmit
  PROVE  DispatchInv'
<1> DEFINE i == Head(toSigner).cloid
<1>1. PICK r \in SubmitReplies(i) :
        /\ Replying(r[1], i, 0) /\ signer' = [ signer EXCEPT ![i] = r[2] ]
        /\ IF r[2] = signer[i] THEN UNCHANGED << busy, log >>
           ELSE /\ log' = Append(log, Event("accepted", i))
                /\ busy' = IF conn = "open" THEN i ELSE NoIntent
  BY DEF ServeSubmit
<1>2. toSigner # << >> /\ i \in Intents /\ disk.state[i] # "absent"
  BY FirstFrame DEF ServeSubmit, FrameTrue
<1> HIDE DEF i
<1>3. signer \in [ Intents -> Entries ] /\ log \in Seq(Events)
  BY DEF DispatchInv, TypeOK, Entries, Events
<1>4. /\ r[1] \in { "accepted", "rejected" } /\ r[2] \in Entries
      /\ signer[i] # "absent" => r[2] # "absent"
      /\ r[1] = "accepted" => r[2] # "absent"
  BY <1>1, <1>2, <1>3 DEF SubmitReplies, Entries
<1>5. /\ signer' \in [ Intents -> Entries ]
      /\ \A k \in Intents : signer'[k] = IF k = i THEN r[2] ELSE signer[k]
  BY <1>1, <1>2, <1>3, <1>4
<1>6. Keeps(signer, signer') /\ EntriesTrue(disk.state, signer')
  BY <1>2, <1>4, <1>5 DEF DispatchInv, Keeps, EntriesTrue
<1>7. r[1] = "accepted" => signer'[i] # "absent"
  BY <1>2, <1>4, <1>5
<1>8. FramesTrue(toSigner', disk.state) /\ AnswersTrue(toObserver', signer')
  BY <1>1, <1>2, <1>4, <1>6, <1>7, ReplyTrue
<1>9. log' \in Seq(Events)
  <2>1. Event("accepted", i) \in Events
    BY <1>2 DEF Event, Events
  <2>2. Append(log, Event("accepted", i)) \in Seq(Events)
    BY <1>3, <2>1, AppendProperties
  <2> QED BY <1>1, <1>3, <2>2
<1>10. busy' \in Intents \cup { NoIntent } /\ BusyTrue(signer)'
  <2>1. busy = NoIntent
    BY DEF ServeSubmit
  <2>2. r[2] # signer[i] => signer'[i] # "absent"
    BY <1>1, <1>2, <1>5 DEF SubmitReplies
  <2>3. busy' = NoIntent \/ (busy' = i /\ r[2] # signer[i])
    BY <1>1, <2>1
  <2> QED BY <1>2, <2>2, <2>3 DEF BusyTrue
<1>11. { timeouts', observerCrashes', signerCrashes', setAside' } \subseteq Nat
  BY DEF DispatchInv, TypeOK, ServeSubmit, bounds
<1>12. UNCHANGED << queue, files, tasks, conn >> /\ conn \in { "open", "closed", "broken" }
  BY DEF DispatchInv, TypeOK, ServeSubmit
<1> QED BY <1>5, <1>6, <1>8, <1>9, <1>10, <1>11, <1>12, LaterFile

LEMMA ServeReconcileKeeps ==
  ASSUME DispatchInv, ServeReconcile
  PROVE  DispatchInv'
<1> DEFINE i == Head(toSigner).cloid
<1>1. PICK r \in ReconcileReplies(i) : Replying(r, i, 0)
  BY DEF ServeReconcile
<1>2. toSigner # << >> /\ i \in Intents
  BY FirstFrame DEF ServeReconcile, FrameTrue
<1> HIDE DEF i
<1>3. r \in { "accepted", "rejected", "not_found" } /\ (r = "accepted" => signer[i] # "absent")
  BY <1>1, <1>2 DEF ReconcileReplies
<1>4. Keeps(signer, signer)
  BY DEF Keeps
<1>5. FramesTrue(toSigner', disk.state) /\ AnswersTrue(toObserver', signer)
  BY <1>1, <1>2, <1>3, <1>4, ReplyTrue
<1> QED BY <1>4, <1>5, LaterFile
        DEF BusyTrue, DispatchInv, TypeOK, ServeReconcile, bounds, ends, Entries, Events

LEMMA ServeEventsKeeps ==
  ASSUME DispatchInv, ServeEvents
  PROVE  DispatchInv'
<1>1. toSigner # << >> /\ Head(toSigner).upTo \in Nat /\ Len(log) \in Nat
  BY FirstFrame, LenProperties DEF ServeEvents, DispatchInv, TypeOK
<1>2. PICK op \in { "events", "acked" }, n \in Nat : Replying(op, NoIntent, n)
  BY <1>1 DEF ServeEvents
<1>3. Keeps(signer, signer)
  BY DEF Keeps
<1>4. FramesTrue(toSigner', disk.state) /\ AnswersTrue(toObserver', signer)
  BY <1>1, <1>2, <1>3, ReplyTrue
<1> QED BY <1>3, <1>4, LaterFile
        DEF BusyTrue, DispatchInv, TypeOK, ServeEvents, bounds, ends, Entries, Events

\* A file e that reconcile_startup goes through, when it is a later one.
LEMMA SetAsideLater ==
  ASSUME DispatchInv, NEW entries \in SUBSET Intents, NEW e \in [ Intents -> Entries ],
         Keeps(signer, e), EntriesTrue(disk.state, e), SetAside(entries, e)
  PROVE  /\ signer' \in [ Intents -> Entries ] /\ log' \in Seq(Events)
         /\ Keeps(signer, signer') /\ EntriesTrue(disk.state, signer')
<1>1. SetsAside(entries, e)
  BY SetAsideKeeps DEF DispatchInv, TypeOK, Events
<1> QED BY <1>1 DEF SetsAside, Keeps, EntriesTrue

\* The file with the submission of busy started.
LEMMA StartedFile ==
  ASSUME DispatchInv, busy # NoIntent, signer[busy] # "absent"
  PROVE  LET e == [ signer EXCEPT ![busy] = "submitted" ]
         IN  e \in [ Intents -> Entries ] /\ Keeps(signer, e) /\ EntriesTrue(disk.state, e)
BY DEF DispatchInv, TypeOK, Entries, Keeps, EntriesTrue

\* The submission starts, or the reconciliation sets the entry aside.
LEMMA SubmitKeeps ==
  ASSUME DispatchInv, Submit
  PROVE  DispatchInv'
<1>1. PICK started \in BOOLEAN, reconciled \in BOOLEAN :
        /\ setAside' = IF started THEN setAside ELSE setAside + 1
        /\ SetAside(IF reconciled THEN Intents ELSE {},
                    IF started THEN [ signer EXCEPT ![busy] = "submitted" ] ELSE signer)
  BY DEF Submit
<1> DEFINE entries == IF reconciled THEN Intents ELSE {}
           e == IF started THEN [ signer EXCEPT ![busy] = "submitted" ] ELSE signer
<1>2. entries \in SUBSET Intents /\ e \in [ Intents -> Entries ]
      /\ Keeps(signer, e) /\ EntriesTrue(disk.state, e)
  <2>1. busy # NoIntent /\ signer[busy] # "absent"
    BY DEF DispatchInv, BusyTrue, Submit
  <2>2. signer \in [ Intents -> Entries ] /\ Keeps(signer, signer) /\ EntriesTrue(disk.state, signer)
    BY DEF DispatchInv, TypeOK, Entries, Keeps
  <2> QED BY <2>1, <2>2, StartedFile
<1>3. SetAside(entries, e)
  BY <1>1
<1> HIDE DEF entries, e
<1>4. /\ signer' \in [ Intents -> Entries ] /\ log' \in Seq(Events)
      /\ Keeps(signer, signer') /\ EntriesTrue(disk.state, signer')
  BY <1>2, <1>3, SetAsideLater
<1>5. FramesTrue(toSigner', disk.state) /\ AnswersTrue(toObserver', signer')
  BY <1>4, AnswersLater DEF DispatchInv, Submit
<1>6. busy' = NoIntent /\ BusyTrue(signer)'
  BY DEF Submit, BusyTrue
<1>7. { timeouts', observerCrashes', signerCrashes', setAside' } \subseteq Nat
  BY <1>1 DEF DispatchInv, TypeOK, Submit
<1>8. UNCHANGED << queue, files, tasks, conn >> /\ conn \in { "open", "closed", "broken" }
  BY DEF DispatchInv, TypeOK, Submit
<1> QED BY <1>4, <1>5, <1>6, <1>7, <1>8, LaterFile

\* The signer starts again from its file.
LEMMA SignerCrashKeeps ==
  ASSUME DispatchInv, SignerCrash
  PROVE  DispatchInv'
<1>1. PICK started \in BOOLEAN :
        SetAside(Intents, IF started /\ busy # NoIntent
                          THEN [ signer EXCEPT ![busy] = "submitted" ] ELSE signer)
  BY DEF SignerCrash
<1> DEFINE e == IF started /\ busy # NoIntent
                THEN [ signer EXCEPT ![busy] = "submitted" ] ELSE signer
<1>2. e \in [ Intents -> Entries ] /\ Keeps(signer, e) /\ EntriesTrue(disk.state, e)
  <2>1. busy # NoIntent => signer[busy] # "absent"
    BY DEF DispatchInv, BusyTrue
  <2>2. signer \in [ Intents -> Entries ] /\ Keeps(signer, signer) /\ EntriesTrue(disk.state, signer)
    BY DEF DispatchInv, TypeOK, Entries, Keeps
  <2> QED BY <2>1, <2>2, StartedFile
<1>3. SetAside(Intents, e) /\ Intents \in SUBSET Intents
  BY <1>1
<1> HIDE DEF e
<1>4. /\ signer' \in [ Intents -> Entries ] /\ log' \in Seq(Events)
      /\ Keeps(signer, signer') /\ EntriesTrue(disk.state, signer')
  BY <1>2, <1>3, SetAsideLater
<1>5. FramesTrue(toSigner', disk.state) /\ AnswersTrue(toObserver', signer')
  BY <1>4, AnswersLater, NothingInStream DEF DispatchInv, SignerCrash
<1>6. busy' = NoIntent /\ BusyTrue(signer)'
  BY DEF SignerCrash, BusyTrue
<1>7. { timeouts', observerCrashes', signerCrashes', setAside' } \subseteq Nat
  BY DEF DispatchInv, TypeOK, SignerCrash
<1>8. UNCHANGED << queue, files, tasks >> /\ conn' \in { "open", "closed", "broken" }
  BY DEF DispatchInv, TypeOK, SignerCrash
<1> QED BY <1>4, <1>5, <1>6, <1>7, <1>8, LaterFile

-----------------------------------------------------------------------------
(* The results.                                                            *)

\* The process ends: a crash, a full lane of reductions, a failed read.
LEMMA EndKeeps ==
  ASSUME DispatchInv, ObserverCrash \/ ReconcileFails \/ \E i \in Intents : PersistReductionFails(i)
  PROVE  DispatchInv'
<1>1. Exit /\ UNCHANGED << files, ends >>
  BY DEF ObserverCrash, ReconcileFails, PersistReductionFails
<1>2. { timeouts', observerCrashes', signerCrashes', setAside' } \subseteq Nat
  BY DEF DispatchInv, TypeOK, ObserverCrash, ReconcileFails, PersistReductionFails, bounds
<1> QED BY <1>1, <1>2, ExitKeeps

\* Every step keeps the invariant.
LEMMA NextKeeps == DispatchInv /\ [Next]_vars => DispatchInv'
<1> SUFFICES ASSUME DispatchInv, [Next]_vars PROVE DispatchInv'
  OBVIOUS
<1>1. CASE Start
  BY <1>1, StartKeeps
<1>2. CASE ObserverCrash
  BY <1>2, EndKeeps
<1>3. CASE MainTask
  BY <1>3, RequestKeeps, ReceiveKeeps, ApplyKeeps, ResetKeeps, EndKeeps DEF MainTask
<1>4. CASE Worker
  BY <1>4, PickKeeps, WriteKeeps, PersistSentKeeps, ReplayKeeps, ReplyKeeps, FailureKeeps DEF Worker
<1>5. CASE ReplyTimeout
  BY <1>5, FailureKeeps
<1>6. ASSUME NEW i \in Intents, PersistIntent(i) \/ PersistReductionFails(i) PROVE DispatchInv'
  BY <1>6, PersistKeeps, EndKeeps
<1>7. CASE Signer
  BY <1>7, ServeSubmitKeeps, ServeReconcileKeeps, ServeEventsKeeps, SubmitKeeps DEF Signer
<1>8. CASE SignerCrash
  BY <1>8, SignerCrashKeeps
<1>9. CASE UNCHANGED vars
  <2>1. TypeOK' /\ BusyTrue(signer)' /\ MemoryTrue(queue.state, disk.state)'
    BY <1>9 DEF DispatchInv, TypeOK, BusyTrue, MemoryTrue, vars
  <2> QED BY <1>9, <2>1 DEF DispatchInv, vars
<1> QED BY <1>1, <1>2, <1>3, <1>4, <1>5, <1>6, <1>7, <1>8, <1>9 DEF Next

LEMMA DispatchIsTrue == Spec => []DispatchInv
<1> QED BY InitTrue, NextKeeps, PTL DEF Spec

\* Every variable of the handoff keeps its type (DurableHandoffQueue, Frame).
THEOREM TypeCorrect == Spec => []TypeOK
<1>1. DispatchInv => TypeOK
  BY DEF DispatchInv
<1> QED BY <1>1, DispatchIsTrue, PTL

\* An intent that the observer has marked accepted is in the signer's file,
\* whichever frame the answer was to and however late it came
\* (dispatch_persisted, ReceiveReply).
THEOREM AcceptedKnown == Spec => []AcceptedIsKnown
<1>1. DispatchInv => AcceptedIsKnown
  BY DEF DispatchInv, MarksTrue, AcceptedIsKnown
<1> QED BY <1>1, DispatchIsTrue, PTL

\* What the signer has on disk, the observer has in its journal, so that no
\* restart of either forgets an intent that is alive (persist, restore).
THEOREM KnownJournaled == Spec => []KnownIsJournaled
<1>1. DispatchInv => KnownIsJournaled
  BY DEF DispatchInv, EntriesTrue, KnownIsJournaled
<1> QED BY <1>1, DispatchIsTrue, PTL

=============================================================================
