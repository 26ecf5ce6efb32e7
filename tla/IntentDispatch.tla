--------------------------- MODULE IntentDispatch ---------------------------
(***************************************************************************)
(* The durable handoff of authorized intents from the observer to the      *)
(* signer (copytrade-observer/src/ipc_client.rs).                          *)
(*                                                                         *)
(* The observer process runs two tasks that share the handoff queue and    *)
(* the one connection to the signer, each behind a lock of its own: the    *)
(* main task, which persists new intents and then reads the signer's       *)
(* events (dispatch_production_intents), and the dispatch worker.  The     *)
(* signer answers the frames of the connection in order, one at a time.    *)
(* Its own steps are those of ProductionSigner; here an entry is absent,   *)
(* authorized, set aside (AuthorizedNotSubmitted) or submitted.            *)
(*                                                                         *)
(* The locks are not variables: who holds one follows from where the two   *)
(* tasks stand.  Every failed save of a file ends in the same way as the   *)
(* crash just before it, and is not modelled apart.                        *)
(***************************************************************************)
EXTENDS Naturals, FiniteSets, SequencesExt

CONSTANTS
  Intents,           (* Authorized intents; each has a CLOID of its own.   *)
  ReduceOnly,        (* Those that reduce risk.                            *)
  NoIntent,
  RiskCapacity,      (* maximum_pending_risk_reducing.                     *)
  ExposureCapacity,  (* maximum_pending_exposure_increasing.               *)
  MaxTimeouts,       (* Bound on acknowledgments later than the timeout.   *)
  MaxObserverCrashes,
  MaxSignerCrashes,
  MaxSetAside        (* Bound on submissions that fail before their start. *)

ASSUME DispatchAssumption ==
  /\ IsFiniteSet(Intents) /\ NoIntent \notin Intents
  /\ ReduceOnly \subseteq Intents
  /\ {RiskCapacity, ExposureCapacity} \subseteq Nat \ {0}
  /\ {MaxTimeouts, MaxObserverCrashes, MaxSignerCrashes, MaxSetAside} \subseteq Nat

VARIABLES
  queue,      (* DurableHandoffQueue in memory.                            *)
  disk,       (* The intent journal.                                       *)
  applied,    (* highest_contiguous_signer_sequence, saved at every step.  *)
  worker,     (* Where the dispatch worker stands.                         *)
  wcur,       (* The intent it dispatches.                                 *)
  main,       (* Where the main task stands.                               *)
  upTo,       (* Last event of the reply the main task applies.            *)
  conn,       (* The connection: "open", or closed by either end.          *)
  toSigner,   (* Frames the signer has not read, in order.                 *)
  toObserver, (* Replies the observer has not read, in order.              *)
  signer,     (* Intent -> the signer's durable entry.                     *)
  busy,       (* The intent the signer is submitting.                      *)
  log,        (* The reconciliation events the signer will replay.         *)
  timeouts, observerCrashes, signerCrashes, setAside

tasks == << worker, wcur, main, upTo >>
files == << disk, applied >>
ends  == << signer, busy, log >>
bounds == << timeouts, observerCrashes, signerCrashes, setAside >>
vars == << queue, disk, applied, worker, wcur, main, upTo, conn, toSigner,
           toObserver, signer, busy, log, timeouts, observerCrashes,
           signerCrashes, setAside >>

QueueStates  == { "absent", "persisted", "sent", "unknown", "accepted", "rejected" }
Dispatchable == { "persisted", "sent", "unknown" }
MaxPending   == RiskCapacity + ExposureCapacity

\* by_cloid with its states; order is the order of observer_sequence.
EmptyQueue == [ state |-> [ i \in Intents |-> "absent" ], order |-> << >> ]

Frame(op, i, n) == [ op |-> op, cloid |-> i, upTo |-> n ]

Mark(i, s) == [ queue EXCEPT !.state[i] = s ]

WorkerHoldsQueue  == worker \in { "queue", "written", "await", "replayed" }
WorkerHoldsClient == worker \in { "written", "await", "replayed" }
MainHoldsClient   == main \in { "replay", "apply", "reset", "ack" }

Init ==
  /\ queue = EmptyQueue /\ disk = EmptyQueue /\ applied = 0
  /\ worker = "idle" /\ wcur = NoIntent /\ main = "down" /\ upTo = 0
  /\ conn = "closed" /\ toSigner = << >> /\ toObserver = << >>
  /\ signer = [ i \in Intents |-> "absent" ] /\ busy = NoIntent /\ log = << >>
  /\ timeouts = 0 /\ observerCrashes = 0 /\ signerCrashes = 0 /\ setAside = 0

-----------------------------------------------------------------------------
(* The observer process.                                                   *)

\* restore refuses a journal with more entries than the queue may hold.
Restorable(q) == Len(q.order) <= MaxPending

\* The signer accepts the next connection when it is done with the last one.
Start ==
  /\ main = "down" /\ Restorable(disk)
  /\ toSigner = << >> /\ busy = NoIntent
  /\ queue' = disk /\ main' = "boot" /\ conn' = "open"
  /\ UNCHANGED << files, worker, wcur, upTo, toSigner, toObserver, ends, bounds >>

\* A frame the signer has not read when the process ends may still be read;
\* nothing that follows it is, for the reply to it fails.
Exit ==
  /\ main' = "down" /\ worker' = "idle" /\ wcur' = NoIntent /\ upTo' = 0
  /\ queue' = EmptyQueue /\ conn' = "closed" /\ toObserver' = << >>
  /\ toSigner' = SubSeq(toSigner, 1, IF toSigner = << >> THEN 0 ELSE 1)

ObserverCrash ==
  /\ main # "down" /\ observerCrashes < MaxObserverCrashes
  /\ observerCrashes' = observerCrashes + 1
  /\ Exit
  /\ UNCHANGED << files, ends, timeouts, signerCrashes, setAside >>

-----------------------------------------------------------------------------
(* The main task: persist_and_queue, then reconcile_into.                  *)

Pending(q, i) == q.state[i] \notin { "absent", "accepted", "rejected" }
Lane(i)       == { j \in Intents : (j \in ReduceOnly) <=> (i \in ReduceOnly) }
LaneCapacity(i) == IF i \in ReduceOnly THEN RiskCapacity ELSE ExposureCapacity
InLane(q, i)  == { j \in Lane(i) : q.state[j] \notin { "absent", "rejected" } }

HasRoom(q, i) ==
  /\ Cardinality({ j \in Intents : Pending(q, j) }) < MaxPending
  /\ Cardinality(InLane(q, i)) < LaneCapacity(i)

Enqueued(i) == [ Mark(i, "persisted") EXCEPT !.order = Append(@, i) ]

\* Fault: the journal is written with the next frame only.
PersistIntentLater(i) ==
  /\ main = "run" /\ ~WorkerHoldsQueue
  /\ queue.state[i] = "absent" /\ HasRoom(queue, i)
  /\ queue' = Enqueued(i)
  /\ UNCHANGED << files, tasks, conn, toSigner, toObserver, ends, bounds >>

\* enqueue and persist; a known CLOID changes nothing.
PersistIntent(i) ==
  /\ main = "run" /\ ~WorkerHoldsQueue
  /\ queue.state[i] = "absent" /\ HasRoom(queue, i)
  /\ queue' = Enqueued(i) /\ disk' = Enqueued(i)
  /\ UNCHANGED << applied, tasks, conn, toSigner, toObserver, ends, bounds >>

\* A full lane drops an increase and ends the process for a reduction.
PersistReductionFails(i) ==
  /\ main = "run" /\ ~WorkerHoldsQueue
  /\ i \in ReduceOnly /\ queue.state[i] = "absent" /\ ~HasRoom(queue, i)
  /\ Exit
  /\ UNCHANGED << files, ends, bounds >>

RequestEvents ==
  /\ main \in { "boot", "run" } /\ ~WorkerHoldsClient /\ conn = "open"
  /\ toSigner' = Append(toSigner, Frame("replay", NoIntent, applied))
  /\ main' = "replay"
  /\ UNCHANGED << queue, files, worker, wcur, upTo, conn, toObserver, ends, bounds >>

\* There is no timeout on this reply, and any other reply is an error.
ReceiveEvents ==
  /\ main = "replay" /\ toObserver # << >> /\ Head(toObserver).op = "events"
  /\ toObserver' = Tail(toObserver)
  /\ upTo' = Head(toObserver).upTo /\ main' = "apply"
  /\ UNCHANGED << queue, files, worker, wcur, conn, toSigner, ends, bounds >>

\* The event is applied and the trading state saved before the queue is.
ApplyEvent ==
  /\ main = "apply" /\ applied < upTo
  /\ applied' = applied + 1
  /\ main' = IF log[applied + 1].op = "set_aside" THEN "reset" ELSE "apply"
  /\ UNCHANGED << queue, disk, worker, wcur, upTo, conn, toSigner, toObserver,
                  ends, bounds >>

\* AuthorizedNotSubmitted: the intent is to be dispatched again.
ResetIntent ==
  /\ main = "reset" /\ ~WorkerHoldsQueue
  /\ queue' = Mark(log[applied].cloid, "persisted") /\ disk' = queue'
  /\ main' = "apply"
  /\ UNCHANGED << applied, worker, wcur, upTo, conn, toSigner, toObserver,
                  ends, bounds >>

AcknowledgeEvents ==
  /\ main = "apply" /\ applied >= upTo /\ conn = "open"
  /\ toSigner' = Append(toSigner, Frame("ack", NoIntent, applied))
  /\ main' = "ack"
  /\ UNCHANGED << queue, files, worker, wcur, upTo, conn, toObserver, ends, bounds >>

ReceiveAcknowledged ==
  /\ main = "ack" /\ toObserver # << >>
  /\ Head(toObserver) = Frame("acked", NoIntent, applied)
  /\ toObserver' = Tail(toObserver) /\ main' = "run" /\ upTo' = 0
  /\ UNCHANGED << queue, files, worker, wcur, conn, toSigner, ends, bounds >>

\* Any failure of reconcile_into ends the observer, which is restarted.
ReconcileFails ==
  /\ \/ /\ toObserver # << >>
        /\ \/ main = "replay" /\ Head(toObserver).op # "events"
           \/ main = "ack" /\ Head(toObserver) # Frame("acked", NoIntent, applied)
     \/ /\ conn = "broken" /\ toObserver = << >> /\ main \in { "replay", "ack" }
     \/ /\ conn = "broken" /\ main \in { "boot", "run" } /\ ~WorkerHoldsClient
     \/ /\ conn = "broken" /\ main = "apply" /\ applied >= upTo
  /\ Exit
  /\ UNCHANGED << files, ends, bounds >>

-----------------------------------------------------------------------------
(* The dispatch worker.                                                    *)

\* Reductions first, then the oldest.
Before(q, i, j) ==
  LET seq(k) == CHOOSE n \in DOMAIN q.order : q.order[n] = k
      rank(k) == IF k \in ReduceOnly THEN 0 ELSE 1
  IN  rank(i) < rank(j) \/ (rank(i) = rank(j) /\ seq(i) <= seq(j))

\* Fault: a sent intent waits for a reply that a restart has lost.
NextUnsent(i) ==
  /\ queue.state[i] \in Dispatchable \ { "sent" }
  /\ \A j \in Intents : queue.state[j] \in Dispatchable => Before(queue, i, j)

NextDispatchable(i) ==
  /\ queue.state[i] \in Dispatchable
  /\ \A j \in Intents : queue.state[j] \in Dispatchable => Before(queue, i, j)

\* The queue is unlocked again before dispatch_persisted locks it.
Pick ==
  /\ main # "down" /\ worker = "idle"
  /\ \E i \in Intents : NextDispatchable(i) /\ wcur' = i
  /\ worker' = "picked"
  /\ UNCHANGED << queue, files, main, upTo, conn, toSigner, toObserver, ends, bounds >>

LockQueue ==
  /\ worker = "picked"
  /\ worker' = "queue"
  /\ UNCHANGED << queue, files, wcur, main, upTo, conn, toSigner, toObserver,
                  ends, bounds >>

\* An unknown intent is asked for, any other is submitted.
WriteFrame ==
  /\ worker = "queue" /\ ~MainHoldsClient /\ conn = "open"
  /\ IF queue.state[wcur] = "unknown"
     THEN /\ toSigner' = Append(toSigner, Frame("reconcile", wcur, 0))
          /\ worker' = "await" /\ UNCHANGED queue
     ELSE /\ toSigner' = Append(toSigner, Frame("submit", wcur, 0))
          /\ worker' = "written" /\ queue' = Mark(wcur, "sent")
  /\ UNCHANGED << files, wcur, main, upTo, conn, toObserver, ends, bounds >>

PersistSent ==
  /\ worker = "written"
  /\ disk' = queue /\ worker' = "await"
  /\ UNCHANGED << queue, applied, wcur, main, upTo, conn, toSigner, toObserver,
                  ends, bounds >>

\* "Not found" for an unknown intent: the same frame is written once more.
ReplayFrame ==
  /\ worker = "await" /\ queue.state[wcur] = "unknown"
  /\ toObserver # << >> /\ Head(toObserver) = Frame("not_found", wcur, 0)
  /\ toObserver' = Tail(toObserver) /\ worker' = "replayed"
  /\ IF conn = "open" THEN toSigner' = Append(toSigner, Frame("submit", wcur, 0))
                      ELSE UNCHANGED toSigner
  /\ UNCHANGED << queue, files, wcur, main, upTo, conn, ends, bounds >>

Answered(q) ==
  /\ queue' = q /\ disk' = q /\ worker' = "idle" /\ wcur' = NoIntent
  /\ UNCHANGED << applied, main, upTo, conn, toSigner, ends >>

\* mark_disconnect: only a sent intent becomes unknown.
Retained ==
  Answered(IF queue.state[wcur] = "sent" THEN Mark(wcur, "unknown") ELSE queue)

\* Fault: a reply is taken for the answer to the last frame.
ReceiveAnyReply ==
  /\ worker \in { "await", "replayed" } /\ toObserver # << >>
  /\ toObserver' = Tail(toObserver)
  /\ LET reply == Head(toObserver)
     IN  IF reply.op \in { "accepted", "rejected" }
         THEN Answered(Mark(wcur, reply.op)) ELSE Retained
  /\ UNCHANGED bounds

\* The reply counts only if it names the intent; any other is an error.
ReceiveReply ==
  /\ worker \in { "await", "replayed" } /\ toObserver # << >>
  /\ LET reply == Head(toObserver)
     IN  /\ ~( /\ worker = "await" /\ queue.state[wcur] = "unknown"
               /\ reply = Frame("not_found", wcur, 0) )
         /\ IF reply.op \in { "accepted", "rejected" } /\ reply.cloid = wcur
            THEN Answered(Mark(wcur, reply.op)) ELSE Retained
  /\ toObserver' = Tail(toObserver)
  /\ UNCHANGED bounds

\* The reply stays in the stream for the next reader.
ReplyTimeout ==
  /\ worker \in { "await", "replayed" } /\ toObserver = << >> /\ conn = "open"
  /\ timeouts < MaxTimeouts /\ timeouts' = timeouts + 1
  /\ Retained
  /\ UNCHANGED << toObserver, observerCrashes, signerCrashes, setAside >>

\* The connection is gone: the write or the read fails.
DispatchFails ==
  /\ conn = "broken" /\ toObserver = << >>
  /\ \/ worker = "queue" /\ ~MainHoldsClient
     \/ worker \in { "await", "replayed" }
  /\ Retained
  /\ UNCHANGED << toObserver, bounds >>

-----------------------------------------------------------------------------
(* The signer, as far as the handoff can tell.                             *)

Event(op, i) == [ op |-> op, cloid |-> i ]

\* The replies an entry may get, with what becomes of the entry.
SubmitReplies(i) ==
  IF signer[i] \in { "absent", "set_aside" }
  THEN { << "accepted", "authorized" >>, << "rejected", signer[i] >> }
  ELSE { << "accepted", signer[i] >> }

\* A lookup that fails answers Rejected and leaves the entry as it is.
ReconcileReplies(i) ==
  CASE signer[i] = "absent" -> { "not_found" }
    [] signer[i] = "submitted" -> { "accepted", "rejected" }
    [] OTHER -> { "accepted" }

\* With the peer gone the reply fails and the signer drops the connection.
Replying(op, i, n) ==
  /\ toObserver' = IF conn = "open" THEN Append(toObserver, Frame(op, i, n))
                                    ELSE toObserver
  /\ toSigner' = IF conn = "open" THEN Tail(toSigner) ELSE << >>

ServeSubmit ==
  /\ busy = NoIntent /\ toSigner # << >> /\ Head(toSigner).op = "submit"
  /\ LET i == Head(toSigner).cloid
     IN  \E r \in SubmitReplies(i) :
           /\ Replying(r[1], i, 0)
           /\ signer' = [ signer EXCEPT ![i] = r[2] ]
           /\ IF r[2] = signer[i] THEN UNCHANGED << busy, log >>
              ELSE /\ log' = Append(log, Event("accepted", i))
                   /\ busy' = IF conn = "open" THEN i ELSE NoIntent
  /\ UNCHANGED << queue, files, tasks, conn, bounds >>

ServeReconcile ==
  /\ busy = NoIntent /\ toSigner # << >> /\ Head(toSigner).op = "reconcile"
  /\ \E r \in ReconcileReplies(Head(toSigner).cloid) :
       Replying(r, Head(toSigner).cloid, 0)
  /\ UNCHANGED << queue, files, tasks, conn, ends, bounds >>

ServeEvents ==
  /\ busy = NoIntent /\ toSigner # << >> /\ Head(toSigner).op \in { "replay", "ack" }
  /\ IF Head(toSigner).op = "replay" THEN Replying("events", NoIntent, Len(log))
                                     ELSE Replying("acked", NoIntent, Head(toSigner).upTo)
  /\ UNCHANGED << queue, files, tasks, conn, ends, bounds >>

\* reconcile_startup sets aside what was authorized and never started.
SetAside(entries, s) ==
  LET these == { i \in entries : s[i] = "authorized" }
      note(i) == Event("set_aside", i)
  IN  /\ signer' = [ i \in Intents |-> IF i \in these THEN "set_aside" ELSE s[i] ]
      /\ log' = log \o [ n \in 1..Cardinality(these) |-> note(SetToSeq(these)[n]) ]

\* The submission starts, or fails before it does; the reconciliation that
\* follows may fail before it reaches the registry.
Submit ==
  /\ busy # NoIntent /\ busy' = NoIntent
  /\ \E started \in BOOLEAN, reconciled \in BOOLEAN :
       /\ started \/ setAside < MaxSetAside
       /\ setAside' = IF started THEN setAside ELSE setAside + 1
       /\ SetAside(IF reconciled THEN Intents ELSE {},
                   IF started THEN [ signer EXCEPT ![busy] = "submitted" ] ELSE signer)
  /\ UNCHANGED << queue, files, tasks, conn, toSigner, toObserver, timeouts,
                  observerCrashes, signerCrashes >>

\* The signer stops and starts again; its replies stay readable.
SignerCrash ==
  /\ signerCrashes < MaxSignerCrashes /\ signerCrashes' = signerCrashes + 1
  /\ busy' = NoIntent /\ toSigner' = << >>
  /\ conn' = IF conn = "open" THEN "broken" ELSE conn
  /\ \E started \in BOOLEAN :
       SetAside(Intents, IF started /\ busy # NoIntent
                         THEN [ signer EXCEPT ![busy] = "submitted" ] ELSE signer)
  /\ UNCHANGED << queue, files, tasks, toObserver, timeouts, observerCrashes,
                  setAside >>

-----------------------------------------------------------------------------

MainTask ==
  \/ RequestEvents \/ ReceiveEvents \/ ApplyEvent \/ ResetIntent
  \/ AcknowledgeEvents \/ ReceiveAcknowledged \/ ReconcileFails

Worker ==
  \/ Pick \/ LockQueue \/ WriteFrame \/ PersistSent \/ ReplayFrame
  \/ ReceiveReply \/ DispatchFails

Signer == ServeSubmit \/ ServeReconcile \/ ServeEvents \/ Submit

Next ==
  \/ Start \/ ObserverCrash \/ MainTask \/ Worker \/ ReplyTimeout
  \/ \E i \in Intents : PersistIntent(i) \/ PersistReductionFails(i)
  \/ Signer \/ SignerCrash

Spec == Init /\ [][Next]_vars

\* The tasks and the signer are scheduled and the observer is restarted
\* (Restart=on-failure); the lock each task waits for is handed out fairly.
Fairness ==
  /\ WF_vars(Start) /\ SF_vars(MainTask) /\ SF_vars(Worker) /\ WF_vars(Signer)

FairSpec == Spec /\ Fairness

-----------------------------------------------------------------------------
(* Properties.                                                             *)

FrameType ==
  [ op : { "submit", "reconcile", "replay", "ack", "accepted", "rejected",
           "not_found", "events", "acked" },
    cloid : Intents \cup { NoIntent }, upTo : Nat ]
QueueType == [ state : [ Intents -> QueueStates ], order : Seq(Intents) ]

TypeOK ==
  /\ queue \in QueueType /\ disk \in QueueType /\ applied \in Nat
  /\ worker \in { "idle", "picked", "queue", "written", "await", "replayed" }
  /\ wcur \in Intents \cup { NoIntent }
  /\ main \in { "down", "boot", "run", "replay", "apply", "reset", "ack" }
  /\ upTo \in Nat /\ conn \in { "open", "closed", "broken" }
  /\ toSigner \in Seq(FrameType) /\ toObserver \in Seq(FrameType)
  /\ signer \in [ Intents -> { "absent", "authorized", "set_aside", "submitted" } ]
  /\ busy \in Intents \cup { NoIntent }
  /\ log \in Seq([ op : { "accepted", "set_aside" }, cloid : Intents ])
  /\ { timeouts, observerCrashes, signerCrashes, setAside } \subseteq Nat

\* An intent is marked accepted only if the signer has it on disk, although
\* a late reply stays in the stream and is read for another intent's frame.
AcceptedIsKnown ==
  \A i \in Intents : queue.state[i] = "accepted" => signer[i] # "absent"

\* What the signer knows is in the journal: it is written "before the first
\* socket write" (ipc_client.rs:336), so no restart forgets a live intent.
KnownIsJournaled ==
  \A i \in Intents : signer[i] # "absent" => disk.state[i] # "absent"

\* Every persisted intent is answered: "Delivery is at least once"
\* (ipc_client.rs:269), whoever holds which lock.
EveryIntentIsAnswered ==
  \A i \in Intents :
    (disk.state[i] \in Dispatchable) ~> (disk.state[i] \in { "accepted", "rejected" })
=============================================================================
