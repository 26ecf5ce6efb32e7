------------------------- MODULE RuntimePartsProofs -------------------------
(* What holds of the parts of the observer's runtime and of the legacy bot, *)
(* for all their constants.                                                 *)
(*   StateRoot: a save that returned is never undone.                       *)
(*   MeasurementRun: the boundaries tile the window.                        *)
(*   CandleReads: every candle marked as read arrives, is on its way, or    *)
(*     came in an answer that was discarded.                                *)
(*   ReorderedEvents: the order of arrival is invisible.                    *)
(*   ReplayJournal: the journal reproduces the engine.                      *)
(*   WindowAggregate: the records stay sound and the summary true.          *)
(*   CopyTradeBot: every sample happened, and every prefix of a plan keeps  *)
(*     the cap of the gross.                                                *)
EXTENDS SetLemmas, StateRoot, MeasurementRun, CandleReads, ReorderedEvents, ReplayJournal,
        WindowAggregate, CopyTradeBot, SequenceTheorems

\* What is durable is never ahead of what is cached; no marker, durable or
\* not, is ahead of any snapshot; a returned save has a durable marker.
Ordered ==
  /\ durable["snapshot"] <= cached["snapshot"]
  /\ durable["marker"] <= cached["marker"]
  /\ cached["marker"] <= durable["snapshot"]
  /\ returned <= durable["marker"]

\* A save replaces the snapshot: both names still hold the old generation on
\* disk, and only the temporary file or the rename is ahead (persist).
SnapshotPhase ==
  /\ saving = SavedFiles /\ generation < MaxSaves
  /\ durable["snapshot"] = generation
  /\ cached["marker"] = generation /\ durable["marker"] = generation
  /\ \/ rootPc = "write" /\ cached["snapshot"] = generation
     \/ /\ rootPc = "rename" /\ cached["snapshot"] = generation
        /\ cached["snapshot.tmp"] = generation + 1
     \/ rootPc = "sync" /\ cached["snapshot"] = generation + 1

\* The marker follows when the snapshot is durable (persist, initialize).
MarkerPhase ==
  /\ saving = <<"marker">>
  /\ cached["snapshot"] = generation /\ durable["snapshot"] = generation
  /\ \/ rootPc = "write"
     \/ rootPc = "rename" /\ cached["marker.tmp"] = generation
     \/ rootPc = "sync" /\ cached["marker"] = generation

\* No save is under way and both files hold the generation.
AtRest ==
  /\ rootPc = "running" /\ saving = <<>>
  /\ cached["snapshot"] = generation /\ durable["snapshot"] = generation
  /\ cached["marker"] = generation /\ durable["marker"] = generation

\* The inductive invariant: the order of the files and where the save stands.
RootInv ==
  /\ RootTypeOK /\ Ordered /\ refusal # "Rollback"
  /\ (rootPc = "down" /\ generation = None) \/ AtRest \/ SnapshotPhase \/ MarkerPhase

\* The files of a save: the snapshot, then the marker (persist).
LEMMA Files ==
  /\ Head(SavedFiles) = "snapshot" /\ Tail(SavedFiles) = <<"marker">> /\ Len(SavedFiles) = 2
  /\ Head(<<"marker">>) = "marker" /\ Tail(<<"marker">>) = <<>> /\ Len(<<"marker">>) = 1
  /\ SavedFiles # <<>> /\ <<"marker">> # <<>>
PROOF
  BY DEF SavedFiles

\* A name's entry is None or a generation.
LEMMA Entries ==
  ASSUME RootTypeOK
  PROVE  /\ \A n \in Names : cached[n] \in Int /\ durable[n] \in Int
         /\ \A n \in Names : cached[n] >= None /\ durable[n] >= None
         /\ \A n \in Names : cached[n] <= MaxSaves /\ durable[n] <= MaxSaves
         /\ generation \in Int /\ returned \in Int /\ MaxSaves \in Nat
         /\ {"snapshot", "marker", "snapshot.tmp", "marker.tmp"} = Names
PROOF
  BY RootAssumption DEF RootTypeOK, None, Names

\* An empty directory is in order.
LEMMA RootInvInit == RootInit => RootInv
PROOF
  BY RootAssumption DEF RootInit, RootInv, RootTypeOK, Ordered, Names, None

-----------------------------------------------------------------------------
\* A start finds a snapshot and a marker in their order, whatever was lost
\* (acquire, restore).
LEMMA StartKeeps == RootInv /\ Start => RootInv'
PROOF
<1> SUFFICES ASSUME RootInv, Start PROVE RootInv' OBVIOUS
<1> DEFINE cleaned == [cached EXCEPT !["snapshot.tmp"] = None, !["marker.tmp"] = None]
           rollback == cached["snapshot"] < cached["marker"]
<1>1. RootTypeOK /\ Ordered
  BY DEF RootInv
<1>2. ~rollback
  BY <1>1, Entries DEF Ordered
<1>3. cleaned \in [Names -> None..MaxSaves] /\ cleaned["snapshot"] = cached["snapshot"]
      /\ cleaned["marker"] = cached["marker"]
  BY <1>1, RootAssumption DEF RootTypeOK, Names, None
<1>4. CASE /\ AcquireRefusal # "no"
           /\ refusal' = AcquireRefusal
           /\ UNCHANGED <<cached, durable, rootPc, saving, generation, markerGeneration, returned, stops>>
  <2>1. AcquireRefusal # "Rollback"
    BY DEF AcquireRefusal
  <2>2. RootTypeOK' /\ Ordered'
    BY <1>1, <1>4 DEF RootTypeOK, Ordered
  <2>3. rootPc' = "down" /\ generation' = None
    BY <1>4 DEF Start, RootInv, AtRest, SnapshotPhase, MarkerPhase
  <2> QED BY <1>4, <2>1, <2>2, <2>3 DEF RootInv
<1>5. CASE /\ AcquireRefusal = "no" /\ cached["marker"] = None
           /\ rootPc' = "write" /\ saving' = SavedFiles
           /\ UNCHANGED <<cached, durable, generation, markerGeneration, refusal, returned, stops>>
  <2>1. cached["snapshot"] = None
    BY <1>5 DEF AcquireRefusal
  <2>2. generation = None
    BY DEF RootInv, Start, AtRest, SnapshotPhase, MarkerPhase
  <2>3. durable["snapshot"] = None /\ durable["marker"] = None /\ None < MaxSaves
    BY <1>1, <1>5, <2>1, Entries DEF Ordered, None
  <2>4. SnapshotPhase'
    BY <1>5, <2>1, <2>2, <2>3 DEF SnapshotPhase
  <2>5. RootTypeOK' /\ Ordered'
    BY <1>1, <1>5 DEF RootTypeOK, Ordered
  <2> QED BY <1>5, <2>4, <2>5 DEF RootInv
<1>6. CASE /\ AcquireRefusal = "no" /\ cached["marker"] # None
           /\ cached' = cleaned /\ durable' = cleaned
           /\ refusal' = "no" /\ generation' = cached["snapshot"]
           /\ markerGeneration' = cached["marker"]
           /\ saving' = IF cached["snapshot"] > cached["marker"] THEN <<"marker">> ELSE <<>>
           /\ rootPc' = IF saving' = <<>> THEN "running" ELSE "write"
           /\ UNCHANGED <<returned, stops>>
  <2> HIDE DEF cleaned
  <2>1. /\ cached'["snapshot"] = cached["snapshot"] /\ durable'["snapshot"] = cached["snapshot"]
        /\ cached'["marker"] = cached["marker"] /\ durable'["marker"] = cached["marker"]
    BY <1>3, <1>6
  <2>2. cached["marker"] <= cached["snapshot"] /\ returned <= cached["marker"]
    BY <1>1, Entries DEF Ordered
  <2>3. Ordered'
    BY <1>1, <1>6, <2>1, <2>2, Entries DEF Ordered
  <2>4. cached["snapshot"] \in None..MaxSaves /\ cached["marker"] \in None..MaxSaves
    BY <1>1 DEF RootTypeOK, Names
  <2>5. CASE cached["snapshot"] > cached["marker"]
    <3>1. saving' = <<"marker">> /\ rootPc' = "write"
      BY <1>6, <2>5, Files
    <3>2. MarkerPhase'
      BY <1>6, <2>1, <3>1 DEF MarkerPhase
    <3>3. RootTypeOK'
      BY <1>1, <1>3, <1>6, <2>4, <3>1 DEF RootTypeOK
    <3> QED BY <1>6, <2>3, <3>2, <3>3 DEF RootInv
  <2>6. CASE ~(cached["snapshot"] > cached["marker"])
    <3>1. saving' = <<>> /\ rootPc' = "running"
      BY <1>6, <2>6
    <3>2. cached["snapshot"] = cached["marker"]
      BY <1>1, <2>2, <2>6, Entries
    <3>3. AtRest'
      BY <1>6, <2>1, <3>1, <3>2 DEF AtRest
    <3>4. RootTypeOK'
      BY <1>1, <1>3, <1>6, <2>4, <3>1 DEF RootTypeOK
    <3> QED BY <1>6, <2>3, <3>3, <3>4 DEF RootInv
  <2> QED BY <2>5, <2>6
<1> QED BY <1>2, <1>4, <1>5, <1>6 DEF Start, SyncedDirectory

\* The beginning of a save leaves the files alone (persist).
LEMMA SaveKeeps == RootInv /\ Save => RootInv'
PROOF
<1> SUFFICES ASSUME RootInv, Save PROVE RootInv' OBVIOUS
<1>1. AtRest
  BY DEF RootInv, Save, SnapshotPhase, MarkerPhase
<1>2. SnapshotPhase'
  BY <1>1 DEF AtRest, SnapshotPhase, Save
<1>3. RootTypeOK' /\ Ordered'
  BY DEF RootInv, Save, RootTypeOK, Ordered
<1> QED BY <1>2, <1>3 DEF RootInv, Save

\* What is written to the temporary file is the generation of its phase.
LEMMA WriteKeeps == RootInv /\ WriteFile => RootInv'
PROOF
<1> SUFFICES ASSUME RootInv, WriteFile PROVE RootInv' OBVIOUS
<1>1. RootTypeOK /\ Ordered /\ rootPc = "write" /\ generation \in None..MaxSaves
  BY DEF RootInv, WriteFile, RootTypeOK
<1>2. ASSUME NEW t \in {"snapshot.tmp", "marker.tmp"}, NEW g \in None..MaxSaves,
             cached' = [cached EXCEPT ![t] = g]
      PROVE  /\ RootTypeOK' /\ Ordered' /\ cached'[t] = g
             /\ cached'["snapshot"] = cached["snapshot"] /\ cached'["marker"] = cached["marker"]
  <2>1. /\ cached' \in [Names -> None..MaxSaves] /\ cached'[t] = g
        /\ cached'["snapshot"] = cached["snapshot"] /\ cached'["marker"] = cached["marker"]
    BY <1>1, <1>2 DEF RootTypeOK, Names
  <2> QED BY <1>1, <2>1 DEF WriteFile, RootTypeOK, Ordered
<1>3. CASE SnapshotPhase
  <2>1. Written("snapshot") = generation + 1 /\ generation + 1 \in None..MaxSaves
    BY <1>1, <1>3, RootAssumption DEF Written, SnapshotPhase, None
  <2>2. cached' = [cached EXCEPT !["snapshot.tmp"] = generation + 1]
    BY <1>3, <2>1, Files DEF WriteFile, SnapshotPhase, Temporary
  <2>3. SnapshotPhase'
    BY <1>1, <1>2, <1>3, <2>1, <2>2 DEF WriteFile, SnapshotPhase
  <2> QED BY <1>2, <2>1, <2>2, <2>3 DEF RootInv, WriteFile
<1>4. CASE MarkerPhase
  <2>1. Written("marker") = generation
    BY <1>4, Files DEF Written, MarkerPhase
  <2>2. cached' = [cached EXCEPT !["marker.tmp"] = generation]
    BY <1>4, <2>1, Files DEF WriteFile, MarkerPhase, Temporary
  <2>3. MarkerPhase'
    BY <1>1, <1>2, <1>4, <2>2 DEF WriteFile, MarkerPhase
  <2> QED BY <1>1, <1>2, <2>2, <2>3 DEF RootInv, WriteFile
<1> QED BY <1>1, <1>3, <1>4 DEF RootInv, AtRest

\* A rename puts the generation of its phase under the file's name.
LEMMA RenameKeeps == RootInv /\ RenameFile => RootInv'
PROOF
<1> SUFFICES ASSUME RootInv, RenameFile PROVE RootInv' OBVIOUS
<1>1. RootTypeOK /\ Ordered /\ rootPc = "rename" /\ generation \in None..MaxSaves
  BY DEF RootInv, RenameFile, RootTypeOK
<1>2. CASE SnapshotPhase
  <2>1. cached' = [cached EXCEPT !["snapshot"] = cached["snapshot.tmp"], !["snapshot.tmp"] = None]
    BY <1>2, Files DEF RenameFile, SnapshotPhase, Temporary
  <2>2. /\ cached' \in [Names -> None..MaxSaves]
        /\ cached'["snapshot"] = cached["snapshot.tmp"] /\ cached'["marker"] = cached["marker"]
    BY <1>1, <2>1, RootAssumption DEF RootTypeOK, Names, None
  <2>3. SnapshotPhase'
    BY <1>1, <1>2, <2>2 DEF RenameFile, SnapshotPhase
  <2>4. RootTypeOK'
    BY <1>1, <2>2 DEF RenameFile, RootTypeOK
  <2>5. cached'["snapshot"] = generation + 1 /\ durable["snapshot"] = generation
    BY <1>1, <1>2, <2>2 DEF SnapshotPhase
  <2>6. Ordered'
    BY <1>1, <2>2, <2>5, Entries DEF RenameFile, Ordered
  <2> QED BY <2>3, <2>4, <2>6 DEF RootInv, RenameFile
<1>3. CASE MarkerPhase
  <2>1. cached' = [cached EXCEPT !["marker"] = cached["marker.tmp"], !["marker.tmp"] = None]
    BY <1>3, Files DEF RenameFile, MarkerPhase, Temporary
  <2>2. /\ cached' \in [Names -> None..MaxSaves]
        /\ cached'["marker"] = cached["marker.tmp"] /\ cached'["snapshot"] = cached["snapshot"]
    BY <1>1, <2>1, RootAssumption DEF RootTypeOK, Names, None
  <2>3. MarkerPhase'
    BY <1>1, <1>3, <2>2 DEF RenameFile, MarkerPhase
  <2>4. RootTypeOK'
    BY <1>1, <2>2 DEF RenameFile, RootTypeOK
  <2>5. cached'["marker"] = generation /\ durable["snapshot"] = generation
    BY <1>1, <1>3, <2>2 DEF MarkerPhase
  <2>6. Ordered'
    BY <1>1, <2>2, <2>5, Entries DEF RenameFile, Ordered
  <2> QED BY <2>3, <2>4, <2>6 DEF RootInv, RenameFile
<1> QED BY <1>1, <1>2, <1>3 DEF RootInv, AtRest

\* Memory follows the synced directory; the save returns with both files
\* durable.
LEMMA SyncKeeps == RootInv /\ SyncFile => RootInv'
PROOF
<1> SUFFICES ASSUME RootInv, SyncFile PROVE RootInv' OBVIOUS
<1>1. RootTypeOK /\ Ordered /\ rootPc = "sync" /\ generation \in None..MaxSaves
  BY DEF RootInv, SyncFile, RootTypeOK
<1>2. /\ durable' = cached /\ cached' = cached /\ durable' \in [Names -> None..MaxSaves]
      /\ cached["snapshot"] \in None..MaxSaves /\ cached["marker"] \in None..MaxSaves
  BY <1>1 DEF SyncFile, SyncedDirectory, RootTypeOK, Names
<1>3. CASE SnapshotPhase
  <2>1. /\ generation' = cached["snapshot"] /\ markerGeneration' = markerGeneration
        /\ saving' = <<"marker">> /\ rootPc' = "write" /\ returned' = returned
    BY <1>3, Files DEF SyncFile, SnapshotPhase
  <2>2. MarkerPhase'
    BY <1>2, <2>1 DEF MarkerPhase
  <2>3. RootTypeOK'
    BY <1>1, <1>2, <2>1 DEF SyncFile, RootTypeOK
  <2>4. Ordered'
    BY <1>1, <1>2, <2>1, Entries DEF Ordered
  <2> QED BY <2>2, <2>3, <2>4 DEF RootInv, SyncFile
<1>4. CASE MarkerPhase
  <2>1. /\ generation' = generation /\ markerGeneration' = cached["marker"]
        /\ saving' = <<>> /\ rootPc' = "running" /\ returned' = generation
    BY <1>4, Files DEF SyncFile, MarkerPhase
  <2>2. cached["snapshot"] = generation /\ cached["marker"] = generation
    BY <1>1, <1>4 DEF MarkerPhase
  <2>3. AtRest'
    BY <1>2, <2>1, <2>2 DEF AtRest
  <2>4. RootTypeOK'
    BY <1>1, <1>2, <2>1 DEF SyncFile, RootTypeOK
  <2>5. Ordered'
    BY <1>1, <1>2, <2>1, <2>2, Entries DEF Ordered
  <2> QED BY <2>3, <2>4, <2>5 DEF RootInv, SyncFile
<1> QED BY <1>1, <1>3, <1>4 DEF RootInv, AtRest

\* A stop keeps the directory; a failure of the machine keeps some of what
\* was not synced, name by name.
LEMMA StopKeeps == RootInv /\ (Stop \/ PowerLoss) => RootInv'
PROOF
<1> SUFFICES ASSUME RootInv, Stop \/ PowerLoss PROVE RootInv' OBVIOUS
<1>1. /\ RootTypeOK /\ Ordered /\ rootPc' = "down" /\ generation' = None /\ markerGeneration' = None
      /\ returned' = returned /\ stops' \in 0..MaxStops /\ refusal' = refusal /\ None \in None..MaxSaves
  BY RootAssumption DEF RootInv, Stop, PowerLoss, RootTypeOK, None
<1>2. CASE Stop
  BY <1>1, <1>2 DEF RootInv, Stop, RootTypeOK, Ordered
<1>3. CASE PowerLoss
  <2>1. PICK kept \in SUBSET Names :
          /\ cached' = [n \in Names |-> IF n \in kept THEN cached[n] ELSE durable[n]]
          /\ durable' = cached'
    BY <1>3 DEF PowerLoss
  <2>2. cached' \in [Names -> None..MaxSaves] /\ durable' \in [Names -> None..MaxSaves]
    BY <1>1, <2>1 DEF RootTypeOK
  <2>3. /\ cached'["snapshot"] \in {cached["snapshot"], durable["snapshot"]}
        /\ cached'["marker"] \in {cached["marker"], durable["marker"]}
    BY <2>1 DEF Names
  <2>4. Ordered'
    BY <1>1, <2>1, <2>3, Entries DEF Ordered
  <2> QED BY <1>1, <2>2, <2>4 DEF RootInv, RootTypeOK
<1> QED BY <1>2, <1>3

\* Every file operation, start and stop keeps the invariant.
LEMMA RootInvStep == RootInv /\ [RootNext]_rootVars => RootInv'
PROOF
<1>1. RootInv /\ UNCHANGED rootVars => RootInv'
  BY DEF rootVars, RootInv, RootTypeOK, Ordered, AtRest, SnapshotPhase, MarkerPhase
<1> QED BY <1>1, StartKeeps, SaveKeeps, WriteKeeps, RenameKeeps, SyncKeeps, StopKeeps DEF RootNext

-----------------------------------------------------------------------------
\* Every entry of the directory is None or a generation (state_root.rs).
THEOREM RootTypeCorrect == RootSpec => []RootTypeOK
PROOF
<1>1. RootInv => RootTypeOK
  BY DEF RootInv
<1> QED BY <1>1, RootInvInit, RootInvStep, PTL DEF RootSpec

\* A process that runs continues from the generation of the last save that
\* returned, or a later one, and no start meets a rollback, whatever stops and
\* failures came between (persist, restore).
THEOREM SavedRestored == RootSpec => []SavedIsRestored
PROOF
<1>1. RootInv => SavedIsRestored
  <2> SUFFICES ASSUME RootInv PROVE SavedIsRestored OBVIOUS
  <2>1. refusal # "Rollback"
    BY DEF RootInv
  <2>2. ASSUME rootPc = "running" PROVE generation >= returned
    <3>1. AtRest
      BY <2>2 DEF RootInv, SnapshotPhase, MarkerPhase
    <3> QED BY <3>1, Entries DEF RootInv, AtRest, Ordered
  <2> QED BY <2>1, <2>2 DEF SavedIsRestored
<1> QED BY <1>1, RootInvInit, RootInvStep, PTL DEF RootSpec

-----------------------------------------------------------------------------
(* The boundaries of a run.  In the loop each boundary lies on the grid of   *)
(* FirstAt and BucketLength, the next one is due at its next point, and no   *)
(* verdict has passed yet; what the loop leaves behind tiles the window.     *)

\* What the loop keeps.
Equities == [mark : Int, charged : Int, chargedUntil : Int, rated : BOOLEAN]
RunReads == [kind : {"Mids", "Metadata", "Deciding"}, mark : Int, at : Int]
Boundaries == [at : Int, worth : Int]

LoopPhases == {"Top", "Waiting", "Draining"}

\* The i-th point of the grid.
GridAt(i) == FirstAt + (i - 1) * BucketLength

\* All boundaries lie on the grid, and the next one is due on it.
OnGrid ==
  /\ bucketDue = GridAt(Len(boundaries) + 1)
  /\ \A i \in 1..Len(boundaries) : boundaries[i].at = GridAt(i)

MeasurementTypes ==
  /\ stage \in Stages /\ runTime \in Nat /\ equity \in Equities /\ reads \subseteq RunReads
  /\ boundaries \in Seq(Boundaries) /\ bucketDue \in Int

\* The inductive invariant.
MeasurementInv ==
  /\ MeasurementTypes
  /\ runPhase \in LoopPhases => ~verdict.ok /\ (TakesBoundaries => OnGrid)
  /\ runPhase \notin LoopPhases => BucketsTileTheWindow

-----------------------------------------------------------------------------
\* The points of the grid follow each other.
LEMMA GridGrows ==
  ASSUME NEW i \in Int
  PROVE  GridAt(i) \in Int /\ GridAt(i) < GridAt(i + 1) /\ GridAt(i + 1) = GridAt(i) + BucketLength
<1>1. BucketLength \in Nat \ {0} /\ FirstAt \in Int
  BY MeasurementAssumption DEF FirstAt
<1> DEFINE p == (i - 1) * BucketLength
           q == ((i + 1) - 1) * BucketLength
<1>2. p \in Int /\ q = p + BucketLength
  BY <1>1
<1> HIDE DEF p, q
<1>3. GridAt(i) = FirstAt + p /\ GridAt(i + 1) = FirstAt + q
  BY DEF GridAt, p, q
<1> QED BY <1>1, <1>2, <1>3

\* A boundary is added at the end.
LEMMA BoundaryAdded ==
  ASSUME NEW s \in Seq(Boundaries), NEW b \in Boundaries
  PROVE  /\ Append(s, b) \in Seq(Boundaries) /\ Len(Append(s, b)) = Len(s) + 1
         /\ \A i \in 1..Len(s) : Append(s, b)[i] = s[i]
         /\ Append(s, b)[Len(s) + 1] = b /\ Len(s) \in Nat
BY AppendProperties, LenProperties

LEMMA AccruedType ==
  ASSUME NEW e \in Equities, NEW t \in Int
  PROVE  Accrued(e, t) \in Equities
<1>1. /\ e.mark \in Int /\ e.charged \in Int /\ e.chargedUntil \in Int /\ e.rated \in BOOLEAN
      /\ e = [mark |-> e.mark, charged |-> e.charged, chargedUntil |-> e.chargedUntil, rated |-> e.rated]
  BY DEF Equities
<1>2. [e EXCEPT !.chargedUntil = t] \in Equities
  BY DEF Equities
<1>3. [e EXCEPT !.charged = @ + (t - e.chargedUntil), !.chargedUntil = t] \in Equities
  <2> DEFINE c == e.charged + (t - e.chargedUntil)
  <2>1. c \in Int
    BY <1>1
  <2>2. [e EXCEPT !.charged = @ + (t - e.chargedUntil), !.chargedUntil = t]
          = [e EXCEPT !.charged = c, !.chargedUntil = t]
    BY Zenon
  <2> HIDE DEF c
  <2>3. [e EXCEPT !.charged = c, !.chargedUntil = t] \in Equities
    BY <2>1 DEF Equities
  <2> QED BY <2>2, <2>3, Zenon
<1> QED BY <1>2, <1>3, Zenon DEF Accrued

LEMMA WorthType ==
  ASSUME NEW e \in Equities
  PROVE  Worth(e) \in Int
BY DEF Worth, Equities

LEMMA IngestedType ==
  ASSUME NEW e \in Equities, NEW r \in RunReads
  PROVE  Ingested(e, r) \in Equities
<1>1. r.mark \in Int /\ r.at \in Int /\ r.kind \in {"Mids", "Metadata", "Deciding"}
  BY DEF RunReads
<1>2. Accrued(e, r.at) \in Equities
  BY <1>1, AccruedType
<1>3. CASE r.kind = "Mids"
  BY <1>1, <1>3 DEF Ingested, Equities
<1>4. CASE r.kind = "Metadata"
  <2> DEFINE a == Accrued(e, r.at)
  <2>1. Ingested(e, r) = [a EXCEPT !.rated = TRUE, !.chargedUntil = r.at]
    BY <1>4 DEF Ingested
  <2> HIDE DEF a
  <2> QED BY <1>1, <1>2, <2>1 DEF Equities, a
<1>5. CASE r.kind = "Deciding"
  BY <1>2, <1>5 DEF Ingested
<1> QED BY <1>1, <1>3, <1>4, <1>5

LEMMA MeasurementInitTrue == MeasurementInit => MeasurementInv
<1> SUFFICES ASSUME MeasurementInit PROVE MeasurementInv
  OBVIOUS
<1>1. PICK mark \in Marks :
        equity = [mark |-> mark, charged |-> 0, chargedUntil |-> IF FirstAt = 0 THEN 0 ELSE -1, rated |-> FALSE]
  BY DEF MeasurementInit
<1>2. equity \in Equities
  BY <1>1, MeasurementAssumption DEF Equities
<1>3. Worth(equity) \in Int
  BY <1>2, WorthType
<1>4. /\ stage \in Stages /\ runPhase = "Top" /\ runTime = 0 /\ reads = {} /\ bucketDue = BucketLength
      /\ boundaries = IF FirstAt = 0 THEN <<[at |-> 0, worth |-> Worth(equity)]>> ELSE <<>>
      /\ verdict.ok = FALSE
  BY DEF MeasurementInit
<1>5. BucketLength \in Nat \ {0} /\ FirstAt = IF stage = "Profitability" THEN 0 ELSE BucketLength
  BY MeasurementAssumption DEF FirstAt
<1>6. CASE stage = "Profitability"
  <2> DEFINE b == [at |-> 0, worth |-> Worth(equity)]
  <2>1. b \in Boundaries /\ b.at = 0
    BY <1>3 DEF Boundaries
  <2> HIDE DEF b
  <2>2. boundaries = <<b>>
    BY <1>4, <1>5, <1>6 DEF b
  <2>3. boundaries \in Seq(Boundaries) /\ Len(boundaries) = 1 /\ boundaries[1] = b
    BY <2>1, <2>2
  <2>4. GridAt(1) = 0 /\ GridAt(2) = BucketLength
    BY <1>5, <1>6 DEF GridAt
  <2>5. OnGrid
    BY <1>4, <2>1, <2>3, <2>4 DEF OnGrid
  <2> QED BY <1>2, <1>4, <1>5, <2>3, <2>5 DEF MeasurementInv, MeasurementTypes, LoopPhases
<1>7. CASE stage # "Profitability"
  <2>1. boundaries \in Seq(Boundaries) /\ Len(boundaries) = 0
    BY <1>4, <1>5, <1>7
  <2>2. GridAt(1) = BucketLength
    BY <1>5, <1>7 DEF GridAt
  <2>3. OnGrid
    BY <1>4, <2>1, <2>2 DEF OnGrid
  <2> QED BY <1>2, <1>4, <1>5, <2>1, <2>3 DEF MeasurementInv, MeasurementTypes, LoopPhases
<1> QED BY <1>6, <1>7

\* The steps that take no boundary.
Ungridded == << stage, boundaries, bucketDue, verdict >>

LEMMA UngriddedKeeps ==
  ASSUME MeasurementInv, UNCHANGED Ungridded, runPhase \in LoopPhases, runPhase' \in LoopPhases,
         runTime' \in Nat, equity' \in Equities, reads' \subseteq RunReads
  PROVE  MeasurementInv'
<1>1. TakesBoundaries' = TakesBoundaries /\ OnGrid' = OnGrid
  BY DEF Ungridded, TakesBoundaries, OnGrid, GridAt, FirstAt
<1> QED BY <1>1 DEF MeasurementInv, MeasurementTypes, Ungridded

LEMMA WaitingKeeps ==
  ASSUME MeasurementInv, LoopTop \/ Answered \/ RunTimePasses \/ Interrupt \/ Drain
  PROVE  MeasurementInv'
<1>1. stage \in Stages /\ runTime \in Nat /\ equity \in Equities /\ reads \subseteq RunReads
  BY DEF MeasurementInv, MeasurementTypes
<1>2. CASE LoopTop
  <2>1. PICK kinds \in {k \in SUBSET {"Mids", "Metadata", "Deciding"} : readsMade + Cardinality(k) <= MaxReadsMade} :
          reads' = reads \cup {[kind |-> k, mark |-> 0, at |-> -1] : k \in kinds}
    BY <1>2 DEF LoopTop
  <2>2. \A k \in kinds : [kind |-> k, mark |-> 0, at |-> -1] \in RunReads
    BY DEF RunReads
  <2>3. reads' \subseteq RunReads
    BY <1>1, <2>1, <2>2
  <2>4. /\ runPhase = "Top" /\ runPhase' \in {"Waiting", "Draining"}
        /\ UNCHANGED <<stage, runTime, equity, bucketDue, boundaries, verdict>>
    BY <1>2 DEF LoopTop
  <2> QED BY <1>1, <2>3, <2>4, UngriddedKeeps DEF LoopPhases, Ungridded
<1>3. CASE Answered
  <2>1. PICK r \in reads : \E mark \in IF r.kind = "Mids" THEN Marks ELSE {0} :
          reads' = (reads \ {r}) \cup {[r EXCEPT !.mark = mark, !.at = runTime]}
    BY <1>3 DEF Answered
  <2>2. PICK mark \in IF r.kind = "Mids" THEN Marks ELSE {0} :
          reads' = (reads \ {r}) \cup {[r EXCEPT !.mark = mark, !.at = runTime]}
    BY <2>1
  <2>6. mark \in Int /\ runTime \in Int /\ r \in RunReads
    BY <1>1, MeasurementAssumption
  <2>3. [r EXCEPT !.mark = mark, !.at = runTime] \in RunReads
    BY ONLY <2>6 DEF RunReads
  <2>4. reads' \subseteq RunReads
    BY <1>1, <2>2, <2>3
  <2>5. /\ runPhase \in {"Waiting", "Draining"} /\ runPhase' = runPhase
        /\ UNCHANGED <<stage, runTime, equity, bucketDue, boundaries, verdict>>
    BY <1>3 DEF Answered
  <2> QED BY <1>1, <2>4, <2>5, UngriddedKeeps DEF LoopPhases, Ungridded
<1>4. CASE RunTimePasses
  BY <1>1, <1>4, UngriddedKeeps DEF RunTimePasses, LoopPhases, Ungridded
<1>5. CASE Interrupt
  BY <1>1, <1>5, UngriddedKeeps DEF Interrupt, LoopPhases, Ungridded
<1>6. CASE Drain
  <2>1. PICK r \in reads : reads' = reads \ {r} /\ equity' = Ingested(equity, r)
    BY <1>6 DEF Drain
  <2>2. equity' \in Equities /\ reads' \subseteq RunReads
    BY <1>1, <2>1, IngestedType
  <2>3. /\ runPhase = "Draining" /\ runPhase' = runPhase
        /\ UNCHANGED <<stage, runTime, bucketDue, boundaries, verdict>>
    BY <1>6 DEF Drain
  <2> QED BY <1>1, <2>2, <2>3, UngriddedKeeps DEF LoopPhases, Ungridded
<1> QED BY <1>2, <1>3, <1>4, <1>5, <1>6

-----------------------------------------------------------------------------
\* A turn takes the boundary that is due, and only that one.
LEMMA TurnKeeps ==
  ASSUME MeasurementInv, Turn
  PROVE  MeasurementInv'
<1> DEFINE cuts == TakesBoundaries /\ runTime >= bucketDue
<1>1. /\ MeasurementTypes /\ runPhase = "Waiting" /\ runPhase' = "Top"
      /\ UNCHANGED <<stage, runTime, readsMade, interrupted, verdict>>
      /\ ~verdict.ok /\ (TakesBoundaries => OnGrid)
  BY DEF MeasurementInv, LoopPhases, Turn
<1>2. PICK taken \in {{}} \cup {{r} : r \in {r \in reads : r.at # -1}} :
        LET ingested == IF taken = {} THEN equity ELSE Ingested(equity, CHOOSE r \in taken : TRUE)
            decides == runTime >= decisionDue /\ runTime + DecisionGrace < Deadline
            decided == IF decides THEN Accrued(ingested, runTime) ELSE ingested
            date == BoundaryDate(bucketDue, runTime)
            cut == Accrued(decided, date)
        IN  /\ reads' = reads \ taken
            /\ equity' = IF cuts THEN cut ELSE decided
            /\ bucketDue' = IF cuts THEN bucketDue + BucketLength ELSE bucketDue
            /\ boundaries' = IF cuts THEN Append(boundaries, [at |-> date, worth |-> Worth(cut)])
                             ELSE boundaries
  BY DEF Turn
<1> DEFINE ingested == IF taken = {} THEN equity ELSE Ingested(equity, CHOOSE r \in taken : TRUE)
           decides == runTime >= decisionDue /\ runTime + DecisionGrace < Deadline
           decided == IF decides THEN Accrued(ingested, runTime) ELSE ingested
           cut == Accrued(decided, bucketDue)
           b == [at |-> bucketDue, worth |-> Worth(cut)]
<1>3. /\ reads' = reads \ taken /\ equity' = IF cuts THEN cut ELSE decided
      /\ bucketDue' = IF cuts THEN bucketDue + BucketLength ELSE bucketDue
      /\ boundaries' = IF cuts THEN Append(boundaries, b) ELSE boundaries
  BY <1>2 DEF BoundaryDate
<1>4. /\ stage \in Stages /\ runTime \in Nat /\ equity \in Equities /\ reads \subseteq RunReads
      /\ boundaries \in Seq(Boundaries) /\ bucketDue \in Int
  BY <1>1 DEF MeasurementTypes
<1>5. ingested \in Equities
  <2>1. taken # {} => (CHOOSE r \in taken : TRUE) \in RunReads
    BY <1>4
  <2> QED BY <1>4, <2>1, IngestedType
<1> HIDE DEF ingested, decides
<1>6. decided \in Equities
  BY <1>4, <1>5, AccruedType
<1> HIDE DEF decided
<1>7. cut \in Equities
  BY <1>4, <1>6, AccruedType
<1> HIDE DEF cut
<1>8. b \in Boundaries /\ b.at = bucketDue
  BY <1>4, <1>7, WorthType DEF Boundaries
<1>9. equity' \in Equities /\ reads' \subseteq RunReads
  BY <1>3, <1>4, <1>6, <1>7
<1> HIDE DEF b
<1>10. CASE cuts
  <2>1. boundaries' = Append(boundaries, b) /\ bucketDue' = bucketDue + BucketLength
    BY <1>3, <1>10
  <2>2. /\ boundaries' \in Seq(Boundaries) /\ Len(boundaries') = Len(boundaries) + 1
        /\ \A i \in 1..Len(boundaries) : boundaries'[i] = boundaries[i]
        /\ boundaries'[Len(boundaries) + 1] = b /\ Len(boundaries) \in Nat
    BY <1>4, <1>8, <2>1, BoundaryAdded
  <2>3. OnGrid
    BY <1>1, <1>10
  <2>4. FirstAt' = FirstAt
    BY <1>1 DEF FirstAt
  <2>5. bucketDue = GridAt(Len(boundaries) + 1)
    BY <2>3 DEF OnGrid
  <2>6. bucketDue' = GridAt(Len(boundaries) + 2)
    <3>1. GridAt(Len(boundaries) + 1 + 1) = GridAt(Len(boundaries) + 1) + BucketLength
      BY <2>2, GridGrows
    <3>2. Len(boundaries) + 1 + 1 = Len(boundaries) + 2
      BY <2>2
    <3> QED BY <2>1, <2>5, <3>1, <3>2
  <2>7. ASSUME NEW i \in 1..(Len(boundaries) + 1) PROVE boundaries'[i].at = GridAt(i)
    <3>1. CASE i \in 1..Len(boundaries)
      BY <2>2, <2>3, <3>1 DEF OnGrid
    <3>2. CASE i = Len(boundaries) + 1
      BY <1>8, <2>2, <2>5, <3>2
    <3> QED BY <2>2, <3>1, <3>2
  <2>8. OnGrid'
    <3>1. Len(boundaries') + 1 = Len(boundaries) + 2 /\ Len(boundaries) + 2 \in Int
      BY <2>2
    <3>2. bucketDue' = FirstAt' + ((Len(boundaries') + 1) - 1) * BucketLength
      BY <2>4, <2>6, <3>1 DEF GridAt
    <3>3. \A i \in 1..Len(boundaries') : boundaries'[i].at = FirstAt' + (i - 1) * BucketLength
      BY <2>2, <2>4, <2>7 DEF GridAt
    <3> QED BY <3>2, <3>3 DEF OnGrid, GridAt
  <2>9. bucketDue' \in Int
    BY <1>4, <2>1, MeasurementAssumption
  <2> QED BY <1>1, <1>4, <1>9, <2>2, <2>8, <2>9 DEF MeasurementInv, MeasurementTypes, LoopPhases
<1>11. CASE ~cuts
  <2>1. UNCHANGED Ungridded
    BY <1>1, <1>3, <1>11 DEF Ungridded
  <2> QED BY <1>1, <1>4, <1>9, <2>1, UngriddedKeeps DEF LoopPhases
<1> QED BY <1>10, <1>11

\* The boundaries of a loop tile the window, whatever the last one is.
LEMMA GridTiles ==
  ASSUME NEW s \in Seq(Boundaries), \A i \in 1..(Len(s) - 1) : s[i].at = GridAt(i),
         NEW n \in Nat, n = Len(s), n > 1 => s[n - 1].at < s[n].at
  PROVE  \A i \in 1..(Len(s) - 1) : s[i].at = FirstAt + (i - 1) * BucketLength /\ s[i].at < s[i + 1].at
<1> SUFFICES ASSUME NEW i \in 1..(n - 1)
             PROVE  s[i].at = FirstAt + (i - 1) * BucketLength /\ s[i].at < s[i + 1].at
  OBVIOUS
<1>1. s[i].at = GridAt(i) /\ i \in Int
  OBVIOUS
<1>2. CASE i = n - 1
  <2>1. n > 1 /\ i + 1 = n
    BY <1>2
  <2> QED BY <1>1, <1>2, <2>1 DEF GridAt
<1>3. CASE i < n - 1
  <2>1. i + 1 \in 1..(n - 1)
    BY <1>3
  <2>2. s[i + 1].at = GridAt(i + 1)
    BY <2>1
  <2> QED BY <1>1, <2>2, GridGrows DEF GridAt
<1> QED BY <1>2, <1>3

LEMMA EndKeeps ==
  ASSUME MeasurementInv, EndRun
  PROVE  MeasurementInv'
<1>1. /\ MeasurementTypes /\ runPhase = "Draining" /\ runPhase' \notin LoopPhases
      /\ UNCHANGED <<stage, runTime, reads, bucketDue, interrupted>>
      /\ TakesBoundaries => OnGrid
      /\ equity' = Closed(equity) /\ boundaries' = ClosedBoundaries(equity)
  BY DEF MeasurementInv, LoopPhases, EndRun
<1>2. verdict'.ok => ~interrupted /\ ~CannotClose
  <2>1. PICK measured \in BOOLEAN :
          LET gate == GatePasses(measured, ClosedBoundaries(equity), Closed(equity))
          IN  verdict' = [gate |-> gate, ok |-> gate /\ ~interrupted /\ ~CannotClose,
                          elapsed |-> runTime, passed |-> FALSE]
    BY Zenon DEF EndRun
  <2> DEFINE gate == GatePasses(measured, ClosedBoundaries(equity), Closed(equity))
             ok == gate /\ ~interrupted /\ ~CannotClose
  <2>2. verdict' = [gate |-> gate, ok |-> ok, elapsed |-> runTime, passed |-> FALSE]
    BY <2>1, Zenon
  <2> HIDE DEF gate, ok
  <2>3. verdict'.ok = ok
    BY <2>2
  <2> QED BY <2>3 DEF ok
<1>3. /\ stage \in Stages /\ runTime \in Nat /\ equity \in Equities /\ reads \subseteq RunReads
      /\ boundaries \in Seq(Boundaries) /\ bucketDue \in Int /\ Deadline \in Nat
      /\ Len(boundaries) \in Nat
  BY <1>1, MeasurementAssumption DEF MeasurementTypes, Deadline
<1>4. equity' \in Equities
  BY <1>1, <1>3, AccruedType DEF Closed
<1>5. Deadline' = Deadline /\ TakesBoundaries' = TakesBoundaries /\ FirstAt' = FirstAt
  BY <1>1 DEF Deadline, TakesBoundaries, FirstAt
<1> DEFINE b == [at |-> Deadline, worth |-> Worth(Closed(equity))]
<1>6. b \in Boundaries /\ b.at = Deadline
  <2>1. Closed(equity) \in Equities
    BY <1>1, <1>4
  <2> QED BY <1>3, <2>1, WorthType DEF Boundaries
<1>7. boundaries' = IF ClosesNow THEN Append(boundaries, b) ELSE boundaries
  BY <1>1 DEF ClosedBoundaries
<1> HIDE DEF b
<1> DEFINE s == boundaries'
<1>8. CASE ClosesNow
  <2>1. /\ TakesBoundaries /\ boundaries # <<>> /\ LastAt < Deadline
    BY <1>8 DEF ClosesNow, ClosesTheWindow, CannotClose
  <2>2. /\ boundaries' \in Seq(Boundaries) /\ Len(boundaries') = Len(boundaries) + 1
        /\ \A i \in 1..Len(boundaries) : boundaries'[i] = boundaries[i]
        /\ boundaries'[Len(boundaries) + 1] = b
    BY <1>3, <1>6, <1>7, <1>8, BoundaryAdded
  <2>3. Len(boundaries) > 0 /\ LastAt = boundaries[Len(boundaries)].at
    BY <1>3, <2>1 DEF LastAt, Last
  <2>4. \A i \in 1..(Len(s) - 1) : s[i].at = GridAt(i)
    BY <1>1, <1>3, <2>1, <2>2 DEF OnGrid
  <2>5. Len(s) - 1 = Len(boundaries) /\ Len(boundaries) \in 1..Len(boundaries)
    BY <1>3, <2>2, <2>3
  <2>6. s[Len(s) - 1].at < s[Len(s)].at
    BY <1>6, <2>1, <2>2, <2>3, <2>5
  <2>7. \A i \in 1..(Len(s) - 1) : s[i].at = FirstAt + (i - 1) * BucketLength /\ s[i].at < s[i + 1].at
    <3> HIDE DEF s
    <3>1. s \in Seq(Boundaries) /\ Len(s) \in Nat
      BY <1>3, <2>2 DEF s
    <3> QED BY <2>4, <2>6, <3>1, GridTiles
  <2>8. LastAt' = Deadline'
    BY <1>3, <1>5, <1>6, <2>2 DEF LastAt, Last
  <2>9. BucketsTileTheWindow'
    BY <1>5, <2>7, <2>8 DEF BucketsTileTheWindow
  <2> QED BY <1>1, <1>3, <1>4, <2>2, <2>9 DEF MeasurementInv, MeasurementTypes
<1>9. CASE ~ClosesNow
  <2>1. boundaries' = boundaries
    BY <1>7, <1>9
  <2>2. TakesBoundaries => \A i \in 1..(Len(boundaries) - 1) :
          boundaries[i].at = FirstAt + (i - 1) * BucketLength /\ boundaries[i].at < boundaries[i + 1].at
    <3> SUFFICES ASSUME TakesBoundaries, NEW i \in 1..(Len(boundaries) - 1)
                 PROVE  boundaries[i].at = FirstAt + (i - 1) * BucketLength
                        /\ boundaries[i].at < boundaries[i + 1].at
      OBVIOUS
    <3>1. i \in 1..Len(boundaries) /\ i + 1 \in 1..Len(boundaries) /\ i \in Int
      BY <1>3
    <3>2. boundaries[i].at = GridAt(i) /\ boundaries[i + 1].at = GridAt(i + 1)
      BY <1>1, <3>1 DEF OnGrid
    <3> QED BY <3>1, <3>2, GridGrows DEF GridAt
  <2>3. verdict'.ok /\ TakesBoundaries => LastAt = Deadline
    <3> SUFFICES ASSUME verdict'.ok, TakesBoundaries PROVE LastAt = Deadline
      OBVIOUS
    <3>1. boundaries # <<>> /\ ~(LastAt > Deadline) /\ ~(LastAt < Deadline)
      BY <1>2, <1>9 DEF ClosesNow, CannotClose, ClosesTheWindow
    <3>2. LastAt = boundaries[Len(boundaries)].at /\ Len(boundaries) \in 1..Len(boundaries)
      BY <1>3, <3>1 DEF LastAt, Last
    <3>4. boundaries[Len(boundaries)] \in Boundaries
      BY <1>3, <3>2
    <3>3. LastAt \in Int
      BY <3>2, <3>4 DEF Boundaries
    <3> QED BY <1>3, <3>1, <3>3
  <2>4. LastAt' = LastAt
    BY <2>1 DEF LastAt
  <2>5. BucketsTileTheWindow'
    BY <1>5, <2>1, <2>2, <2>3, <2>4 DEF BucketsTileTheWindow
  <2> QED BY <1>1, <1>3, <1>4, <2>1, <2>5 DEF MeasurementInv, MeasurementTypes
<1> QED BY <1>8, <1>9

LEMMA FinalizeKeeps ==
  ASSUME MeasurementInv, Finalize \/ UNCHANGED measurementVars
  PROVE  MeasurementInv'
<1>1. CASE Finalize
  <2>1. /\ runPhase = "Ended" /\ runPhase' = "Finalized"
        /\ UNCHANGED <<stage, runTime, reads, equity, bucketDue, boundaries>>
    BY <1>1 DEF Finalize
  <2>2. verdict'.ok => verdict.ok
    BY <1>1 DEF Finalize
  <2>3. BucketsTileTheWindow /\ MeasurementTypes
    BY <2>1 DEF MeasurementInv, LoopPhases
  <2>4. BucketsTileTheWindow'
    BY <2>1, <2>2, <2>3 DEF BucketsTileTheWindow, TakesBoundaries, FirstAt, LastAt, Deadline
  <2> QED BY <2>1, <2>3, <2>4 DEF MeasurementInv, MeasurementTypes, LoopPhases
<1>2. CASE UNCHANGED measurementVars
  BY <1>2 DEF measurementVars, MeasurementInv, MeasurementTypes, OnGrid, GridAt, FirstAt, TakesBoundaries,
              BucketsTileTheWindow, LastAt, Deadline
<1> QED BY <1>1, <1>2

LEMMA MeasurementIsTrue == MeasurementSpec => []MeasurementInv
<1>1. MeasurementInv /\ [MeasurementNext]_measurementVars => MeasurementInv'
  BY WaitingKeeps, TurnKeeps, EndKeeps, FinalizeKeeps DEF MeasurementNext
<1> QED BY <1>1, MeasurementInitTrue, PTL DEF MeasurementSpec

\* However late the turns of the loop come, the boundaries lie on the grid, and
\* those of a run that ends undisturbed reach its deadline, for every length of
\* a bucket and of a run (profitability_bucket_due, run_qualification).
THEOREM WindowIsTiled == MeasurementSpec => []BucketsTileTheWindow
<1>1. ASSUME MeasurementInv PROVE BucketsTileTheWindow
  <2>1. CASE runPhase \notin LoopPhases
    BY <1>1, <2>1 DEF MeasurementInv
  <2>2. CASE runPhase \in LoopPhases
    <3> SUFFICES ASSUME TakesBoundaries, NEW i \in 1..(Len(boundaries) - 1)
                 PROVE  boundaries[i].at = FirstAt + (i - 1) * BucketLength
                        /\ boundaries[i].at < boundaries[i + 1].at
      BY <1>1, <2>2 DEF MeasurementInv, BucketsTileTheWindow
    <3>1. i \in 1..Len(boundaries) /\ i + 1 \in 1..Len(boundaries) /\ i \in Int
      BY <1>1 DEF MeasurementInv, MeasurementTypes
    <3>2. boundaries[i].at = GridAt(i) /\ boundaries[i + 1].at = GridAt(i + 1)
      BY <1>1, <2>2, <3>1 DEF MeasurementInv, OnGrid
    <3> QED BY <3>1, <3>2, GridGrows DEF GridAt
  <2> QED BY <2>1, <2>2
<1> QED BY <1>1, MeasurementIsTrue, PTL

-----------------------------------------------------------------------------
(* CandleReads: what is marked as read arrives.                            *)

\* What a read says of itself, and a candle that it brought.
ReadEntries(r) ==
  r = [phase |-> r.phase, sent |-> r.sent, asset |-> r.asset, intervals |-> r.intervals,
       at |-> r.at, received |-> r.received, brought |-> r.brought]

\* The candles that a read brought were final when it was reserved.
ReadTrue(r, now) ==
  /\ ReadEntries(r) /\ r.at \in Nat /\ r.at <= now /\ r.intervals \subseteq Intervals
  /\ r.phase # "Answered" => r.brought = {}
  /\ \A c \in r.brought : c.i \in Intervals /\ c.k \in Nat /\ c.k + 1 <= CloseBucket(c.i, r.at)

\* The read r is to bring, or has brought, candle n of series x.
Brings(r, x, n) ==
  /\ r.asset = x[1] /\ x[2] \in r.intervals
  /\ \/ r.phase = "Fetching" /\ CloseBucket(x[2], r.at) = n
     \/ r.phase = "Answered" /\ \E c \in r.brought : c.i = x[2] /\ c.k = n - 1


\* The mark of series x, of marks q, candles C, reads R and discarded buckets D.
Received(C, x, n) == \E c \in C[x] : c.k = n - 1
SomeBrings(R, x, n) == \E s \in Sources : Brings(R[s], x, n)
MarkTrue(q, C, R, D, x) ==
  q[x] > 0 => Received(C, x, q[x]) \/ SomeBrings(R, x, q[x]) \/ D[x] >= q[x]
MarksTrue(q, C, R, D) == \A x \in Series : MarkTrue(q, C, R, D, x)

\* The steps of a read.
AnsweredAt(r, n) == [r EXCEPT !.phase = "Answered", !.received = n]
FetchingOf(r, a, I, n) == [r EXCEPT !.phase = "Fetching", !.asset = a, !.intervals = I, !.at = n]
BroughtBy(r, n, b) == [r EXCEPT !.phase = "Answered", !.received = n, !.brought = b]
Answer(f, r, b) ==
  /\ ReadEntries(f) /\ f.at = r.at /\ f.intervals = r.intervals
  /\ f.brought = b /\ f.phase = "Answered" /\ f.asset = r.asset
Fetch(f, r, a, I, n) ==
  /\ ReadEntries(f) /\ f.at = n /\ f.intervals = I /\ f.brought = r.brought
  /\ f.phase = "Fetching" /\ f.asset = a

\* The inductive invariant.
CandleInv ==
  /\ wallTime \in Nat
  /\ requested \in [Series -> Int] /\ discarded \in [Series -> Int]
  /\ DOMAIN sourceReads = Sources /\ sourceReads = [s \in Sources |-> sourceReads[s]]
  /\ \A s \in Sources : ReadTrue(sourceReads[s], wallTime)
  /\ ~candlesEnded => MarksTrue(requested, candles, sourceReads, discarded)

-----------------------------------------------------------------------------
LEMMA Quotient ==
  ASSUME NEW n \in Nat, NEW i \in Nat \ {0}
  PROVE  /\ n \div i \in Nat /\ (n \div i) * i <= n
         /\ n < (n \div i) * i + i
OBVIOUS

LEMMA Times ==
  ASSUME NEW a \in Int, NEW b \in Int, NEW i \in Nat, a <= b
  PROVE  /\ a * i \in Int /\ b * i \in Int /\ a * i <= b * i
         /\ (a + 1) * i = a * i + i /\ (a - 1) * i = a * i - i
OBVIOUS

\* k intervals are over when the quotient says so.
LEMMA QuotientIsGreatest ==
  ASSUME NEW n \in Nat, NEW i \in Nat \ {0}, NEW k \in Nat, k * i <= n
  PROVE  k <= n \div i
<1> DEFINE q == n \div i
<1>1. q \in Nat /\ n < q * i + i
  BY Quotient
<1> HIDE DEF q
<1>2. SUFFICES ASSUME q + 1 <= k PROVE FALSE
  BY <1>1 DEF q
<1>3. (q + 1) * i <= k * i /\ (q + 1) * i = q * i + i /\ q * i \in Int /\ k * i \in Int
  BY <1>1, <1>2, Times
<1> QED BY <1>1, <1>3

LEMMA BucketIsNat ==
  ASSUME NEW i \in Intervals, NEW t \in Nat
  PROVE  CloseBucket(i, t) \in Nat
<1> DEFINE n == IF t > FinalityDelay THEN t - FinalityDelay ELSE 0
<1>1. n \in Nat /\ i \in Nat \ {0}
  BY CandleAssumption
<1> HIDE DEF n
<1>2. n \div i \in Nat
  BY <1>1, Quotient
<1> QED BY <1>2 DEF CloseBucket, n

\* A candle that is final is one of the bucket.
LEMMA FinalIsInBucket ==
  ASSUME NEW i \in Intervals, NEW t \in Nat, NEW k \in Nat, FinalAt(i, k, t)
  PROVE  k + 1 <= CloseBucket(i, t)
<1> DEFINE n == t - FinalityDelay
<1>1. i \in Nat \ {0} /\ FinalityDelay \in Nat
  BY CandleAssumption
<1>2. (k + 1) * i \in Nat /\ (k + 1) * i + FinalityDelay <= t
  BY <1>1 DEF FinalAt
<1>3. (k + 1) * i > 0
  BY <1>1
<1>4. n \in Nat /\ t > FinalityDelay /\ (k + 1) * i <= n
  BY <1>1, <1>2, <1>3
<1>5. CloseBucket(i, t) = n \div i
  BY <1>4 DEF CloseBucket
<1> HIDE DEF n
<1>6. k + 1 <= n \div i
  BY <1>1, <1>4, QuotientIsGreatest
<1> QED BY <1>5, <1>6

\* The last candle of the bucket is final, and in the snapshot.
LEMMA LastIsRead ==
  ASSUME wallTime \in Nat, NEW i \in Intervals, NEW t \in Nat, t <= wallTime,
         CloseBucket(i, t) > 0
  PROVE  \E c \in Snapshot(i, t) : c.k = CloseBucket(i, t) - 1
<1> DEFINE n == IF t > FinalityDelay THEN t - FinalityDelay ELSE 0
           b == CloseBucket(i, t)
           k == b - 1
<1>1. i \in Nat \ {0} /\ FinalityDelay \in Nat /\ n \in Nat /\ n <= t
  BY CandleAssumption
<1>2. b = n \div i
  BY DEF CloseBucket
<1>3. b \in Nat \ {0}
  BY BucketIsNat
<1>4. n > 0 => n = t - FinalityDelay
  OBVIOUS
<1> HIDE DEF n, b
<1>5. b * i <= n /\ n < b * i + i
  BY <1>1, <1>2, Quotient
<1>6. k \in Nat /\ (k + 1) * i = b * i /\ k * i = b * i - i /\ b * i \in Int /\ k * i \in Int
  BY <1>1, <1>3, Times
<1>7. b * i >= i
  <2>1. 1 * i <= b * i
    BY <1>1, <1>3, Times
  <2> QED BY <1>1, <2>1
<1>8. n = t - FinalityDelay
  BY <1>1, <1>4, <1>5, <1>6, <1>7
<1>9. FinalAt(i, k, t)
  BY <1>1, <1>5, <1>6, <1>8 DEF FinalAt
<1>10. k * i >= t - i * History
  <2>1. /\ FinalityDelay <= (History - 2) * i + 1 /\ History \in Nat
    BY CandleAssumption
  <2>2. (History - 2) * i = i * History - 2 * i /\ i * History \in Int
    BY <1>1, <2>1
  <2> QED BY <1>1, <1>5, <1>6, <1>8, <2>1, <2>2
<1>11. k \in 0 .. (wallTime \div i)
  <2>1. k * i <= wallTime
    BY <1>1, <1>5, <1>6
  <2>2. wallTime \div i \in Nat /\ k <= wallTime \div i
    BY <1>1, <1>6, <2>1, Quotient, QuotientIsGreatest
  <2> QED BY <1>6, <2>2
<1> DEFINE c == [k |-> k, corrected |-> (k + 1) * i + FinalityDelay <= wallTime]
<1> HIDE DEF k
<1>12. c \in Snapshot(i, t) /\ c.k = k
  BY <1>9, <1>10, <1>11 DEF Snapshot
<1> QED BY <1>12 DEF k, b

\* What is in a snapshot is final.
LEMMA SnapshotIsFinal ==
  ASSUME NEW i \in Intervals, NEW t \in Nat, NEW c \in Snapshot(i, t)
  PROVE  c.k \in Nat /\ c.k + 1 <= CloseBucket(i, t)
<1>1. PICK k \in 0 .. (wallTime \div i) : FinalAt(i, k, t) /\ c.k = k
  BY DEF Snapshot
<1>2. k \in Nat
  OBVIOUS
<1> QED BY <1>1, <1>2, FinalIsInBucket

LEMMA BroughtIsFinal ==
  ASSUME NEW r, NEW now, ReadTrue(r, now), NEW failed,
         NEW brought,
         brought = UNION {{[i |-> i, k |-> c.k, corrected |-> c.corrected] :
                             c \in Snapshot(i, r.at)} : i \in r.intervals \ failed}
  PROVE  \A c \in brought : c.i \in Intervals /\ c.k \in Nat /\ c.k + 1 <= CloseBucket(c.i, r.at)
<1> TAKE b \in brought
<1>1. PICK i \in r.intervals \ failed : \E c \in Snapshot(i, r.at) : b.i = i /\ b.k = c.k
  OBVIOUS
<1>2. PICK c \in Snapshot(i, r.at) : b.i = i /\ b.k = c.k
  BY <1>1
<1>3. i \in Intervals /\ r.at \in Nat
  BY DEF ReadTrue
<1>4. c.k \in Nat /\ c.k + 1 <= CloseBucket(i, r.at)
  BY <1>3, SnapshotIsFinal
<1> QED BY <1>2, <1>3, <1>4

\* What one read becomes, and what the others and the marks keep.
LEMMA ReadChanges ==
  ASSUME CandleInv, NEW s \in Sources, NEW r, sourceReads' = [sourceReads EXCEPT ![s] = r]
  PROVE  /\ DOMAIN sourceReads' = Sources /\ sourceReads'[s] = r
         /\ sourceReads' = [u \in Sources |-> sourceReads'[u]]
         /\ \A u \in Sources \ {s} : sourceReads'[u] = sourceReads[u]
BY DEF CandleInv

LEMMA ReadsStayTrue ==
  ASSUME CandleInv, NEW s \in Sources, NEW r, sourceReads' = [sourceReads EXCEPT ![s] = r],
         ReadTrue(r, wallTime)
  PROVE  \A u \in Sources : ReadTrue(sourceReads'[u], wallTime)
BY ReadChanges DEF CandleInv

\* The steps of a read, entry by entry.
LEMMA IdleEntries ==
  /\ ReadEntries(Idle) /\ Idle.at = 0 /\ Idle.intervals = {} /\ Idle.brought = {}
  /\ Idle.phase = "Idle"
BY DEF ReadEntries, Idle

LEMMA SentEntries ==
  ASSUME NEW n, NEW f, f = [Idle EXCEPT !.phase = "Sent", !.sent = n]
  PROVE  /\ ReadEntries(f) /\ f.at = 0 /\ f.intervals = {} /\ f.brought = {} /\ f.phase = "Sent"
BY DEF ReadEntries, Idle

LEMMA AnsweredEntries ==
  ASSUME NEW r, NEW n, ReadEntries(r)
  PROVE  Answer(AnsweredAt(r, n), r, r.brought)
<1>1. ASSUME NEW f, f = [r EXCEPT !.phase = "Answered", !.received = n]
      PROVE  Answer(f, r, r.brought)
  BY <1>1 DEF ReadEntries, Answer
<1> QED BY <1>1 DEF AnsweredAt

LEMMA FetchingEntries ==
  ASSUME NEW r, NEW a, NEW I, NEW n, ReadEntries(r)
  PROVE  Fetch(FetchingOf(r, a, I, n), r, a, I, n)
<1>1. ASSUME NEW f, f = [r EXCEPT !.phase = "Fetching", !.asset = a, !.intervals = I, !.at = n]
      PROVE  Fetch(f, r, a, I, n)
  BY <1>1 DEF ReadEntries, Fetch
<1> QED BY <1>1 DEF FetchingOf

LEMMA BroughtEntries ==
  ASSUME NEW r, NEW n, NEW b, ReadEntries(r)
  PROVE  Answer(BroughtBy(r, n, b), r, b)
<1>1. ASSUME NEW f, f = [r EXCEPT !.phase = "Answered", !.received = n, !.brought = b]
      PROVE  Answer(f, r, b)
  BY <1>1 DEF ReadEntries, Answer
<1> QED BY <1>1 DEF BroughtBy

LEMMA IdleIsTrue == \A now \in Nat : ReadTrue(Idle, now)
BY IdleEntries DEF ReadTrue

\* The other reads bring what they brought.
LEMMA OthersBring ==
  ASSUME CandleInv, NEW s \in Sources, NEW r, sourceReads' = [sourceReads EXCEPT ![s] = r],
         NEW x, NEW n, SomeBrings(sourceReads, x, n), ~Brings(sourceReads[s], x, n)
  PROVE  SomeBrings(sourceReads', x, n)
<1>1. PICK u \in Sources : Brings(sourceReads[u], x, n)
  BY DEF SomeBrings
<1>2. u # s
  BY <1>1
<1>3. sourceReads'[u] = sourceReads[u]
  BY <1>2, ReadChanges
<1> QED BY <1>1, <1>3 DEF SomeBrings

\* One mark after a step: what has to be shown of it.
LEMMA MarkStays ==
  ASSUME CandleInv, NEW x \in Series, NEW q, NEW C, NEW R, NEW D,
         q[x] = requested[x] \/ q[x] = -1,
         MarkTrue(requested, candles, sourceReads, discarded, x),
         Received(candles, x, requested[x]) => Received(C, x, requested[x]),
         SomeBrings(sourceReads, x, requested[x]) =>
           SomeBrings(R, x, requested[x]) \/ Received(C, x, requested[x])
             \/ D[x] >= requested[x] \/ q[x] = -1,
         D[x] \in Int, discarded[x] <= D[x]
  PROVE  MarkTrue(q, C, R, D, x)
<1>1. requested[x] \in Int /\ discarded[x] \in Int
  BY DEF CandleInv
<1>2. CASE q[x] = -1
  BY <1>2 DEF MarkTrue
<1>3. CASE q[x] = requested[x] /\ q[x] # -1
  <2>1. CASE Received(candles, x, requested[x]) \/ SomeBrings(sourceReads, x, requested[x])
    BY <1>3, <2>1 DEF MarkTrue
  <2>2. CASE discarded[x] >= requested[x]
    BY <1>1, <1>3, <2>2 DEF MarkTrue
  <2>3. CASE ~(requested[x] > 0)
    BY <1>3, <2>3 DEF MarkTrue
  <2> QED BY <2>1, <2>2, <2>3 DEF MarkTrue
<1> QED BY <1>2, <1>3

\* Marks of the assets that are listed, and what stays of them.
LEMMA KeptMarks ==
  ASSUME NEW marks \in [Series -> Int], NEW assets
  PROVE  /\ Kept(marks, assets) \in [Series -> Int]
         /\ \A x \in Series : Kept(marks, assets)[x] = marks[x] \/ Kept(marks, assets)[x] = -1
BY DEF Kept

LEMMA MetadataKeeps == CandleInv /\ ReadMetadata => CandleInv'
<1> SUFFICES ASSUME CandleInv, ReadMetadata PROVE CandleInv'
  OBVIOUS
<1>1. PICK assets : requested' = Kept(requested, assets)
  BY DEF ReadMetadata
<1>2. UNCHANGED <<wallTime, sourceReads, candles, candlesEnded, discarded>>
  BY DEF ReadMetadata
<1>3. /\ requested' \in [Series -> Int]
      /\ \A x \in Series : requested'[x] = requested[x] \/ requested'[x] = -1
  BY <1>1, KeptMarks DEF CandleInv
<1>4. MarksTrue(requested, candles, sourceReads, discarded)
        => MarksTrue(requested', candles, sourceReads, discarded)
  BY <1>3 DEF MarksTrue, MarkTrue
<1> QED BY <1>2, <1>3, <1>4 DEF CandleInv

\* A read that has nothing to bring becomes another one.
LEMMA EmptyReadChanges ==
  ASSUME CandleInv, NEW s \in Sources, sourceReads[s].phase \in {"Idle", "Sent"}, NEW r,
         sourceReads' = [sourceReads EXCEPT ![s] = r], ReadTrue(r, wallTime),
         UNCHANGED <<wallTime, requested, candles, candlesEnded, discarded>>
  PROVE  CandleInv'
<1>1. \A x, n : ~Brings(sourceReads[s], x, n)
  BY DEF Brings
<1>2. \A x, n : SomeBrings(sourceReads, x, n) => SomeBrings(sourceReads', x, n)
  BY <1>1, OthersBring
<1>3. MarksTrue(requested, candles, sourceReads, discarded)
        => MarksTrue(requested, candles, sourceReads', discarded)
  BY <1>2 DEF MarksTrue, MarkTrue
<1> QED BY <1>3, ReadChanges, ReadsStayTrue DEF CandleInv

LEMMA SendKeeps ==
  ASSUME CandleInv, NEW s \in Sources, SendSourceRead(s) \/ SourceReadFails(s)
  PROVE  CandleInv'
<1>1. /\ sourceReads[s].phase \in {"Idle", "Sent"}
      /\ UNCHANGED <<wallTime, requested, candles, candlesEnded, discarded>>
      /\ \E r \in {Idle, [Idle EXCEPT !.phase = "Sent", !.sent = wallTime]} :
           sourceReads' = [sourceReads EXCEPT ![s] = r]
  BY DEF SendSourceRead, SourceReadFails
<1>2. ReadTrue([Idle EXCEPT !.phase = "Sent", !.sent = wallTime], wallTime)
  <2> DEFINE f == [Idle EXCEPT !.phase = "Sent", !.sent = wallTime]
  <2>1. /\ ReadEntries(f) /\ f.at = 0 /\ f.intervals = {} /\ f.brought = {}
        /\ f.phase = "Sent"
    BY SentEntries
  <2> HIDE DEF f
  <2>2. ReadTrue(f, wallTime)
    BY <2>1 DEF ReadTrue, CandleInv
  <2> QED BY <2>2 DEF f
<1>3. ReadTrue(Idle, wallTime)
  BY IdleIsTrue DEF CandleInv
<1> QED BY <1>1, <1>2, <1>3, EmptyReadChanges

\* What a read reserves is marked, and the read is to bring it.
LEMMA StateKeeps ==
  ASSUME CandleInv, NEW s \in Sources, SourceStateArrives(s)
  PROVE  CandleInv'
<1> DEFINE r == sourceReads[s]
           answered == AnsweredAt(r, wallTime)
<1>0. /\ r.phase = "Sent" /\ UNCHANGED <<wallTime, candles, candlesEnded, discarded>>
  BY DEF SourceStateArrives
<1>1. PICK assets :
        LET marks == Kept(requested, assets)
        IN  \/ /\ requested' = marks
               /\ sourceReads' = [sourceReads EXCEPT ![s].phase = "Answered", ![s].received = wallTime]
            \/ \E asset :
                 /\ requested' = [x \in Series |->
                       IF x[1] = asset /\ x[2] \in Due(marks, asset)
                       THEN CloseBucket(x[2], wallTime) ELSE marks[x]]
                 /\ sourceReads' = [sourceReads EXCEPT ![s] =
                       [@ EXCEPT !.phase = "Fetching", !.asset = asset,
                                 !.intervals = Due(marks, asset), !.at = wallTime]]
  BY Zenon DEF SourceStateArrives
<1> DEFINE marks == Kept(requested, assets)
<1>2. /\ marks \in [Series -> Int]
      /\ \A x \in Series : marks[x] = requested[x] \/ marks[x] = -1
  BY KeptMarks DEF CandleInv
<1> HIDE DEF marks
<1>3. ReadTrue(r, wallTime) /\ wallTime \in Nat /\ r = sourceReads[s]
  BY DEF CandleInv
<1>4. \A x, n : ~Brings(r, x, n)
  BY <1>0 DEF Brings
<1>5. ASSUME NEW t, sourceReads' = [sourceReads EXCEPT ![s] = t], ReadTrue(t, wallTime),
             requested' \in [Series -> Int],
             \A x \in Series : \/ requested'[x] = requested[x] \/ requested'[x] = -1
                               \/ Brings(t, x, requested'[x])
      PROVE  CandleInv'
  <2>1. \A x, n : SomeBrings(sourceReads, x, n) => SomeBrings(sourceReads', x, n)
    BY <1>4, <1>5, OthersBring
  <2>2. \A x, n : Brings(t, x, n) => SomeBrings(sourceReads', x, n)
    BY <1>5, ReadChanges DEF SomeBrings
  <2>3. MarksTrue(requested, candles, sourceReads, discarded)
          => MarksTrue(requested', candles, sourceReads', discarded)
    <3> SUFFICES ASSUME NEW x \in Series, MarkTrue(requested, candles, sourceReads, discarded, x)
                 PROVE  MarkTrue(requested', candles, sourceReads', discarded, x)
      BY DEF MarksTrue
    <3>1. CASE requested'[x] = requested[x]
      BY <2>1, <3>1 DEF MarkTrue
    <3>2. CASE requested'[x] = -1
      BY <3>2 DEF MarkTrue
    <3>3. CASE Brings(t, x, requested'[x])
      BY <2>2, <3>3 DEF MarkTrue
    <3> QED BY <1>5, <3>1, <3>2, <3>3
  <2> QED BY <1>0, <1>5, <2>3, ReadChanges, ReadsStayTrue DEF CandleInv
<1>6. CASE requested' = marks
             /\ sourceReads' = [sourceReads EXCEPT ![s].phase = "Answered", ![s].received = wallTime]
  <2>1. sourceReads' = [sourceReads EXCEPT ![s] = answered]
    BY <1>6 DEF CandleInv, AnsweredAt
  <2>2. Answer(answered, r, r.brought)
    BY <1>3, AnsweredEntries DEF ReadTrue
  <2> HIDE DEF answered, r
  <2>3. ReadTrue(answered, wallTime)
    BY <1>3, <2>2 DEF ReadTrue, Answer
  <2> QED BY <1>2, <1>5, <1>6, <2>1, <2>3
<1>7. ASSUME NEW asset,
             requested' = [x \in Series |->
                IF x[1] = asset /\ x[2] \in Due(marks, asset)
                THEN CloseBucket(x[2], wallTime) ELSE marks[x]],
             sourceReads' = [sourceReads EXCEPT ![s] =
                [@ EXCEPT !.phase = "Fetching", !.asset = asset,
                          !.intervals = Due(marks, asset), !.at = wallTime]]
      PROVE  CandleInv'
  <2> DEFINE I == Due(marks, asset)
             t == FetchingOf(r, asset, I, wallTime)
  <2>1. sourceReads' = [sourceReads EXCEPT ![s] = t]
    BY <1>7 DEF CandleInv, FetchingOf
  <2>2. I \subseteq Intervals
    BY DEF Due
  <2> HIDE DEF I
  <2>3. Fetch(t, r, asset, I, wallTime)
    BY <1>3, FetchingEntries DEF ReadTrue
  <2>4. r.brought = {}
    BY <1>0, <1>3 DEF ReadTrue
  <2> HIDE DEF t, r
  <2>5. ReadTrue(t, wallTime)
    BY <1>3, <2>2, <2>3, <2>4 DEF ReadTrue, Fetch
  <2>6. \A x \in Series : \/ x[1] = asset /\ x[2] \in I /\ requested'[x] = CloseBucket(x[2], wallTime)
                          \/ requested'[x] = marks[x]
    BY <1>7 DEF I
  <2>7. \A x \in Series : \/ requested'[x] = requested[x] \/ requested'[x] = -1
                          \/ Brings(t, x, requested'[x])
    BY <1>2, <2>3, <2>6 DEF Brings, Fetch
  <2>8. requested' \in [Series -> Int]
    <3>1. \A x \in Series : requested'[x] \in Int
      <4> TAKE x \in Series
      <4>1. CASE x[1] = asset /\ x[2] \in I /\ requested'[x] = CloseBucket(x[2], wallTime)
        BY <1>3, <2>2, <4>1, BucketIsNat
      <4>2. CASE requested'[x] = marks[x]
        BY <1>2, <4>2
      <4> QED BY <2>6, <4>1, <4>2
    <3> QED BY <1>7, <3>1
  <2> QED BY <1>5, <2>1, <2>5, <2>7, <2>8
<1> QED BY <1>1, <1>6, <1>7 DEF marks

\* The snapshots of a read have the last candle of each mark, or the mark goes.
LEMMA ArriveKeeps ==
  ASSUME CandleInv, NEW s \in Sources, CandlesArrive(s)
  PROVE  CandleInv'
<1> DEFINE r == sourceReads[s]
<1>1. PICK failed \in SUBSET r.intervals :
        /\ sourceReads' = [sourceReads EXCEPT ![s].phase = "Answered", ![s].received = wallTime,
              ![s].brought = UNION {{[i |-> i, k |-> c.k, corrected |-> c.corrected] :
                                       c \in Snapshot(i, r.at)} : i \in r.intervals \ failed}]
        /\ requested' = Unmarked(requested, r.asset, failed)
  BY DEF CandlesArrive
<1>2. r.phase = "Fetching" /\ UNCHANGED <<wallTime, candles, candlesEnded, discarded>>
  BY DEF CandlesArrive
<1> DEFINE b == UNION {{[i |-> i, k |-> c.k, corrected |-> c.corrected] :
                          c \in Snapshot(i, r.at)} : i \in r.intervals \ failed}
           t == BroughtBy(r, wallTime, b)
<1>3. sourceReads' = [sourceReads EXCEPT ![s] = t]
  BY <1>1 DEF CandleInv, BroughtBy
<1>4. ReadTrue(r, wallTime)
  BY DEF CandleInv
<1>5. \A c \in b : c.i \in Intervals /\ c.k \in Nat /\ c.k + 1 <= CloseBucket(c.i, r.at)
  BY <1>4, BroughtIsFinal
<1>6. \A i \in r.intervals \ failed : \A c \in Snapshot(i, r.at) :
        \E d \in b : d.i = i /\ d.k = c.k
  <2> TAKE i \in r.intervals \ failed
  <2> TAKE c \in Snapshot(i, r.at)
  <2> DEFINE d == [i |-> i, k |-> c.k, corrected |-> c.corrected]
  <2>1. d \in b /\ d.i = i /\ d.k = c.k
    OBVIOUS
  <2> HIDE DEF d, b
  <2> QED BY <2>1
<1> HIDE DEF b
<1>7. Answer(t, r, b)
  BY <1>4, BroughtEntries DEF ReadTrue
<1>8. r = sourceReads[s]
  OBVIOUS
<1> HIDE DEF t, r
<1>9. ReadTrue(t, wallTime)
  BY <1>4, <1>5, <1>7 DEF ReadTrue, Answer
<1>10. /\ requested' \in [Series -> Int]
       /\ \A x \in Series : IF x[1] = r.asset /\ x[2] \in failed THEN requested'[x] = -1
                            ELSE requested'[x] = requested[x]
  BY <1>1 DEF CandleInv, Unmarked
<1>11. ASSUME NEW x \in Series, requested'[x] > 0, Brings(r, x, requested[x])
       PROVE  Brings(t, x, requested[x])
  <2>1. /\ r.asset = x[1] /\ x[2] \in r.intervals /\ CloseBucket(x[2], r.at) = requested[x]
    BY <1>2, <1>11, <1>8 DEF Brings
  <2>2. x[2] \notin failed /\ requested'[x] = requested[x]
    BY <1>10, <1>11, <2>1
  <2>3. x[2] \in Intervals /\ r.at \in Nat /\ r.at <= wallTime /\ wallTime \in Nat
    BY <1>4, <2>1 DEF ReadTrue, CandleInv
  <2>4. \E c \in Snapshot(x[2], r.at) : c.k = requested[x] - 1
    BY <1>11, <2>1, <2>2, <2>3, LastIsRead
  <2>5. \E d \in b : d.i = x[2] /\ d.k = requested[x] - 1
    BY <1>6, <2>1, <2>2, <2>4
  <2> QED BY <1>7, <2>1, <2>5 DEF Brings, Answer
<1>12. ASSUME NEW x \in Series, MarkTrue(requested, candles, sourceReads, discarded, x)
       PROVE  MarkTrue(requested', candles', sourceReads', discarded', x)
  <2>1. requested'[x] = requested[x] \/ requested'[x] = -1
    BY <1>10
  <2>2. SomeBrings(sourceReads, x, requested[x]) /\ requested[x] > 0
          => SomeBrings(sourceReads', x, requested[x]) \/ requested'[x] = -1
    <3>1. CASE Brings(r, x, requested[x]) /\ requested[x] > 0 /\ requested'[x] # -1
      <4>1. requested'[x] > 0
        BY <2>1, <3>1
      <4>2. Brings(t, x, requested[x]) /\ sourceReads'[s] = t
        BY <1>3, <1>11, <3>1, <4>1, ReadChanges
      <4> QED BY <4>2 DEF SomeBrings
    <3>2. CASE ~Brings(r, x, requested[x])
      BY <1>3, <1>8, <3>2, OthersBring
    <3> QED BY <3>1, <3>2
  <2>3. discarded[x] \in Int /\ discarded[x] <= discarded[x] /\ requested[x] \in Int
    BY DEF CandleInv
  <2>4. CASE requested[x] > 0
    BY <1>2, <1>12, <2>1, <2>2, <2>3, <2>4, MarkStays
  <2>5. CASE ~(requested[x] > 0)
    BY <2>1, <2>5 DEF MarkTrue
  <2> QED BY <2>4, <2>5
<1>13. \A u \in Sources : ReadTrue(sourceReads'[u], wallTime)
  BY <1>3, <1>9, ReadsStayTrue
<1> QED BY <1>2, <1>3, <1>10, <1>12, <1>13, ReadChanges DEF CandleInv, MarksTrue

\* An answer that is accepted leaves its candles with the engine, one that is
\* discarded the bucket that was read.
LEMMA FinishKeeps ==
  ASSUME CandleInv, NEW s \in Sources, FinishSourceRead(s)
  PROVE  CandleInv'
<1> DEFINE r == sourceReads[s]
<1>1. /\ r.phase = "Answered" /\ ~candlesEnded
      /\ sourceReads' = [sourceReads EXCEPT ![s] = Idle]
      /\ wallTime' = wallTime /\ requested' = requested
  BY DEF FinishSourceRead
<1>2. \/ /\ discarded' = discarded
         /\ candles' = [x \in Series |->
               IF x[1] # r.asset \/ candlesEnded' THEN candles[x]
               ELSE candles[x] \cup {[k |-> c.k, corrected |-> c.corrected] :
                                       c \in {b \in r.brought : b.i = x[2]}}]
      \/ /\ candles' = candles /\ candlesEnded' = candlesEnded
         /\ discarded' = [x \in Series |->
               IF x[1] = r.asset /\ x[2] \in r.intervals
               THEN Max({discarded[x], CloseBucket(x[2], r.at)}) ELSE discarded[x]]
  BY DEF FinishSourceRead
<1>3. ReadTrue(r, wallTime) /\ ReadTrue(Idle, wallTime) /\ wallTime \in Nat
  BY IdleIsTrue DEF CandleInv
<1>4. r = sourceReads[s]
  OBVIOUS
<1> HIDE DEF r
<1>5. \A a \in Int, b \in Int : /\ Max({a, b}) \in Int /\ Max({a, b}) >= a /\ Max({a, b}) >= b
  <2> TAKE a \in Int, b \in Int
  <2>1. \E z \in {a, b} : \A y \in {a, b} : z >= y
    OBVIOUS
  <2>2. Max({a, b}) \in {a, b} /\ \A y \in {a, b} : Max({a, b}) >= y
    BY <2>1 DEF Max
  <2> QED BY <2>2
<1>6. /\ discarded' \in [Series -> Int]
      /\ \A x \in Series : discarded'[x] >= discarded[x]
  <2>1. \A x \in Series : x[2] \in r.intervals => CloseBucket(x[2], r.at) \in Int
    BY <1>3, BucketIsNat DEF ReadTrue
  <2>2. discarded \in [Series -> Int]
    BY DEF CandleInv
  <2>3. CASE discarded' = discarded
    BY <2>2, <2>3
  <2>4. CASE discarded' = [x \in Series |->
               IF x[1] = r.asset /\ x[2] \in r.intervals
               THEN Max({discarded[x], CloseBucket(x[2], r.at)}) ELSE discarded[x]]
    <3>1. ASSUME NEW x \in Series PROVE discarded'[x] \in Int /\ discarded'[x] >= discarded[x]
      <4>1. CASE x[1] = r.asset /\ x[2] \in r.intervals
        <5>1. discarded'[x] = Max({discarded[x], CloseBucket(x[2], r.at)})
          BY <2>4, <4>1
        <5>2. discarded[x] \in Int /\ CloseBucket(x[2], r.at) \in Int
          BY <2>1, <2>2, <4>1
        <5> QED BY <1>5, <5>1, <5>2
      <4>2. CASE ~(x[1] = r.asset /\ x[2] \in r.intervals)
        BY <2>2, <2>4, <4>2
      <4> QED BY <4>1, <4>2
    <3> QED BY <2>4, <3>1
  <2> QED BY <1>2, <2>3, <2>4
<1>7. \A x \in Series : \A n : Received(candles, x, n) => Received(candles', x, n)
  <2>1. \A x \in Series : candles[x] \subseteq candles'[x]
    BY <1>2
  <2> QED BY <2>1 DEF Received
<1>8. ASSUME NEW x \in Series, ~candlesEnded', requested[x] > 0, Brings(r, x, requested[x])
      PROVE  Received(candles', x, requested[x]) \/ discarded'[x] >= requested[x]
  <2>1. PICK c \in r.brought : c.i = x[2] /\ c.k = requested[x] - 1
    BY <1>1, <1>8 DEF Brings, r
  <2>2. x[1] = r.asset /\ x[2] \in r.intervals
    BY <1>8 DEF Brings
  <2>3. CASE candles' = [y \in Series |->
               IF y[1] # r.asset \/ candlesEnded' THEN candles[y]
               ELSE candles[y] \cup {[k |-> d.k, corrected |-> d.corrected] :
                                       d \in {b \in r.brought : b.i = y[2]}}]
    <3> DEFINE e == [k |-> c.k, corrected |-> c.corrected]
    <3>1. e.k = c.k
      OBVIOUS
    <3>2. e \in candles'[x]
      BY <1>8, <2>1, <2>2, <2>3
    <3> HIDE DEF e
    <3> QED BY <2>1, <3>1, <3>2 DEF Received
  <2>4. CASE discarded' = [y \in Series |->
               IF y[1] = r.asset /\ y[2] \in r.intervals
               THEN Max({discarded[y], CloseBucket(y[2], r.at)}) ELSE discarded[y]]
    <3>1. c.k \in Nat /\ c.k + 1 <= CloseBucket(x[2], r.at) /\ x[2] \in Intervals /\ r.at \in Nat
      BY <1>3, <2>1 DEF ReadTrue
    <3>2. CloseBucket(x[2], r.at) \in Int /\ discarded[x] \in Int /\ requested[x] \in Int
      BY <3>1, BucketIsNat DEF CandleInv
    <3>3. discarded'[x] \in Int /\ discarded'[x] >= CloseBucket(x[2], r.at)
      BY <1>5, <2>2, <2>4, <3>2
    <3> QED BY <2>1, <3>1, <3>2, <3>3
  <2> QED BY <1>2, <2>3, <2>4
<1>9. ASSUME NEW x \in Series, ~candlesEnded'
      PROVE  MarkTrue(requested', candles', sourceReads', discarded', x)
  <2>1. MarkTrue(requested, candles, sourceReads, discarded, x)
    BY <1>1 DEF CandleInv, MarksTrue
  <2>2. requested[x] \in Int /\ discarded'[x] \in Int /\ discarded[x] \in Int /\ discarded[x] <= discarded'[x]
    BY <1>6 DEF CandleInv
  <2>3. requested'[x] = requested[x]
    BY <1>1
  <2>4. CASE requested[x] > 0
    <3>1. SomeBrings(sourceReads, x, requested[x])
            => \/ SomeBrings(sourceReads', x, requested[x]) \/ Received(candles', x, requested[x])
               \/ discarded'[x] >= requested[x]
      <4>1. CASE Brings(r, x, requested[x])
        BY <1>8, <1>9, <2>4, <4>1
      <4>2. CASE ~Brings(r, x, requested[x])
        BY <1>1, <1>4, <4>2, OthersBring
      <4> QED BY <4>1, <4>2
    <3> QED BY <1>7, <2>1, <2>2, <2>3, <3>1, MarkStays
  <2>5. CASE ~(requested[x] > 0)
    BY <2>3, <2>5 DEF MarkTrue
  <2> QED BY <2>4, <2>5
<1>10. \A u \in Sources : ReadTrue(sourceReads'[u], wallTime)
  BY <1>1, <1>3, ReadsStayTrue
<1>11. ~candlesEnded' => MarksTrue(requested', candles', sourceReads', discarded')
  BY <1>9 DEF MarksTrue
<1>12. requested \in [Series -> Int]
  BY DEF CandleInv
<1> QED BY <1>1, <1>3, <1>6, <1>10, <1>11, <1>12, ReadChanges DEF CandleInv

LEMMA TimeKeeps == CandleInv /\ (WallTimePasses \/ UNCHANGED candleVars) => CandleInv'
<1>1. ASSUME CandleInv, wallTime' = wallTime \/ wallTime' = wallTime + 1,
             UNCHANGED <<requested, sourceReads, candles, candlesEnded, discarded>>
      PROVE  CandleInv'
  <2>1. /\ wallTime' \in Nat
        /\ \A u \in Sources : ReadTrue(sourceReads[u], wallTime')
    BY <1>1 DEF CandleInv, ReadTrue
  <2> QED BY <1>1, <2>1 DEF CandleInv
<1> QED BY <1>1 DEF WallTimePasses, candleVars

\* What is marked as read has its last final candle with the engine, on the
\* way, or in an answer that was discarded, for any sources, assets, intervals,
\* volumes and times (fetch_due_source_candles).
THEOREM MarkedArrive == CandleSpec => []MarkedCandlesArrive
<1>1. CandleInit => CandleInv
  <2> SUFFICES ASSUME CandleInit PROVE CandleInv
    OBVIOUS
  <2>1. wallTime \in Nat
    BY CandleAssumption DEF CandleInit
  <2>2. /\ requested \in [Series -> Int] /\ discarded \in [Series -> Int]
        /\ \A x \in Series : requested[x] = -1
    BY DEF CandleInit
  <2>3. sourceReads = [s \in Sources |-> Idle]
    BY DEF CandleInit
  <2>4. \A s \in Sources : ReadTrue(sourceReads[s], wallTime)
    BY <2>1, <2>3, IdleIsTrue
  <2> QED BY <2>1, <2>2, <2>3, <2>4 DEF CandleInv, MarksTrue, MarkTrue
<1>2. CandleInv /\ [CandleNext]_candleVars => CandleInv'
  BY MetadataKeeps, SendKeeps, StateKeeps, ArriveKeeps, FinishKeeps, TimeKeeps DEF CandleNext
<1>3. CandleInv => MarkedCandlesArrive
  BY Zenon DEF CandleInv, MarksTrue, MarkTrue, Received, SomeBrings, Brings, MarkedCandlesArrive
<1> QED BY <1>1, <1>2, <1>3, PTL DEF CandleSpec

-----------------------------------------------------------------------------
(* ReorderedEvents: the order of arrival is invisible.                     *)

TradingFields ==
  {"intent", "position", "equity", "fills", "funding", "highest", "applied", "buffer", "blocked",
   "mismatch", "replan"}
IsTrading(t) == DOMAIN t = TradingFields /\ t = [k \in TradingFields |-> t[k]]

\* Two states that differ in what they hold back only.
Alike(t, u) == \A k \in TradingFields \ {"buffer"} : t[k] = u[k]

\* What an event leaves as it is.
KeepsPlace(t, v) ==
  /\ IsTrading(v) /\ v.buffer = t.buffer /\ v.highest = t.highest /\ v.applied = t.applied

\* The same event has the same result on both, and leaves the place of both.
SameEffect(r, s, t, u) ==
  /\ r.error = s.error
  /\ r.error # "no" => DOMAIN r = {"error"}
  /\ r.error = "no" => /\ r = Changed(r.state) /\ s = Changed(s.state)
                       /\ Alike(r.state, s.state) /\ KeepsPlace(t, r.state) /\ KeepsPlace(u, s.state)

LEMMA ChangedAlike ==
  ASSUME NEW v, NEW w, NEW t, NEW u, Alike(v, w), KeepsPlace(t, v), KeepsPlace(u, w)
  PROVE  SameEffect(Changed(v), Changed(w), t, u)
BY DEF SameEffect, Changed

LEMMA ErroneousAlike ==
  ASSUME NEW why, why # "no", NEW t, NEW u
  PROVE  SameEffect(Erroneous(why), Erroneous(why), t, u)
BY DEF SameEffect, Erroneous

LEMMA IntentAlike ==
  ASSUME NEW t, NEW u, IsTrading(t), IsTrading(u), Alike(t, u), NEW to
  PROVE  /\ SameEffect(Changed([t EXCEPT !.intent = to]), Changed([u EXCEPT !.intent = to]), t, u)
         /\ SameEffect(WithIntent(t, to), WithIntent(u, to), t, u)
<1> DEFINE v == [t EXCEPT !.intent = to]
           w == [u EXCEPT !.intent = to]
<1>1. KeepsPlace(t, v) /\ KeepsPlace(u, w)
  BY DEF IsTrading, KeepsPlace, TradingFields
<1>2. Alike(v, w)
  BY DEF IsTrading, Alike, TradingFields
<1>3. t.intent = u.intent
  BY DEF Alike, TradingFields
<1> HIDE DEF v, w
<1>4. SameEffect(Changed(v), Changed(w), t, u)
  BY <1>1, <1>2, ChangedAlike
<1>5. SameEffect(WithIntent(t, to), WithIntent(u, to), t, u)
  <2>1. CASE t.intent = "unknown"
    BY <1>3, <2>1, ErroneousAlike DEF WithIntent
  <2>2. CASE t.intent # "unknown"
    BY <1>3, <1>4, <2>2 DEF WithIntent, v, w
  <2> QED BY <2>1, <2>2
<1> QED BY <1>4, <1>5 DEF v, w

\* An effect after another change that keeps the place.
LEMMA EffectAfter ==
  ASSUME NEW t, NEW u, NEW v, NEW w, KeepsPlace(t, v), KeepsPlace(u, w), NEW r, NEW s, SameEffect(r, s, v, w)
  PROVE  SameEffect(r, s, t, u)
BY DEF SameEffect, KeepsPlace

LEMMA FillAlike ==
  ASSUME NEW t, NEW u, IsTrading(t), IsTrading(u), Alike(t, u), NEW p
  PROVE  SameEffect(FillApplied(t, p), FillApplied(u, p), t, u)
<1>1. t.fills = u.fills /\ t.position = u.position
  BY DEF Alike, TradingFields
<1>2. CASE p \in t.fills
  <2>1. FillApplied(t, p) = Changed(t) /\ FillApplied(u, p) = Changed(u)
    BY <1>1, <1>2 DEF FillApplied
  <2> QED BY <2>1, ChangedAlike DEF KeepsPlace
<1>3. CASE p \notin t.fills /\ \E f \in t.fills : f.id = p.id
  <2>1. FillApplied(t, p) = Erroneous("Ledger") /\ FillApplied(u, p) = Erroneous("Ledger")
    BY <1>1, <1>3 DEF FillApplied
  <2> QED BY <2>1, ErroneousAlike
<1>4. CASE p \notin t.fills /\ ~\E f \in t.fills : f.id = p.id
  <2> DEFINE v == [t EXCEPT !.fills = t.fills \cup {p}, !.position = t.position + p.delta,
                            !.equity = p.equity, !.replan = TRUE]
             w == [u EXCEPT !.fills = u.fills \cup {p}, !.position = u.position + p.delta,
                            !.equity = p.equity, !.replan = TRUE]
  <2>1. /\ FillApplied(t, p) = WithIntent(v, "PartiallyFilled")
        /\ FillApplied(u, p) = WithIntent(w, "PartiallyFilled")
    BY <1>1, <1>4 DEF FillApplied
  <2>2. KeepsPlace(t, v) /\ KeepsPlace(u, w)
    BY DEF IsTrading, KeepsPlace, TradingFields
  <2>3. Alike(v, w)
    BY DEF IsTrading, Alike, TradingFields
  <2> HIDE DEF v, w
  <2>4. SameEffect(WithIntent(v, "PartiallyFilled"), WithIntent(w, "PartiallyFilled"), v, w)
    BY <2>2, <2>3, IntentAlike DEF KeepsPlace
  <2> QED BY <2>1, <2>2, <2>4, EffectAfter
<1> QED BY <1>2, <1>3, <1>4

LEMMA FundingAlike ==
  ASSUME NEW t, NEW u, IsTrading(t), IsTrading(u), Alike(t, u), NEW p
  PROVE  SameEffect(FundingApplied(t, p), FundingApplied(u, p), t, u)
<1>1. t.funding = u.funding /\ t.position = u.position /\ t.equity = u.equity
  BY DEF Alike, TradingFields
<1> DEFINE refused == t.position = 0 \/ t.equity + p.amount <= 0
<1>2. CASE p \in t.funding
  <2>1. FundingApplied(t, p) = Changed(t) /\ FundingApplied(u, p) = Changed(u)
    BY <1>1, <1>2 DEF FundingApplied
  <2> QED BY <2>1, ChangedAlike DEF KeepsPlace
<1>3. CASE p \notin t.funding /\ refused
  <2>1. FundingApplied(t, p) = Erroneous("Ledger") /\ FundingApplied(u, p) = Erroneous("Ledger")
    BY <1>1, <1>3 DEF FundingApplied
  <2> QED BY <2>1, ErroneousAlike
<1>4. CASE p \notin t.funding /\ ~refused
  <2> DEFINE v == [t EXCEPT !.funding = t.funding \cup {p}, !.equity = t.equity + p.amount, !.replan = TRUE]
             w == [u EXCEPT !.funding = u.funding \cup {p}, !.equity = u.equity + p.amount, !.replan = TRUE]
  <2>1. FundingApplied(t, p) = Changed(v) /\ FundingApplied(u, p) = Changed(w)
    BY <1>1, <1>4 DEF FundingApplied
  <2>2. KeepsPlace(t, v) /\ KeepsPlace(u, w)
    BY DEF IsTrading, KeepsPlace, TradingFields
  <2>3. Alike(v, w)
    BY DEF IsTrading, Alike, TradingFields
  <2> HIDE DEF v, w
  <2> QED BY <2>1, <2>2, <2>3, ChangedAlike
<1> HIDE DEF refused
<1> QED BY <1>2, <1>3, <1>4

\* An event does to two states that are alike the same (apply_contiguous).
LEMMA EffectAlike ==
  ASSUME NEW t, NEW u, IsTrading(t), IsTrading(u), Alike(t, u), NEW p \in Payloads
  PROVE  SameEffect(Effect(t, p), Effect(u, p), t, u)
<1>1. CASE p.kind = "IntentAccepted"
  BY <1>1, IntentAlike DEF Effect
<1>2. CASE p.kind = "OrderCancelled"
  BY <1>2, IntentAlike DEF Effect
<1>3. CASE p.kind = "Fill"
  BY <1>3, FillAlike DEF Effect
<1>4. CASE p.kind = "Funding"
  BY <1>4, FundingAlike DEF Effect
<1>5. CASE p.kind = "PositionSnapshot"
  <2> DEFINE v == [t EXCEPT !.blocked = p.position # t.position]
             w == [u EXCEPT !.blocked = p.position # u.position]
  <2>1. Effect(t, p) = Changed(v) /\ Effect(u, p) = Changed(w)
    BY <1>5 DEF Effect
  <2>2. KeepsPlace(t, v) /\ KeepsPlace(u, w)
    BY DEF IsTrading, KeepsPlace, TradingFields
  <2>3. Alike(v, w)
    BY DEF IsTrading, Alike, TradingFields
  <2> HIDE DEF v, w
  <2> QED BY <2>1, <2>2, <2>3, ChangedAlike
<1>6. CASE p.kind = "EquitySnapshot"
  <2> DEFINE v == [t EXCEPT !.mismatch = p.equity # t.equity]
             w == [u EXCEPT !.mismatch = p.equity # u.equity]
  <2>1. Effect(t, p) = Changed(v) /\ Effect(u, p) = Changed(w)
    BY <1>6 DEF Effect
  <2>2. KeepsPlace(t, v) /\ KeepsPlace(u, w)
    BY DEF IsTrading, KeepsPlace, TradingFields
  <2>3. Alike(v, w)
    BY DEF IsTrading, Alike, TradingFields
  <2> HIDE DEF v, w
  <2> QED BY <2>1, <2>2, <2>3, ChangedAlike
<1> QED BY <1>1, <1>2, <1>3, <1>4, <1>5, <1>6, EventsAssumption

\* The state v follows t by the event p, which nothing was held back for.
Follows(t, v, p) ==
  IsTrading(v) /\ v.buffer = t.buffer /\ v.highest = t.highest + 1 /\ v.applied = Append(t.applied, p)

LEMMA ApplyAlike ==
  ASSUME NEW t, NEW u, IsTrading(t), IsTrading(u), Alike(t, u), NEW p \in Payloads
  PROVE  LET r == ApplyContiguous(t, p)
             s == ApplyContiguous(u, p)
         IN  /\ r.error = s.error /\ (r.error # "no" => DOMAIN r = {"error"})
             /\ r.error = "no" => /\ r = Changed(r.state) /\ s = Changed(s.state)
                                  /\ Alike(r.state, s.state) /\ Follows(t, r.state, p) /\ Follows(u, s.state, p)
<1> DEFINE a == Effect(t, p)
           b == Effect(u, p)
<1>1. SameEffect(a, b, t, u)
  BY EffectAlike
<1>2. CASE a.error # "no"
  <2>1. ApplyContiguous(t, p) = a /\ ApplyContiguous(u, p) = b
    BY <1>1, <1>2 DEF ApplyContiguous, SameEffect
  <2> HIDE DEF a, b
  <2> QED BY <1>1, <1>2, <2>1 DEF SameEffect
<1>3. CASE a.error = "no"
  <2> DEFINE v == [a.state EXCEPT !.highest = a.state.highest + 1, !.applied = Append(a.state.applied, p)]
             w == [b.state EXCEPT !.highest = b.state.highest + 1, !.applied = Append(b.state.applied, p)]
  <2>1. ApplyContiguous(t, p) = Changed(v) /\ ApplyContiguous(u, p) = Changed(w)
    BY <1>1, <1>3 DEF ApplyContiguous, SameEffect
  <2>2. KeepsPlace(t, a.state) /\ KeepsPlace(u, b.state) /\ Alike(a.state, b.state)
    BY <1>1, <1>3 DEF SameEffect
  <2> HIDE DEF a, b
  <2>3. Follows(t, v, p) /\ Follows(u, w, p)
    BY <2>2 DEF KeepsPlace, Follows, IsTrading, TradingFields
  <2>4. Alike(v, w)
    BY <2>2 DEF KeepsPlace, Alike, IsTrading, TradingFields
  <2> HIDE DEF v, w
  <2>5. Changed(v).error = "no" /\ Changed(v).state = v /\ Changed(w).error = "no" /\ Changed(w).state = w
    BY DEF Changed
  <2> QED BY <2>1, <2>3, <2>4, <2>5
<1> QED BY <1>2, <1>3

-----------------------------------------------------------------------------
(* The stream applied in order.                                            *)

OneInOrder(before, p) == IF before.error # "no" THEN before ELSE ApplyContiguous(before.state, p)

\* F holds the state, or the error, after each of the first m events.
InOrderOf(F, events, m) ==
  F = [n \in 0..m |-> IF n = 0 THEN Changed(NewTrading)
                      ELSE IF F[n - 1].error # "no" THEN F[n - 1]
                      ELSE ApplyContiguous(F[n - 1].state, events[n])]

LEMMA InOrderExists ==
  ASSUME NEW events, NEW m \in Nat
  PROVE  \E F : InOrderOf(F, events, m)
<1> DEFINE S == {n \in Nat : \E F : InOrderOf(F, events, n)}
<1>1. 0 \in S
  <2>1. InOrderOf([n \in 0..0 |-> Changed(NewTrading)], events, 0)
    BY DEF InOrderOf
  <2> QED BY <2>1
<1>2. ASSUME NEW n \in Nat, n \in S PROVE n + 1 \in S
  <2>1. PICK F : InOrderOf(F, events, n)
    BY <1>2
  <2>2. \A k \in 0..n : F[k] = IF k = 0 THEN Changed(NewTrading) ELSE OneInOrder(F[k - 1], events[k])
    BY <2>1 DEF InOrderOf, OneInOrder
  <2> DEFINE G == [k \in 0..(n + 1) |-> IF k \in 0..n THEN F[k] ELSE OneInOrder(F[n], events[n + 1])]
  <2>3. \A k \in 0..n : G[k] = F[k]
    OBVIOUS
  <2>4. G[n + 1] = OneInOrder(F[n], events[n + 1])
    OBVIOUS
  <2>5. ASSUME NEW k \in 0..(n + 1)
        PROVE  G[k] = IF k = 0 THEN Changed(NewTrading) ELSE OneInOrder(G[k - 1], events[k])
    <3>1. CASE k = n + 1
      BY <2>3, <2>4, <3>1
    <3>2. CASE k \in 0..n
      <4>1. k = 0 \/ k - 1 \in 0..n
        BY <3>2
      <4> QED BY <2>2, <2>3, <3>2, <4>1
    <3> QED BY <3>1, <3>2
  <2>6. G = [k \in 0..(n + 1) |-> IF k = 0 THEN Changed(NewTrading) ELSE OneInOrder(G[k - 1], events[k])]
    BY <2>5
  <2>7. InOrderOf(G, events, n + 1)
    BY <2>6, Zenon DEF InOrderOf, OneInOrder
  <2> QED BY <2>7
<1> HIDE DEF S
<1>3. Nat \subseteq S
  BY <1>1, <1>2, SetInduction
<1> QED BY <1>3 DEF S

SameStart(s, t, m) == \A k \in 1..m : s[k] = t[k]

LEMMA InOrderAgree ==
  ASSUME NEW s, NEW t, NEW m \in Nat, NEW n \in Nat, m <= n,
         NEW F, InOrderOf(F, s, m), NEW G, InOrderOf(G, t, n), SameStart(s, t, m)
  PROVE  F[m] = G[m]
<1> DEFINE S == {k \in Nat : k <= m => F[k] = G[k]}
<1>1. 0 \in S
  BY DEF InOrderOf
<1>2. ASSUME NEW k \in Nat, k \in S PROVE k + 1 \in S
  <2>1. SUFFICES ASSUME k + 1 <= m PROVE F[k + 1] = G[k + 1]
    OBVIOUS
  <2>2. F[k + 1] = OneInOrder(F[k], s[k + 1])
    BY <2>1 DEF InOrderOf, OneInOrder
  <2>3. G[k + 1] = OneInOrder(G[k], t[k + 1])
    BY <2>1 DEF InOrderOf, OneInOrder
  <2>4. F[k] = G[k] /\ s[k + 1] = t[k + 1]
    BY <1>2, <2>1 DEF SameStart
  <2> QED BY <2>2, <2>3, <2>4
<1> HIDE DEF S
<1>3. Nat \subseteq S
  BY <1>1, <1>2, SetInduction
<1> QED BY <1>3 DEF S

LEMMA InOrderIs ==
  ASSUME NEW events, Len(events) \in Nat
  PROVE  \E F : InOrderOf(F, events, Len(events)) /\ InStreamOrder(events) = F[Len(events)]
<1> DEFINE I == CHOOSE G : InOrderOf(G, events, Len(events))
<1>1. InOrderOf(I, events, Len(events))
  BY InOrderExists
<1>2. InStreamOrder(events) = I[Len(events)]
  BY Zenon DEF InStreamOrder, InOrderOf
<1> QED BY <1>1, <1>2

\* What the first h events of the stream give.
Prefix(events, h) == InStreamOrder(SubSeq(events, 1, h))

LEMMA PrefixGrows ==
  ASSUME NEW events \in [1..StreamLength -> Payloads]
  PROVE  /\ Prefix(events, 0) = Changed(NewTrading)
         /\ \A h \in 0..(StreamLength - 1) : Prefix(events, h + 1) = OneInOrder(Prefix(events, h), events[h + 1])
<1>1. StreamLength \in Nat /\ events \in Seq(Payloads) /\ Len(events) = StreamLength
  BY EventsAssumption
<1>2. ASSUME NEW h \in 0..StreamLength
      PROVE  /\ Len(SubSeq(events, 1, h)) = h
             /\ \A k \in 1..h : SubSeq(events, 1, h)[k] = events[k]
  BY <1>1, SubSeqProperties
<1>3. ASSUME NEW h \in 0..StreamLength
      PROVE  \E F : InOrderOf(F, SubSeq(events, 1, h), h) /\ Prefix(events, h) = F[h]
  <2>1. Len(SubSeq(events, 1, h)) = h /\ h \in Nat
    BY <1>2
  <2> QED BY <2>1, InOrderIs DEF Prefix
<1>4. Prefix(events, 0) = Changed(NewTrading)
  <2>1. PICK F : InOrderOf(F, SubSeq(events, 1, 0), 0) /\ Prefix(events, 0) = F[0]
    BY <1>1, <1>3
  <2> QED BY <2>1 DEF InOrderOf
<1>5. ASSUME NEW h \in 0..(StreamLength - 1)
      PROVE  Prefix(events, h + 1) = OneInOrder(Prefix(events, h), events[h + 1])
  <2>1. h \in 0..StreamLength /\ h + 1 \in 0..StreamLength /\ h \in Nat /\ h + 1 \in Nat /\ h + 1 \in 1..(h + 1)
    BY <1>1
  <2>2. PICK F : InOrderOf(F, SubSeq(events, 1, h), h) /\ Prefix(events, h) = F[h]
    BY <1>3, <2>1
  <2>3. PICK G : InOrderOf(G, SubSeq(events, 1, h + 1), h + 1) /\ Prefix(events, h + 1) = G[h + 1]
    BY <1>3, <2>1
  <2>4. \A k \in 1..h : SubSeq(events, 1, h)[k] = SubSeq(events, 1, h + 1)[k]
    BY <1>2, <2>1
  <2>5. F[h] = G[h]
    <3> DEFINE s == SubSeq(events, 1, h)
               t == SubSeq(events, 1, h + 1)
               n == h + 1
    <3>1. n \in Nat /\ h <= n
      BY <2>1
    <3>2. InOrderOf(F, s, h) /\ InOrderOf(G, t, n)
      BY <2>2, <2>3
    <3>3. SameStart(s, t, h)
      BY <2>4 DEF SameStart
    <3>4. h \in Nat
      BY <2>1
    <3> HIDE DEF s, t, n
    <3> QED BY <3>1, <3>2, <3>3, <3>4, InOrderAgree
  <2>6. SubSeq(events, 1, h + 1)[h + 1] = events[h + 1]
    BY <1>2, <2>1
  <2>7. G[h + 1] = OneInOrder(G[h], SubSeq(events, 1, h + 1)[h + 1])
    BY <2>1, <2>3 DEF InOrderOf, OneInOrder
  <2> QED BY <2>2, <2>3, <2>5, <2>6, <2>7
<1> QED BY <1>4, <1>5

-----------------------------------------------------------------------------
(* What a state holds of its stream.                                       *)

Ready(t) == t.highest + 1 \notin DOMAIN t.buffer

Buffers(events, b) ==
  /\ DOMAIN b \subseteq 1..StreamLength
  /\ \A n \in DOMAIN b : b[n] = events[n]

AppliedIs(events, a, h) ==
  a \in Seq(Payloads) /\ Len(a) = h /\ \A n \in 1..h : a[n] = events[n]

\* The stream in order, up to where the state is, gives the state without what
\* it holds back.
InOrder(events, t) ==
  \E u : Prefix(events, t.highest) = Changed(u) /\ IsTrading(u) /\ u.buffer = <<>> /\ Alike(t, u)

TradingTrue(events, t) ==
  /\ IsTrading(t)
  /\ t.highest \in 0..StreamLength
  /\ Buffers(events, t.buffer)
  /\ Cardinality(DOMAIN t.buffer) <= ReorderWindow
  /\ AppliedIs(events, t.applied, t.highest)
  /\ InOrder(events, t)

LEMMA NewTrue ==
  ASSUME NEW events \in [1..StreamLength -> Payloads]
  PROVE  TradingTrue(events, NewTrading) /\ Ready(NewTrading)
<1>1. IsTrading(NewTrading)
  BY DEF IsTrading, NewTrading, TradingFields
<1>2. NewTrading.highest = 0 /\ NewTrading.buffer = <<>> /\ NewTrading.applied = <<>>
  BY DEF NewTrading
<1>3. DOMAIN NewTrading.buffer = {}
  BY <1>2
<1>4. AppliedIs(events, NewTrading.applied, NewTrading.highest)
  BY <1>2 DEF AppliedIs
<1>5. InOrder(events, NewTrading)
  BY <1>1, <1>2, PrefixGrows DEF InOrder, Alike
<1>6. Cardinality(DOMAIN NewTrading.buffer) <= ReorderWindow
  BY <1>3, FS_EmptySet, EventsAssumption
<1>7. Buffers(events, NewTrading.buffer)
  BY <1>3 DEF Buffers
<1> QED BY <1>1, <1>2, <1>3, <1>4, <1>5, <1>6, <1>7, EventsAssumption DEF TradingTrue, Ready

\* The next event of the stream is applied, or refused.
AppliesTrue(events, t, r) ==
  /\ r.error # "no" => DOMAIN r = {"error"}
  /\ r.error = "no" => r = Changed(r.state) /\ TradingTrue(events, r.state) /\ r.state.buffer = t.buffer

LEMMA ApplyTrue ==
  ASSUME NEW events \in [1..StreamLength -> Payloads], NEW t, TradingTrue(events, t),
         t.highest < StreamLength, NEW p, p = events[t.highest + 1]
  PROVE  AppliesTrue(events, t, ApplyContiguous(t, p))
<1> DEFINE r == ApplyContiguous(t, p)
           h == t.highest
<1>1. IsTrading(t) /\ h \in 0..(StreamLength - 1) /\ p \in Payloads
  BY EventsAssumption DEF TradingTrue
<1>2. PICK u : Prefix(events, h) = Changed(u) /\ IsTrading(u) /\ u.buffer = <<>> /\ Alike(t, u)
  BY DEF TradingTrue, InOrder
<1> DEFINE s == ApplyContiguous(u, p)
<1>3. /\ r.error = s.error /\ (r.error # "no" => DOMAIN r = {"error"})
      /\ r.error = "no" => /\ r = Changed(r.state) /\ s = Changed(s.state)
                           /\ Alike(r.state, s.state) /\ Follows(t, r.state, p) /\ Follows(u, s.state, p)
  BY <1>1, <1>2, ApplyAlike
<1>4. Prefix(events, h + 1) = OneInOrder(Prefix(events, h), p)
  BY <1>1, PrefixGrows
<1>5. Prefix(events, h + 1) = s
  <2>1. Changed(u).error = "no" /\ Changed(u).state = u
    BY DEF Changed
  <2> QED BY <1>2, <1>4, <2>1 DEF OneInOrder
<1> HIDE DEF r, s
<1>6. ASSUME r.error = "no" PROVE TradingTrue(events, r.state) /\ r.state.buffer = t.buffer
  <2> DEFINE v == r.state
  <2>1. Follows(t, v, p) /\ Follows(u, s.state, p) /\ Alike(v, s.state) /\ s = Changed(s.state)
    BY <1>3, <1>6
  <2>2. IsTrading(v) /\ v.buffer = t.buffer /\ v.highest = h + 1 /\ v.applied = Append(t.applied, p)
    BY <2>1 DEF Follows
  <2>3. IsTrading(s.state) /\ s.state.buffer = <<>>
    BY <1>2, <2>1 DEF Follows
  <2> HIDE DEF v
  <2>4. InOrder(events, v)
    BY <1>5, <2>1, <2>2, <2>3 DEF InOrder
  <2>5. AppliedIs(events, v.applied, v.highest)
    <3>1. t.applied \in Seq(Payloads) /\ Len(t.applied) = h /\ \A n \in 1..h : t.applied[n] = events[n]
      BY DEF TradingTrue, AppliedIs
    <3>2. v.applied \in Seq(Payloads) /\ Len(v.applied) = h + 1
      BY <1>1, <2>2, <3>1, AppendProperties
    <3>3. ASSUME NEW n \in 1..(h + 1) PROVE v.applied[n] = events[n]
      <4>1. CASE n = h + 1
        BY <1>1, <2>2, <3>1, <4>1, AppendProperties
      <4>2. CASE n \in 1..h
        BY <1>1, <2>2, <3>1, <4>2, AppendProperties
      <4> QED BY <1>1, <4>1, <4>2
    <3> QED BY <2>2, <3>2, <3>3 DEF AppliedIs
  <2>6. v.highest \in 0..StreamLength
    BY <1>1, <2>2, EventsAssumption
  <2>7. Buffers(events, v.buffer) /\ Cardinality(DOMAIN v.buffer) <= ReorderWindow
    BY <2>2 DEF TradingTrue
  <2>8. TradingTrue(events, v)
    BY <2>2, <2>4, <2>5, <2>6, <2>7 DEF TradingTrue
  <2> QED BY <2>2, <2>8 DEF v
<1>7. AppliesTrue(events, t, r)
  BY <1>3, <1>6 DEF AppliesTrue
<1> QED BY <1>7 DEF r

\* Another buffer of the same stream.
LEMMA OtherBuffer ==
  ASSUME NEW events, NEW t, TradingTrue(events, t), NEW b, Buffers(events, b),
         Cardinality(DOMAIN b) <= ReorderWindow
  PROVE  LET v == [t EXCEPT !.buffer = b]
         IN  TradingTrue(events, v) /\ v.buffer = b /\ v.highest = t.highest
<1> DEFINE v == [t EXCEPT !.buffer = b]
<1>1. IsTrading(t)
  BY DEF TradingTrue
<1>2. IsTrading(v) /\ v.buffer = b /\ v.highest = t.highest /\ v.applied = t.applied
  BY <1>1 DEF IsTrading, TradingFields
<1>3. \A k \in TradingFields \ {"buffer"} : v[k] = t[k]
  BY <1>1 DEF IsTrading, TradingFields
<1> HIDE DEF v
<1>4. InOrder(events, v)
  BY <1>2, <1>3 DEF TradingTrue, InOrder, Alike
<1>5. TradingTrue(events, v)
  BY <1>2, <1>4 DEF TradingTrue
<1> QED BY <1>2, <1>5 DEF v

-----------------------------------------------------------------------------
(* What waits is applied as far as it goes.                                *)

\* After i steps a drain has failed, has come to a gap, or has taken i events
\* out of a buffer that held no more than the window.
DrainTrue(events, acc, i) ==
  \/ /\ acc.error # "no"
     /\ "state" \in DOMAIN acc => TradingTrue(events, acc.state)
  \/ /\ acc.error = "no" /\ "state" \in DOMAIN acc
     /\ TradingTrue(events, acc.state)
     /\ Ready(acc.state) \/ Cardinality(DOMAIN acc.state.buffer) + i <= ReorderWindow

LEMMA DrainStep ==
  ASSUME NEW events \in [1..StreamLength -> Payloads], NEW i \in Nat, NEW acc, DrainTrue(events, acc, i)
  PROVE  DrainTrue(events, DrainedOnce(acc), i + 1)
<1> DEFINE t == acc.state
           n == t.highest + 1
           left == Restrict(t.buffer, DOMAIN t.buffer \ {n})
           rest == [t EXCEPT !.buffer = left]
           r == ApplyContiguous(rest, t.buffer[n])
<1>1. CASE acc.error # "no"
  <2>1. DrainedOnce(acc) = acc
    BY <1>1 DEF DrainedOnce
  <2> QED BY <1>1, <2>1 DEF DrainTrue
<1>2. CASE acc.error = "no" /\ n \notin DOMAIN t.buffer
  <2>1. DrainedOnce(acc) = acc
    BY <1>2 DEF DrainedOnce
  <2>2. Ready(acc.state)
    BY <1>2 DEF Ready
  <2> QED BY <1>2, <2>1, <2>2 DEF DrainTrue
<1>3. CASE acc.error = "no" /\ n \in DOMAIN t.buffer
  <2>1. TradingTrue(events, t) /\ Cardinality(DOMAIN t.buffer) + i <= ReorderWindow
    BY <1>3 DEF DrainTrue, Ready
  <2>2. DrainedOnce(acc) = IF r.error # "no" THEN [error |-> r.error, state |-> rest] ELSE r
    BY <1>3 DEF DrainedOnce
  <2>3. DOMAIN left = DOMAIN t.buffer \ {n} /\ \A m \in DOMAIN left : left[m] = t.buffer[m]
    BY DEF Restrict
  <2>4. Buffers(events, t.buffer) /\ t.highest \in 0..StreamLength
    BY <2>1 DEF TradingTrue
  <2>5. n \in 1..StreamLength /\ t.buffer[n] = events[n]
    BY <1>3, <2>4 DEF Buffers
  <2>6. IsFiniteSet(DOMAIN t.buffer)
    <3>1. IsFiniteSet(1..StreamLength)
      BY FS_Interval, EventsAssumption
    <3> QED BY <2>4, <3>1, FS_Subset DEF Buffers
  <2>7. /\ Cardinality(DOMAIN left) = Cardinality(DOMAIN t.buffer) - 1
        /\ Cardinality(DOMAIN t.buffer) \in Nat /\ Cardinality(DOMAIN left) \in Nat
    <3>1. Cardinality(DOMAIN t.buffer) \in Nat
      BY <2>6, FS_CardinalityType
    <3>2. IsFiniteSet(DOMAIN left)
      BY <2>3, <2>6, FS_Subset
    <3>3. Cardinality(DOMAIN left) = Cardinality(DOMAIN t.buffer) - 1
      <4> DEFINE D == DOMAIN t.buffer
      <4>1. n \in D /\ IsFiniteSet(D) /\ DOMAIN left = D \ {n}
        BY <1>3, <2>3, <2>6
      <4> HIDE DEF D, left, n
      <4>2. Cardinality(DOMAIN left) = Cardinality(D) - 1
        BY <4>1, FS_RemoveElement
      <4> QED BY <4>2 DEF D
    <3> QED BY <3>1, <3>2, <3>3, FS_CardinalityType
  <2>8. Buffers(events, left)
    BY <2>3, <2>4 DEF Buffers
  <2>9. Cardinality(DOMAIN left) <= ReorderWindow
    BY <2>1, <2>7, EventsAssumption
  <2> HIDE DEF left
  <2>10. TradingTrue(events, rest) /\ rest.buffer = left /\ rest.highest = t.highest
    BY <2>1, <2>8, <2>9, OtherBuffer
  <2>11. rest.highest < StreamLength /\ t.buffer[n] = events[rest.highest + 1]
    BY <2>4, <2>5, <2>10, EventsAssumption
  <2> HIDE DEF rest
  <2>12. r.error = "no" => r = Changed(r.state) /\ TradingTrue(events, r.state) /\ r.state.buffer = left
    <3>1. AppliesTrue(events, rest, r)
      BY <2>10, <2>11, ApplyTrue
    <3> HIDE DEF r
    <3> QED BY <2>10, <3>1 DEF AppliesTrue
  <2> HIDE DEF r
  <2>13. CASE r.error # "no"
    <3> DEFINE failed == [error |-> r.error, state |-> rest]
    <3>1. DrainedOnce(acc) = failed
      BY <2>2, <2>13
    <3>2. failed.error = r.error /\ failed.state = rest
      OBVIOUS
    <3> HIDE DEF failed
    <3> QED BY <2>10, <2>13, <3>1, <3>2 DEF DrainTrue
  <2>14. CASE r.error = "no"
    <3>1. DrainedOnce(acc) = r
      BY <2>2, <2>14
    <3>2. "state" \in DOMAIN r
      BY <2>12, <2>14 DEF Changed
    <3>3. Cardinality(DOMAIN r.state.buffer) + (i + 1) <= ReorderWindow
      BY <2>1, <2>7, <2>12, <2>14, EventsAssumption
    <3> QED BY <2>12, <2>14, <3>1, <3>2, <3>3 DEF DrainTrue
  <2> QED BY <2>13, <2>14
<1> QED BY <1>1, <1>2, <1>3

\* F holds the drain after each of its first m steps.
DrainOf(F, outcome, m) ==
  F = [i \in 0..m |-> IF i = 0 THEN outcome ELSE DrainedOnce(F[i - 1])]

LEMMA DrainExists ==
  ASSUME NEW outcome, NEW m \in Nat
  PROVE  \E F : DrainOf(F, outcome, m)
<1> DEFINE S == {n \in Nat : \E F : DrainOf(F, outcome, n)}
<1>1. 0 \in S
  <2>1. DrainOf([n \in 0..0 |-> outcome], outcome, 0)
    BY DEF DrainOf
  <2> QED BY <2>1
<1>2. ASSUME NEW n \in Nat, n \in S PROVE n + 1 \in S
  <2>1. PICK F : DrainOf(F, outcome, n)
    BY <1>2
  <2>2. \A k \in 0..n : F[k] = IF k = 0 THEN outcome ELSE DrainedOnce(F[k - 1])
    BY <2>1 DEF DrainOf
  <2> DEFINE G == [k \in 0..(n + 1) |-> IF k \in 0..n THEN F[k] ELSE DrainedOnce(F[n])]
  <2>3. \A k \in 0..n : G[k] = F[k]
    OBVIOUS
  <2>4. G[n + 1] = DrainedOnce(F[n])
    OBVIOUS
  <2>5. ASSUME NEW k \in 0..(n + 1)
        PROVE  G[k] = IF k = 0 THEN outcome ELSE DrainedOnce(G[k - 1])
    <3>1. CASE k = n + 1
      BY <2>3, <2>4, <3>1
    <3>2. CASE k \in 0..n
      <4>1. k = 0 \/ k - 1 \in 0..n
        BY <3>2
      <4> QED BY <2>2, <2>3, <3>2, <4>1
    <3> QED BY <3>1, <3>2
  <2>6. G = [k \in 0..(n + 1) |-> IF k = 0 THEN outcome ELSE DrainedOnce(G[k - 1])]
    BY <2>5
  <2>7. DrainOf(G, outcome, n + 1)
    BY <2>6, Zenon DEF DrainOf
  <2> QED BY <2>7
<1> HIDE DEF S
<1>3. Nat \subseteq S
  BY <1>1, <1>2, SetInduction
<1> QED BY <1>3 DEF S

\* A drain fails, or ends with no event that could be applied next.
LEMMA DrainedTrue ==
  ASSUME NEW events \in [1..StreamLength -> Payloads], NEW outcome, DrainTrue(events, outcome, 0)
  PROVE  LET d == Drained(outcome)
         IN  \/ d.error # "no" /\ ("state" \in DOMAIN d => TradingTrue(events, d.state))
             \/ /\ d.error = "no" /\ "state" \in DOMAIN d
                /\ TradingTrue(events, d.state) /\ Ready(d.state)
<1> DEFINE F == CHOOSE G : DrainOf(G, outcome, ReorderWindow)
<1>1. ReorderWindow \in Nat
  BY EventsAssumption
<1>2. DrainOf(F, outcome, ReorderWindow)
  BY <1>1, DrainExists
<1>3. Drained(outcome) = F[ReorderWindow]
  BY Zenon DEF Drained, DrainOf
<1> HIDE DEF F
<1> DEFINE S == {i \in Nat : i <= ReorderWindow => DrainTrue(events, F[i], i)}
<1>4. 0 \in S
  BY <1>1, <1>2 DEF DrainOf
<1>5. ASSUME NEW i \in Nat, i \in S PROVE i + 1 \in S
  <2>1. SUFFICES ASSUME i + 1 <= ReorderWindow PROVE DrainTrue(events, F[i + 1], i + 1)
    OBVIOUS
  <2>2. F[i + 1] = DrainedOnce(F[i])
    BY <1>1, <1>2, <2>1 DEF DrainOf
  <2>3. DrainTrue(events, F[i], i)
    BY <1>1, <1>5, <2>1
  <2> QED BY <2>2, <2>3, DrainStep
<1> HIDE DEF S
<1>6. Nat \subseteq S
  BY <1>4, <1>5, SetInduction
<1> DEFINE d == F[ReorderWindow]
<1>7. DrainTrue(events, d, ReorderWindow)
  BY <1>1, <1>6 DEF S
<1> HIDE DEF d
<1>8. ASSUME TradingTrue(events, d.state), Cardinality(DOMAIN d.state.buffer) + ReorderWindow <= ReorderWindow
      PROVE  Ready(d.state)
  <2>1. IsFiniteSet(DOMAIN d.state.buffer)
    <3>1. IsFiniteSet(1..StreamLength)
      BY FS_Interval, EventsAssumption
    <3> QED BY <1>8, <3>1, FS_Subset DEF TradingTrue, Buffers
  <2>2. Cardinality(DOMAIN d.state.buffer) = 0
    BY <1>1, <1>8, <2>1, FS_CardinalityType
  <2>3. DOMAIN d.state.buffer = {}
    BY <2>1, <2>2, FS_EmptySet
  <2> QED BY <2>3 DEF Ready
<1> QED BY <1>3, <1>7, <1>8 DEF DrainTrue, d

-----------------------------------------------------------------------------
(* The steps.                                                              *)

\* What apply_reconciliation_event may answer.
AnswerTrue(events, r) ==
  \/ r.error # "no" /\ ("state" \in DOMAIN r => TradingTrue(events, r.state))
  \/ r.error = "no" /\ "state" \in DOMAIN r /\ TradingTrue(events, r.state) /\ Ready(r.state)

LEMMA RefusalTrue ==
  ASSUME NEW events, NEW why, why # "no"
  PROVE  AnswerTrue(events, Erroneous(why))
BY DEF AnswerTrue, Erroneous

LEMMA AcceptanceTrue ==
  ASSUME NEW events, NEW t, TradingTrue(events, t), Ready(t)
  PROVE  AnswerTrue(events, Changed(t))
BY DEF AnswerTrue, Changed

LEMMA EarlyTrue ==
  ASSUME NEW events \in [1..StreamLength -> Payloads], NEW t, TradingTrue(events, t), Ready(t),
         NEW n \in 1..StreamLength, n > t.highest + 1, NEW p, p = events[n] \/ n \in DOMAIN t.buffer
  PROVE  AnswerTrue(events, Buffered(t, n, p))
<1> DEFINE held == DOMAIN t.buffer
<1>1. IsFiniteSet(held) /\ Cardinality(held) \in Nat
  <2>1. IsFiniteSet(1..StreamLength)
    BY FS_Interval, EventsAssumption
  <2>2. IsFiniteSet(held)
    BY <2>1, FS_Subset DEF TradingTrue, Buffers
  <2> QED BY <2>2, FS_CardinalityType
<1>2. CASE Cardinality(held) >= ReorderWindow
  <2>1. Buffered(t, n, p) = Erroneous("ReorderWindowExhausted")
    BY <1>1, <1>2, EventsAssumption DEF Buffered
  <2> QED BY <2>1, RefusalTrue
<1>3. CASE Cardinality(held) < ReorderWindow /\ n \in held
  <2>1. Buffered(t, n, p) = IF t.buffer[n] # p THEN Erroneous("SequenceIdentityConflict") ELSE Changed(t)
    BY <1>1, <1>3, EventsAssumption DEF Buffered
  <2> QED BY <2>1, RefusalTrue, AcceptanceTrue
<1>4. CASE Cardinality(held) < ReorderWindow /\ n \notin held
  <2> DEFINE b == [m \in held \cup {n} |-> IF m = n THEN p ELSE t.buffer[m]]
             v == [t EXCEPT !.buffer = b]
  <2>1. Buffered(t, n, p) = Changed(v)
    BY <1>1, <1>4, EventsAssumption DEF Buffered, WithEarly
  <2>2. Buffers(events, b)
    BY <1>4 DEF TradingTrue, Buffers
  <2>3. DOMAIN b = held \cup {n}
    OBVIOUS
  <2>4. Cardinality(DOMAIN b) = Cardinality(held) + 1
    BY <1>1, <1>4, <2>3, FS_AddElement
  <2>5. Cardinality(DOMAIN b) <= ReorderWindow
    BY <1>1, <1>4, <2>4, EventsAssumption
  <2> HIDE DEF b
  <2>6. TradingTrue(events, v) /\ v.buffer = b /\ v.highest = t.highest
    BY <2>2, <2>5, OtherBuffer
  <2> HIDE DEF v
  <2>7. Ready(v)
    <3>1. t.highest \in Nat
      BY EventsAssumption DEF TradingTrue
    <3>2. t.highest + 1 # n
      BY <3>1
    <3> QED BY <2>3, <2>6, <3>2 DEF Ready
  <2> QED BY <2>1, <2>6, <2>7, AcceptanceTrue
<1> QED BY <1>1, <1>2, <1>3, <1>4, EventsAssumption

LEMMA AnswersTrue ==
  ASSUME NEW events \in [1..StreamLength -> Payloads], NEW t, TradingTrue(events, t), Ready(t),
         NEW n \in 1..StreamLength, NEW p, p = events[n] \/ n \in DOMAIN t.applied \/ n \in DOMAIN t.buffer
  PROVE  AnswerTrue(events, ApplyReconciliationEvent(t, n, p))
<1>1. /\ t.highest \in 0..StreamLength /\ StreamLength \in Nat
      /\ DOMAIN t.applied = 1..t.highest
  <2>1. t.highest \in 0..StreamLength /\ t.applied \in Seq(Payloads) /\ Len(t.applied) = t.highest
    BY DEF TradingTrue, AppliedIs
  <2> QED BY <2>1, LenProperties, EventsAssumption
<1>2. CASE n \in DOMAIN t.applied
  <2>1. ApplyReconciliationEvent(t, n, p)
          = IF t.applied[n] = p THEN Changed(t) ELSE Erroneous("SequenceIdentityConflict")
    BY <1>1, <1>2 DEF ApplyReconciliationEvent
  <2> QED BY <2>1, RefusalTrue, AcceptanceTrue
<1>3. CASE n > t.highest + 1
  <2>1. n \notin DOMAIN t.applied /\ ~(n <= t.highest)
    BY <1>1, <1>3
  <2>2. ApplyReconciliationEvent(t, n, p) = Buffered(t, n, p)
    BY <1>3, <2>1 DEF ApplyReconciliationEvent
  <2> QED BY <1>3, <2>1, <2>2, EarlyTrue
<1>4. CASE n = t.highest + 1
  <2> DEFINE r == ApplyContiguous(t, p)
  <2>1. n \notin DOMAIN t.applied /\ ~(n <= t.highest) /\ ~(n > t.highest + 1)
    BY <1>1, <1>4
  <2>2. ApplyReconciliationEvent(t, n, p) = Drained(r)
    BY <2>1 DEF ApplyReconciliationEvent
  <2>3. p = events[t.highest + 1] /\ t.highest < StreamLength
    BY <1>1, <1>4, <2>1 DEF Ready
  <2>4. /\ r.error # "no" => DOMAIN r = {"error"}
        /\ r.error = "no" => r = Changed(r.state) /\ TradingTrue(events, r.state)
    <3>1. AppliesTrue(events, t, r)
      BY <2>3, ApplyTrue
    <3> HIDE DEF r
    <3> QED BY <3>1 DEF AppliesTrue
  <2> HIDE DEF r
  <2>5. DrainTrue(events, r, 0)
    <3>1. CASE r.error # "no"
      BY <2>4, <3>1 DEF DrainTrue
    <3>2. CASE r.error = "no"
      <4>1. "state" \in DOMAIN r /\ TradingTrue(events, r.state)
        BY <2>4, <3>2 DEF Changed
      <4>2. IsFiniteSet(DOMAIN r.state.buffer)
        <5>1. IsFiniteSet(1..StreamLength)
          BY FS_Interval, EventsAssumption
        <5> QED BY <4>1, <5>1, FS_Subset DEF TradingTrue, Buffers
      <4>3. Cardinality(DOMAIN r.state.buffer) + 0 <= ReorderWindow
        BY <4>1, <4>2, FS_CardinalityType DEF TradingTrue
      <4> QED BY <3>2, <4>1, <4>3 DEF DrainTrue
    <3> QED BY <3>1, <3>2
  <2> QED BY <2>2, <2>5, DrainedTrue DEF AnswerTrue
<1> QED BY <1>1, <1>2, <1>3, <1>4

EventsInv ==
  /\ stream \in [1..StreamLength -> Payloads]
  /\ TradingTrue(stream, trading) /\ TradingTrue(stream, tradingFile)
  /\ Ready(tradingFile)
  /\ tradingError = "no" => Ready(trading)

LEMMA EventsInitially == EventsInit => EventsInv
BY NewTrue DEF EventsInit, EventsInv

LEMMA EventsKept == EventsInv /\ [EventsNext]_eventsVars => EventsInv'
<1> SUFFICES ASSUME EventsInv, [EventsNext]_eventsVars PROVE EventsInv'
  OBVIOUS
<1>1. CASE DeliverEvent
  <2>1. PICK n \in 1..StreamLength, p \in Payloads :
          LET known == n \in DOMAIN trading.applied \/ n \in DOMAIN trading.buffer
              r == ApplyReconciliationEvent(trading, n, p)
          IN  /\ TradingSaved
              /\ p = stream[n] \/ known
              /\ tradingError' = r.error
              /\ trading' = IF "state" \in DOMAIN r THEN r.state ELSE trading
              /\ UNCHANGED <<stream, tradingFile, reloads>>
    BY <1>1 DEF DeliverEvent
  <2> DEFINE r == ApplyReconciliationEvent(trading, n, p)
  <2>2. AnswerTrue(stream, r)
    BY <2>1, AnswersTrue DEF EventsInv, TradingSaved
  <2> HIDE DEF r
  <2>3. TradingTrue(stream, trading') /\ (tradingError' = "no" => Ready(trading'))
    BY <2>1, <2>2 DEF AnswerTrue, EventsInv, r
  <2> QED BY <2>1, <2>3 DEF EventsInv
<1>2. CASE SaveTrading
  BY <1>2 DEF SaveTrading, EventsInv
<1>3. CASE ReloadTrading
  BY <1>3 DEF ReloadTrading, EventsInv
<1>4. CASE UNCHANGED eventsVars
  BY <1>4 DEF eventsVars, EventsInv
<1> QED BY <1>1, <1>2, <1>3, <1>4 DEF EventsNext

LEMMA TrueIsInOrder ==
  ASSUME NEW events, NEW t, TradingTrue(events, t)
  PROVE  InStreamOrder(SubSeq(events, 1, t.highest)) = Changed([t EXCEPT !.buffer = <<>>])
<1>1. PICK u : Prefix(events, t.highest) = Changed(u) /\ IsTrading(u) /\ u.buffer = <<>> /\ Alike(t, u)
  BY DEF TradingTrue, InOrder
<1>2. IsTrading(t)
  BY DEF TradingTrue
<1> DEFINE v == [t EXCEPT !.buffer = <<>>]
<1>3. DOMAIN v = TradingFields /\ v = [k \in TradingFields |-> v[k]] /\ v.buffer = <<>>
  BY <1>2 DEF IsTrading, TradingFields
<1>4. \A k \in TradingFields \ {"buffer"} : v[k] = t[k]
  BY <1>2 DEF IsTrading, TradingFields
<1> HIDE DEF v
<1>5. \A k \in TradingFields : v[k] = u[k]
  BY <1>1, <1>3, <1>4 DEF Alike
<1>6. v = u
  BY <1>1, <1>3, <1>5 DEF IsTrading
<1> QED BY <1>1, <1>6 DEF Prefix, v

\* What is applied is what the stream in order gives, in memory and in the
\* file, whatever order, duplicate or conflict the events arrived in and
\* wherever the process was restarted (production_state.rs,
\* apply_reconciliation_event): what waits is of the stream, and after each
\* event nothing waits that could be applied.
THEOREM ArrivalNeverShows == EventsSpec => []ArrivalOrderIsInvisible
<1>1. EventsInv => ArrivalOrderIsInvisible
  BY TrueIsInOrder DEF EventsInv, ArrivalOrderIsInvisible
<1> QED BY <1>1, EventsInitially, EventsKept, PTL DEF EventsSpec

-----------------------------------------------------------------------------
(* ReplayJournal: the journal reproduces the engine.                       *)

Reads == [tier : SourceTiers, at : Int, vote : SourceVotes \cup {0}, made : Int]
JournalEvents ==
  [kind : {"TierSet", "Accepted", "Tick"}, at : Nat, response : Reads, tier : SourceTiers]
IsEngine(e) ==
  /\ e.tier \in SourceTiers
  /\ e = [tier |-> e.tier, snapshot |-> e.snapshot, version |-> e.version, vote |-> e.vote,
          records |-> e.records]

\* F holds what a new engine is after each of the first n events.
ReplayOf(F, events, n) ==
  F = [k \in 0..n |-> IF k = 0 THEN NewEngine(0, 0) ELSE ReplayedEvent(F[k - 1], events[k])]

\* The replay of any number of events is defined.
LEMMA ReplayExists ==
  ASSUME NEW events, NEW m \in Nat
  PROVE  \E F : ReplayOf(F, events, m)
<1> DEFINE S == {n \in Nat : \E F : ReplayOf(F, events, n)}
<1>1. 0 \in S
  <2>1. ReplayOf([k \in 0..0 |-> NewEngine(0, 0)], events, 0)
    BY DEF ReplayOf
  <2> QED BY <2>1
<1>2. ASSUME NEW n \in Nat, n \in S PROVE n + 1 \in S
  <2>1. PICK F : ReplayOf(F, events, n)
    BY <1>2
  <2> DEFINE G == [k \in 0..(n + 1) |-> IF k \in 0..n THEN F[k] ELSE ReplayedEvent(F[n], events[n + 1])]
  <2>2. \A k \in 0..n : G[k] = F[k]
    OBVIOUS
  <2>3. G[n + 1] = ReplayedEvent(F[n], events[n + 1])
    OBVIOUS
  <2>4. ASSUME NEW k \in 0..(n + 1)
        PROVE  G[k] = IF k = 0 THEN NewEngine(0, 0) ELSE ReplayedEvent(G[k - 1], events[k])
    <3>1. CASE k = n + 1
      BY <2>2, <2>3, <3>1
    <3>2. CASE k \in 0..n
      <4>1. F[k] = IF k = 0 THEN NewEngine(0, 0) ELSE ReplayedEvent(F[k - 1], events[k])
        BY <2>1, <3>2 DEF ReplayOf
      <4>2. k = 0 \/ k - 1 \in 0..n
        BY <3>2
      <4> QED BY <2>2, <3>2, <4>1, <4>2
    <3> QED BY <3>1, <3>2
  <2>5. ReplayOf(G, events, n + 1)
    BY <2>4 DEF ReplayOf
  <2> QED BY <2>5
<1> HIDE DEF S
<1>3. Nat \subseteq S
  BY <1>1, <1>2, SetInduction
<1> QED BY <1>3 DEF S

\* Two replays agree as long as their events do.
LEMMA ReplaysAgree ==
  ASSUME NEW s, NEW t, NEW m \in Nat, NEW n \in Nat, m <= n,
         NEW F, ReplayOf(F, s, m), NEW G, ReplayOf(G, t, n), \A k \in 1..m : s[k] = t[k]
  PROVE  F[m] = G[m]
<1> DEFINE S == {k \in Nat : k <= m => F[k] = G[k]}
<1>1. 0 \in S
  BY DEF ReplayOf
<1>2. ASSUME NEW k \in Nat, k \in S PROVE k + 1 \in S
  <2>1. SUFFICES ASSUME k + 1 <= m PROVE F[k + 1] = G[k + 1]
    OBVIOUS
  <2>2. F[k + 1] = ReplayedEvent(F[k], s[k + 1])
    BY <2>1 DEF ReplayOf
  <2>3. G[k + 1] = ReplayedEvent(G[k], t[k + 1])
    BY <2>1 DEF ReplayOf
  <2>4. F[k] = G[k] /\ s[k + 1] = t[k + 1]
    BY <1>2, <2>1
  <2> QED BY <2>2, <2>3, <2>4
<1> HIDE DEF S
<1>3. Nat \subseteq S
  BY <1>1, <1>2, SetInduction
<1> QED BY <1>3 DEF S

\* Replayed gives the last value of every such function.
LEMMA ReplayedIs ==
  ASSUME NEW events, Len(events) \in Nat
  PROVE  \E F : ReplayOf(F, events, Len(events)) /\ Replayed(events) = F[Len(events)]
<1> DEFINE I == CHOOSE G : ReplayOf(G, events, Len(events))
<1>1. ReplayOf(I, events, Len(events))
  BY ReplayExists
<1>2. Replayed(events) = I[Len(events)]
  BY Zenon DEF Replayed, ReplayOf
<1> QED BY <1>1, <1>2

\* An event more.
LEMMA ReplayedMore ==
  ASSUME NEW S, NEW s \in Seq(S), NEW e \in S
  PROVE  Replayed(Append(s, e)) = ReplayedEvent(Replayed(s), e)
<1> DEFINE n == Len(s)
           t == Append(s, e)
<1>1. n \in Nat
  OBVIOUS
<1>2. Len(t) = n + 1 /\ t[n + 1] = e /\ \A k \in 1..n : t[k] = s[k]
  BY AppendProperties
<1> HIDE DEF t
<1>3. PICK F : ReplayOf(F, s, n) /\ Replayed(s) = F[n]
  BY <1>1, ReplayedIs
<1>4. PICK G : ReplayOf(G, t, n + 1) /\ Replayed(t) = G[n + 1]
  BY <1>1, <1>2, ReplayedIs
<1>5. F[n] = G[n]
  BY <1>1, <1>2, <1>3, <1>4, ReplaysAgree
<1>6. G[n + 1] = ReplayedEvent(G[n], t[n + 1])
  BY <1>1, <1>4 DEF ReplayOf
<1> QED BY <1>2, <1>3, <1>4, <1>5, <1>6 DEF t

\* The replay of one event.
LEMMA ReplayedOne ==
  ASSUME NEW e
  PROVE  Replayed(<<e>>) = ReplayedEvent(NewEngine(0, 0), e)
<1>1. Len(<<e>>) = 1 /\ <<e>>[1] = e
  OBVIOUS
<1>2. PICK F : ReplayOf(F, <<e>>, 1) /\ Replayed(<<e>>) = F[1]
  BY <1>1, ReplayedIs
<1>3. F[0] = NewEngine(0, 0) /\ F[1] = ReplayedEvent(F[0], <<e>>[1])
  BY <1>2 DEF ReplayOf
<1> QED BY <1>1, <1>2, <1>3

\* What the engine's operations leave an engine, and its tier.
SameTierEngine(e, f) == IsEngine(f) /\ f.tier = e.tier

LEMMA EngineSteps ==
  ASSUME NEW e, IsEngine(e), NEW now
  PROVE  /\ \A tier \in SourceTiers : IsEngine(WithTier(e, tier)) /\ WithTier(e, tier).tier = tier
         /\ WithTier(e, e.tier) = e
         /\ \A response : SameTierEngine(e, WithResponse(e, response, now))
         /\ SameTierEngine(e, Decided(e, now))
<1>1. ASSUME NEW tier \in SourceTiers
      PROVE  IsEngine(WithTier(e, tier)) /\ WithTier(e, tier).tier = tier
  BY DEF IsEngine, WithTier
<1>2. WithTier(e, e.tier) = e
  BY DEF IsEngine, WithTier
<1>3. ASSUME NEW response PROVE SameTierEngine(e, WithResponse(e, response, now))
  BY DEF IsEngine, WithResponse, SameTierEngine
<1>4. ASSUME NEW vote, NEW version, NEW made
      PROVE  SameTierEngine(e, [tier |-> e.tier, snapshot |-> e.snapshot, version |-> version,
                                vote |-> vote, records |-> made])
  BY DEF IsEngine, SameTierEngine
<1>5. SameTierEngine(e, Decided(e, now))
  BY <1>4 DEF Decided
<1> QED BY <1>1, <1>2, <1>3, <1>5

\* A read that is made, and one that is answered.
ReadOf(r, tier) == r \in Reads /\ r.tier = tier

\* The journal of an undisturbed run gives the engine as it is.
JournalIsTrue ==
  journalPhase \in {"Running", "Ended"} /\ ~restored /\ ~overtaken =>
    /\ Replayed(journal) = engine
    /\ reading # NoReading => reading.tier = engine.tier

\* The inductive invariant.
JournalInv ==
  /\ journalClock \in Nat /\ reading \in Reads
  /\ journal \in Seq(JournalEvents) /\ IsEngine(engine)
  /\ synced \in Nat
  /\ JournalIsTrue

LEMMA JournalStarts ==
  ASSUME JournalInit
  PROVE  JournalInv
<1>1. PICK tier \in SourceTiers :
        /\ engine = WithTier(IF restored THEN NewEngine(1, CHOOSE v \in SourceVotes : TRUE) ELSE NewEngine(0, 0), tier)
        /\ journal = <<TierSet(tier, 0)>>
  BY DEF JournalInit
<1>2. \A version, vote : IsEngine(NewEngine(version, vote))
  BY DEF IsEngine, NewEngine, SourceTiers
<1>3. IsEngine(engine)
  BY <1>1, <1>2, EngineSteps
<1>4. NoReading \in Reads
  BY DEF NoReading, Reads, SourceTiers
<1>5. TierSet(tier, 0) \in JournalEvents
  BY <1>4 DEF TierSet, JournalEvents
<1>6. ASSUME ~restored PROVE Replayed(journal) = engine
  <2>1. TierSet(tier, 0).kind = "TierSet" /\ TierSet(tier, 0).tier = tier
    BY DEF TierSet
  <2>2. ReplayedEvent(NewEngine(0, 0), TierSet(tier, 0)) = WithTier(NewEngine(0, 0), tier)
    BY <2>1 DEF ReplayedEvent
  <2> QED BY <1>1, <1>6, <2>2, ReplayedOne
<1> QED BY <1>1, <1>3, <1>4, <1>5, <1>6 DEF JournalInit, JournalInv, JournalIsTrue

LEMMA JournalKeeps ==
  ASSUME JournalInv, [JournalNext]_journalVars
  PROVE  JournalInv'
<1> USE DEF JournalInv, KeepsFiles
<1>1. CASE SetTier
  <2>1. PICK tier \in SourceTiers :
          /\ Running /\ engine' = WithTier(engine, tier)
          /\ journal' = Append(journal, TierSet(tier, journalClock))
          /\ overtaken' = (overtaken \/ reading # NoReading)
    BY <1>1 DEF SetTier, WithTheTier
  <2> DEFINE event == TierSet(tier, journalClock)
  <2>2. event \in JournalEvents /\ event.kind = "TierSet" /\ event.tier = tier
    BY DEF TierSet, JournalEvents, NoReading, Reads, SourceTiers
  <2> HIDE DEF event
  <2>3. ReplayedEvent(Replayed(journal), event) = WithTier(Replayed(journal), tier)
    BY <2>2 DEF ReplayedEvent
  <2>4. Replayed(journal') = WithTier(Replayed(journal), tier) /\ journal' \in Seq(JournalEvents)
    BY <2>1, <2>2, <2>3, ReplayedMore DEF event
  <2>5. IsEngine(engine')
    BY <2>1, EngineSteps
  <2>6. UNCHANGED <<restored, reading, journalClock, journalPhase, synced>>
    BY <1>1 DEF SetTier
  <2>7. JournalIsTrue'
    BY <2>1, <2>4, <2>6 DEF JournalIsTrue, Running
  <2> QED BY <2>4, <2>5, <2>6, <2>7
<1>2. CASE RequestSource
  <2>1. reading' = [NoReading EXCEPT !.tier = engine.tier, !.made = journalClock]
    BY <1>2 DEF RequestSource
  <2>2. reading' \in Reads /\ reading'.tier = engine.tier
    <3>1. engine.tier \in SourceTiers /\ journalClock \in Int /\ NoReading \in Reads
      BY DEF IsEngine, NoReading, Reads, SourceTiers
    <3>2. ASSUME NEW q \in Reads
          PROVE  ReadOf([q EXCEPT !.tier = engine.tier, !.made = journalClock], engine.tier)
      BY <3>1 DEF Reads, ReadOf
    <3> QED BY <2>1, <3>1, <3>2 DEF ReadOf
  <2>3. UNCHANGED <<engine, restored, overtaken, journal, journalClock, journalPhase, synced>>
    BY <1>2 DEF RequestSource
  <2> QED BY <2>2, <2>3 DEF JournalIsTrue
<1>3. CASE SourceAnswers
  <2>1. PICK vote \in SourceVotes : reading' = [reading EXCEPT !.at = journalClock, !.vote = vote]
    BY <1>3 DEF SourceAnswers
  <2>2. reading' \in Reads /\ reading'.tier = reading.tier
    <3>1. reading \in Reads /\ journalClock \in Int
      OBVIOUS
    <3>2. ASSUME NEW q \in Reads, NEW v \in SourceVotes
          PROVE  ReadOf([q EXCEPT !.at = journalClock, !.vote = v], q.tier)
      BY <3>1 DEF Reads, ReadOf
    <3> QED BY <2>1, <3>1, <3>2 DEF ReadOf
  <2>3. reading # NoReading
    BY <1>3 DEF SourceAnswers, NoReading
  <2>4. UNCHANGED <<engine, restored, overtaken, journal, journalClock, journalPhase, synced>>
    BY <1>3 DEF SourceAnswers
  <2> QED BY <2>2, <2>3, <2>4 DEF JournalIsTrue
<1>4. CASE TakeResponse
  <2> DEFINE event == AcceptedResponse(reading, journalClock)
  <2>1. /\ Running /\ reading.at # -1 /\ journal' = Append(journal, event)
        /\ engine' = WithResponse(engine, reading, journalClock) /\ reading' = NoReading
        /\ UNCHANGED <<restored, overtaken, journalClock, journalPhase, synced>>
    BY <1>4 DEF TakeResponse
  <2>2. /\ event \in JournalEvents /\ event.kind = "Accepted" /\ event.response = reading
        /\ event.at = journalClock
    BY DEF AcceptedResponse, JournalEvents, SourceTiers
  <2>3. ReplayedEvent(Replayed(journal), event) =
          WithResponse(WithTier(Replayed(journal), reading.tier), reading, journalClock)
    BY <2>2 DEF ReplayedEvent
  <2> HIDE DEF event
  <2>4. /\ Replayed(journal') = WithResponse(WithTier(Replayed(journal), reading.tier), reading, journalClock)
        /\ journal' \in Seq(JournalEvents)
    BY <2>1, <2>2, <2>3, ReplayedMore
  <2>5. reading # NoReading
    BY <2>1 DEF NoReading
  <2>6. IsEngine(engine') /\ NoReading \in Reads
    <3>1. NoReading \in Reads
      BY DEF NoReading, Reads, SourceTiers
    <3>2. SameTierEngine(engine, engine')
      BY <2>1, EngineSteps
    <3> QED BY <3>1, <3>2 DEF SameTierEngine
  <2>7. WithTier(engine, engine.tier) = engine
    BY EngineSteps
  <2>8. JournalIsTrue'
    BY <2>1, <2>4, <2>5, <2>7 DEF JournalIsTrue, Running
  <2> QED BY <2>1, <2>4, <2>6, <2>8
<1>5. CASE Tick
  <2> DEFINE event == DecisionTick(journalClock)
  <2>1. /\ Running /\ journal' = Append(journal, event) /\ engine' = Decided(engine, journalClock)
        /\ UNCHANGED <<restored, reading, overtaken, journalClock, journalPhase, synced>>
    BY <1>5 DEF Tick
  <2>2. event \in JournalEvents /\ event.kind = "Tick" /\ event.at = journalClock
    BY DEF DecisionTick, JournalEvents, NoReading, Reads, SourceTiers
  <2>3. ReplayedEvent(Replayed(journal), event) = Decided(Replayed(journal), journalClock)
    BY <2>2 DEF ReplayedEvent
  <2> HIDE DEF event
  <2>4. /\ Replayed(journal') = Decided(Replayed(journal), journalClock)
        /\ journal' \in Seq(JournalEvents)
    BY <2>1, <2>2, <2>3, ReplayedMore
  <2>5. IsEngine(engine') /\ engine'.tier = engine.tier
    BY <2>1, EngineSteps DEF SameTierEngine
  <2>6. JournalIsTrue'
    BY <2>1, <2>4, <2>5 DEF JournalIsTrue, Running
  <2> QED BY <2>1, <2>4, <2>5, <2>6
<1>6. CASE JournalTimePasses
  BY <1>6 DEF JournalTimePasses, JournalIsTrue
<1>7. CASE Checkpoint
  BY <1>7 DEF Checkpoint, JournalIsTrue
<1>8. CASE EndJournal
  BY <1>8 DEF EndJournal, JournalIsTrue
<1>9. CASE CrashMachine
  <2>1. PICK kept \in synced..Len(journal) : journal' = SubSeq(journal, 1, kept)
    BY <1>9 DEF CrashMachine
  <2>2. kept \in 0..Len(journal)
    BY DEF JournalInv
  <2>3. journal' \in Seq(JournalEvents)
    BY <2>1, <2>2, SubSeqProperties
  <2>4. journalPhase' = "Crashed"
    BY <1>9 DEF CrashMachine
  <2>5. UNCHANGED <<engine, reading, synced, journalClock>>
    BY <1>9 DEF CrashMachine
  <2> QED BY <2>3, <2>4, <2>5 DEF JournalIsTrue
<1>10. CASE FinalizeBundle
  <2>1. journalPhase' \in {"Accepted", "Rejected"}
    BY <1>10 DEF FinalizeBundle
  <2> QED BY <1>10, <2>1 DEF FinalizeBundle, JournalIsTrue
<1>11. CASE UNCHANGED journalVars
  BY <1>11 DEF journalVars, JournalIsTrue
<1> QED
  BY <1>1, <1>2, <1>3, <1>4, <1>5, <1>6, <1>7, <1>8, <1>9, <1>10, <1>11 DEF JournalNext

\* The journal of a run that began empty, in which no tier changed under a
\* read, reproduces the run's decisions at every moment, for any freshness of
\* the tiers and any number of events (append_replay_event, replay_density_rungs).
THEOREM RunsReplay == JournalSpec => []UndisturbedRunsReplay
<1>1. JournalInv => UndisturbedRunsReplay
  BY DEF JournalInv, JournalIsTrue, UndisturbedRunsReplay
<1> QED BY <1>1, JournalStarts, JournalKeeps, PTL DEF JournalSpec

-----------------------------------------------------------------------------
(* WindowAggregate: the records stay sound, and the summary true.          *)

\* Net results of some of the episodes.
Closings == UNION {[D -> Int] : D \in SUBSET Episodes}
BundleStates ==
  [start : Int, release : Releases, ended : BOOLEAN, finalized : BOOLEAN, report : BOOLEAN,
   elapsed : Nat, closed : Closings]
RecordStates == [bundle : BundleStates, verified : BOOLEAN, completed : BOOLEAN]

\* The results in b are those in a, and others.
Extends(a, b) == \A e \in DOMAIN a : e \in DOMAIN b /\ a[e] = b[e]

\* Windows that were read: each with what its bundle says of time and results.
ReadFrom(found, made) ==
  /\ DOMAIN found \subseteq DOMAIN made
  /\ \A w \in DOMAIN found : found[w] \in RecordStates /\ found[w].bundle.closed = made[w].closed

\* A later bundle has the results of an earlier one.
GrowsWith(made, now) ==
  /\ \A v, w \in DOMAIN made : v <= w => Extends(made[v].closed, made[w].closed)
  /\ \A w \in DOMAIN made : Extends(made[w].closed, now)

\* Any two windows of one release, at different times.
WindowsApart(found) ==
  \A v, w \in DOMAIN found :
    v # w => /\ found[v].bundle.release = found[w].bundle.release
             /\ \/ found[v].bundle.start + found[v].bundle.elapsed <= found[w].bundle.start
                \/ found[w].bundle.start + found[w].bundle.elapsed <= found[v].bundle.start

\* The windows of a finite set have a first one.
LEMMA FirstWindow ==
  ASSUME NEW found, NEW T, IsFiniteSet(T), T # {}, T \subseteq DOMAIN found, T \subseteq Nat,
         \A w \in T : found[w].bundle.start \in Int
  PROVE  \E x \in T : \A y \in T : y = x \/ StartsBefore(found, x, y)
<1> DEFINE First(s, x) == \A y \in s : y = x \/ StartsBefore(found, x, y)
           P == {s \in SUBSET T : s = {} \/ \E x \in s : First(s, x)}
<1>1. {} \in P
  OBVIOUS
<1>2. ASSUME NEW s \in SUBSET T, NEW w \in T \ s, s \in P PROVE s \cup {w} \in P
  <2>1. CASE s = {}
    BY <2>1
  <2>2. CASE s # {}
    <3>1. PICK x \in s : First(s, x)
      BY <1>2, <2>2
    <3>2. CASE StartsBefore(found, x, w)
      <4>1. First(s \cup {w}, x)
        BY <3>1, <3>2
      <4> QED BY <4>1
    <3>3. CASE ~StartsBefore(found, x, w)
      <4>1. StartsBefore(found, w, x)
        BY <3>3 DEF StartsBefore
      <4>2. \A y \in s : StartsBefore(found, x, y) => StartsBefore(found, w, y)
        BY <4>1 DEF StartsBefore
      <4>3. First(s \cup {w}, w)
        BY <3>1, <4>1, <4>2
      <4> QED BY <4>3
    <3> QED BY <3>2, <3>3
  <2> QED BY <2>1, <2>2
<1> HIDE DEF P
<1>3. SUBSET T \subseteq P
  BY <1>1, <1>2, SubsetInduction
<1> QED BY <1>3 DEF P

\* It is enough to compare neighbours (summarize).
LEMMA NeighboursSuffice ==
  ASSUME NEW found, IsFiniteSet(DOMAIN found), DOMAIN found \subseteq Nat,
         \A w \in DOMAIN found : found[w] \in RecordStates, Summarizable(found)
  PROVE  WindowsApart(found)
<1> DEFINE StartOf(w) == found[w].bundle.start
           EndOf(w) == found[w].bundle.start + found[w].bundle.elapsed
<1>1. \A w \in DOMAIN found : /\ StartOf(w) \in Int /\ EndOf(w) \in Int /\ StartOf(w) <= EndOf(w)
  BY DEF RecordStates, BundleStates
<1>2. ASSUME NEW v \in DOMAIN found, NEW w \in DOMAIN found, StartsBefore(found, v, w)
      PROVE  EndOf(v) <= StartOf(w)
  <2> DEFINE T == {u \in DOMAIN found : StartsBefore(found, v, u)}
  <2>1. IsFiniteSet(T) /\ T # {} /\ T \subseteq DOMAIN found /\ T \subseteq Nat
    BY <1>2, FS_Subset
  <2>2. PICK x \in T : \A y \in T : y = x \/ StartsBefore(found, x, y)
    <3>1. \A u \in T : found[u].bundle.start \in Int
      BY <1>1
    <3> HIDE DEF T
    <3> QED BY <2>1, <3>1, FirstWindow
  <2>3. ASSUME NEW u \in DOMAIN found, StartsBefore(found, v, u), StartsBefore(found, u, x) PROVE FALSE
    <3>1. u = x \/ StartsBefore(found, x, u)
      BY <2>2, <2>3
    <3> QED BY <1>1, <2>1, <2>3, <3>1 DEF StartsBefore
  <2>4. Neighbours(found, v, x)
    BY <2>2, <2>3 DEF Neighbours
  <2>5. EndOf(v) <= StartOf(x)
    BY <2>2, <2>4 DEF Summarizable
  <2>6. StartOf(x) <= StartOf(w)
    <3>1. w = x \/ StartsBefore(found, x, w)
      BY <1>2, <2>2
    <3> QED BY <1>1, <3>1 DEF StartsBefore
  <2> QED BY <1>1, <2>2, <2>5, <2>6
<1>3. ASSUME NEW v \in DOMAIN found, NEW w \in DOMAIN found, v # w
      PROVE  StartsBefore(found, v, w) \/ StartsBefore(found, w, v)
  BY <1>1, <1>3 DEF StartsBefore
<1> QED BY <1>2, <1>3 DEF WindowsApart, Summarizable

\* An episode has one result.
LEMMA OneResultEach ==
  ASSUME NEW found, Summarizable(found), NEW v \in VerifiedWindows(found), NEW w \in VerifiedWindows(found),
         NEW e, e \in DOMAIN found[v].bundle.closed, e \in DOMAIN found[w].bundle.closed
  PROVE  found[v].bundle.closed[e] = found[w].bundle.closed[e]
<1> DEFINE p == <<e, found[v].bundle.closed[e]>>
           q == <<e, found[w].bundle.closed[e]>>
<1>1. p \in ClosedOf(found) /\ q \in ClosedOf(found)
  BY DEF ClosedOf
<1>2. p[1] = q[1] => p = q
  BY <1>1 DEF Summarizable
<1> QED BY <1>2

-----------------------------------------------------------------------------
\* The pairs of c, for some of its episodes.
PairsOf(c, s) == {<<e, c[e]>> : e \in s}

\* There are as many pairs as episodes, and their results add up alike.
LEMMA PairsCount ==
  ASSUME NEW c \in Closings, NEW h, \A p \in PairsOf(c, DOMAIN c) : h[p] = p[2]
  PROVE  /\ Cardinality(PairsOf(c, DOMAIN c)) = Cardinality(DOMAIN c)
         /\ SumFunctionOnSet(h, PairsOf(c, DOMAIN c)) = SumFunctionOnSet(c, DOMAIN c)
<1> DEFINE D == DOMAIN c
           OneEach(s) == /\ IsFiniteSet(PairsOf(c, s)) /\ Cardinality(PairsOf(c, s)) = Cardinality(s)
                       /\ SumFunctionOnSet(h, PairsOf(c, s)) = SumFunctionOnSet(c, s)
           P == {s \in SUBSET D : OneEach(s)}
<1>1. IsFiniteSet(D) /\ \A e \in D : c[e] \in Int
  BY AggregateAssumption, FS_Subset DEF Closings
<1>2. Addable(c, D)
  BY <1>1 DEF Addable
<1>3. {} \in P
  <2>1. PairsOf(c, {}) = {}
    BY DEF PairsOf
  <2> QED BY <2>1, FS_EmptySet, SumEmpty
<1>4. ASSUME NEW s \in SUBSET D, NEW e \in D \ s, s \in P PROVE s \cup {e} \in P
  <2> DEFINE t == PairsOf(c, s)
             p == <<e, c[e]>>
  <2>1. PairsOf(c, s \cup {e}) = t \cup {p} /\ p \notin t /\ t \cup {p} \subseteq PairsOf(c, D)
    BY DEF PairsOf
  <2>2. h[p] = c[e] /\ \A q \in t \cup {p} : h[q] \in Int
    <3>1. ASSUME NEW q \in PairsOf(c, D) PROVE h[q] \in Int
      BY <1>1, <3>1 DEF PairsOf
    <3>2. p \in PairsOf(c, D) /\ p[2] = c[e]
      BY <2>1
    <3> QED BY <2>1, <3>1, <3>2
  <2>3. IsFiniteSet(t) /\ Cardinality(t) = Cardinality(s) /\ SumFunctionOnSet(h, t) = SumFunctionOnSet(c, s)
    BY <1>4
  <2> HIDE DEF t, p
  <2>4. IsFiniteSet(t \cup {p}) /\ Cardinality(t \cup {p}) = Cardinality(t) + 1
    BY <2>1, <2>3, FS_AddElement
  <2>5. Cardinality(s \cup {e}) = Cardinality(s) + 1
    BY <1>1, FS_Subset, FS_AddElement
  <2>6. Addable(h, t \cup {p}) /\ t \in SUBSET (t \cup {p}) /\ p \in (t \cup {p}) \ t
    BY <2>1, <2>2, <2>4 DEF Addable
  <2>7. SumFunctionOnSet(h, t \cup {p}) = h[p] + SumFunctionOnSet(h, t)
    BY <2>6, SumMore DEF SumGrows
  <2>8. SumFunctionOnSet(c, s \cup {e}) = c[e] + SumFunctionOnSet(c, s)
    BY <1>2, SumMore DEF SumGrows
  <2> QED BY <2>1, <2>2, <2>3, <2>4, <2>5, <2>7, <2>8
<1> HIDE DEF P
<1>5. SUBSET D \subseteq P
  BY <1>1, <1>3, <1>4, SubsetInduction
<1>6. D \in P
  BY <1>5
<1> QED BY <1>6 DEF P

\* The last of some windows.
LastOf(windows) == CHOOSE w \in windows : \A v \in windows : v <= w

LEMMA LastExists ==
  ASSUME NEW n \in Nat, NEW windows \in SUBSET (1..n), windows # {}
  PROVE  LastOf(windows) \in windows /\ \A v \in windows : v <= LastOf(windows)
<1> DEFINE T == {m \in Nat : \A v \in windows : v <= m}
<1>1. n \in T /\ T \subseteq Nat
  OBVIOUS
<1> HIDE DEF T
<1>2. PICK m \in T : \A k \in T : m <= k
  BY <1>1, LeastExists
<1>3. m \in windows
  <2>1. SUFFICES ASSUME m \notin windows PROVE FALSE
    OBVIOUS
  <2>2. \A v \in windows : v <= m - 1 /\ v \in Nat /\ v >= 1
    BY <1>2, <2>1 DEF T
  <2>3. m - 1 \in T
    <3>1. PICK v \in windows : v >= 1 /\ v \in Nat
      BY <2>2
    <3>2. m \in Nat /\ v <= m
      BY <3>1 DEF T
    <3>3. m - 1 \in Nat
      BY <3>1, <3>2
    <3> QED BY <2>2, <3>3 DEF T
  <2> QED BY <1>1, <1>2, <2>3
<1>4. \E w \in windows : \A v \in windows : v <= w
  BY <1>2, <1>3 DEF T
<1> QED BY <1>4 DEF LastOf

\* The results that the last of some windows has.
ResultsAt(made, windows) == IF windows = {} THEN <<>> ELSE made[LastOf(windows)].closed

\* A summary that says what the last of its verified windows knew.
SummaryTrue(s, found, made, now) ==
  s.windows # {} =>
    LET closed == ResultsAt(made, {w \in s.windows : found[w].verified})
    IN  /\ s.windows \subseteq DOMAIN found
        /\ \A e \in DOMAIN closed : closed[e] = now[e]
        /\ s.episodes = Cardinality(DOMAIN closed)
        /\ s.net = SumFunction(closed)

\* A summary of windows that were read is true (summarize).
LEMMA SummarizedIsTrue ==
  ASSUME NEW n \in Nat, NEW made, DOMAIN made = 1..n, NEW found, ReadFrom(found, made),
         NEW now, GrowsWith(made, now)
  PROVE  SummaryTrue(Summarized(found), found, made, now)
<1> DEFINE V == VerifiedWindows(found)
           closed == ResultsAt(made, V)
           h == [episode \in ClosedOf(found) |-> episode[2]]
<1>1. Summarized(found).windows = DOMAIN found
  BY DEF Summarized
<1>2. /\ Summarized(found).episodes = Cardinality(ClosedOf(found))
      /\ Summarized(found).net = NetOf(found)
  BY DEF Summarized
<1>3. NetOf(found) = SumFunctionOnSet(h, ClosedOf(found))
  BY DEF NetOf, SumFunction
<1>4. V \in SUBSET (1..n) /\ \A w \in V : w \in DOMAIN found
  BY DEF VerifiedWindows, ReadFrom
<1>5. closed \in Closings /\ ClosedOf(found) = PairsOf(closed, DOMAIN closed)
  <2>1. CASE V = {}
    <3>1. closed = <<>> /\ DOMAIN closed = {}
      BY <2>1 DEF ResultsAt
    <3>2. closed \in [{} -> Int]
      BY <3>1
    <3>3. ClosedOf(found) = {} /\ PairsOf(closed, DOMAIN closed) = {}
      BY <2>1, <3>1 DEF ClosedOf, PairsOf
    <3>4. {} \in SUBSET Episodes
      OBVIOUS
    <3> HIDE DEF closed
    <3> QED BY <3>2, <3>3, <3>4 DEF Closings
  <2>2. CASE V # {}
    <3> DEFINE last == LastOf(V)
    <3>1. last \in V /\ \A v \in V : v <= last
      BY <1>4, <2>2, LastExists
    <3> HIDE DEF V, last
    <3>2. closed = made[last].closed
      BY <2>2 DEF ResultsAt, last
    <3>3. \A w \in V : found[w].bundle.closed = made[w].closed /\ w \in DOMAIN made
      BY <1>4 DEF ReadFrom
    <3>4. closed \in Closings
      <4>1. found[last].bundle.closed \in Closings
        BY <1>4, <3>1 DEF ReadFrom, RecordStates, BundleStates
      <4> QED BY <3>1, <3>2, <3>3, <4>1
    <3>5. \A w \in V : Extends(found[w].bundle.closed, closed)
      BY <3>1, <3>2, <3>3 DEF GrowsWith
    <3>6. ASSUME NEW p \in ClosedOf(found) PROVE p \in PairsOf(closed, DOMAIN closed)
      <4>1. PICK w \in V : \E e \in DOMAIN found[w].bundle.closed : p = <<e, found[w].bundle.closed[e]>>
        BY <3>6 DEF ClosedOf, V
      <4>2. PICK e \in DOMAIN found[w].bundle.closed : p = <<e, found[w].bundle.closed[e]>>
        BY <4>1
      <4>3. e \in DOMAIN closed /\ p = <<e, closed[e]>>
        BY <3>5, <4>2 DEF Extends
      <4> QED BY <4>3 DEF PairsOf
    <3>7. ASSUME NEW p \in PairsOf(closed, DOMAIN closed) PROVE p \in ClosedOf(found)
      <4>1. PICK e \in DOMAIN closed : p = <<e, closed[e]>>
        BY <3>7 DEF PairsOf
      <4>2. closed = found[last].bundle.closed
        BY <3>1, <3>2, <3>3
      <4> HIDE DEF closed
      <4> QED BY <3>1, <4>1, <4>2 DEF ClosedOf, V
    <3> HIDE DEF closed
    <3> QED BY <3>4, <3>6, <3>7
  <2> QED BY <2>1, <2>2
<1>6. /\ Cardinality(ClosedOf(found)) = Cardinality(DOMAIN closed)
      /\ SumFunctionOnSet(h, ClosedOf(found)) = SumFunctionOnSet(closed, DOMAIN closed)
  <2>1. \A p \in PairsOf(closed, DOMAIN closed) : h[p] = p[2]
    BY <1>5
  <2> HIDE DEF h, closed
  <2> QED BY <1>5, <2>1, PairsCount
<1>7. \A e \in DOMAIN closed : closed[e] = now[e]
  <2>1. CASE V = {}
    BY <2>1 DEF ResultsAt
  <2>2. CASE V # {}
    <3>1. LastOf(V) \in DOMAIN made
      BY <1>4, <2>2, LastExists
    <3>2. closed = made[LastOf(V)].closed
      BY <2>2 DEF ResultsAt
    <3> HIDE DEF closed
    <3> QED BY <3>1, <3>2 DEF GrowsWith, Extends
  <2> QED BY <2>1, <2>2
<1>8. V = {w \in DOMAIN found : found[w].verified}
  BY DEF VerifiedWindows
<1>9. SumFunction(closed) = SumFunctionOnSet(closed, DOMAIN closed)
  BY DEF SumFunction
<1> HIDE DEF h, closed
<1> QED BY <1>1, <1>2, <1>3, <1>6, <1>7, <1>8, <1>9 DEF SummaryTrue, closed

\* It stays true while windows are added and episodes are settled.
LEMMA SummaryStaysTrue ==
  ASSUME NEW s, NEW found, NEW found2, NEW made, NEW made2, NEW now, NEW now2, NEW n \in Nat,
         DOMAIN made = 1..n, DOMAIN found \subseteq DOMAIN made,
         \A w \in DOMAIN found : w \in DOMAIN found2 /\ found2[w].verified = found[w].verified,
         \A w \in DOMAIN made : made2[w].closed = made[w].closed,
         GrowsWith(made, now), Extends(now, now2), SummaryTrue(s, found, made, now)
  PROVE  SummaryTrue(s, found2, made2, now2)
<1> SUFFICES ASSUME s.windows # {} PROVE SummaryTrue(s, found2, made2, now2)
  BY DEF SummaryTrue
<1> DEFINE V == {w \in s.windows : found[w].verified}
           closed == ResultsAt(made, V)
<1>1. /\ s.windows \subseteq DOMAIN found /\ \A e \in DOMAIN closed : closed[e] = now[e]
      /\ s.episodes = Cardinality(DOMAIN closed) /\ s.net = SumFunction(closed)
  BY Zenon DEF SummaryTrue
<1>2. V = {w \in s.windows : found2[w].verified} /\ s.windows \subseteq DOMAIN found2
  BY <1>1
<1>3. V # {} => LastOf(V) \in V
  <2>1. V \in SUBSET (1..n)
    BY <1>1
  <2> HIDE DEF V
  <2> QED BY <2>1, LastExists
<1>4. ResultsAt(made2, V) = closed
  <2>1. CASE V = {}
    BY <2>1 DEF ResultsAt
  <2>2. CASE V # {}
    <3>1. LastOf(V) \in DOMAIN made
      BY <1>1, <1>3, <2>2
    <3> HIDE DEF V
    <3> QED BY <2>2, <3>1 DEF ResultsAt
  <2> QED BY <2>1, <2>2
<1>5. \A e \in DOMAIN closed : e \in DOMAIN now
  <2>1. CASE V = {}
    BY <2>1 DEF ResultsAt
  <2>2. CASE V # {}
    <3>1. LastOf(V) \in DOMAIN made /\ closed = made[LastOf(V)].closed
      BY <1>1, <1>3, <2>2 DEF ResultsAt
    <3> HIDE DEF closed
    <3> QED BY <3>1 DEF GrowsWith, Extends
  <2> QED BY <2>1, <2>2
<1>6. \A e \in DOMAIN closed : closed[e] = now2[e]
  BY <1>1, <1>5 DEF Extends
<1> HIDE DEF closed, V
<1> QED BY <1>1, <1>2, <1>4, <1>6 DEF SummaryTrue, V

-----------------------------------------------------------------------------
\* The inductive invariant.
AggregateTypes ==
  /\ hostClock \in Int /\ settled \in Closings /\ bundles \in Seq(BundleStates)
  /\ GrowsWith(bundles, settled) /\ ReadFrom(records, bundles)

AggregateInv ==
  /\ AggregateTypes /\ RecordsStaySound
  /\ SummaryTrue(summary, records, bundles, settled)

\* The two conditions of the property, for records that can be summarized.
LEMMA SoundRecords ==
  ASSUME NEW n \in Nat, NEW made, DOMAIN made = 1..n, ReadFrom(records, made), Summarizable(records)
  PROVE  RecordsStaySound
<1>1. IsFiniteSet(DOMAIN records) /\ DOMAIN records \subseteq Nat
  BY FS_Interval, FS_Subset DEF ReadFrom
<1>2. WindowsApart(records)
  BY <1>1, NeighboursSuffice DEF ReadFrom
<1>3. \A e \in Episodes : \A v, w \in VerifiedWindows(records) :
        e \in DOMAIN records[v].bundle.closed \intersect DOMAIN records[w].bundle.closed
          => records[v].bundle.closed[e] = records[w].bundle.closed[e]
  BY OneResultEach
<1> QED BY <1>2, <1>3 DEF RecordsStaySound, WindowsApart

\* The same, of records still to be written.
LEMMA SoundCandidate ==
  ASSUME NEW n \in Nat, NEW made, DOMAIN made = 1..n, ReadFrom(records', made), Summarizable(records')
  PROVE  RecordsStaySound'
<1>1. IsFiniteSet(DOMAIN records') /\ DOMAIN records' \subseteq Nat
  BY FS_Interval, FS_Subset DEF ReadFrom
<1>2. WindowsApart(records')
  BY <1>1, NeighboursSuffice DEF ReadFrom
<1>3. \A e \in Episodes : \A v, w \in VerifiedWindows(records') :
        e \in DOMAIN records'[v].bundle.closed \intersect DOMAIN records'[w].bundle.closed
          => records'[v].bundle.closed[e] = records'[w].bundle.closed[e]
  BY OneResultEach
<1> QED BY <1>2, <1>3 DEF RecordsStaySound, WindowsApart, VerifiedWindows

LEMMA AggregateStarts ==
  ASSUME AggregateInit
  PROVE  AggregateInv
<1>1. settled = <<>> /\ bundles = <<>> /\ records = <<>> /\ summary = NoSummary /\ hostClock = 1
  BY DEF AggregateInit
<1>2. settled \in Closings
  <2>1. <<>> \in [{} -> Int] /\ {} \in SUBSET Episodes
    OBVIOUS
  <2> QED BY <1>1, <2>1 DEF Closings
<1>3. bundles \in Seq(BundleStates) /\ DOMAIN bundles = {} /\ DOMAIN records = {}
  BY <1>1
<1>4. AggregateTypes
  BY <1>1, <1>2, <1>3 DEF AggregateTypes, GrowsWith, ReadFrom
<1>5. RecordsStaySound
  BY <1>3 DEF RecordsStaySound, VerifiedWindows
<1>6. SummaryTrue(summary, records, bundles, settled)
  BY <1>1 DEF SummaryTrue, NoSummary
<1> QED BY <1>4, <1>5, <1>6 DEF AggregateInv

\* A bundle whose flags change keeps what the aggregate reads of it.
LEMMA FlagsKeep ==
  ASSUME NEW made \in Seq(BundleStates), NEW made2 \in Seq(BundleStates), NEW now, NEW found,
         DOMAIN made2 = DOMAIN made, \A w \in DOMAIN made : made2[w].closed = made[w].closed,
         GrowsWith(made, now), ReadFrom(found, made)
  PROVE  GrowsWith(made2, now) /\ ReadFrom(found, made2)
<1>1. GrowsWith(made2, now)
  BY DEF GrowsWith
<1>2. ReadFrom(found, made2)
  BY DEF ReadFrom
<1> QED BY <1>1, <1>2

LEMMA Reflexive ==
  ASSUME NEW a
  PROVE  Extends(a, a)
BY DEF Extends

LEMMA WindowKeeps ==
  ASSUME AggregateInv, WindowRuns
  PROVE  AggregateInv'
<1> USE DEF AggregateInv, AggregateTypes
<1>1. PICK elapsed \in 1..WindowBuckets, release \in Releases, ended \in BOOLEAN,
          closing \in SUBSET (Episodes \ DOMAIN settled) :
     \E results \in [closing -> Results] :
       /\ settled' = [e \in DOMAIN settled \union closing |-> IF e \in closing THEN results[e] ELSE settled[e]]
       /\ bundles' = Append(bundles,
            [start |-> hostClock, release |-> release, ended |-> ended, finalized |-> FALSE, report |-> FALSE,
             elapsed |-> IF ended THEN elapsed ELSE 0,
             closed |-> IF ended THEN settled' ELSE settled])
       /\ hostClock' = hostClock + elapsed
  BY DEF WindowRuns
<1>2. PICK results \in [closing -> Results] :
       /\ settled' = [e \in DOMAIN settled \union closing |-> IF e \in closing THEN results[e] ELSE settled[e]]
       /\ bundles' = Append(bundles,
            [start |-> hostClock, release |-> release, ended |-> ended, finalized |-> FALSE, report |-> FALSE,
             elapsed |-> IF ended THEN elapsed ELSE 0,
             closed |-> IF ended THEN settled' ELSE settled])
       /\ hostClock' = hostClock + elapsed
  BY <1>1
<1>3. UNCHANGED <<records, summary>>
  BY DEF WindowRuns
<1>4. settled' \in Closings /\ Extends(settled, settled')
  <2>1. PICK D \in SUBSET Episodes : settled \in [D -> Int]
    BY DEF Closings
  <2>2. DOMAIN settled = D /\ D \union closing \in SUBSET Episodes
    BY <2>1
  <2>3. settled' \in [D \union closing -> Int]
    BY <1>2, <2>1, <2>2, AggregateAssumption
  <2>4. Extends(settled, settled')
    BY <1>2, <2>2 DEF Extends
  <2> QED BY <2>2, <2>3, <2>4 DEF Closings
<1> DEFINE bundle ==
             [start |-> hostClock, release |-> release, ended |-> ended, finalized |-> FALSE, report |-> FALSE,
              elapsed |-> IF ended THEN elapsed ELSE 0, closed |-> IF ended THEN settled' ELSE settled]
           n == Len(bundles)
<1>5. bundle \in BundleStates
  BY <1>4, AggregateAssumption DEF BundleStates
<1>6. Extends(settled, bundle.closed) /\ Extends(bundle.closed, settled')
  BY <1>4, Reflexive
<1>7. bundles' = Append(bundles, bundle)
  BY <1>2
<1> HIDE DEF bundle
<1>8. /\ bundles' \in Seq(BundleStates) /\ n \in Nat /\ DOMAIN bundles = 1..n /\ DOMAIN bundles' = 1..(n + 1)
      /\ bundles'[n + 1] = bundle /\ \A w \in 1..n : bundles'[w] = bundles[w]
  BY <1>5, <1>7, AppendProperties
<1>9. GrowsWith(bundles', settled')
  <2>1. \A w \in 1..n : Extends(bundles[w].closed, settled)
    BY <1>8 DEF GrowsWith
  <2>2. \A w \in 1..(n + 1) : Extends(bundles'[w].closed, settled')
    <3>1. ASSUME NEW w \in 1..(n + 1) PROVE Extends(bundles'[w].closed, settled')
      <4>1. CASE w = n + 1
        BY <1>6, <1>8, <4>1
      <4>2. CASE w \in 1..n
        BY <1>4, <1>8, <2>1, <4>2 DEF Extends
      <4> QED BY <1>8, <4>1, <4>2
    <3> QED BY <3>1
  <2>3. ASSUME NEW v \in 1..(n + 1), NEW w \in 1..(n + 1), v <= w
        PROVE  Extends(bundles'[v].closed, bundles'[w].closed)
    <3>1. CASE w \in 1..n
      <4>1. v \in 1..n
        BY <1>8, <2>3, <3>1
      <4> QED BY <1>8, <2>3, <3>1, <4>1 DEF GrowsWith
    <3>2. CASE v \in 1..n /\ w = n + 1
      BY <1>6, <1>8, <2>1, <3>2 DEF Extends
    <3>3. CASE v = n + 1 /\ w = n + 1
      BY <3>3, Reflexive
    <3> QED BY <1>8, <2>3, <3>1, <3>2, <3>3
  <2> QED BY <1>8, <2>2, <2>3 DEF GrowsWith
<1>10. ReadFrom(records, bundles')
  BY <1>8 DEF ReadFrom
<1>11. RecordsStaySound'
  BY <1>3 DEF RecordsStaySound, VerifiedWindows
<1>12. SummaryTrue(summary, records, bundles', settled')
  <2>1. DOMAIN records \subseteq DOMAIN bundles
    BY DEF ReadFrom
  <2>2. \A w \in DOMAIN bundles : bundles'[w].closed = bundles[w].closed
    BY <1>8
  <2> QED BY <1>4, <1>8, <2>1, <2>2, SummaryStaysTrue
<1>13. hostClock' \in Int
  BY <1>2, AggregateAssumption
<1>14. AggregateTypes'
  BY <1>3, <1>4, <1>8, <1>9, <1>10, <1>13
<1>15. SummaryTrue(summary', records', bundles', settled')
  BY <1>3, <1>12
<1> QED BY <1>11, <1>14, <1>15

\* A flag of a bundle is set.
LEMMA FlagKeeps ==
  ASSUME AggregateInv, NEW made \in Seq(BundleStates), DOMAIN made = DOMAIN bundles,
         \A w \in DOMAIN bundles : made[w].closed = bundles[w].closed,
         bundles' = made, UNCHANGED <<hostClock, settled, records, summary>>
  PROVE  AggregateInv'
<1> USE DEF AggregateInv, AggregateTypes
<1>1. GrowsWith(made, settled) /\ ReadFrom(records, made)
  BY FlagsKeep
<1>2. Len(bundles) \in Nat /\ DOMAIN bundles = 1..Len(bundles) /\ DOMAIN records \subseteq DOMAIN bundles
  BY DEF ReadFrom
<1>3. SummaryTrue(summary, records, made, settled)
  BY <1>2, Reflexive, SummaryStaysTrue
<1>4. RecordsStaySound'
  BY DEF RecordsStaySound, VerifiedWindows
<1>5. AggregateTypes'
  BY <1>1
<1>6. SummaryTrue(summary', records', bundles', settled')
  BY <1>3
<1> QED BY <1>4, <1>5, <1>6

\* A bundle with a flag set, and in its place.
IsFlagged(b, r) == b \in BundleStates /\ b.closed = r.closed

LEMMA FlagPlaced ==
  ASSUME NEW made \in Seq(BundleStates), NEW w \in DOMAIN made, NEW b \in BundleStates,
         b.closed = made[w].closed
  PROVE  /\ [made EXCEPT ![w] = b] \in Seq(BundleStates)
         /\ DOMAIN [made EXCEPT ![w] = b] = DOMAIN made
         /\ \A v \in DOMAIN made : [made EXCEPT ![w] = b][v].closed = made[v].closed
<1>1. \A v \in DOMAIN made : [made EXCEPT ![w] = b][v] = IF v = w THEN b ELSE made[v]
  OBVIOUS
<1> QED BY <1>1

\* A record that is new.
LEMMA NewRecordKeeps ==
  ASSUME AggregateInv, NEW w \in Windows, AggregateNew(w)
  PROVE  AggregateInv'
<1> USE DEF AggregateInv, AggregateTypes
<1> DEFINE candidate == [v \in DOMAIN records \union {w} |-> IF v = w THEN RecordOf(w) ELSE records[v]]
           n == Len(bundles)
<1>1. /\ w \notin DOMAIN records /\ records' = IF Summarizable(candidate) THEN candidate ELSE records
      /\ UNCHANGED <<hostClock, settled, bundles, summary>>
  BY DEF AggregateNew, RecordsWritten
<1>2. n \in Nat /\ DOMAIN bundles = 1..n /\ w \in 1..n /\ bundles[w] \in BundleStates
  BY DEF Windows
<1>3. RecordOf(w) \in RecordStates /\ RecordOf(w).bundle.closed = bundles[w].closed
  BY <1>2, AggregateAssumption DEF RecordOf, RecordStates, BundleStates
<1>4. ReadFrom(candidate, bundles)
  BY <1>2, <1>3 DEF ReadFrom
<1>5. \A v \in DOMAIN records : v \in DOMAIN candidate /\ candidate[v] = records[v]
  BY <1>1
<1> HIDE DEF candidate
<1>6. CASE ~Summarizable(candidate)
  <2>1. UNCHANGED <<hostClock, settled, bundles, records, summary>>
    BY <1>1, <1>6
  <2>2. RecordsStaySound'
    BY <2>1 DEF RecordsStaySound, VerifiedWindows
  <2> QED BY <2>1, <2>2
<1>7. CASE Summarizable(candidate)
  <2>1. records' = candidate
    BY <1>1, <1>7
  <2>2. RecordsStaySound'
    <3>1. ReadFrom(records', bundles) /\ Summarizable(records')
      BY <1>4, <1>7, <2>1
    <3> QED BY <1>2, <3>1, SoundCandidate
  <2>3. SummaryTrue(summary, candidate, bundles, settled)
    <3>1. DOMAIN records \subseteq DOMAIN bundles
      BY DEF ReadFrom
    <3> QED BY <1>2, <1>5, <3>1, Reflexive, SummaryStaysTrue
  <2> QED BY <1>1, <1>4, <2>1, <2>2, <2>3
<1> QED BY <1>6, <1>7

LEMMA AggregateKeeps ==
  ASSUME AggregateInv, [AggregateNext]_aggregateVars
  PROVE  AggregateInv'
<1>1. CASE WindowRuns
  BY <1>1, WindowKeeps
<1>2. CASE ClockSetBack
  <2>1. hostClock' \in Int
    BY <1>2 DEF ClockSetBack, AggregateInv, AggregateTypes
  <2>2. UNCHANGED <<settled, bundles, records, summary>>
    BY <1>2 DEF ClockSetBack
  <2>3. RecordsStaySound'
    BY <2>2 DEF AggregateInv, RecordsStaySound, VerifiedWindows
  <2> QED BY <2>1, <2>2, <2>3 DEF AggregateInv, AggregateTypes
<1>3. ASSUME NEW w \in Windows, FinalizeTerminal(w) PROVE AggregateInv'
  <2> DEFINE b == [bundles[w] EXCEPT !.finalized = TRUE]
             made == [bundles EXCEPT ![w] = b]
  <2>1. bundles \in Seq(BundleStates) /\ w \in DOMAIN bundles
    BY DEF Windows, AggregateInv, AggregateTypes
  <2>2. /\ made \in Seq(BundleStates) /\ DOMAIN made = DOMAIN bundles
        /\ \A v \in DOMAIN bundles : made[v].closed = bundles[v].closed
    <3>1. b \in BundleStates /\ b.closed = bundles[w].closed
      <4>1. ASSUME NEW r \in BundleStates PROVE IsFlagged([r EXCEPT !.finalized = TRUE], r)
        BY DEF BundleStates, IsFlagged
      <4>2. bundles[w] \in BundleStates
        BY <2>1, ElementOfSeq
      <4> QED BY <4>1, <4>2 DEF IsFlagged
    <3> HIDE DEF b
    <3> QED BY <2>1, <3>1, FlagPlaced
  <2>3. bundles' = made /\ UNCHANGED <<hostClock, settled, records, summary>>
    BY <1>3 DEF FinalizeTerminal
  <2> HIDE DEF made
  <2> QED BY <2>2, <2>3, FlagKeeps
<1>4. ASSUME NEW w \in Windows, FinalizeReport(w) PROVE AggregateInv'
  <2> DEFINE b == [bundles[w] EXCEPT !.report = TRUE]
             made == [bundles EXCEPT ![w] = b]
  <2>1. bundles \in Seq(BundleStates) /\ w \in DOMAIN bundles
    BY DEF Windows, AggregateInv, AggregateTypes
  <2>2. /\ made \in Seq(BundleStates) /\ DOMAIN made = DOMAIN bundles
        /\ \A v \in DOMAIN bundles : made[v].closed = bundles[v].closed
    <3>1. b \in BundleStates /\ b.closed = bundles[w].closed
      <4>1. ASSUME NEW r \in BundleStates PROVE IsFlagged([r EXCEPT !.report = TRUE], r)
        BY DEF BundleStates, IsFlagged
      <4>2. bundles[w] \in BundleStates
        BY <2>1, ElementOfSeq
      <4> QED BY <4>1, <4>2 DEF IsFlagged
    <3> HIDE DEF b
    <3> QED BY <2>1, <3>1, FlagPlaced
  <2>3. bundles' = made /\ UNCHANGED <<hostClock, settled, records, summary>>
    BY <1>4 DEF FinalizeReport
  <2> HIDE DEF made
  <2> QED BY <2>2, <2>3, FlagKeeps
<1>5. ASSUME NEW w \in Windows, AggregateNew(w) PROVE AggregateInv'
  BY <1>5, NewRecordKeeps
<1>6. CASE WriteSummary
  <2>1. summary' = Summarized(records) /\ UNCHANGED <<hostClock, settled, bundles, records>>
    BY <1>6 DEF WriteSummary
  <2>2. Len(bundles) \in Nat /\ DOMAIN bundles = 1..Len(bundles)
    BY DEF AggregateInv, AggregateTypes
  <2>3. SummaryTrue(Summarized(records), records, bundles, settled)
    BY <2>2, SummarizedIsTrue DEF AggregateInv, AggregateTypes
  <2>4. RecordsStaySound'
    BY <2>1 DEF AggregateInv, RecordsStaySound, VerifiedWindows
  <2> QED BY <2>1, <2>3, <2>4 DEF AggregateInv, AggregateTypes
<1>7. ASSUME UNCHANGED <<hostClock, settled, bundles, records, summary>> PROVE AggregateInv'
  <2>1. RecordsStaySound'
    BY <1>7 DEF AggregateInv, RecordsStaySound, VerifiedWindows
  <2> QED BY <1>7, <2>1 DEF AggregateInv, AggregateTypes
<1>8. (\E w \in Windows : AggregateAgain(w)) => UNCHANGED <<hostClock, settled, bundles, records, summary>>
  BY DEF AggregateAgain
<1>9. StopAggregate => UNCHANGED <<hostClock, settled, bundles, records, summary>>
  BY DEF StopAggregate
<1>10. UNCHANGED aggregateVars => UNCHANGED <<hostClock, settled, bundles, records, summary>>
  BY DEF aggregateVars
<1> QED
  BY <1>1, <1>2, <1>3, <1>4, <1>5, <1>6, <1>7, <1>8, <1>9, <1>10 DEF AggregateNext

LEMMA AggregateAlways == AggregateSpec => []AggregateInv
BY AggregateStarts, AggregateKeeps, PTL DEF AggregateSpec

\* For any number of windows, releases, episodes and stops: any two windows
\* on disk are of one release and did not run at the same time, and no
\* episode is there with two results (aggregate_window_record, summarize).
THEOREM RecordsAlwaysSound == AggregateSpec => []RecordsStaySound
<1>1. AggregateInv => RecordsStaySound
  BY DEF AggregateInv
<1> QED BY <1>1, AggregateAlways, PTL

\* Whatever windows are left out, and however old the summary is, it counts
\* each episode closed by its last verified window once (insert_identical).
THEOREM SummaryAlwaysTrue == AggregateSpec => []SummaryCountsEpisodesOnce
<1>1. AggregateInv => SummaryCountsEpisodesOnce
  BY DEF AggregateInv, SummaryTrue, SummaryCountsEpisodesOnce, ResultsAt, LastOf
<1> QED BY <1>1, AggregateAlways, PTL

-----------------------------------------------------------------------------
(* CopyTradeBot: the samples of a trader happened.                         *)

\* The fills that closed something, among those counted and in the log.
ClosingCounted(book) == {f \in book.counted : f.closes}
ClosingLogged(log) == {i \in DOMAIN log : log[i].closes}
Logged(log) == {log[i] : i \in DOMAIN log}

IsTrader(r, most) ==
  /\ {"samples", "modifier"} \subseteq DOMAIN r
  /\ r.samples \in Nat /\ r.samples <= most /\ r.modifier \in 0..2

\* A ledger that counts fills of the log only, and no sample it has not counted;
\* its modifiers are of 2.
LedgerTrue(book, log) ==
  /\ {"traders", "counted"} \subseteq DOMAIN book
  /\ book.counted \subseteq Logged(log)
  /\ \A t \in DOMAIN book.traders : IsTrader(book.traders[t], Cardinality(ClosingCounted(book)))

\* The log of the exchange, a sequence of fills.
LogTrue(log) ==
  /\ \E S : log \in Seq(S)
  /\ \A i \in DOMAIN log : log[i].closes \in BOOLEAN

LEMMA LogFinite ==
  ASSUME NEW log, LogTrue(log)
  PROVE  /\ Len(log) \in Nat /\ DOMAIN log = 1..Len(log) /\ IsFiniteSet(DOMAIN log)
         /\ IsFiniteSet(Logged(log))
         /\ IsFiniteSet(ClosingLogged(log)) /\ Cardinality(ClosingLogged(log)) \in Nat
<1>1. Len(log) \in Nat /\ DOMAIN log = 1..Len(log)
  BY DEF LogTrue
<1>2. IsFiniteSet(DOMAIN log)
  BY <1>1, FS_Interval
<1>3. IsFiniteSet(Logged(log))
  <2> DEFINE f == [i \in DOMAIN log |-> log[i]]
  <2>1. f \in Surjection(DOMAIN log, Logged(log))
    BY DEF Surjection, Logged
  <2> HIDE DEF f
  <2> QED BY <1>2, <2>1, FS_Surjection
<1>4. IsFiniteSet(ClosingLogged(log)) /\ Cardinality(ClosingLogged(log)) \in Nat
  BY <1>2, FS_Subset, FS_CardinalityType DEF ClosingLogged
<1> QED BY <1>1, <1>2, <1>3, <1>4

\* What was counted is not more than what the log has.
LEMMA CountedHappened ==
  ASSUME NEW log, LogTrue(log), NEW book, book.counted \subseteq Logged(log)
  PROVE  /\ IsFiniteSet(ClosingCounted(book)) /\ Cardinality(ClosingCounted(book)) \in Nat
         /\ Cardinality(ClosingCounted(book)) <= Cardinality(ClosingLogged(log))
<1> DEFINE I == ClosingLogged(log)
           T == {log[i] : i \in I}
           f == [i \in I |-> log[i]]
<1>1. f \in Surjection(I, T)
  BY DEF Surjection
<1>2. IsFiniteSet(I) /\ Cardinality(I) \in Nat
  BY LogFinite
<1>3. IsFiniteSet(T) /\ Cardinality(T) <= Cardinality(I)
  <2> HIDE DEF f, T, I
  <2> QED BY <1>1, <1>2, FS_Surjection
<1>4. ClosingCounted(book) \subseteq T
  BY DEF ClosingCounted, Logged, ClosingLogged
<1> HIDE DEF T
<1>5. IsFiniteSet(ClosingCounted(book)) /\ Cardinality(ClosingCounted(book)) <= Cardinality(T)
  BY <1>3, <1>4, FS_Subset
<1>6. Cardinality(ClosingCounted(book)) \in Nat /\ Cardinality(T) \in Nat
  BY <1>3, <1>5, FS_CardinalityType
<1> QED BY <1>2, <1>3, <1>5, <1>6

\* A ledger stays true when its traders keep their samples, or have none, and
\* what is counted is the same.
LEMMA SamplesKept ==
  ASSUME NEW log, LogTrue(log), NEW book, LedgerTrue(book, log), NEW new,
         {"traders", "counted"} \subseteq DOMAIN new, new.counted = book.counted,
         \A t \in DOMAIN new.traders : IsTrader(new.traders[t], Known(book.traders, t).samples)
  PROVE  LedgerTrue(new, log)
<1>1. ClosingCounted(new) = ClosingCounted(book)
  BY DEF ClosingCounted
<1>2. Cardinality(ClosingCounted(book)) \in Nat
  BY CountedHappened DEF LedgerTrue
<1>3. ASSUME NEW t PROVE /\ Known(book.traders, t).samples \in Nat
                         /\ Known(book.traders, t).samples <= Cardinality(ClosingCounted(book))
  BY <1>2 DEF LedgerTrue, IsTrader, Known, NewTrader
<1>4. ASSUME NEW t \in DOMAIN new.traders
      PROVE  IsTrader(new.traders[t], Cardinality(ClosingCounted(book)))
  <2>1. IsTrader(new.traders[t], Known(book.traders, t).samples)
    OBVIOUS
  <2> QED BY <1>2, <1>3, <2>1 DEF IsTrader
<1> QED BY <1>1, <1>4 DEF LedgerTrue

\* The traders of a true ledger, as they are and as new ones.
LEMMA TradersKept ==
  ASSUME NEW log, LogTrue(log), NEW book, LedgerTrue(book, log)
  PROVE  /\ \A t : IsTrader(Known(book.traders, t), Known(book.traders, t).samples)
         /\ \A t \in DOMAIN book.traders : Known(book.traders, t) = book.traders[t]
<1>1. \A t \in DOMAIN book.traders : Known(book.traders, t) = book.traders[t]
  BY DEF Known
<1>2. IsTrader(NewTrader, NewTrader.samples)
  BY DEF IsTrader, NewTrader
<1>3. \A t \in DOMAIN book.traders : IsTrader(book.traders[t], book.traders[t].samples)
  BY DEF LedgerTrue, IsTrader
<1> QED BY <1>1, <1>2, <1>3 DEF Known

\* A longer log.
LEMMA LedgerOfLonger ==
  ASSUME NEW log, NEW longer, Logged(log) \subseteq Logged(longer), NEW book, LedgerTrue(book, log)
  PROVE  LedgerTrue(book, longer)
BY DEF LedgerTrue

LEMMA EmptyIsTrue ==
  ASSUME NEW log
  PROVE  LedgerTrue(EmptyLedger, log)
BY DEF LedgerTrue, EmptyLedger

\* A fill adds one sample at most to a trader, and is then counted itself
\* (reconcile_fill).
LEMMA ReconciledIsTrue ==
  ASSUME NEW log, LogTrue(log), NEW book, LedgerTrue(book, log), NEW fill \in Logged(log),
         NEW given \in 0..2
  PROVE  LedgerTrue(Reconciled(book, fill, given), log)
<1>1. CASE ~Counts(book, fill)
  BY <1>1 DEF Reconciled
<1>2. CASE Counts(book, fill)
  <2> DEFINE owners == book.orders[fill.cloid].attributions
             samplesOf(t) == Known(book.traders, t).samples + (IF fill.closes THEN 1 ELSE 0)
             charged(t) == [Known(book.traders, t) EXCEPT
                              !.samples = samplesOf(t), !.lastFill = fill.time,
                              !.modifier = IF fill.closes /\ samplesOf(t) >= MinSamples THEN given ELSE @]
             paying == {t \in DOMAIN owners : owners[t] # 0}
             traders == Updated(book.traders, [t \in paying |-> charged(t)])
             new == [book EXCEPT !.orders[fill.cloid].status = "Accepted", !.traders = traders,
                                 !.counted = book.counted \cup {fill}]
             most == Cardinality(ClosingCounted(book))
             more == Cardinality(ClosingCounted(new))
  <2>1. Reconciled(book, fill, given) = new
    BY <1>2 DEF Reconciled
  <2>2. DOMAIN book = DOMAIN new /\ new.traders = traders /\ new.counted = book.counted \cup {fill}
    BY DEF LedgerTrue
  <2>3. fill.closes \in BOOLEAN /\ fill \notin book.counted
    BY <1>2 DEF Counts, LogTrue, Logged
  <2>4. /\ most \in Nat /\ more \in Nat /\ most <= more /\ (fill.closes => most + 1 <= more)
    <3>1. IsFiniteSet(ClosingCounted(book)) /\ most \in Nat
      BY CountedHappened DEF LedgerTrue
    <3>2. ClosingCounted(new) = IF fill.closes THEN ClosingCounted(book) \cup {fill} ELSE ClosingCounted(book)
      BY <2>2, <2>3 DEF ClosingCounted
    <3>3. fill \notin ClosingCounted(book)
      BY <2>3 DEF ClosingCounted
    <3>4. Cardinality(ClosingCounted(book) \cup {fill}) = most + 1
      BY <3>1, <3>3, FS_AddElement
    <3> HIDE DEF new
    <3> QED BY <2>3, <3>1, <3>2, <3>4
  <2> HIDE DEF new
  <2>5. ASSUME NEW t PROVE IsTrader(Known(book.traders, t), most)
    BY <2>4 DEF LedgerTrue, IsTrader, Known, NewTrader
  <2>6. ASSUME NEW t PROVE IsTrader(charged(t), more)
    <3> DEFINE earned == IF fill.closes /\ samplesOf(t) >= MinSamples THEN given
                         ELSE Known(book.traders, t).modifier
    <3>1. /\ DOMAIN charged(t) = DOMAIN Known(book.traders, t) /\ charged(t).samples = samplesOf(t)
          /\ charged(t).modifier = earned /\ earned \in 0..2
      BY <2>5 DEF IsTrader
    <3>2. samplesOf(t) \in Nat /\ samplesOf(t) <= more
      BY <2>3, <2>4, <2>5 DEF IsTrader
    <3> HIDE DEF charged, samplesOf, more, earned
    <3> QED BY <2>5, <3>1, <3>2 DEF IsTrader
  <2>7. ASSUME NEW t \in DOMAIN book.traders PROVE IsTrader(book.traders[t], more)
    BY <2>4 DEF LedgerTrue, IsTrader
  <2> HIDE DEF charged, more, paying
  <2>8. \A t \in DOMAIN traders : IsTrader(traders[t], more)
    BY <2>6, <2>7 DEF Updated
  <2>9. new.counted \subseteq Logged(log)
    BY <2>2 DEF LedgerTrue
  <2>10. {"traders", "counted"} \subseteq DOMAIN new
    BY <2>2 DEF LedgerTrue
  <2> HIDE DEF traders
  <2>11. LedgerTrue(new, log)
    BY <2>2, <2>8, <2>9, <2>10 DEF LedgerTrue, more
  <2> QED BY <2>1, <2>11
<1> QED BY <1>1, <1>2

-----------------------------------------------------------------------------
(* A reading of fills is a fold.                                           *)

\* F holds the ledger after each of the first m fills.
ReadingOf(F, book, fills, since, given, m) ==
  F = [n \in 0..m |->
         IF n = 0 THEN book
         ELSE IF fills[n].time >= since THEN Reconciled(F[n - 1], fills[n], given) ELSE F[n - 1]]

LEMMA ReadingExists ==
  ASSUME NEW book, NEW fills, NEW since, NEW given, NEW m \in Nat
  PROVE  \E F : ReadingOf(F, book, fills, since, given, m)
<1> DEFINE Next1(x, n) == IF fills[n].time >= since THEN Reconciled(x, fills[n], given) ELSE x
           S == {n \in Nat : \E F : ReadingOf(F, book, fills, since, given, n)}
<1>1. 0 \in S
  <2>1. ReadingOf([n \in 0..0 |-> book], book, fills, since, given, 0)
    BY DEF ReadingOf
  <2> QED BY <2>1
<1>2. ASSUME NEW n \in Nat, n \in S PROVE n + 1 \in S
  <2>1. PICK F : ReadingOf(F, book, fills, since, given, n)
    BY <1>2
  <2>2. \A k \in 0..n : F[k] = IF k = 0 THEN book ELSE Next1(F[k - 1], k)
    BY <2>1 DEF ReadingOf
  <2> HIDE DEF Next1
  <2> DEFINE G == [k \in 0..(n + 1) |-> IF k \in 0..n THEN F[k] ELSE Next1(F[n], n + 1)]
  <2>3. \A k \in 0..n : G[k] = F[k]
    OBVIOUS
  <2>4. G[n + 1] = Next1(F[n], n + 1)
    OBVIOUS
  <2>5. ASSUME NEW k \in 0..(n + 1)
        PROVE  G[k] = IF k = 0 THEN book ELSE Next1(G[k - 1], k)
    <3>1. CASE k = n + 1
      BY <2>3, <2>4, <3>1
    <3>2. CASE k \in 0..n
      <4>1. k = 0 \/ k - 1 \in 0..n
        BY <3>2
      <4> QED BY <2>2, <2>3, <3>2, <4>1
    <3> QED BY <3>1, <3>2
  <2>6. G = [k \in 0..(n + 1) |-> IF k = 0 THEN book ELSE Next1(G[k - 1], k)]
    BY <2>5
  <2>7. ReadingOf(G, book, fills, since, given, n + 1)
    BY <2>6, Zenon DEF ReadingOf, Next1
  <2> QED BY <2>7
<1> HIDE DEF S
<1>3. Nat \subseteq S
  BY <1>1, <1>2, SetInduction
<1> QED BY <1>3 DEF S

\* A reading of the log leaves the ledger true (reconcile_fills).
LEMMA ReadingIsTrue ==
  ASSUME NEW log, LogTrue(log), NEW book, LedgerTrue(book, log), NEW since, NEW given \in 0..2
  PROVE  LedgerTrue(ReconciledWith(book, log, since, given), log)
<1> DEFINE m == Len(log)
           F == CHOOSE G : ReadingOf(G, book, log, since, given, m)
<1>1. m \in Nat /\ DOMAIN log = 1..m
  BY LogFinite
<1>2. ReadingOf(F, book, log, since, given, m)
  BY <1>1, ReadingExists
<1>3. ReconciledWith(book, log, since, given) = F[m]
  BY Zenon DEF ReconciledWith, ReadingOf
<1> HIDE DEF F, m
<1> DEFINE S == {n \in Nat : n <= m => LedgerTrue(F[n], log)}
<1>4. 0 \in S
  BY <1>1, <1>2 DEF ReadingOf
<1>5. ASSUME NEW n \in Nat, n \in S PROVE n + 1 \in S
  <2>1. SUFFICES ASSUME n + 1 <= m PROVE LedgerTrue(F[n + 1], log)
    OBVIOUS
  <2>2. F[n + 1] = Reconciled(F[n], log[n + 1], given) \/ F[n + 1] = F[n]
    BY <1>1, <1>2, <2>1 DEF ReadingOf
  <2>3. LedgerTrue(F[n], log) /\ log[n + 1] \in Logged(log)
    BY <1>1, <1>5, <2>1 DEF Logged
  <2> QED BY <2>2, <2>3, ReconciledIsTrue
<1> HIDE DEF S
<1>6. Nat \subseteq S
  BY <1>4, <1>5, SetInduction
<1> QED BY <1>1, <1>3, <1>6 DEF S

-----------------------------------------------------------------------------
\* The inductive invariant.
BotInv == LogTrue(fillLog) /\ LedgerTrue(ledger, fillLog) /\ LedgerTrue(ledgerFile, fillLog)

LEMMA BotStarts ==
  ASSUME BotInit
  PROVE  BotInv
<1>1. <<>> \in Seq({}) /\ DOMAIN <<>> = {}
  OBVIOUS
<1>2. LogTrue(<<>>)
  BY <1>1 DEF LogTrue
<1> QED BY <1>2, EmptyIsTrue DEF BotInit, BotInv

LEMMA SavedKeeps ==
  ASSUME BotInv, NEW new, LedgerTrue(new, fillLog), NEW next, Saved(new, next), UNCHANGED fillLog
  PROVE  BotInv'
<1>1. \/ ledger' = new /\ ledgerFile' = new
      \/ ledger' = EmptyLedger /\ ledgerFile' = EmptyLedger
  BY DEF Saved
<1> QED BY <1>1, EmptyIsTrue DEF BotInv

\* An order that executes adds fills to the log.
LEMMA LogGrows ==
  ASSUME NEW log, LogTrue(log), NEW new, LogTrue(new)
  PROVE  LogTrue(log \o new) /\ Logged(log) \subseteq Logged(log \o new)
<1>1. PICK S : log \in Seq(S)
  BY DEF LogTrue
<1>2. PICK T : new \in Seq(T)
  BY DEF LogTrue
<1>3. log \in Seq(S \cup T) /\ new \in Seq(S \cup T)
  <2>1. \A n \in 1..Len(log) : log[n] \in S \cup T
    BY <1>1, ElementOfSeq
  <2>2. \A n \in 1..Len(new) : new[n] \in S \cup T
    BY <1>2, ElementOfSeq
  <2> QED BY <1>1, <1>2, <2>1, <2>2
<1>4. /\ log \o new \in Seq(S \cup T) /\ Len(log \o new) = Len(log) + Len(new)
      /\ \A n \in 1..(Len(log) + Len(new)) :
           (log \o new)[n] = IF n <= Len(log) THEN log[n] ELSE new[n - Len(log)]
  BY <1>3, ConcatProperties
<1>5. Len(log) \in Nat /\ Len(new) \in Nat /\ DOMAIN log = 1..Len(log) /\ DOMAIN new = 1..Len(new)
  BY <1>1, <1>2
<1> DEFINE both == log \o new
<1>6. both \in Seq(S \cup T) /\ DOMAIN both = 1..(Len(log) + Len(new))
  BY <1>4, <1>5
<1>7. \A n \in DOMAIN both : both[n].closes \in BOOLEAN
  <2>1. ASSUME NEW n \in DOMAIN both PROVE both[n].closes \in BOOLEAN
    <3>1. CASE n <= Len(log)
      BY <1>4, <1>5, <1>6, <3>1 DEF LogTrue
    <3>2. CASE ~(n <= Len(log))
      <4>1. n - Len(log) \in DOMAIN new /\ both[n] = new[n - Len(log)]
        BY <1>4, <1>5, <1>6, <3>2
      <4> QED BY <4>1 DEF LogTrue
    <3> QED BY <3>1, <3>2
  <2> QED BY <2>1
<1>8. \A n \in DOMAIN log : n \in DOMAIN both /\ both[n] = log[n]
  BY <1>4, <1>5, <1>6
<1> HIDE DEF both
<1>9. LogTrue(both) /\ Logged(log) \subseteq Logged(both)
  BY <1>6, <1>7, <1>8 DEF LogTrue, Logged
<1> QED BY <1>9 DEF both

LEMMA ExecuteKeeps ==
  ASSUME BotInv, ExecuteOrder
  PROVE  BotInv'
<1> DEFINE openOf(c) == IF ~travelling[c].reduceOnly THEN travelling[c].size
                        ELSE IF IsReducing(account[travelling[c].coin], travelling[c].size)
                             THEN Within(travelling[c].size, AbsOf(account[travelling[c].coin])) ELSE 0
<1>1. PICK cloid \in DOMAIN travelling, parts \in {<<>>, <<2>>, <<1, 1>>} :
        fillLog' = fillLog \o [i \in DOMAIN parts |->
          [cloid |-> cloid, time |-> botClock, size |-> (openOf(cloid) * parts[i]) \div 2,
           closes |-> IsReducing(account[travelling[cloid].coin], travelling[cloid].size)]]
  BY DEF ExecuteOrder
<1> DEFINE open == openOf(cloid)
<1>2. fillLog' = fillLog \o [i \in DOMAIN parts |->
          [cloid |-> cloid, time |-> botClock, size |-> (open * parts[i]) \div 2,
           closes |-> IsReducing(account[travelling[cloid].coin], travelling[cloid].size)]]
  BY <1>1
<1> HIDE DEF open
<1> DEFINE made(i) == [cloid |-> cloid, time |-> botClock, size |-> (open * parts[i]) \div 2,
                       closes |-> IsReducing(account[travelling[cloid].coin], travelling[cloid].size)]
           new == [i \in DOMAIN parts |-> made(i)]
<1>3. \A i : made(i).closes \in BOOLEAN
  BY DEF IsReducing
<1>4. fillLog' = fillLog \o new
  BY <1>2
<1> HIDE DEF made
<1>5. \E m \in Nat : DOMAIN parts = 1..m
  <2>1. DOMAIN <<>> = 1..0 /\ DOMAIN <<2>> = 1..1 /\ DOMAIN <<1, 1>> = 1..2
    OBVIOUS
  <2>2. parts = <<>> \/ parts = <<2>> \/ parts = <<1, 1>>
    OBVIOUS
  <2> QED BY <2>1, <2>2
<1>6. LogTrue(new)
  <2>1. PICK m \in Nat : DOMAIN parts = 1..m
    BY <1>5
  <2>2. new \in Seq({made(i) : i \in 1..m}) /\ DOMAIN new = 1..m
    BY <2>1
  <2>3. \A i \in DOMAIN new : new[i].closes \in BOOLEAN
    BY <1>3, <2>1
  <2> HIDE DEF new
  <2> QED BY <2>2, <2>3 DEF LogTrue
<1> HIDE DEF new
<1>7. LogTrue(fillLog') /\ Logged(fillLog) \subseteq Logged(fillLog')
  BY <1>4, <1>6, LogGrows DEF BotInv
<1>8. UNCHANGED <<ledger, ledgerFile>>
  BY DEF ExecuteOrder
<1> QED BY <1>7, <1>8, LedgerOfLonger DEF BotInv

LEMMA RecordKeeps ==
  ASSUME BotInv, RecordOrder
  PROVE  BotInv'
<1> DEFINE order == Head(plan)
           cloid == lastCloid + 1
           signalled == [t \in DOMAIN order.attributions |->
                           [Known(ledger.traders, t) EXCEPT !.lastSignal = botClock]]
<1>1. PICK orders2 :
        Saved([ledger EXCEPT !.traders = Updated(ledger.traders, signalled), !.orders = orders2], "Recorded")
  BY Zenon DEF RecordOrder
<1> DEFINE new == [ledger EXCEPT !.traders = Updated(ledger.traders, signalled), !.orders = orders2]
<1>2. UNCHANGED fillLog
  BY DEF RecordOrder
<1>3. LedgerTrue(ledger, fillLog) /\ LogTrue(fillLog)
  BY DEF BotInv
<1>4. /\ {"traders", "counted"} \subseteq DOMAIN new /\ new.counted = ledger.counted
      /\ new.traders = Updated(ledger.traders, signalled)
  BY <1>3 DEF LedgerTrue
<1>5. ASSUME NEW t PROVE IsTrader([Known(ledger.traders, t) EXCEPT !.lastSignal = botClock],
                                  Known(ledger.traders, t).samples)
  <2>1. IsTrader(Known(ledger.traders, t), Known(ledger.traders, t).samples)
    BY <1>3, TradersKept
  <2> QED BY <2>1 DEF IsTrader
<1>6. ASSUME NEW t \in DOMAIN ledger.traders
      PROVE  IsTrader(ledger.traders[t], Known(ledger.traders, t).samples)
  BY <1>3, TradersKept
<1>7. \A t \in DOMAIN Updated(ledger.traders, signalled) :
        IsTrader(Updated(ledger.traders, signalled)[t], Known(ledger.traders, t).samples)
  BY <1>5, <1>6 DEF Updated
<1> HIDE DEF new, signalled
<1>8. LedgerTrue(new, fillLog)
  BY <1>3, <1>4, <1>7, SamplesKept
<1> QED BY <1>1, <1>2, <1>8, SavedKeeps DEF new

\* A change of the ledger that leaves the traders and what is counted.
LEMMA OtherFieldKept ==
  ASSUME NEW log, NEW book, LedgerTrue(book, log), NEW new, DOMAIN new = DOMAIN book,
         new.traders = book.traders, new.counted = book.counted
  PROVE  LedgerTrue(new, log)
BY DEF LedgerTrue, ClosingCounted

LEMMA BotKeeps ==
  ASSUME BotInv, [BotNext]_botVars
  PROVE  BotInv'
<1>0. LedgerTrue(ledger, fillLog) /\ LogTrue(fillLog)
  BY DEF BotInv
<1>1. ASSUME UNCHANGED <<ledger, ledgerFile, fillLog>> PROVE BotInv'
  BY <1>1 DEF BotInv
<1>2. CASE ReconcileFills
  <2>1. PICK given \in ModifierOf :
          LET new == ReconciledWith(ledger, fillLog, botClock - Lookback, given)
          IN  IF new = ledger THEN botPhase' = "Reconciled" /\ UNCHANGED <<ledger, ledgerFile, crashesLeft>>
              ELSE Saved(new, "Reconciled")
    BY <1>2 DEF ReconcileFills
  <2> DEFINE new == ReconciledWith(ledger, fillLog, botClock - Lookback, given)
  <2>2. LedgerTrue(new, fillLog)
    BY <1>0, ReadingIsTrue, BotAssumption
  <2>3. UNCHANGED fillLog
    BY <1>2 DEF ReconcileFills
  <2> QED BY <1>1, <2>1, <2>2, <2>3, SavedKeeps
<1>3. CASE PruneLedger
  <2> DEFINE cutoff == botClock - PruneAfter
             new == Pruned(ledger, cutoff)
  <2>1. PICK kept, live : kept \subseteq DOMAIN ledger.traders
          /\ new = [ledger EXCEPT !.traders = Restrict(ledger.traders, kept), !.orders = live]
    BY DEF Pruned
  <2>2. UNCHANGED fillLog
    BY <1>3 DEF PruneLedger
  <2>3. (ledger' = new /\ UNCHANGED ledgerFile) \/ Saved(new, "Pruned")
    BY <1>3 DEF PruneLedger
  <2> HIDE DEF new
  <2>4. /\ {"traders", "counted"} \subseteq DOMAIN new /\ new.counted = ledger.counted
        /\ new.traders = Restrict(ledger.traders, kept)
    BY <1>0, <2>1 DEF LedgerTrue
  <2>5. \A t \in kept : IsTrader(ledger.traders[t], Known(ledger.traders, t).samples)
    <3>1. ASSUME NEW t \in kept PROVE IsTrader(ledger.traders[t], Known(ledger.traders, t).samples)
      <4>1. t \in DOMAIN ledger.traders
        BY <2>1
      <4> QED BY <1>0, <4>1, TradersKept
    <3> QED BY <3>1
  <2>6. \A t \in DOMAIN new.traders : IsTrader(new.traders[t], Known(ledger.traders, t).samples)
    BY <2>4, <2>5 DEF Restrict
  <2>7. LedgerTrue(new, fillLog)
    BY <1>0, <2>4, <2>6, SamplesKept
  <2> QED BY <2>2, <2>3, <2>7, SavedKeeps DEF BotInv
<1>4. CASE PlanTick
  <2>1. PICK active2 : Saved([ledger EXCEPT !.active = active2], "Ordering")
    BY <1>4, Zenon DEF PlanTick
  <2> DEFINE new == [ledger EXCEPT !.active = active2]
  <2>2. DOMAIN new = DOMAIN ledger /\ new.traders = ledger.traders /\ new.counted = ledger.counted
    BY <1>0 DEF LedgerTrue
  <2> HIDE DEF new
  <2>3. LedgerTrue(new, fillLog)
    BY <1>0, <2>2, OtherFieldKept
  <2>4. UNCHANGED fillLog
    BY <1>4 DEF PlanTick
  <2> QED BY <2>1, <2>3, <2>4, SavedKeeps DEF new
<1>5. CASE RecordOrder
  BY <1>5, RecordKeeps
<1>6. CASE OrderAnswered
  <2>1. PICK status, next : Saved([ledger EXCEPT !.orders[lastCloid].status = status], next)
    BY <1>6, Zenon DEF OrderAnswered
  <2> DEFINE new == [ledger EXCEPT !.orders[lastCloid].status = status]
  <2>2. DOMAIN new = DOMAIN ledger /\ new.traders = ledger.traders /\ new.counted = ledger.counted
    BY <1>0 DEF LedgerTrue
  <2> HIDE DEF new
  <2>3. LedgerTrue(new, fillLog)
    BY <1>0, <2>2, OtherFieldKept
  <2>4. UNCHANGED fillLog
    BY <1>6 DEF OrderAnswered
  <2> QED BY <2>1, <2>3, <2>4, SavedKeeps DEF new
<1>7. CASE StartBot
  BY <1>7 DEF StartBot, BotInv
<1>8. ASSUME ledger' = EmptyLedger, UNCHANGED <<ledgerFile, fillLog>> PROVE BotInv'
  BY <1>8, EmptyIsTrue DEF BotInv
<1>9. CASE BotCrash
  BY <1>8, <1>9 DEF BotCrash, Ended
<1>10. CASE OrderTimesOut
  BY <1>8, <1>10 DEF OrderTimesOut, Ended
<1>11. CASE ExecuteOrder
  BY <1>11, ExecuteKeeps
<1>12. ReadAccount \/ SendOrder \/ EndTick \/ BotTick \/ UNCHANGED botVars
         => UNCHANGED <<ledger, ledgerFile, fillLog>>
  BY DEF ReadAccount, SendOrder, EndTick, BotTick, botVars
<1> QED
  BY <1>1, <1>2, <1>3, <1>4, <1>5, <1>6, <1>7, <1>9, <1>10, <1>11, <1>12 DEF BotNext

\* No trader is charged more closed trades than the account has closed, for
\* any traders, coins, orders, bounds and crashes (SignalLedger::reconcile_fill,
\* save, prune_inactive).
THEOREM SamplesAlwaysHappened == BotSpec => []SamplesHappened
<1>1. ASSUME BotInv PROVE SamplesHappened
  <2>1. ASSUME NEW book \in {ledger, ledgerFile}, NEW t \in DOMAIN book.traders
        PROVE  book.traders[t].samples <= Cardinality(ClosingLogged(fillLog))
    <3>1. LedgerTrue(book, fillLog) /\ LogTrue(fillLog)
      BY <1>1 DEF BotInv
    <3>2. Cardinality(ClosingCounted(book)) <= Cardinality(ClosingLogged(fillLog))
          /\ Cardinality(ClosingCounted(book)) \in Nat /\ Cardinality(ClosingLogged(fillLog)) \in Nat
      BY <3>1, CountedHappened, LogFinite DEF LedgerTrue
    <3>3. IsTrader(book.traders[t], Cardinality(ClosingCounted(book)))
      BY <3>1 DEF LedgerTrue
    <3> QED BY <3>2, <3>3 DEF IsTrader
  <2> QED BY <2>1 DEF SamplesHappened, ClosingLogged
<1> QED BY <1>1, BotStarts, BotKeeps, PTL DEF BotSpec

-----------------------------------------------------------------------------
(* CopyTradeBot: the plan of a tick.                                       *)

LEMMA LargerIs ==
  ASSUME NEW a \in Int, NEW b \in Int
  PROVE  Max({a, b}) \in {a, b} /\ a <= Max({a, b}) /\ b <= Max({a, b})
<1>1. \E x \in {a, b} : \A y \in {a, b} : x >= y
  BY a >= b \/ b >= a
<1>2. Max({a, b}) \in {a, b} /\ \A y \in {a, b} : Max({a, b}) >= y
  BY <1>1 DEF Max
<1> HIDE DEF Max
<1> QED BY <1>2

LEMMA LesserIs ==
  ASSUME NEW a \in Int, NEW b \in Int
  PROVE  Min({a, b}) \in {a, b} /\ Min({a, b}) <= a /\ Min({a, b}) <= b
<1>1. \E x \in {a, b} : \A y \in {a, b} : x <= y
  BY a <= b \/ b <= a
<1>2. Min({a, b}) \in {a, b} /\ \A y \in {a, b} : Min({a, b}) <= y
  BY <1>1 DEF Min
<1> HIDE DEF Min
<1> QED BY <1>2

LEMMA WithinIs ==
  ASSUME NEW x \in Int, NEW bound \in Nat
  PROVE  /\ Within(x, bound) \in Int /\ AbsOf(Within(x, bound)) <= bound
         /\ AbsOf(Within(x, bound)) <= AbsOf(x) /\ AbsOf(x) \in Nat
         /\ x # 0 /\ bound # 0 => Within(x, bound) # 0 /\ SignOf(Within(x, bound)) = SignOf(x)
BY DEF Within, AbsOf, SignOf

\* A planned order is of a coin and has a size.
IsOrder(o) == o.coin \in Coins /\ o.size \in Int
OrdersOf(p) == \E S : p \in Seq(S) /\ \A o \in S : IsOrder(o)

LEMMA OrdersAre ==
  ASSUME NEW p, OrdersOf(p)
  PROVE  /\ Len(p) \in Nat /\ DOMAIN p = 1..Len(p) /\ \A i \in 1..Len(p) : IsOrder(p[i])
         /\ p # <<>> => IsOrder(Head(p)) /\ OrdersOf(Tail(p))
<1>1. PICK S : p \in Seq(S) /\ \A o \in S : IsOrder(o)
  BY DEF OrdersOf
<1>2. \A i \in 1..Len(p) : p[i] \in S
  BY <1>1, ElementOfSeq
<1>3. Len(p) \in Nat /\ DOMAIN p = 1..Len(p)
  BY <1>1
<1>4. ASSUME p # <<>> PROVE IsOrder(Head(p)) /\ OrdersOf(Tail(p))
  <2>1. Head(p) \in S /\ Tail(p) \in Seq(S)
    BY <1>1, <1>4, HeadTailProperties
  <2> QED BY <1>1, <2>1 DEF OrdersOf
<1> QED BY <1>1, <1>2, <1>3, <1>4

LEMMA NoOrders == OrdersOf(<<>>)
<1>1. <<>> \in Seq({}) /\ \A o \in {} : IsOrder(o)
  BY EmptySeq
<1>2. ASSUME NEW p \in Seq({}) PROVE OrdersOf(p)
  BY <1>1 DEF OrdersOf
<1> QED BY <1>1, <1>2

LEMMA OrdersMore ==
  ASSUME NEW p, OrdersOf(p), NEW o, IsOrder(o)
  PROVE  /\ OrdersOf(Append(p, o)) /\ Len(Append(p, o)) = Len(p) + 1
         /\ \A i \in 1..Len(p) : Append(p, o)[i] = p[i]
         /\ Append(p, o)[Len(p) + 1] = o
<1>1. PICK S : p \in Seq(S) /\ \A x \in S : IsOrder(x)
  BY DEF OrdersOf
<1> DEFINE T == S \cup {o}
<1>2. p \in Seq(T) /\ o \in T
  <2>1. \A i \in 1..Len(p) : p[i] \in T
    BY <1>1, ElementOfSeq
  <2> QED BY <1>1, <2>1
<1>3. \A x \in T : IsOrder(x)
  BY <1>1
<1> HIDE DEF T
<1>4. /\ Append(p, o) \in Seq(T) /\ Len(Append(p, o)) = Len(p) + 1
      /\ \A i \in 1..Len(p) : Append(p, o)[i] = p[i]
      /\ Append(p, o)[Len(p) + 1] = o
  BY <1>2, AppendProperties
<1> QED BY <1>3, <1>4 DEF OrdersOf

-----------------------------------------------------------------------------
(* What is held when the first n orders have filled.                       *)

Part(p, n, c) == [i \in 1..n |-> IF p[i].coin = c THEN p[i].size ELSE 0]
HeldAfter(held, p, n) == [c \in Coins |-> held[c] + SumFunction(Part(p, n, c))]

LEMMA PartSum ==
  ASSUME NEW p, OrdersOf(p), NEW n \in 0..Len(p), NEW c
  PROVE  /\ Addable(Part(p, n, c), 1..n)
         /\ SumFunction(Part(p, n, c)) = SumFunctionOnSet(Part(p, n, c), 1..n)
         /\ SumFunction(Part(p, n, c)) \in Int
<1> DEFINE f == Part(p, n, c)
<1>1. Len(p) \in Nat /\ \A i \in 1..Len(p) : IsOrder(p[i])
  BY OrdersAre
<1>2. \A i \in 1..n : f[i] \in Int
  BY <1>1 DEF IsOrder, Part
<1>3. IsFiniteSet(1..n)
  BY <1>1, FS_Interval
<1>4. DOMAIN f = 1..n
  BY DEF Part
<1> HIDE DEF f
<1>5. Addable(f, 1..n)
  BY <1>2, <1>3 DEF Addable
<1>6. SumFunction(f) = SumFunctionOnSet(f, 1..n)
  BY <1>4 DEF SumFunction
<1> QED BY <1>5, <1>6, SumType DEF f

LEMMA HeldTyped ==
  ASSUME NEW held \in [Coins -> Int], NEW p, OrdersOf(p), NEW n \in 0..Len(p)
  PROVE  HeldAfter(held, p, n) \in [Coins -> Int]
BY PartSum DEF HeldAfter

\* Nothing has filled yet.
LEMMA HeldAtFirst ==
  ASSUME NEW held \in [Coins -> Int], NEW p
  PROVE  HeldAfter(held, p, 0) = held
<1>1. ASSUME NEW c PROVE SumFunction(Part(p, 0, c)) = 0
  <2>1. DOMAIN Part(p, 0, c) = {}
    BY DEF Part
  <2> QED BY <2>1, SumEmpty DEF SumFunction
<1> QED BY <1>1 DEF HeldAfter

\* The last order does not touch what the others leave.
LEMMA HeldBefore ==
  ASSUME NEW held, NEW p, OrdersOf(p), NEW o, IsOrder(o), NEW n \in 0..Len(p)
  PROVE  HeldAfter(held, Append(p, o), n) = HeldAfter(held, p, n)
<1>1. Len(p) \in Nat /\ \A i \in 1..Len(p) : Append(p, o)[i] = p[i]
  BY OrdersAre, OrdersMore
<1>2. \A i \in 1..n : i \in 1..Len(p)
  BY <1>1
<1>3. \A c : Part(Append(p, o), n, c) = Part(p, n, c)
  BY <1>1, <1>2 DEF Part
<1> QED BY <1>3 DEF HeldAfter

\* An order of a coin that the others are not of changes that coin only.
Moved(h, c, v) == [h EXCEPT ![c] = v]
Untouched(p, c) == \A i \in 1..Len(p) : p[i].coin # c

LEMMA HeldNext ==
  ASSUME NEW held \in [Coins -> Int], NEW p, OrdersOf(p), NEW o, IsOrder(o), Untouched(p, o.coin)
  PROVE  /\ HeldAfter(held, Append(p, o), Len(p) + 1)
              = Moved(HeldAfter(held, p, Len(p)), o.coin, held[o.coin] + o.size)
         /\ HeldAfter(held, p, Len(p))[o.coin] = held[o.coin]
<1> DEFINE q == Append(p, o)
           n == Len(p)
<1>1. /\ n \in Nat /\ OrdersOf(q) /\ Len(q) = n + 1 /\ q[n + 1] = o
      /\ \A i \in 1..n : q[i] = p[i] /\ IsOrder(p[i]) /\ p[i].coin # o.coin
  BY OrdersAre, OrdersMore DEF Untouched
<1> HIDE DEF q, n
<1>2. ASSUME NEW c
      PROVE  SumFunction(Part(q, n + 1, c)) = SumFunction(Part(p, n, c)) + (IF o.coin = c THEN o.size ELSE 0)
  <2> DEFINE f == Part(q, n + 1, c)
             g == Part(p, n, c)
  <2>1. /\ Addable(f, 1..(n + 1)) /\ SumFunction(f) = SumFunctionOnSet(f, 1..(n + 1))
        /\ Addable(g, 1..n) /\ SumFunction(g) = SumFunctionOnSet(g, 1..n)
        /\ SumFunction(g) \in Int
    <3>1. n + 1 \in 0..Len(q) /\ n \in 0..Len(p)
      BY <1>1 DEF n
    <3> QED BY <1>1, <3>1, PartSum
  <2>2. f[n + 1] = (IF o.coin = c THEN o.size ELSE 0) /\ \A i \in 1..n : f[i] = g[i]
    BY <1>1 DEF Part
  <2> HIDE DEF f, g
  <2>3. 1..n \in SUBSET (1..(n + 1)) /\ n + 1 \in (1..(n + 1)) \ (1..n)
        /\ (1..n) \cup {n + 1} = 1..(n + 1)
    BY <1>1
  <2>4. SumGrows(f, 1..n, n + 1)
    BY <2>1, <2>3, SumMore
  <2>5. SumFunctionOnSet(f, 1..n) = SumFunctionOnSet(g, 1..n)
    BY <2>1, <2>2, SumAlike
  <2>6. SumFunctionOnSet(f, 1..(n + 1)) = f[n + 1] + SumFunctionOnSet(f, 1..n) /\ f[n + 1] \in Int
    BY <2>3, <2>4 DEF SumGrows
  <2> QED BY <2>1, <2>2, <2>5, <2>6 DEF f, g
<1>3. SumFunction(Part(p, n, o.coin)) = 0
  <2> DEFINE g == Part(p, n, o.coin)
  <2>1. \A i \in 1..n : g[i] = 0
    BY <1>1 DEF Part
  <2>2. SumFunction(g) = SumFunctionOnSet(g, 1..n) /\ IsFiniteSet(1..n)
    <3>1. n \in 0..Len(p)
      BY <1>1 DEF n
    <3> QED BY <3>1, PartSum DEF Addable
  <2> HIDE DEF g
  <2> QED BY <2>1, <2>2, SumZero DEF g
<1>4. o.coin \in Coins /\ o.size \in Int /\ \A c : SumFunction(Part(p, n, c)) \in Int
  <2>1. n \in 0..Len(p)
    BY <1>1 DEF n
  <2> QED BY <2>1, PartSum DEF IsOrder
<1>5. HeldAfter(held, p, n)[o.coin] = held[o.coin]
  BY <1>3, <1>4 DEF HeldAfter
<1>6. HeldAfter(held, q, n + 1) = [HeldAfter(held, p, n) EXCEPT ![o.coin] = held[o.coin] + o.size]
  <2>1. ASSUME NEW c \in Coins
        PROVE  held[c] + SumFunction(Part(q, n + 1, c))
                 = IF c = o.coin THEN held[o.coin] + o.size ELSE held[c] + SumFunction(Part(p, n, c))
    BY <1>2, <1>3, <1>4
  <2> QED BY <2>1 DEF HeldAfter
<1> QED BY <1>5, <1>6 DEF q, n, Moved

-----------------------------------------------------------------------------
(* The gross.                                                              *)

LEMMA GrossIs ==
  ASSUME NEW h \in [Coins -> Int]
  PROVE  GrossOf(h) \in Nat /\ \A c \in Coins : AbsOf(h[c]) <= GrossOf(h)
<1> DEFINE f == [c \in DOMAIN h |-> AbsOf(h[c])]
<1>1. \A c \in Coins : f[c] \in Nat /\ f[c] = AbsOf(h[c])
  BY DEF AbsOf
<1>2. DOMAIN f = Coins /\ IsFiniteSet(Coins)
  BY BotAssumption
<1>3. GrossOf(h) = SumFunctionOnSet(f, Coins)
  BY <1>2 DEF GrossOf, SumFunction
<1> HIDE DEF f
<1>4. SumFunctionOnSet(f, Coins) \in Nat /\ \A c \in Coins : f[c] <= SumFunctionOnSet(f, Coins)
  BY <1>1, <1>2, SumBounds
<1> QED BY <1>1, <1>3, <1>4

\* One coin changes.
LEMMA GrossChanges ==
  ASSUME NEW h \in [Coins -> Int], NEW c \in Coins, NEW v \in Int
  PROVE  GrossOf(Moved(h, c, v)) = GrossOf(h) - AbsOf(h[c]) + AbsOf(v)
<1> DEFINE k == [h EXCEPT ![c] = v]
           f == [x \in DOMAIN h |-> AbsOf(h[x])]
           g == [x \in DOMAIN k |-> AbsOf(k[x])]
           R == Coins \ {c}
<1>1. /\ \A x \in Coins : f[x] \in Int /\ g[x] \in Int
      /\ f[c] = AbsOf(h[c]) /\ g[c] = AbsOf(v) /\ \A x \in R : g[x] = f[x]
  BY DEF AbsOf
<1>2. DOMAIN f = Coins /\ DOMAIN g = Coins /\ IsFiniteSet(Coins) /\ IsFiniteSet(R)
  BY BotAssumption, FS_RemoveElement
<1>3. GrossOf(h) = SumFunctionOnSet(f, Coins) /\ GrossOf(k) = SumFunctionOnSet(g, Coins)
  BY <1>2 DEF GrossOf, SumFunction
<1> HIDE DEF f, g, k
<1>4. Addable(f, Coins) /\ Addable(g, Coins) /\ Addable(f, R)
  BY <1>1, <1>2 DEF Addable, R
<1>5. SumTaken(f, Coins, c) /\ SumTaken(g, Coins, c)
  BY <1>4, SumTake
<1>6. SumFunctionOnSet(g, R) = SumFunctionOnSet(f, R) /\ SumFunctionOnSet(f, R) \in Int
  BY <1>1, <1>4, SumAlike, SumType
<1> QED BY <1>1, <1>3, <1>5, <1>6 DEF SumTaken, k, R, Moved

-----------------------------------------------------------------------------
(* The coins of a tick and the order they are served in.                   *)

IsEntry(e) == /\ e.coin \in Coins /\ e.current = follower[e.coin] /\ e.target \in Int
              /\ e.reduces \in BOOLEAN /\ e.signalled \in BOOLEAN
\* No two of them are of the same coin.
AreEntries(entries) == /\ IsFiniteSet(entries) /\ \A e \in entries : IsEntry(e)
                       /\ \A e, f \in entries : e.coin = f.coin => e = f

LEMMA ServedRanks ==
  ASSUME NEW entries, AreEntries(entries)
  PROVE  Ranks({p \in entries \X entries : ServedBefore(p[1], p[2])}, entries)
<1> DEFINE R == {p \in entries \X entries : ServedBefore(p[1], p[2])}
<1>1. \A e \in entries : e.coin \in Nat /\ e.reduces \in BOOLEAN /\ e.signalled \in BOOLEAN
  BY BotAssumption DEF AreEntries, IsEntry
<1>2. \A e, f \in entries : <<e, f>> \in R <=> ServedBefore(e, f)
  OBVIOUS
<1>3. ASSUME NEW e \in entries, NEW f \in entries, e # f PROVE ServedBefore(e, f) \/ ServedBefore(f, e)
  <2>1. e.coin # f.coin
    BY <1>3 DEF AreEntries
  <2>2. e.coin < f.coin \/ f.coin < e.coin
    BY <1>1, <2>1
  <2>3. /\ e.reduces \in BOOLEAN /\ e.signalled \in BOOLEAN
        /\ f.reduces \in BOOLEAN /\ f.signalled \in BOOLEAN
    BY <1>1
  <2> QED BY <2>2, <2>3, Zenon DEF ServedBefore
<1>4. ASSUME NEW e \in entries, NEW f \in entries, NEW g \in entries,
             ServedBefore(e, f), ServedBefore(f, g)
      PROVE  ServedBefore(e, g)
  <2>1. e.coin < f.coin /\ f.coin < g.coin => e.coin < g.coin
    BY <1>1
  <2>2. /\ e.reduces \in BOOLEAN /\ e.signalled \in BOOLEAN
        /\ f.reduces \in BOOLEAN /\ f.signalled \in BOOLEAN
        /\ g.reduces \in BOOLEAN /\ g.signalled \in BOOLEAN
    BY <1>1
  <2> QED BY <1>4, <2>1, <2>2, Zenon DEF ServedBefore
<1> HIDE DEF R
<1> QED BY <1>2, <1>3, <1>4 DEF Ranks, R

LEMMA ServedFirstIs ==
  ASSUME NEW entries, AreEntries(entries), NEW left \in SUBSET entries, left # {}
  PROVE  ServedFirst(left) \in left
<1> DEFINE R == {p \in left \X left : ServedBefore(p[1], p[2])}
<1>1. AreEntries(left)
  BY FS_Subset DEF AreEntries
<1>2. Ranks(R, left)
  BY <1>1, ServedRanks
<1>3. PICK e \in left : IsFirst(e, left, R)
  BY <1>1, <1>2, FirstExists DEF AreEntries
<1>4. \A f \in left \ {e} : ServedBefore(e, f)
  BY <1>3 DEF IsFirst
<1> QED BY <1>4 DEF ServedFirst

-----------------------------------------------------------------------------
(* One coin of the plan.                                                   *)

\* What the orders made so far leave.
MadeTrue(made) ==
  /\ OrdersOf(made.orders) /\ made.gross \in Int
  /\ GrossOf(HeldAfter(follower, made.orders, Len(made.orders))) <= made.gross
  /\ \A n \in 0..Len(made.orders) :
       GrossOf(HeldAfter(follower, made.orders, n)) <= Max({TargetScale, GrossOf(follower)})
OrderedOnly(made, coins) == \A i \in 1..Len(made.orders) : made.orders[i].coin \in coins

LEMMA AboveZero ==
  ASSUME NEW x \in Int
  PROVE  Max({0, x}) \in Nat /\ x <= Max({0, x}) /\ (Max({0, x}) = 0 \/ Max({0, x}) = x)
<1>1. Max({0, x}) \in {0, x} /\ 0 <= Max({0, x}) /\ x <= Max({0, x})
  BY LargerIs
<1> QED BY <1>1

\* The change a coin is planned, and its size.
WantedOf(e) == Within(e.target - e.current, MaxOrder)
Reduces(e) == IsReducing(e.current, WantedOf(e))
DeltaOf(e) == IF Reduces(e) THEN Within(WantedOf(e), AbsOf(e.current)) ELSE WantedOf(e)
SizeOf(e, gross) == IF Reduces(e) THEN AbsOf(DeltaOf(e))
                    ELSE Min({Max({0, TargetScale - gross}), AbsOf(DeltaOf(e))})
MovedTo(e, gross) == e.current + SignOf(DeltaOf(e)) * SizeOf(e, gross)

\* What an order that follows the plan does to a position.
LEMMA OrderMoves ==
  ASSUME NEW e, e.current \in Int, e.target \in Int, NEW gross \in Int
  PROVE  /\ DeltaOf(e) \in Int /\ SizeOf(e, gross) \in Nat /\ SignOf(DeltaOf(e)) \in {-1, 1}
         /\ Reduces(e) => AbsOf(MovedTo(e, gross)) = AbsOf(e.current) - SizeOf(e, gross)
         /\ ~Reduces(e) /\ SizeOf(e, gross) >= MinOrder =>
              /\ AbsOf(MovedTo(e, gross)) <= AbsOf(e.current) + SizeOf(e, gross)
              /\ gross + SizeOf(e, gross) <= TargetScale
<1> DEFINE current == e.current
           wanted == WantedOf(e)
           reduces == Reduces(e)
           delta == DeltaOf(e)
           room == Max({0, TargetScale - gross})
           size == SizeOf(e, gross)
<1>0. /\ wanted = Within(e.target - current, MaxOrder)
      /\ reduces <=> IsReducing(current, wanted)
      /\ reduces => delta = Within(wanted, AbsOf(current)) /\ size = AbsOf(delta)
      /\ ~reduces => delta = wanted /\ size = Min({room, AbsOf(delta)})
      /\ current \in Int /\ e.target \in Int
      /\ MovedTo(e, gross) = current + SignOf(delta) * size
  BY DEF WantedOf, Reduces, DeltaOf, SizeOf, MovedTo
<1> HIDE DEF current, wanted, reduces, delta, room, size
<1>1. MaxOrder \in Nat /\ MinOrder \in Nat \ {0} /\ TargetScale \in Nat
  BY BotAssumption
<1>2. wanted \in Int
  <2>1. e.target - current \in Int
    BY <1>0
  <2> QED BY <1>0, <1>1, <2>1, WithinIs
<1>3. CASE reduces
  <2>1. current # 0 /\ wanted # 0 /\ SignOf(wanted) # SignOf(current)
    BY <1>0, <1>3 DEF IsReducing
  <2>2. delta = Within(wanted, AbsOf(current)) /\ size = AbsOf(delta)
    BY <1>0, <1>3
  <2>3. /\ delta \in Int /\ AbsOf(delta) <= AbsOf(current) /\ delta # 0
        /\ SignOf(delta) = SignOf(wanted)
    <3>1. AbsOf(current) \in Nat /\ AbsOf(current) # 0
      BY <1>0, <2>1 DEF AbsOf
    <3> QED BY <1>2, <2>1, <2>2, <3>1, WithinIs
  <2>4. AbsOf(current + SignOf(delta) * size) = AbsOf(current) - size
    BY <1>0, <2>1, <2>2, <2>3 DEF AbsOf, SignOf
  <2> QED BY <1>0, <1>3, <2>2, <2>3, <2>4 DEF AbsOf, SignOf, current, reduces, delta, size
<1>4. CASE ~reduces
  <2>1. delta = wanted /\ size = Min({room, AbsOf(delta)})
    BY <1>0, <1>4
  <2>2. room \in Nat /\ (room = 0 \/ room = TargetScale - gross)
    BY AboveZero, <1>1 DEF room
  <2>3. AbsOf(delta) \in Nat /\ delta \in Int
    BY <1>2, <2>1 DEF AbsOf
  <2>4. size \in Nat /\ size <= room
    <3> DEFINE whole == AbsOf(delta)
    <3>1. whole \in Int /\ room \in Int
      BY <2>2, <2>3
    <3>3. size = Min({room, whole})
      BY <2>1
    <3> HIDE DEF whole
    <3>2. Min({room, whole}) \in {room, whole} /\ Min({room, whole}) <= room
      BY <3>1, LesserIs, Zenon
    <3> QED BY <2>2, <2>3, <3>2, <3>3 DEF whole
  <2>5. AbsOf(current + SignOf(delta) * size) <= AbsOf(current) + size
    BY <1>0, <2>3, <2>4 DEF AbsOf, SignOf
  <2>6. size >= MinOrder => gross + size <= TargetScale
    BY <1>1, <2>2, <2>4
  <2> QED BY <1>0, <1>4, <2>3, <2>4, <2>5, <2>6 DEF SignOf, current, reduces, delta, size
<1> QED BY <1>3, <1>4

\* A coin after the others.
LEMMA PlannedIsTrue ==
  ASSUME NEW made, MadeTrue(made), NEW e, IsEntry(e), NEW guarded \in BOOLEAN,
         follower \in [Coins -> Int], \A i \in 1..Len(made.orders) : made.orders[i].coin # e.coin
  PROVE  /\ MadeTrue(PlannedCoin(made, e, guarded))
         /\ \A i \in 1..Len(PlannedCoin(made, e, guarded).orders) :
              \/ PlannedCoin(made, e, guarded).orders[i].coin = e.coin
              \/ i \in 1..Len(made.orders) /\ PlannedCoin(made, e, guarded).orders[i] = made.orders[i]
<1> DEFINE reduces == Reduces(e)
           delta == DeltaOf(e)
           size == SizeOf(e, made.gross)
           moved == MovedTo(e, made.gross)
           order == [coin |-> e.coin, size |-> SignOf(delta) * size, reduceOnly |-> reduces,
                     attributions |-> OwnersOfOrder(e.signals, SignOf(delta), e.fallback)]
           gross == ProjectedGross(made.gross, reduces, size)
           result == PlannedCoin(made, e, guarded)
           n == Len(made.orders)
           bound == Max({TargetScale, GrossOf(follower)})
<1>0. SUFFICES /\ MadeTrue(result)
                /\ \A i \in 1..Len(result.orders) :
                     result.orders[i].coin = e.coin \/ (i \in 1..n /\ result.orders[i] = made.orders[i])
  OBVIOUS
<1>1. \/ result = made
      \/ /\ ~(~reduces /\ size < MinOrder)
         /\ result = [gross |-> gross,
                      orders |-> IF guarded /\ ~reduces THEN made.orders ELSE Append(made.orders, order)]
  BY Zenon DEF PlannedCoin, WantedOf, Reduces, DeltaOf, SizeOf
<1>2. /\ e.coin \in Coins /\ e.current \in Int /\ e.current = follower[e.coin] /\ e.target \in Int
      /\ made.gross \in Int /\ OrdersOf(made.orders) /\ n \in Nat
  BY OrdersAre DEF IsEntry, MadeTrue
<1>3. /\ delta \in Int /\ size \in Nat /\ SignOf(delta) \in {-1, 1}
      /\ reduces => AbsOf(moved) = AbsOf(e.current) - size
      /\ ~reduces /\ size >= MinOrder =>
           /\ AbsOf(moved) <= AbsOf(e.current) + size
           /\ made.gross + size <= TargetScale
  BY <1>2, OrderMoves, Zenon
<1>4. /\ order.coin = e.coin /\ order.size = SignOf(delta) * size
      /\ e.current + order.size = moved /\ moved \in Int /\ order.size \in Int
      /\ MinOrder \in Int /\ TargetScale \in Int /\ AbsOf(e.current) \in Int
  BY <1>2, <1>3, BotAssumption DEF AbsOf, MovedTo
<1>5. /\ gross = IF reduces THEN Max({0, made.gross - size}) ELSE made.gross + size
      /\ Max({0, made.gross - size}) \in Nat /\ made.gross - size <= Max({0, made.gross - size})
  <2>1. made.gross - size \in Int
    BY <1>2, <1>3
  <2> QED BY <2>1, AboveZero DEF ProjectedGross
<1>6. /\ bound \in Int /\ TargetScale <= bound
      /\ \A k \in 0..n : GrossOf(HeldAfter(follower, made.orders, k)) <= bound
  <2>1. TargetScale \in Int /\ GrossOf(follower) \in Int
    BY <1>4, GrossIs
  <2> QED BY <2>1, LargerIs DEF MadeTrue
<1> HIDE DEF reduces, delta, size, moved, order, gross, bound, result
<1>7. size < MinOrder \/ size >= MinOrder
  BY <1>3, <1>4
<1>8. CASE result = made
  BY <1>8
<1>9. CASE /\ guarded /\ ~reduces
           /\ result = [gross |-> gross, orders |-> made.orders]
  <2>1. gross \in Int /\ made.gross <= gross
    BY <1>2, <1>3, <1>5, <1>9
  <2>2. GrossOf(HeldAfter(follower, made.orders, n)) \in Int
    <3>1. n \in 0..Len(made.orders)
      BY <1>2
    <3>2. HeldAfter(follower, made.orders, n) \in [Coins -> Int]
      BY <1>2, <3>1, HeldTyped
    <3> QED BY <3>2, GrossIs
  <2>3. GrossOf(HeldAfter(follower, made.orders, n)) <= gross
    BY <1>2, <2>1, <2>2 DEF MadeTrue
  <2>4. result.orders = made.orders /\ result.gross = gross
    BY <1>9
  <2>5. MadeTrue(result)
    BY <1>2, <1>6, <2>1, <2>3, <2>4 DEF MadeTrue, bound
  <2> QED BY <2>4, <2>5
<1>10. CASE /\ reduces \/ size >= MinOrder
            /\ result = [gross |-> gross, orders |-> Append(made.orders, order)]
  <2> DEFINE p == made.orders
             q == Append(p, order)
             before == HeldAfter(follower, p, n)
             after == HeldAfter(follower, q, n + 1)
  <2>1. IsOrder(order)
    BY <1>2, <1>4 DEF IsOrder
  <2>2. /\ OrdersOf(q) /\ Len(q) = n + 1 /\ q[n + 1] = order
        /\ \A i \in 1..n : q[i] = p[i]
    BY <1>2, <2>1, OrdersMore
  <2>3. before \in [Coins -> Int] /\ GrossOf(before) \in Nat
    <3>1. n \in 0..Len(made.orders)
      BY <1>2
    <3>2. before \in [Coins -> Int]
      BY <1>2, <3>1, HeldTyped
    <3> QED BY <3>2, GrossIs
  <2>4. /\ after = Moved(before, e.coin, moved)
        /\ before[e.coin] = e.current
    <3>1. OrdersOf(p) /\ Untouched(p, order.coin)
      BY <1>2, <1>4 DEF Untouched
    <3> HIDE DEF p
    <3>2. /\ HeldAfter(follower, q, Len(p) + 1)
               = Moved(HeldAfter(follower, p, Len(p)), order.coin, follower[order.coin] + order.size)
          /\ HeldAfter(follower, p, Len(p))[order.coin] = follower[order.coin]
      BY <2>1, <3>1, HeldNext
    <3> QED BY <1>2, <1>4, <3>2 DEF p
  <2>5. GrossOf(after) = GrossOf(before) - AbsOf(e.current) + AbsOf(moved)
    <3> HIDE DEF before, after
    <3>1. GrossOf(Moved(before, e.coin, moved)) = GrossOf(before) - AbsOf(before[e.coin]) + AbsOf(moved)
      BY <1>2, <1>4, <2>3, GrossChanges, Zenon
    <3> QED BY <2>4, <3>1, Zenon
  <2>6. GrossOf(before) <= made.gross /\ GrossOf(before) <= bound
    <3>1. n \in 0..n
      BY <1>2
    <3> QED BY <1>6, <3>1 DEF MadeTrue
  <2>7. gross \in Int /\ GrossOf(after) <= gross /\ GrossOf(after) <= bound
    <3> DEFINE far == AbsOf(moved)
               held == AbsOf(e.current)
               g == GrossOf(before)
               cleared == Max({0, made.gross - size})
    <3>1. far \in Int /\ held \in Int /\ g \in Nat /\ size \in Nat /\ made.gross \in Int
      BY <1>2, <1>3, <1>4, <2>3 DEF AbsOf
    <3>2. reduces => far = held - size /\ gross = cleared
      BY <1>3, <1>5
    <3>3. ~reduces => far <= held + size /\ gross = made.gross + size /\ made.gross + size <= TargetScale
      BY <1>3, <1>5, <1>10
    <3>4. cleared \in Nat /\ made.gross - size <= cleared /\ bound \in Int /\ TargetScale \in Int
          /\ TargetScale <= bound /\ g <= made.gross /\ g <= bound /\ GrossOf(after) = g - held + far
      BY <1>4, <1>5, <1>6, <2>5, <2>6
    <3> HIDE DEF far, held, g, cleared, before, after
    <3> QED BY <3>1, <3>2, <3>3, <3>4
  <2>8. ASSUME NEW k \in 0..(n + 1) PROVE GrossOf(HeldAfter(follower, q, k)) <= bound
    <3>1. CASE k = n + 1
      BY <2>7, <3>1
    <3>2. CASE k # n + 1
      <4>1. k \in 0..n
        BY <1>2, <3>2
      <4>2. HeldAfter(follower, q, k) = HeldAfter(follower, p, k)
        BY <1>2, <2>1, <4>1, HeldBefore
      <4> QED BY <1>6, <4>1, <4>2
    <3> QED BY <3>1, <3>2
  <2>9. result.orders = q /\ result.gross = gross
    BY <1>10
  <2> HIDE DEF q
  <2>10. MadeTrue(result)
    BY <2>2, <2>7, <2>8, <2>9 DEF MadeTrue, bound
  <2>11. ASSUME NEW i \in 1..Len(result.orders)
         PROVE  result.orders[i].coin = e.coin \/ (i \in 1..n /\ result.orders[i] = made.orders[i])
    <3>1. i = n + 1 \/ i \in 1..n
      BY <1>2, <2>2, <2>9
    <3> QED BY <1>4, <2>2, <2>9, <3>1
  <2> QED BY <2>10, <2>11
<1>11. result = made \/ (guarded /\ ~reduces /\ result = [gross |-> gross, orders |-> made.orders])
       \/ ((reduces \/ size >= MinOrder) /\ result = [gross |-> gross, orders |-> Append(made.orders, order)])
  BY <1>1, <1>7
<1> QED BY <1>8, <1>9, <1>10, <1>11

-----------------------------------------------------------------------------
(* The coins one after the other.                                          *)

\* F holds the plan and the coins left after each of the first m coins.
WalkStart(entries) == [made |-> [gross |-> GrossOf(follower), orders |-> <<>>], left |-> entries]
WalkStep(x, guarded) ==
  LET e == ServedFirst(x.left)
  IN  [made |-> PlannedCoin(x.made, e, guarded), left |-> x.left \ {e}]
WalkOf(F, entries, guarded, m) ==
  F = [n \in 0..m |-> IF n = 0 THEN WalkStart(entries) ELSE WalkStep(F[n - 1], guarded)]

LEMMA WalkExists ==
  ASSUME NEW entries, NEW guarded, NEW m \in Nat
  PROVE  \E F : WalkOf(F, entries, guarded, m)
<1> DEFINE S == {n \in Nat : \E F : WalkOf(F, entries, guarded, n)}
<1>1. 0 \in S
  <2>1. WalkOf([n \in 0..0 |-> WalkStart(entries)], entries, guarded, 0)
    BY DEF WalkOf
  <2> QED BY <2>1
<1>2. ASSUME NEW n \in Nat, n \in S PROVE n + 1 \in S
  <2>1. PICK F : WalkOf(F, entries, guarded, n)
    BY <1>2
  <2>2. \A k \in 0..n : F[k] = IF k = 0 THEN WalkStart(entries) ELSE WalkStep(F[k - 1], guarded)
    BY <2>1 DEF WalkOf
  <2> DEFINE G == [k \in 0..(n + 1) |-> IF k \in 0..n THEN F[k] ELSE WalkStep(F[n], guarded)]
  <2>3. \A k \in 0..n : G[k] = F[k]
    OBVIOUS
  <2>4. G[n + 1] = WalkStep(F[n], guarded)
    OBVIOUS
  <2>5. ASSUME NEW k \in 0..(n + 1)
        PROVE  G[k] = IF k = 0 THEN WalkStart(entries) ELSE WalkStep(G[k - 1], guarded)
    <3>1. CASE k = n + 1
      BY <2>3, <2>4, <3>1
    <3>2. CASE k \in 0..n
      <4>1. k = 0 \/ k - 1 \in 0..n
        BY <3>2
      <4> QED BY <2>2, <2>3, <3>2, <4>1
    <3> QED BY <3>1, <3>2
  <2>6. G = [k \in 0..(n + 1) |-> IF k = 0 THEN WalkStart(entries) ELSE WalkStep(G[k - 1], guarded)]
    BY <2>5
  <2>7. WalkOf(G, entries, guarded, n + 1)
    BY <2>6, Zenon DEF WalkOf
  <2> QED BY <2>7
<1> HIDE DEF S
<1>3. Nat \subseteq S
  BY <1>1, <1>2, SetInduction
<1> QED BY <1>3 DEF S

\* The coins left are not yet planned.
WalkTrue(x, entries) ==
  /\ MadeTrue(x.made) /\ x.left \in SUBSET entries
  /\ \A i \in 1..Len(x.made.orders) : \A e \in x.left : x.made.orders[i].coin # e.coin

LEMMA WalkStarts ==
  ASSUME NEW entries, follower \in [Coins -> Int]
  PROVE  WalkTrue(WalkStart(entries), entries)
<1> DEFINE bound == Max({TargetScale, GrossOf(follower)})
<1>1. OrdersOf(<<>>) /\ Len(<<>>) = 0
  BY NoOrders, EmptySeq
<1>2. GrossOf(follower) \in Int /\ GrossOf(follower) <= bound
  <2>1. TargetScale \in Int /\ GrossOf(follower) \in Int
    BY BotAssumption, GrossIs
  <2> QED BY <2>1, LargerIs
<1>3. HeldAfter(follower, <<>>, 0) = follower
  BY HeldAtFirst
<1> HIDE DEF bound
<1>4. MadeTrue([gross |-> GrossOf(follower), orders |-> <<>>])
  BY <1>1, <1>2, <1>3 DEF MadeTrue, bound
<1> QED BY <1>1, <1>4 DEF WalkTrue, WalkStart

LEMMA WalkGoesOn ==
  ASSUME NEW entries, AreEntries(entries), NEW guarded \in BOOLEAN, follower \in [Coins -> Int],
         NEW x, WalkTrue(x, entries), x.left # {}
  PROVE  /\ WalkTrue(WalkStep(x, guarded), entries)
         /\ Cardinality(WalkStep(x, guarded).left) = Cardinality(x.left) - 1
<1> DEFINE e == ServedFirst(x.left)
           made == PlannedCoin(x.made, e, guarded)
           y == [made |-> made, left |-> x.left \ {e}]
<1>1. x.left \in SUBSET entries /\ MadeTrue(x.made)
      /\ \A i \in 1..Len(x.made.orders) : \A f \in x.left : x.made.orders[i].coin # f.coin
  BY DEF WalkTrue
<1>2. e \in x.left /\ e \in entries
  BY <1>1, ServedFirstIs
<1> HIDE DEF e
<1>3. /\ MadeTrue(made)
      /\ \A i \in 1..Len(made.orders) :
           made.orders[i].coin = e.coin \/ (i \in 1..Len(x.made.orders) /\ made.orders[i] = x.made.orders[i])
  <2>1. IsEntry(e) /\ \A i \in 1..Len(x.made.orders) : x.made.orders[i].coin # e.coin
    BY <1>1, <1>2 DEF AreEntries
  <2> QED BY <1>1, <2>1, PlannedIsTrue
<1> HIDE DEF made
<1>4. ASSUME NEW i \in 1..Len(made.orders), NEW f \in x.left \ {e} PROVE made.orders[i].coin # f.coin
  <2>1. f.coin # e.coin
    BY <1>1, <1>2 DEF AreEntries
  <2> QED BY <1>1, <1>3, <2>1
<1>5. WalkTrue(y, entries)
  BY <1>1, <1>3, <1>4 DEF WalkTrue
<1>6. Cardinality(x.left \ {e}) = Cardinality(x.left) - 1
  BY <1>1, <1>2, FS_Subset, FS_RemoveElement DEF AreEntries
<1>7. WalkStep(x, guarded) = y
  BY Zenon DEF WalkStep, e, made
<1> QED BY <1>5, <1>6, <1>7

\* What the orders of a tick leave, as far as they have filled.
LEMMA PlanIsTrue ==
  ASSUME NEW signalsOf, NEW depth, NEW guarded \in BOOLEAN, follower \in [Coins -> Int],
         AreEntries(PlanEntries(signalsOf, depth))
  PROVE  \E made : MadeTrue(made) /\ PlanOrders(signalsOf, depth, guarded) = made.orders
<1> DEFINE entries == PlanEntries(signalsOf, depth)
           m == Cardinality(entries)
           F == CHOOSE G : WalkOf(G, entries, guarded, m)
<1>1. m \in Nat
  BY FS_CardinalityType DEF AreEntries
<1>2. WalkOf(F, entries, guarded, m)
  BY <1>1, WalkExists
<1>3. PlanOrders(signalsOf, depth, guarded) = F[m].made.orders
  BY Zenon DEF PlanOrders, WalkOf, WalkStart, WalkStep
<1> HIDE DEF F, m, entries
<1>4. \A n \in 0..m : F[n] = IF n = 0 THEN WalkStart(entries) ELSE WalkStep(F[n - 1], guarded)
  BY <1>2 DEF WalkOf
<1> DEFINE S == {n \in Nat : n <= m => WalkTrue(F[n], entries) /\ Cardinality(F[n].left) = m - n}
<1>5. 0 \in S
  <2>1. F[0] = WalkStart(entries)
    BY <1>1, <1>4
  <2>2. WalkTrue(F[0], entries) /\ F[0].left = entries
    BY <2>1, WalkStarts DEF WalkStart
  <2> QED BY <1>1, <2>2 DEF m
<1>6. ASSUME NEW n \in Nat, n \in S PROVE n + 1 \in S
  <2>1. SUFFICES ASSUME n + 1 <= m
        PROVE  WalkTrue(F[n + 1], entries) /\ Cardinality(F[n + 1].left) = m - (n + 1)
    OBVIOUS
  <2>2. WalkTrue(F[n], entries) /\ Cardinality(F[n].left) = m - n
    BY <1>1, <1>6, <2>1
  <2>3. F[n + 1] = WalkStep(F[n], guarded)
    BY <1>1, <1>4, <2>1
  <2>4. F[n].left # {}
    <3>1. Cardinality({}) = 0 /\ m - n # 0
      BY <1>1, <2>1, FS_EmptySet
    <3> QED BY <2>2, <3>1
  <2>5. /\ WalkTrue(F[n + 1], entries)
        /\ Cardinality(F[n + 1].left) = Cardinality(F[n].left) - 1
    BY <2>2, <2>3, <2>4, WalkGoesOn DEF entries
  <2> QED BY <1>1, <2>2, <2>5
<1> HIDE DEF S
<1>7. Nat \subseteq S
  BY <1>5, <1>6, SetInduction
<1>8. WalkTrue(F[m], entries)
  BY <1>1, <1>7 DEF S
<1> QED BY <1>3, <1>8 DEF WalkTrue

-----------------------------------------------------------------------------
(* What the traders show is of numbers.                                    *)

LEMMA TargetTyped ==
  ASSUME BotInv, NEW shown \in Books, NEW vetted \in Vettings, NEW c \in Coins, NEW depth \in Depths
  PROVE  TargetOf(Signals(shown, vetted, ledger, c), depth) \in Int
<1> DEFINE D == {v \in vetted : shown[v][c] # 0}
           s == Signals(shown, vetted, ledger, c)
           size(t) == Known(ledger.traders, t).modifier
           f == [t \in DOMAIN s |-> s[t].sign * s[t].size]
           share == Max({1, Cardinality(D)})
           cap == Min({AssetCap, depth \div share})
<1>1. IsFiniteSet(D) /\ Cardinality(D) \in Nat
  <2>1. IsFiniteSet(Traders) /\ D \in SUBSET Traders
    BY BotAssumption
  <2> QED BY <2>1, FS_Subset, FS_CardinalityType
<1>2. ASSUME NEW t \in D PROVE shown[t][c] \in -1..1 /\ size(t) \in 0..2
  <2>1. t \in Traders /\ shown \in [Traders -> [Coins -> -1..1]]
    BY BotAssumption
  <2>2. size(t) \in 0..2
    BY DEF BotInv, LedgerTrue, IsTrader, Known, NewTrader
  <2> QED BY <2>1, <2>2
<1>3. s = [t \in D |-> [sign |-> shown[t][c], size |-> size(t)]]
  BY DEF Signals
<1> HIDE DEF s, size
<1>4. DOMAIN s = D /\ \A t \in D : s[t].sign = shown[t][c] /\ s[t].size = size(t)
  BY <1>3
<1>5. DOMAIN f = D /\ \A t \in D : f[t] \in Int
  <2>1. ASSUME NEW t \in D PROVE shown[t][c] * size(t) \in Int
    BY <1>2
  <2> QED BY <1>4, <2>1
<1>6. SumOf(s) = SumFunctionOnSet(f, D)
  BY <1>5 DEF SumOf, SumFunction
<1> HIDE DEF f, D
<1>7. SumOf(s) \in Int
  BY <1>1, <1>5, <1>6, SumType DEF Addable
<1>8. cap \in Nat
  <2>1. share \in Nat /\ share >= 1
    <3>1. 1 \in Int /\ Cardinality(D) \in Int
      BY <1>1
    <3>2. share \in {1, Cardinality(D)} /\ 1 <= share
      BY <3>1, LargerIs
    <3> QED BY <1>1, <3>2
  <2> HIDE DEF share
  <2>2. depth \div share \in Nat /\ AssetCap \in Nat
    BY <2>1, BotAssumption
  <2> DEFINE part == depth \div share
  <2> HIDE DEF part
  <2>3. Min({AssetCap, part}) \in {AssetCap, part}
    <3>1. AssetCap \in Int /\ part \in Int
      BY <2>2 DEF part
    <3> QED BY <3>1, LesserIs
  <2> QED BY <2>2, <2>3 DEF part
<1>9. CapacityOf(s, depth) = cap
  BY <1>4 DEF CapacityOf
<1> HIDE DEF cap
<1>10. (TargetScale * Within(SumOf(s), 2)) \div 2 \in Int
  <2>1. Within(SumOf(s), 2) \in Int /\ TargetScale \in Int
    BY <1>7, WithinIs, BotAssumption
  <2>2. TargetScale * Within(SumOf(s), 2) \in Int
    BY <2>1
  <2> QED BY <2>2
<1>11. TargetOf(s, depth) \in Int
  BY <1>8, <1>9, <1>10, WithinIs DEF TargetOf
<1> QED BY <1>11 DEF s

LEMMA EntriesAre ==
  ASSUME BotInv, follower \in [Coins -> Int],
         NEW shown \in Books, NEW vetted \in Vettings, NEW depth \in Depths,
         NEW signalsOf, signalsOf = [c \in Coins |-> Signals(shown, vetted, ledger, c)]
  PROVE  AreEntries(PlanEntries(signalsOf, depth))
<1> DEFINE K == {d \in Coins : follower[d] # 0 \/ DOMAIN signalsOf[d] # {}}
           entry(c) == PlanEntry(signalsOf, depth, c)
<1>1. PlanEntries(signalsOf, depth) = {entry(c) : c \in K}
  BY DEF PlanEntries
<1>2. IsFiniteSet({entry(c) : c \in K})
  <2>1. IsFiniteSet(K)
    BY BotAssumption, FS_Subset
  <2> HIDE DEF K, entry
  <2> DEFINE T == {entry(c) : c \in K}
             f == [c \in K |-> entry(c)]
  <2>2. f \in Surjection(K, T)
    BY DEF Surjection
  <2> HIDE DEF T, f
  <2>3. IsFiniteSet(T)
    BY <2>1, <2>2, FS_Surjection
  <2> QED BY <2>3 DEF T
<1>3. ASSUME NEW c \in Coins PROVE IsEntry(entry(c)) /\ entry(c).coin = c
  <2>1. TargetOf(signalsOf[c], depth) \in Int
    BY TargetTyped
  <2>2. /\ entry(c).coin = c /\ entry(c).target = TargetOf(signalsOf[c], depth)
        /\ entry(c).current = follower[c]
        /\ entry(c).signalled = (DOMAIN signalsOf[c] # {})
        /\ entry(c).reduces = IsReducing(follower[c], TargetOf(signalsOf[c], depth) - follower[c])
    BY DEF PlanEntry
  <2>3. entry(c).signalled \in BOOLEAN /\ entry(c).reduces \in BOOLEAN
    BY <2>2 DEF IsReducing
  <2> QED BY <2>1, <2>2, <2>3 DEF IsEntry
<1> HIDE DEF entry
<1>4. \A e \in PlanEntries(signalsOf, depth) : \E c \in Coins : e = entry(c)
  BY <1>1
<1>5. \A e \in PlanEntries(signalsOf, depth) : IsEntry(e) /\ e = entry(e.coin)
  BY <1>3, <1>4
<1> QED BY <1>1, <1>2, <1>5 DEF AreEntries

-----------------------------------------------------------------------------
(* The positions and the orders are of numbers.                            *)

BotTyped ==
  /\ account \in [Coins -> Int] /\ follower \in [Coins -> Int] /\ OrdersOf(plan)
  /\ botPhase = "Recorded" => plan # <<>>
  /\ \A cloid \in DOMAIN travelling : IsOrder(travelling[cloid])

LEMMA BotTypedFirst ==
  ASSUME BotInit
  PROVE  BotTyped
BY NoOrders DEF BotInit, BotTyped

\* An execution changes a position by a number.
LEMMA ExecuteTyped ==
  ASSUME BotTyped, ExecuteOrder
  PROVE  BotTyped'
<1> DEFINE openOf(c) == IF ~travelling[c].reduceOnly THEN travelling[c].size
                        ELSE IF IsReducing(account[travelling[c].coin], travelling[c].size)
                             THEN Within(travelling[c].size, AbsOf(account[travelling[c].coin])) ELSE 0
           filledOf(c, parts) ==
             SumFunction([i \in DOMAIN parts |->
               [cloid |-> c, time |-> botClock, size |-> (openOf(c) * parts[i]) \div 2,
                closes |-> IsReducing(account[travelling[c].coin], travelling[c].size)].size])
<1>1. PICK cloid \in DOMAIN travelling, parts \in {<<>>, <<2>>, <<1, 1>>} :
        /\ account' = [account EXCEPT ![travelling[cloid].coin] =
                         account[travelling[cloid].coin] + filledOf(cloid, parts)]
        /\ travelling' = Restrict(travelling, DOMAIN travelling \ {cloid})
        /\ UNCHANGED <<botPhase, follower, plan>>
  BY DEF ExecuteOrder
<1> DEFINE f == [i \in DOMAIN parts |->
               [cloid |-> cloid, time |-> botClock, size |-> (openOf(cloid) * parts[i]) \div 2,
                closes |-> IsReducing(account[travelling[cloid].coin], travelling[cloid].size)].size]
           coin == travelling[cloid].coin
<1>2. IsOrder(travelling[cloid]) /\ account \in [Coins -> Int]
  BY DEF BotTyped
<1>3. openOf(cloid) \in Int
  <2>1. AbsOf(account[coin]) \in Nat
    BY <1>2 DEF IsOrder, AbsOf
  <2>2. travelling[cloid].size \in Int
    BY <1>2 DEF IsOrder
  <2>3. Within(travelling[cloid].size, AbsOf(account[coin])) \in Int
    BY <2>1, <2>2, WithinIs
  <2>4. openOf(cloid) \in {travelling[cloid].size, Within(travelling[cloid].size, AbsOf(account[coin])), 0}
    BY Zenon
  <2> QED BY <2>2, <2>3, <2>4
<1> HIDE DEF openOf
<1>4. IsFiniteSet(DOMAIN parts) /\ \A i \in DOMAIN parts : parts[i] \in Int
  <2>1. parts = <<>> \/ parts = <<2>> \/ parts = <<1, 1>>
    OBVIOUS
  <2>2. DOMAIN <<>> = 1..0 /\ DOMAIN <<2>> = 1..1 /\ DOMAIN <<1, 1>> = 1..2
    OBVIOUS
  <2>3. \A n \in {0, 1, 2} : IsFiniteSet(1..n)
    BY FS_Interval
  <2> QED BY <2>1, <2>2, <2>3
<1>5. ASSUME NEW i \in DOMAIN parts PROVE f[i] \in Int
  <2>1. (openOf(cloid) * parts[i]) \div 2 \in Int
    <3>1. openOf(cloid) * parts[i] \in Int
      BY <1>3, <1>4
    <3> QED BY <3>1
  <2> QED BY <2>1
<1>6. DOMAIN f = DOMAIN parts /\ filledOf(cloid, parts) = SumFunction(f)
  OBVIOUS
<1> HIDE DEF f, filledOf
<1>7. filledOf(cloid, parts) \in Int
  BY <1>4, <1>5, <1>6, SumType DEF Addable, SumFunction
<1>8. account' \in [Coins -> Int]
  <2>1. coin \in Coins /\ account[coin] + filledOf(cloid, parts) \in Int
    BY <1>2, <1>7 DEF IsOrder
  <2> QED BY <1>1, <1>2, <2>1
<1>9. \A c \in DOMAIN travelling' : IsOrder(travelling'[c])
  <2>1. \A c \in DOMAIN travelling' : c \in DOMAIN travelling /\ travelling'[c] = travelling[c]
    BY <1>1 DEF Restrict
  <2> QED BY <2>1 DEF BotTyped
<1> QED BY <1>1, <1>8, <1>9 DEF BotTyped, IsOrder

\* The plan of a tick is of orders.
LEMMA PlanTyped ==
  ASSUME BotInv, BotTyped, PlanTick
  PROVE  \E made : MadeTrue(made) /\ plan' = made.orders
<1>1. PICK shown \in Books, vetted \in Vettings, depth \in Depths, guarded \in BOOLEAN :
        plan' = PlanOrders([c \in Coins |-> Signals(shown, vetted, ledger, c)], depth, guarded)
  BY DEF PlanTick
<1> DEFINE signalsOf == [c \in Coins |-> Signals(shown, vetted, ledger, c)]
<1>2. signalsOf = [c \in Coins |-> Signals(shown, vetted, ledger, c)]
  OBVIOUS
<1>3. plan' = PlanOrders(signalsOf, depth, guarded)
  BY <1>1
<1> HIDE DEF signalsOf
<1>4. AreEntries(PlanEntries(signalsOf, depth))
  BY <1>2, EntriesAre DEF BotTyped
<1> QED BY <1>3, <1>4, PlanIsTrue DEF BotTyped

\* Every action keeps them so.
LEMMA BotTypedKept ==
  ASSUME BotInv, BotTyped, [BotNext]_botVars
  PROVE  BotTyped'
<1> DEFINE zero == [c \in Coins |-> 0]
<1>0. zero \in [Coins -> Int] /\ OrdersOf(<<>>)
  BY NoOrders
<1> HIDE DEF zero
<1>1. CASE ReadAccount
  BY <1>1 DEF ReadAccount, BotTyped
<1>2. CASE ReconcileFills
  <2>1. botPhase' \in {"Reconciled", "Down"} /\ UNCHANGED <<account, travelling, follower, plan>>
    BY <1>2 DEF ReconcileFills, Saved
  <2> QED BY <2>1 DEF BotTyped
<1>3. CASE PruneLedger
  <2>1. botPhase' \in {"Pruned", "Down"} /\ UNCHANGED <<account, travelling, follower, plan>>
    BY <1>3 DEF PruneLedger, Saved
  <2> QED BY <2>1 DEF BotTyped
<1>4. CASE PlanTick
  <2>1. botPhase' \in {"Ordering", "Down"} /\ UNCHANGED <<account, travelling, follower>>
    BY <1>4 DEF PlanTick, Saved
  <2>2. OrdersOf(plan')
    BY <1>4, PlanTyped DEF MadeTrue
  <2> QED BY <2>1, <2>2 DEF BotTyped
<1>5. CASE RecordOrder
  <2>1. plan # <<>> /\ UNCHANGED <<account, travelling, follower, plan>>
    BY <1>5 DEF RecordOrder
  <2> QED BY <2>1 DEF BotTyped
<1>6. CASE SendOrder
  <2>1. /\ botPhase = "Recorded" /\ botPhase' = "Sent" /\ plan' = Tail(plan)
        /\ travelling' = Updated(travelling, [c \in {lastCloid} |-> Head(plan)])
        /\ UNCHANGED <<account, follower>>
    BY <1>6 DEF SendOrder
  <2>2. IsOrder(Head(plan)) /\ OrdersOf(Tail(plan))
    BY <2>1, OrdersAre DEF BotTyped
  <2>3. ASSUME NEW c \in DOMAIN travelling' PROVE IsOrder(travelling'[c])
    <3>1. travelling'[c] = Head(plan) \/ (c \in DOMAIN travelling /\ travelling'[c] = travelling[c])
      BY <2>1 DEF Updated
    <3> QED BY <2>2, <3>1 DEF BotTyped
  <2> QED BY <2>1, <2>2, <2>3 DEF BotTyped, IsOrder
<1>7. CASE OrderAnswered
  <2>1. botPhase' \in {"Ordering", "Down"} /\ UNCHANGED <<account, travelling, follower, plan>>
    BY <1>7 DEF OrderAnswered, Saved
  <2> QED BY <2>1 DEF BotTyped
<1>8. ASSUME Ended, UNCHANGED <<account, travelling>> PROVE BotTyped'
  BY <1>0, <1>8 DEF Ended, BotTyped, zero
<1>9. CASE OrderTimesOut
  BY <1>8, <1>9 DEF OrderTimesOut
<1>10. CASE EndTick
  <2>1. botPhase' = "Idle" /\ follower' = zero /\ UNCHANGED <<account, travelling, plan>>
    BY <1>10 DEF EndTick, zero
  <2> QED BY <1>0, <2>1 DEF BotTyped
<1>11. CASE StartBot
  BY <1>0, <1>11 DEF StartBot, BotTyped
<1>12. CASE BotCrash
  BY <1>8, <1>12 DEF BotCrash
<1>13. CASE ExecuteOrder
  BY <1>13, ExecuteTyped
<1>14. CASE BotTick
  BY <1>14 DEF BotTick, BotTyped
<1>15. CASE UNCHANGED botVars
  BY <1>15 DEF botVars, BotTyped
<1> QED
  BY <1>1, <1>2, <1>3, <1>4, <1>5, <1>6, <1>7, <1>9, <1>10, <1>11, <1>12, <1>13, <1>14, <1>15 DEF BotNext

\* Nothing but the planning of a tick leads from a pruned ledger to orders.
LEMMA OnlyPlans ==
  ASSUME BotNext, botPhase = "Pruned", botPhase' = "Ordering"
  PROVE  PlanTick
<1>1. ~ReadAccount /\ ~ReconcileFills /\ ~PruneLedger
  BY DEF ReadAccount, ReconcileFills, PruneLedger
<1>2. ~RecordOrder /\ ~SendOrder /\ ~OrderAnswered /\ ~OrderTimesOut
  BY DEF RecordOrder, SendOrder, OrderAnswered, OrderTimesOut
<1>3. ~EndTick /\ ~StartBot /\ ~BotCrash /\ ~BotTick
  BY DEF EndTick, StartBot, BotCrash, Ended, BotTick
<1>4. ~ExecuteOrder
  BY DEF ExecuteOrder
<1> QED BY <1>1, <1>2, <1>3, <1>4 DEF BotNext

\* Where every order fills as planned, no prefix of a plan takes the gross
\* above its cap or above what was held: for any traders, coins, books, depths,
\* bounds and crashes (plan_orders).
THEOREM EveryPrefixKept == BotSpec => EveryPrefixKeepsTheCap
<1> DEFINE PlanKept ==
      botPhase = "Pruned" /\ botPhase' = "Ordering" =>
        \A n \in 0..Len(plan') :
          LET held(c) == follower[c] + SumFunction([i \in 1..n |-> IF plan'[i].coin = c THEN plan'[i].size ELSE 0])
          IN  GrossOf([c \in Coins |-> held(c)]) <= Max({TargetScale, GrossOf(follower)})
<1>1. ASSUME BotInv, BotTyped, [BotNext]_botVars PROVE [PlanKept]_botVars
  <2>1. CASE UNCHANGED botVars
    BY <2>1
  <2>2. CASE BotNext
    <3>1. SUFFICES ASSUME botPhase = "Pruned", botPhase' = "Ordering", NEW n \in 0..Len(plan')
          PROVE  GrossOf(HeldAfter(follower, plan', n)) <= Max({TargetScale, GrossOf(follower)})
      BY DEF HeldAfter, Part
    <3>2. PlanTick
      BY <2>2, <3>1, OnlyPlans
    <3>3. PICK made : MadeTrue(made) /\ plan' = made.orders
      BY <1>1, <3>2, PlanTyped
    <3> QED BY <3>1, <3>3 DEF MadeTrue
  <2> QED BY <1>1, <2>1, <2>2
<1>2. BotInit => BotInv /\ BotTyped
  BY BotStarts, BotTypedFirst
<1>3. BotInv /\ BotTyped /\ [BotNext]_botVars => (BotInv /\ BotTyped)'
  BY BotKeeps, BotTypedKept
<1> QED BY <1>1, <1>2, <1>3, PTL DEF BotSpec, EveryPrefixKeepsTheCap, PlanKept
=============================================================================
