------------------------------- MODULE StateRoot -------------------------------
(* The directory in which the observer keeps its unsigned state              *)
(* (state_root.rs, persist_unsigned_state): a snapshot and a marker, each    *)
(* written to a temporary file, renamed, and made durable by a sync of the   *)
(* directory.  The process may stop, and the machine may fail, between any   *)
(* two steps; what was not synced may or may not survive a failure of the    *)
(* machine, name by name.  A write that fails ends the process.              *)
(*                                                                           *)
(* The lock of the directory is held for the life of a process: there is one *)
(* process.  Its identity, which the files repeat, does not change.          *)
EXTENDS Integers, Sequences

CONSTANTS
  MaxSaves,           \* bound on the generations
  MaxStops            \* bound on the stops of the process and of the machine

ASSUME RootAssumption == MaxSaves \in Nat /\ MaxStops \in Nat

VARIABLES
  cached,             \* the directory as a process sees it
  durable,            \* the directory as of its last sync
  rootPc,             \* where the process is
  saving,             \* the files still to be written
  generation,         \* snapshot_generation of the engine, None before the first
  markerGeneration,             \* the generation of the marker in memory
  returned,           \* history: the generation of the last save that returned
  stops,              \* stops so far
  refusal             \* why the last start was refused, or "no"

rootVars == <<cached, durable, rootPc, saving, generation, markerGeneration, returned, stops, refusal>>

None == -1
Names == {"snapshot", "marker", "snapshot.tmp", "marker.tmp"}
Temporary(file) == IF file = "snapshot" THEN "snapshot.tmp" ELSE "marker.tmp"

\* A name with None is not in the directory.
RootTypeOK ==
  /\ cached \in [Names -> None..MaxSaves] /\ durable \in [Names -> None..MaxSaves]
  /\ rootPc \in {"down", "running", "write", "rename", "sync"}
  /\ generation \in None..MaxSaves /\ markerGeneration \in None..MaxSaves /\ returned \in None..MaxSaves
  /\ stops \in 0..MaxStops

RootInit ==
  /\ cached = [n \in Names |-> None] /\ durable = cached
  /\ rootPc = "down" /\ saving = <<>>
  /\ generation = None /\ markerGeneration = None /\ returned = None
  /\ stops = 0 /\ refusal = "no"

-----------------------------------------------------------------------------
\* The files of a save, in the order they are written.
SavedFiles == <<"snapshot", "marker">>

\* Fault: a rename is taken to be durable at once.
UnsyncedDirectory(seen, before) == before

\* sync_directory: what is durable afterwards.
SyncedDirectory(seen, before) == seen

\* UnsignedStateRoot::acquire: what is left of an unfinished save may only be
\* removed beside a complete pair, and a pair must be complete.
AcquireRefusal ==
  LET has(n) == cached[n] # None
      temporaries == has("snapshot.tmp") \/ has("marker.tmp")
  IN  CASE temporaries /\ ~(has("marker") /\ has("snapshot")) -> "Uncommitted"
        [] ~temporaries /\ has("marker") /\ ~has("snapshot") -> "MarkerAlone"
        [] ~temporaries /\ ~has("marker") /\ has("snapshot") -> "SnapshotAlone"
        [] OTHER -> "no"

\* acquire, startup, and the first step of initialize or restore.
Start ==
  LET cleaned == [cached EXCEPT !["snapshot.tmp"] = None, !["marker.tmp"] = None]
      rollback == cached["snapshot"] < cached["marker"]
  IN  /\ rootPc = "down" /\ refusal = "no"
      /\ \/ /\ AcquireRefusal # "no"
            /\ refusal' = AcquireRefusal
            /\ UNCHANGED <<cached, durable, rootPc, saving, generation, markerGeneration>>
         \/ /\ AcquireRefusal = "no" /\ cached["marker"] = None
            /\ rootPc' = "write" /\ saving' = SavedFiles
            /\ UNCHANGED <<cached, durable, generation, markerGeneration, refusal>>
         \/ /\ AcquireRefusal = "no" /\ cached["marker"] # None
            /\ cached' = cleaned /\ durable' = SyncedDirectory(cleaned, durable)
            /\ refusal' = IF rollback THEN "Rollback" ELSE "no"
            /\ generation' = IF rollback THEN generation ELSE cached["snapshot"]
            /\ markerGeneration' = cached["marker"]
            /\ saving' = IF cached["snapshot"] > cached["marker"] THEN <<"marker">> ELSE <<>>
            /\ rootPc' = IF rollback THEN "down"
                         ELSE IF saving' = <<>> THEN "running" ELSE "write"
      /\ UNCHANGED <<returned, stops>>

\* persist: the next generation.
Save ==
  /\ rootPc = "running" /\ generation < MaxSaves
  /\ saving' = SavedFiles /\ rootPc' = "write"
  /\ UNCHANGED <<cached, durable, generation, markerGeneration, returned, stops, refusal>>

\* The generation a file is written with: the snapshot's is one more than the
\* last, the marker's the one of the snapshot.
Written(file) == IF file = "snapshot" THEN generation + 1
                 ELSE IF Len(saving) = 2 THEN generation + 1 ELSE generation

\* The temporary file is created, written and synced.
WriteFile ==
  /\ rootPc = "write"
  /\ cached' = [cached EXCEPT ![Temporary(Head(saving))] = Written(Head(saving))]
  /\ rootPc' = "rename"
  /\ UNCHANGED <<durable, saving, generation, markerGeneration, returned, stops, refusal>>

RenameFile ==
  LET file == Head(saving) IN
  /\ rootPc = "rename"
  /\ cached' = [cached EXCEPT ![file] = cached[Temporary(file)], ![Temporary(file)] = None]
  /\ rootPc' = "sync"
  /\ UNCHANGED <<durable, saving, generation, markerGeneration, returned, stops, refusal>>

\* The directory is synced, and memory follows; the save returns after the
\* last file.
SyncFile ==
  LET file == Head(saving) IN
  /\ rootPc = "sync"
  /\ durable' = SyncedDirectory(cached, durable)
  /\ generation' = IF file = "snapshot" THEN cached["snapshot"] ELSE generation
  /\ markerGeneration' = IF file = "marker" THEN cached["marker"] ELSE markerGeneration
  /\ saving' = Tail(saving)
  /\ rootPc' = IF saving' = <<>> THEN "running" ELSE "write"
  /\ returned' = IF saving' = <<>> THEN generation' ELSE returned
  /\ UNCHANGED <<cached, stops, refusal>>

\* The process stops.
Stop ==
  /\ stops < MaxStops /\ rootPc # "down"
  /\ stops' = stops + 1
  /\ rootPc' = "down" /\ saving' = <<>> /\ generation' = None /\ markerGeneration' = None
  /\ UNCHANGED <<cached, durable, returned, refusal>>

\* The machine fails: of each name either the synced or the cached entry.
PowerLoss ==
  /\ stops < MaxStops
  /\ stops' = stops + 1
  /\ rootPc' = "down" /\ saving' = <<>> /\ generation' = None /\ markerGeneration' = None
  /\ \E kept \in SUBSET Names :
       cached' = [n \in Names |-> IF n \in kept THEN cached[n] ELSE durable[n]]
  /\ durable' = cached'
  /\ UNCHANGED <<returned, refusal>>

RootNext == Start \/ Save \/ WriteFile \/ RenameFile \/ SyncFile \/ Stop \/ PowerLoss
RootSpec == RootInit /\ [][RootNext]_rootVars

-----------------------------------------------------------------------------
\* What a save has returned for is never lost: a process that runs continues
\* from that generation or a later one, and the marker never claims more than
\* the snapshot beside it holds (restore: "generation rollback").
SavedIsRestored ==
  /\ rootPc = "running" => generation >= returned
  /\ refusal # "Rollback"
=============================================================================
