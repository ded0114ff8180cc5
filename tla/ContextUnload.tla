--------------------------- MODULE ContextUnload ---------------------------
(***************************************************************************)
(* IdeContext: ide_context_hold, ide_context_release and                   *)
(* ide_context_unload_async, which waits until the context is not held,    *)
(* then takes its steps one after the other; and ide_context_restore_async. *)
(* Requests to unload are numbered in the order in which they come.        *)
(***************************************************************************)
EXTENDS Naturals

CONSTANTS
  MaxContextHolds, \* bound: hold_count
  MaxUnloads,      \* bound: requests to unload
  MaxOpen,         \* bound: buffers that are open when it unloads
  MaxDrafts,       \* bound: unsaved files when it restores
  RestoreMax       \* RESTORE_FILES_MAX_FILES

ASSUME ContextAssumption ==
  /\ MaxContextHolds \in Nat /\ MaxUnloads \in Nat /\ MaxOpen \in Nat
  /\ MaxDrafts \in Nat /\ RestoreMax \in Nat

Unloads == 1..MaxUnloads

VARIABLES
  hold_count,
  delayed,        \* delayed_unload_task, 0 for NULL
  unloads,        \* how many requests there were
  step,           \* what they are at
  in_progress,    \* IN_PROGRESS of their buffer manager step
  saving,         \* how many buffers that step waits for
  restored,
  restoring,
  toRestore       \* how many files are still to be loaded

contextVars == <<hold_count, delayed, unloads, step, in_progress, saving, restored, restoring,
                 toRestore>>
restoreVars == <<restored, restoring, toRestore>>
bufferStep == <<in_progress, saving>>

(* ide_context_hold *)
ContextHold ==
  /\ hold_count < MaxContextHolds
  /\ hold_count' = hold_count + 1
  /\ UNCHANGED <<delayed, unloads, step, bufferStep, restoreVars>>

(* ide_context_do_unload_locked *)
Unload(r) ==
  /\ delayed' = 0
  /\ step' = [step EXCEPT ![r] = "configurations"]

(* mutant of LastRelease: only the release before the last is the last *)
LastButOneRelease == hold_count = 2

LastRelease == hold_count = 1

(* ide_context_release *)
ContextRelease ==
  /\ hold_count > 0
  /\ hold_count' = hold_count - 1
  /\ IF LastRelease /\ delayed # 0 THEN Unload(delayed) ELSE UNCHANGED <<delayed, step>>
  /\ UNCHANGED <<unloads, bufferStep, restoreVars>>

(* ide_context_unload_async: one that waits is enough; but once it has      *)
(* begun, the next one is accepted.                                         *)
UnloadAsync ==
  /\ unloads < MaxUnloads
  /\ unloads' = unloads + 1
  /\ IF delayed # 0 THEN step' = [step EXCEPT ![unloads + 1] = "refused"] /\ UNCHANGED delayed
     ELSE IF hold_count = 0 THEN Unload(unloads + 1)
     ELSE /\ delayed' = unloads + 1
          /\ step' = [step EXCEPT ![unloads + 1] = "delayed"]
  /\ UNCHANGED <<hold_count, bufferStep, restoreVars>>

(* ide_async_helper_cb: the next step, or the end when it was cancelled.    *)
After == [configurations |-> "history", history |-> "buffers", buffers |-> "drafts",
          saving |-> "drafts", drafts |-> "services", services |-> "done"]

GoesOn(r, ok) == step' = [step EXCEPT ![r] = IF ok THEN After[@] ELSE "done"]

StepEnds(r, ok) ==
  /\ step[r] \in DOMAIN After \ {"buffers", "saving"}
  /\ GoesOn(r, ok)
  /\ UNCHANGED <<hold_count, delayed, unloads, bufferStep, restoreVars>>

(* mutant of InProgress: those that are not saved are counted *)
InProgressAll(modified, skipped) == modified + skipped

InProgress(modified, skipped) == modified

(* ide_context_unload_buffer_manager: it counts the buffers, and takes      *)
(* those off again that are not modified and not saved.                     *)
UnloadBuffers(r, ok) ==
  /\ step[r] = "buffers"
  /\ \E modified, skipped \in 0..MaxOpen :
       /\ modified + skipped <= MaxOpen
       /\ IF InProgress(modified, skipped) = 0
          THEN GoesOn(r, ok) /\ UNCHANGED bufferStep
          ELSE /\ step' = [step EXCEPT ![r] = "saving"]
               /\ in_progress' = [in_progress EXCEPT ![r] = InProgress(modified, skipped)]
               /\ saving' = [saving EXCEPT ![r] = modified]
  /\ UNCHANGED <<hold_count, delayed, unloads, restoreVars>>

(* ide_context_unload__buffer_manager_save_file_cb, saved or not.           *)
BufferSaved(r, ok) ==
  /\ saving[r] > 0
  /\ saving' = [saving EXCEPT ![r] = @ - 1]
  /\ in_progress' = [in_progress EXCEPT ![r] = @ - 1]
  /\ IF in_progress[r] = 1 THEN GoesOn(r, ok) ELSE UNCHANGED step
  /\ UNCHANGED <<hold_count, delayed, unloads, restoreVars>>

(* ide_context_restore_async, of n unsaved files.                           *)
RestoreAsync(n) ==
  /\ ~restored
  /\ restored' = TRUE
  /\ IF n = 0 \/ n > RestoreMax THEN UNCHANGED <<restoring, toRestore>>
                               ELSE restoring' = TRUE /\ toRestore' = n
  /\ UNCHANGED <<hold_count, delayed, unloads, step, bufferStep>>

(* restore_in_idle, ide_context_restore__load_file_cb                       *)
RestoreNext ==
  /\ restoring
  /\ IF toRestore = 0 THEN restoring' = FALSE /\ UNCHANGED toRestore
                      ELSE toRestore' = toRestore - 1 /\ UNCHANGED restoring
  /\ UNCHANGED <<hold_count, delayed, unloads, step, bufferStep, restored>>

ContextInit ==
  /\ hold_count = 0 /\ delayed = 0 /\ unloads = 0 /\ step = [r \in Unloads |-> "none"]
  /\ in_progress = [r \in Unloads |-> 0] /\ saving = [r \in Unloads |-> 0]
  /\ restored = FALSE /\ restoring = FALSE /\ toRestore = 0

UnloadSteps(r) ==
  \E ok \in BOOLEAN : StepEnds(r, ok) \/ UnloadBuffers(r, ok) \/ BufferSaved(r, ok)

ContextNext ==
  \/ ContextHold \/ ContextRelease \/ UnloadAsync \/ RestoreNext
  \/ \E r \in Unloads : UnloadSteps(r)
  \/ \E n \in 0..MaxDrafts : RestoreAsync(n)

(* What is written or unloaded is done with in the end.                     *)
ContextFairness == \A r \in Unloads : WF_contextVars(UnloadSteps(r))

ContextSpec == ContextInit /\ [][ContextNext]_contextVars

-----------------------------------------------------------------------------
UnloadStages == {"none", "refused", "delayed", "configurations", "history", "buffers", "saving",
                 "drafts", "services", "done"}

ContextTypeOK ==
  /\ hold_count \in 0..MaxContextHolds /\ unloads \in 0..MaxUnloads /\ delayed \in 0..unloads
  /\ step \in [Unloads -> UnloadStages]
  /\ in_progress \in [Unloads -> 0..MaxOpen] /\ saving \in [Unloads -> 0..MaxOpen]
  /\ restored \in BOOLEAN /\ restoring \in BOOLEAN /\ toRestore \in 0..MaxDrafts

(* A request to unload waits only while the context is held, so that the    *)
(* last release finds it: none is left behind between the two.              *)
DelayedOnlyWhileHeld ==
  /\ delayed # 0 => hold_count > 0
  /\ \A r \in Unloads : step[r] = "delayed" <=> delayed = r

(* The unloads that have begun end, however many buffers are open and       *)
(* modified and whatever of them cannot be saved.                           *)
Unloading == \E r \in Unloads : step[r] \notin {"none", "refused", "delayed", "done"}
UnloadsEnd == Unloading ~> ~Unloading
=============================================================================
