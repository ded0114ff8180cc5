---------------------------- MODULE UnsavedFiles ----------------------------
(***************************************************************************)
(* IdeUnsavedFiles: the contents of the unsaved files, which a thread      *)
(* writes to the drafts directory, one draft for each and the manifest     *)
(* last, while the main thread goes on; and which the next start reads,    *)
(* also after a crash.  Contents are numbered in the order in which they   *)
(* come up.                                                                *)
(***************************************************************************)
EXTENDS Naturals

CONSTANTS
  DraftFiles,
  MaxContents,    \* bound: contents
  MaxSavers,      \* bound: saves at the same time
  MaxCrashes      \* bound: crashes

ASSUME UnsavedFilesAssumption ==
  MaxContents \in Nat /\ MaxSavers \in Nat /\ MaxCrashes \in Nat

Savers == 1..MaxSavers

VARIABLES
  contents,       \* how many contents there were
  entries,        \* unsaved_files, 0 for no entry
  savers,         \* the save tasks
  (* the drafts directory *)
  drafts,         \* the draft of every file, 0 for none
  manifest,
  (* history *)
  crashes,
  kept,           \* what the last save that ended has written, unless removed since
  overlapped      \* two saves ran at the same time

draftVars == <<contents, entries, savers, drafts, manifest, crashes, kept, overlapped>>

NoContents == [f \in DraftFiles |-> 0]
Those(map) == {f \in DraftFiles : map[f] # 0}

(* A save task: what it copied, which of that is not written yet, and which *)
(* could not be written or was removed meanwhile.                           *)
Idle == [active |-> FALSE, copy |-> NoContents, left |-> {}, missed |-> {}]

(* ide_unsaved_files_update, with a content.                                *)
UpdateEntry(f) ==
  /\ contents < MaxContents
  /\ contents' = contents + 1
  /\ entries' = [entries EXCEPT ![f] = contents + 1]
  /\ UNCHANGED <<savers, drafts, manifest, crashes, kept, overlapped>>

(* ide_unsaved_files_remove, or ide_unsaved_files_clear, with               *)
(* ide_unsaved_files_remove_draft; the manifest stays.                      *)
RemoveEntries(S) ==
  /\ S # {}
  /\ entries' = [f \in DraftFiles |-> IF f \in S THEN 0 ELSE entries[f]]
  /\ drafts' = [f \in DraftFiles |-> IF f \in S THEN 0 ELSE drafts[f]]
  /\ savers' = [w \in Savers |-> [savers[w] EXCEPT !.missed = @ \cup S]]
  /\ kept' = [f \in DraftFiles |-> IF f \in S THEN 0 ELSE kept[f]]
  /\ UNCHANGED <<contents, manifest, crashes, overlapped>>

(* ide_unsaved_files_save_async *)
BeginSaving(w) ==
  /\ ~savers[w].active
  /\ savers' = [savers EXCEPT ![w] = [active |-> TRUE, copy |-> entries, left |-> Those(entries),
                                      missed |-> {}]]
  /\ overlapped' = (overlapped \/ \E v \in Savers : savers[v].active)
  /\ UNCHANGED <<contents, entries, drafts, manifest, crashes, kept>>

(* ide_unsaved_files_save_worker, of one file.                              *)
SaveDraft(w, f, ok) ==
  /\ savers[w].active /\ f \in savers[w].left
  /\ savers' = [savers EXCEPT ![w].left = @ \ {f},
                              ![w].missed = IF ok THEN @ ELSE @ \cup {f}]
  /\ drafts' = IF ok THEN [drafts EXCEPT ![f] = savers[w].copy[f]] ELSE drafts
  /\ UNCHANGED <<contents, entries, manifest, crashes, kept, overlapped>>

(* mutant of DraftsWritten: the manifest is written first *)
DraftsUnwritten(w) == TRUE

DraftsWritten(w) == savers[w].left = {}

(* ide_unsaved_files_save_worker, of the manifest.                          *)
SaveManifest(w) ==
  LET task == savers[w]
  IN  /\ task.active /\ DraftsWritten(w)
      /\ manifest' = Those(task.copy)
      /\ kept' = [f \in DraftFiles |-> IF f \in task.missed THEN 0 ELSE task.copy[f]]
      /\ savers' = [savers EXCEPT ![w] = Idle]
      /\ UNCHANGED <<contents, entries, drafts, crashes, overlapped>>

(* The directory or the manifest cannot be written.                         *)
SaveFailed(w) ==
  /\ savers[w].active
  /\ savers[w].left \in {{}, Those(savers[w].copy)}
  /\ savers' = [savers EXCEPT ![w] = Idle]
  /\ UNCHANGED <<contents, entries, drafts, manifest, crashes, kept, overlapped>>

(* A crash, or an exit, and the next start: ide_unsaved_files_restore_worker, *)
(* which skips the files that are not there any more and the drafts it      *)
(* cannot read, and ide_unsaved_files_restore_finish.                       *)
Restart(there) ==
  /\ crashes < MaxCrashes
  /\ crashes' = crashes + 1
  /\ entries' = [f \in DraftFiles |-> IF f \in manifest \cap there THEN drafts[f] ELSE 0]
  /\ savers' = [w \in Savers |-> Idle]
  /\ UNCHANGED <<contents, drafts, manifest, kept, overlapped>>

DraftsInit ==
  /\ contents = 0 /\ entries = NoContents /\ savers = [w \in Savers |-> Idle]
  /\ drafts = NoContents /\ manifest = {} /\ crashes = 0 /\ kept = NoContents /\ overlapped = FALSE

DraftsNext ==
  \/ \E f \in DraftFiles : UpdateEntry(f) \/ RemoveEntries({f} \cap Those(entries))
  \/ RemoveEntries(Those(entries))
  \/ \E w \in Savers :
       \/ BeginSaving(w) \/ SaveManifest(w) \/ SaveFailed(w)
       \/ \E f \in DraftFiles, ok \in BOOLEAN : SaveDraft(w, f, ok)
  \/ \E there \in SUBSET DraftFiles : Restart(there)

DraftsSpec == DraftsInit /\ [][DraftsNext]_draftVars

-----------------------------------------------------------------------------
Contents == 0..contents
SaveTask == [active : BOOLEAN, copy : [DraftFiles -> Contents], left : SUBSET DraftFiles,
             missed : SUBSET DraftFiles]

DraftsTypeOK ==
  /\ contents \in 0..MaxContents
  /\ entries \in [DraftFiles -> Contents] /\ savers \in [Savers -> SaveTask]
  /\ drafts \in [DraftFiles -> Contents] /\ manifest \subseteq DraftFiles
  /\ crashes \in 0..MaxCrashes /\ kept \in [DraftFiles -> Contents] /\ overlapped \in BOOLEAN

(* Whenever the program crashes, also halfway through a save, the next      *)
(* start finds what the last save that ended has written, as it was or      *)
(* newer, unless it was removed since.  Only a save that runs beside        *)
(* another one may put an older draft back.                                 *)
RestartFinds ==
  \A f \in DraftFiles : kept[f] # 0 =>
    f \in manifest /\ drafts[f] # 0 /\ (overlapped \/ drafts[f] >= kept[f])
=============================================================================
