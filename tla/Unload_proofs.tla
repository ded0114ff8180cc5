--------------------------- MODULE Unload_proofs ---------------------------
(***************************************************************************)
(* Theorems about UnsavedFiles and ContextUnload, for any files, contents, *)
(* saves, crashes, holds, requests and buffers.                            *)
(***************************************************************************)
EXTENDS UnsavedFiles, ContextUnload, TLAPS

-----------------------------------------------------------------------------
(* UnsavedFiles: the inductive invariant. *)

(* What a save still has to write, it has copied. *)
LeftIsCopied == \A w \in Savers : savers[w].left \subseteq Those(savers[w].copy)

(* What a save has written is there, unless it was removed since. *)
WrittenIsThere ==
  \A w \in Savers : savers[w].active =>
    \A f \in Those(savers[w].copy) \ (savers[w].left \cup savers[w].missed) :
      drafts[f] # 0 /\ (overlapped \/ drafts[f] = savers[w].copy[f])

OneSaver ==
  overlapped \/ \A v, w \in Savers : savers[v].active /\ savers[w].active => v = w

(* An entry, and the copy a save has of it, is not older than what was kept; *)
(* and the entry is not older than the copy.                                 *)
NeverOlder ==
  \/ overlapped
  \/ \A f \in DraftFiles :
       /\ entries[f] # 0 => entries[f] >= kept[f]
       /\ \A w \in Savers : savers[w].active /\ savers[w].copy[f] # 0 =>
            /\ savers[w].copy[f] >= kept[f]
            /\ entries[f] = 0 \/ entries[f] >= savers[w].copy[f]

DraftsInv ==
  DraftsTypeOK /\ LeftIsCopied /\ WrittenIsThere /\ OneSaver /\ NeverOlder /\ RestartFinds

-----------------------------------------------------------------------------
LEMMA IdleType == DraftsTypeOK => Idle \in SaveTask
BY UnsavedFilesAssumption DEF DraftsTypeOK, Idle, NoContents, SaveTask, Contents

LEMMA DraftsInitTypes == DraftsInit => DraftsTypeOK
<1> SUFFICES ASSUME DraftsInit
             PROVE  DraftsTypeOK
  OBVIOUS
<1>1. NoContents \in [DraftFiles -> Contents]
  BY DEF DraftsInit, NoContents, Contents
<1>2. Idle \in SaveTask
  BY <1>1 DEF Idle, SaveTask
<1>3. savers \in [Savers -> SaveTask]
  BY <1>2 DEF DraftsInit
<1>4. 0 \in 0..MaxContents /\ 0 \in 0..MaxCrashes
  BY UnsavedFilesAssumption
<1> QED
  BY <1>1, <1>3, <1>4 DEF DraftsInit, DraftsTypeOK

LEMMA DraftsInitInv == DraftsInit => DraftsInv
<1> SUFFICES ASSUME DraftsInit
             PROVE  DraftsInv
  OBVIOUS
<1>1. DraftsTypeOK
  BY DraftsInitTypes
<1>2. LeftIsCopied /\ WrittenIsThere /\ OneSaver
  BY DEF DraftsInit, Idle, LeftIsCopied, WrittenIsThere, OneSaver
<1>3. NeverOlder /\ RestartFinds
  BY DEF DraftsInit, Idle, NoContents, NeverOlder, RestartFinds
<1> QED
  BY <1>1, <1>2, <1>3 DEF DraftsInv

(* The types of the tasks grow with the number of contents.                  *)
LEMMA DraftsTypesKept == DraftsTypeOK /\ [DraftsNext]_draftVars => DraftsTypeOK'
<1> SUFFICES ASSUME DraftsTypeOK, [DraftsNext]_draftVars
             PROVE  DraftsTypeOK'
  OBVIOUS
<1> USE UnsavedFilesAssumption
<1>1. ASSUME NEW f \in DraftFiles, UpdateEntry(f)
      PROVE  DraftsTypeOK'
  <2>1. 0..contents \subseteq 0..(contents + 1) /\ contents + 1 \in 0..(contents + 1)
    BY <1>1 DEF DraftsTypeOK, UpdateEntry
  <2>2. entries' \in [DraftFiles -> 0..(contents + 1)]
    BY <1>1, <2>1 DEF DraftsTypeOK, UpdateEntry, Contents
  <2>3. /\ drafts' \in [DraftFiles -> 0..(contents + 1)]
        /\ kept' \in [DraftFiles -> 0..(contents + 1)]
    BY <1>1, <2>1 DEF DraftsTypeOK, UpdateEntry, Contents
  <2>4. savers' \in [Savers -> [active : BOOLEAN, copy : [DraftFiles -> 0..(contents + 1)],
                                left : SUBSET DraftFiles, missed : SUBSET DraftFiles]]
    BY <1>1, <2>1 DEF DraftsTypeOK, UpdateEntry, Contents, SaveTask
  <2> QED
    BY <1>1, <2>2, <2>3, <2>4 DEF DraftsTypeOK, UpdateEntry, Contents, SaveTask
<1>2. ASSUME NEW S \in SUBSET DraftFiles, RemoveEntries(S)
      PROVE  DraftsTypeOK'
  <2>1. savers' \in [Savers -> SaveTask]
    BY <1>2 DEF DraftsTypeOK, RemoveEntries, SaveTask
  <2>2. /\ entries' \in [DraftFiles -> Contents] /\ drafts' \in [DraftFiles -> Contents]
        /\ kept' \in [DraftFiles -> Contents]
    BY <1>2 DEF DraftsTypeOK, RemoveEntries, Contents
  <2> QED
    BY <1>2, <2>1, <2>2 DEF DraftsTypeOK, RemoveEntries, Contents, SaveTask
<1>3. ASSUME NEW w \in Savers, BeginSaving(w)
      PROVE  DraftsTypeOK'
  <2>1. overlapped' \in BOOLEAN
    BY <1>3 DEF DraftsTypeOK, BeginSaving
  <2>2. Those(entries) \subseteq DraftFiles
    BY DEF Those
  <2>3. savers' \in [Savers -> SaveTask]
    BY <1>3, <2>2 DEF DraftsTypeOK, BeginSaving, SaveTask
  <2> QED
    BY <1>3, <2>1, <2>3 DEF DraftsTypeOK, BeginSaving, Contents, SaveTask
<1>4. ASSUME NEW w \in Savers, NEW f \in DraftFiles, NEW ok \in BOOLEAN, SaveDraft(w, f, ok)
      PROVE  DraftsTypeOK'
  <2>1. savers[w] \in SaveTask
    BY DEF DraftsTypeOK
  <2>2. savers' \in [Savers -> SaveTask]
    BY <1>4, <2>1 DEF DraftsTypeOK, SaveDraft, SaveTask
  <2>3. drafts' \in [DraftFiles -> Contents]
    BY <1>4, <2>1 DEF DraftsTypeOK, SaveDraft, SaveTask
  <2> QED
    BY <1>4, <2>2, <2>3 DEF DraftsTypeOK, SaveDraft, Contents, SaveTask
<1>5. ASSUME NEW w \in Savers, SaveManifest(w)
      PROVE  DraftsTypeOK'
  <2>1. savers[w].copy \in [DraftFiles -> Contents]
    BY DEF DraftsTypeOK, SaveTask
  <2>2. savers' \in [Savers -> SaveTask]
    BY <1>5, IdleType DEF DraftsTypeOK, SaveManifest
  <2>3. kept' \in [DraftFiles -> Contents] /\ manifest' \subseteq DraftFiles
    BY <1>5, <2>1 DEF DraftsTypeOK, SaveManifest, Contents, Those
  <2> QED
    BY <1>5, <2>2, <2>3 DEF DraftsTypeOK, SaveManifest, Contents, SaveTask
<1>6. ASSUME NEW w \in Savers, SaveFailed(w)
      PROVE  DraftsTypeOK'
  BY <1>6, IdleType DEF DraftsTypeOK, SaveFailed, Contents, SaveTask
<1>7. ASSUME NEW there \in SUBSET DraftFiles, Restart(there)
      PROVE  DraftsTypeOK'
  <2>1. savers' \in [Savers -> SaveTask]
    BY <1>7, IdleType DEF Restart
  <2>2. entries' \in [DraftFiles -> Contents]
    BY <1>7 DEF DraftsTypeOK, Restart, Contents
  <2> QED
    BY <1>7, <2>1, <2>2 DEF DraftsTypeOK, Restart, Contents, SaveTask
<1>8. CASE UNCHANGED draftVars
  BY <1>8 DEF DraftsTypeOK, draftVars, Contents, SaveTask
<1>9. \A f \in DraftFiles : {f} \cap Those(entries) \in SUBSET DraftFiles
  OBVIOUS
<1>10. Those(entries) \in SUBSET DraftFiles
  BY DEF Those
<1> QED
  BY <1>1, <1>2, <1>3, <1>4, <1>5, <1>6, <1>7, <1>8, <1>9, <1>10 DEF DraftsNext
-----------------------------------------------------------------------------
(* What a task, and what the drafts, look like. *)

LEMMA TaskFacts ==
  ASSUME DraftsTypeOK, NEW w \in Savers
  PROVE  /\ savers[w].copy \in [DraftFiles -> Nat]
         /\ savers[w].left \subseteq DraftFiles /\ savers[w].missed \subseteq DraftFiles
         /\ savers[w].active \in BOOLEAN /\ savers[w] \in SaveTask
<1>1. contents \in Nat /\ 0..contents \subseteq Nat
  BY UnsavedFilesAssumption DEF DraftsTypeOK
<1> QED
  BY <1>1 DEF DraftsTypeOK, SaveTask, Contents

LEMMA DraftFacts ==
  ASSUME DraftsTypeOK
  PROVE  /\ entries \in [DraftFiles -> Nat] /\ drafts \in [DraftFiles -> Nat]
         /\ kept \in [DraftFiles -> Nat] /\ contents \in Nat
         /\ \A f \in DraftFiles : kept[f] <= contents /\ drafts[f] <= contents
         /\ \A w \in Savers, f \in DraftFiles : savers[w].copy[f] <= contents
<1>1. contents \in Nat /\ 0..contents \subseteq Nat /\ \A n \in 0..contents : n <= contents
  BY UnsavedFilesAssumption DEF DraftsTypeOK
<1>2. \A w \in Savers : savers[w].copy \in [DraftFiles -> 0..contents]
  BY DEF DraftsTypeOK, SaveTask, Contents
<1>3. /\ entries \in [DraftFiles -> 0..contents] /\ drafts \in [DraftFiles -> 0..contents]
      /\ kept \in [DraftFiles -> 0..contents]
  BY DEF DraftsTypeOK, Contents
<1> QED
  BY <1>1, <1>2, <1>3

LEMMA SaverSteps ==
  ASSUME DraftsInv, NEW w \in Savers
  PROVE  /\ BeginSaving(w) => (LeftIsCopied /\ WrittenIsThere /\ OneSaver)'
         /\ SaveFailed(w) => (LeftIsCopied /\ WrittenIsThere /\ OneSaver)'
         /\ SaveManifest(w) => (LeftIsCopied /\ WrittenIsThere /\ OneSaver)'
<1> USE DEF DraftsInv
<1>1. ASSUME BeginSaving(w)
      PROVE  (LeftIsCopied /\ WrittenIsThere /\ OneSaver)'
  <2> DEFINE task == [active |-> TRUE, copy |-> entries, left |-> Those(entries), missed |-> {}]
  <2>1. \A v \in Savers : savers'[v] = IF v = w THEN task ELSE savers[v]
    BY <1>1 DEF BeginSaving, DraftsTypeOK
  <2>2. UNCHANGED drafts /\ (overlapped => overlapped')
    BY <1>1 DEF BeginSaving
  <2> HIDE DEF task
  <2>9. task.copy = entries /\ task.left = Those(entries)
    BY DEF task
  <2>3. LeftIsCopied'
    <3> SUFFICES ASSUME NEW v \in Savers
                 PROVE  savers'[v].left \subseteq Those(savers'[v].copy)
      BY DEF LeftIsCopied, Those
    <3> QED
      BY <2>1, <2>9 DEF LeftIsCopied
  <2>4. WrittenIsThere'
    <3> SUFFICES ASSUME NEW v \in Savers, savers'[v].active,
                        NEW f \in Those(savers'[v].copy) \ (savers'[v].left \cup savers'[v].missed)
                 PROVE  drafts'[f] # 0 /\ (overlapped' \/ drafts'[f] = savers'[v].copy[f])
      BY DEF WrittenIsThere, Those
    <3>1. v # w
      BY <2>1, <2>9
    <3> QED
      BY <3>1, <2>1, <2>2 DEF WrittenIsThere
  <2>5. OneSaver'
    BY <1>1, <2>1 DEF OneSaver, BeginSaving
  <2> QED
    BY <2>3, <2>4, <2>5
<1>2. ASSUME SaveFailed(w) \/ SaveManifest(w)
      PROVE  (LeftIsCopied /\ WrittenIsThere /\ OneSaver)'
  <2>1. \A v \in Savers : savers'[v] = IF v = w THEN Idle ELSE savers[v]
    BY <1>2 DEF SaveFailed, SaveManifest, DraftsTypeOK
  <2>2. UNCHANGED <<drafts, overlapped>>
    BY <1>2 DEF SaveFailed, SaveManifest
  <2>3. Idle.active = FALSE /\ Idle.left = {}
    BY DEF Idle
  <2>4. LeftIsCopied'
    BY <2>1, <2>3 DEF LeftIsCopied, Those
  <2>5. WrittenIsThere'
    BY <2>1, <2>2, <2>3 DEF WrittenIsThere, Those
  <2>6. OneSaver'
    BY <2>1, <2>2, <2>3 DEF OneSaver
  <2> QED
    BY <2>4, <2>5, <2>6
<1> QED
  BY <1>1, <1>2

LEMMA DraftsStepInv == DraftsInv /\ [DraftsNext]_draftVars => DraftsInv'
<1> SUFFICES ASSUME DraftsInv, [DraftsNext]_draftVars
             PROVE  DraftsInv'
  OBVIOUS
<1> USE DEF DraftsInv
<1>0. DraftsTypeOK'
  BY DraftsTypesKept
<1>1. ASSUME NEW f \in DraftFiles, UpdateEntry(f)
      PROVE  DraftsInv'
  <2>1. UNCHANGED <<savers, drafts, manifest, kept, overlapped>>
    BY <1>1 DEF UpdateEntry
  <2>2. \A g \in DraftFiles : entries'[g] = IF g = f THEN contents + 1 ELSE entries[g]
    BY <1>1 DEF UpdateEntry, DraftsTypeOK
  <2>3. (LeftIsCopied /\ WrittenIsThere /\ OneSaver /\ RestartFinds)'
    BY <2>1 DEF LeftIsCopied, WrittenIsThere, OneSaver, RestartFinds, Those
  <2>4. NeverOlder'
    BY <2>1, <2>2, DraftFacts, TaskFacts DEF NeverOlder
  <2> QED
    BY <1>0, <2>3, <2>4
<1>2. ASSUME NEW S \in SUBSET DraftFiles, RemoveEntries(S)
      PROVE  DraftsInv'
  <2>1. \A w \in Savers : /\ savers'[w].active = savers[w].active
                          /\ savers'[w].copy = savers[w].copy
                          /\ savers'[w].left = savers[w].left
                          /\ savers'[w].missed = savers[w].missed \cup S
    BY <1>2, TaskFacts DEF RemoveEntries, SaveTask
  <2>2. UNCHANGED <<manifest, overlapped>>
    BY <1>2 DEF RemoveEntries
  <2>3. \A f \in DraftFiles : /\ entries'[f] = IF f \in S THEN 0 ELSE entries[f]
                              /\ drafts'[f] = IF f \in S THEN 0 ELSE drafts[f]
                              /\ kept'[f] = IF f \in S THEN 0 ELSE kept[f]
    BY <1>2 DEF RemoveEntries
  <2>4. (LeftIsCopied /\ OneSaver)'
    BY <2>1, <2>2 DEF LeftIsCopied, OneSaver, Those
  <2>5. WrittenIsThere'
    BY <2>1, <2>2, <2>3 DEF WrittenIsThere, Those
  <2>6. NeverOlder'
    BY <2>1, <2>2, <2>3, DraftFacts, TaskFacts DEF NeverOlder
  <2>7. RestartFinds'
    BY <2>2, <2>3 DEF RestartFinds
  <2> QED
    BY <1>0, <2>4, <2>5, <2>6, <2>7
<1>3. ASSUME NEW w \in Savers, BeginSaving(w)
      PROVE  DraftsInv'
  <2> DEFINE task == [active |-> TRUE, copy |-> entries, left |-> Those(entries), missed |-> {}]
  <2>1. \A v \in Savers : savers'[v] = IF v = w THEN task ELSE savers[v]
    BY <1>3 DEF BeginSaving, DraftsTypeOK
  <2>2. UNCHANGED <<entries, drafts, manifest, kept>> /\ (overlapped => overlapped')
    BY <1>3 DEF BeginSaving
  <2>3. NeverOlder'
    BY <2>1, <2>2, DraftFacts, TaskFacts DEF NeverOlder
  <2>4. RestartFinds'
    BY <2>2 DEF RestartFinds
  <2> QED
    BY <1>0, <1>3, <2>3, <2>4, SaverSteps
<1>4. ASSUME NEW w \in Savers, NEW f \in DraftFiles, NEW ok \in BOOLEAN, SaveDraft(w, f, ok)
      PROVE  DraftsInv'
  <2>1. \A v \in Savers : /\ savers'[v].active = savers[v].active
                          /\ savers'[v].copy = savers[v].copy
    BY <1>4, TaskFacts DEF SaveDraft, SaveTask, DraftsTypeOK
  <2>2. \A v \in Savers : v # w => savers'[v] = savers[v]
    BY <1>4 DEF SaveDraft, DraftsTypeOK
  <2>3. /\ savers'[w].left = savers[w].left \ {f}
        /\ savers'[w].missed = IF ok THEN savers[w].missed ELSE savers[w].missed \cup {f}
    BY <1>4, TaskFacts DEF SaveDraft, SaveTask, DraftsTypeOK
  <2>4. \A g \in DraftFiles : drafts'[g] = IF g = f /\ ok THEN savers[w].copy[f] ELSE drafts[g]
    BY <1>4 DEF SaveDraft, DraftsTypeOK
  <2>5. UNCHANGED <<entries, manifest, kept, overlapped>>
    BY <1>4 DEF SaveDraft
  <2>6. savers[w].active /\ savers[w].copy[f] # 0
    BY <1>4 DEF SaveDraft, LeftIsCopied, Those
  <2>7. (LeftIsCopied /\ OneSaver)'
    BY <2>1, <2>2, <2>3, <2>5 DEF LeftIsCopied, OneSaver, Those
  <2>8. WrittenIsThere'
    BY <2>1, <2>2, <2>3, <2>4, <2>5, <2>6 DEF WrittenIsThere, OneSaver, Those
  <2>9. NeverOlder'
    BY <2>1, <2>5 DEF NeverOlder
  <2>10. RestartFinds'
    BY <2>4, <2>5, <2>6 DEF RestartFinds, NeverOlder
  <2> QED
    BY <1>0, <2>7, <2>8, <2>9, <2>10
<1>5. ASSUME NEW w \in Savers, SaveManifest(w)
      PROVE  DraftsInv'
  <2>1. \A v \in Savers : savers'[v] = IF v = w THEN Idle ELSE savers[v]
    BY <1>5 DEF SaveManifest, DraftsTypeOK
  <2>2. Idle.active = FALSE
    BY DEF Idle
  <2>3. UNCHANGED <<entries, drafts, overlapped>> /\ savers[w].active /\ savers[w].left = {}
    BY <1>5 DEF SaveManifest, DraftsWritten
  <2>4. /\ manifest' = Those(savers[w].copy)
        /\ \A f \in DraftFiles :
             kept'[f] = IF f \in savers[w].missed THEN 0 ELSE savers[w].copy[f]
    BY <1>5 DEF SaveManifest
  <2>5. NeverOlder'
    BY <2>1, <2>2, <2>3, <2>4, DraftFacts, TaskFacts DEF NeverOlder, OneSaver
  <2>6. RestartFinds'
    BY <2>3, <2>4, DraftFacts, TaskFacts DEF RestartFinds, WrittenIsThere, Those
  <2> QED
    BY <1>0, <1>5, <2>5, <2>6, SaverSteps
<1>6. ASSUME NEW w \in Savers, SaveFailed(w)
      PROVE  DraftsInv'
  <2>1. \A v \in Savers : savers'[v] = IF v = w THEN Idle ELSE savers[v]
    BY <1>6 DEF SaveFailed, DraftsTypeOK
  <2>2. Idle.active = FALSE
    BY DEF Idle
  <2>3. UNCHANGED <<entries, drafts, manifest, kept, overlapped>>
    BY <1>6 DEF SaveFailed
  <2>4. NeverOlder' /\ RestartFinds'
    BY <2>1, <2>2, <2>3 DEF NeverOlder, RestartFinds
  <2> QED
    BY <1>0, <1>6, <2>4, SaverSteps
<1>7. ASSUME NEW there \in SUBSET DraftFiles, Restart(there)
      PROVE  DraftsInv'
  <2>1. \A v \in Savers : savers'[v] = Idle
    BY <1>7 DEF Restart
  <2>2. Idle.active = FALSE /\ Idle.left = {}
    BY DEF Idle
  <2>3. UNCHANGED <<drafts, manifest, kept, overlapped>>
    BY <1>7 DEF Restart
  <2>4. (LeftIsCopied /\ WrittenIsThere /\ OneSaver /\ RestartFinds)'
    BY <2>1, <2>2, <2>3 DEF LeftIsCopied, WrittenIsThere, OneSaver, RestartFinds, Those
  <2>5. \A f \in DraftFiles : entries'[f] # 0 => entries'[f] = drafts[f]
    BY <1>7 DEF Restart
  <2>6. NeverOlder'
    BY <2>1, <2>2, <2>3, <2>5, DraftFacts DEF NeverOlder, RestartFinds
  <2> QED
    BY <1>0, <2>4, <2>6
<1>8. CASE UNCHANGED draftVars
  BY <1>0, <1>8
  DEF draftVars, LeftIsCopied, WrittenIsThere, OneSaver, NeverOlder, RestartFinds, Those
<1>9. \A f \in DraftFiles : {f} \cap Those(entries) \in SUBSET DraftFiles
  OBVIOUS
<1>10. Those(entries) \in SUBSET DraftFiles
  BY DEF Those
<1> QED
  BY <1>1, <1>2, <1>3, <1>4, <1>5, <1>6, <1>7, <1>8, <1>9, <1>10 DEF DraftsNext

(* The state of the unsaved files, of the save tasks and of the drafts      *)
(* directory keeps its type.                                                *)
THEOREM DraftsTypeCorrectness == DraftsSpec => []DraftsTypeOK
<1>1. DraftsTypeOK /\ [DraftsNext]_draftVars => DraftsTypeOK'
  BY DraftsTypesKept
<1> QED
  BY DraftsInitTypes, <1>1, PTL DEF DraftsSpec

(* A crash at any time, also halfway through a save in the thread, leaves   *)
(* the drafts of the last save that ended, or newer ones, in the manifest.  *)
THEOREM DraftsSurvive == DraftsSpec => []RestartFinds
<1>1. DraftsInv => RestartFinds
  BY DEF DraftsInv
<1> QED
  BY DraftsInitInv, DraftsStepInv, <1>1, PTL DEF DraftsSpec
-----------------------------------------------------------------------------
(* ContextUnload: the inductive invariant. *)

(* Requests that were not made have not begun. *)
NotMadeYet == \A r \in Unloads : r > unloads => step[r] = "none"

(* IN_PROGRESS is the number of answers that are to come, and there are some *)
(* exactly while the step waits for them.                                    *)
ProgressCounts ==
  \A r \in Unloads : in_progress[r] = saving[r] /\ (saving[r] > 0 <=> step[r] = "saving")

ContextInv == ContextTypeOK /\ NotMadeYet /\ ProgressCounts /\ DelayedOnlyWhileHeld

LEMMA ContextInitInv == ContextInit => ContextInv
<1> SUFFICES ASSUME ContextInit
             PROVE  ContextInv
  OBVIOUS
<1>1. ContextTypeOK
  <2>1. \A m \in Nat : 0 \in 0..m
    OBVIOUS
  <2>2. /\ step \in [Unloads -> UnloadStages]
        /\ in_progress \in [Unloads -> 0..MaxOpen] /\ saving \in [Unloads -> 0..MaxOpen]
    BY <2>1, ContextAssumption DEF ContextInit, UnloadStages
  <2> QED
    BY <2>1, <2>2, ContextAssumption DEF ContextInit, ContextTypeOK
<1>2. NotMadeYet /\ ProgressCounts /\ DelayedOnlyWhileHeld
  BY DEF ContextInit, NotMadeYet, ProgressCounts, DelayedOnlyWhileHeld, Unloads
<1> QED
  BY <1>1, <1>2 DEF ContextInv

(* What follows each step. *)
LEMMA AfterFacts ==
  /\ DOMAIN After = {"configurations", "history", "buffers", "saving", "drafts", "services"}
  /\ After["configurations"] = "history" /\ After["history"] = "buffers"
  /\ After["buffers"] = "drafts" /\ After["saving"] = "drafts"
  /\ After["drafts"] = "services" /\ After["services"] = "done"
BY DEF After

(* The steps of an unload that has begun.                                   *)
LEMMA UnloadStepsInv ==
  ASSUME ContextInv, NEW r \in Unloads, UnloadSteps(r)
  PROVE  ContextInv'
<1> USE ContextAssumption DEF ContextInv, restoreVars, bufferStep
<1>1. ASSUME NEW ok \in BOOLEAN, StepEnds(r, ok)
      PROVE  ContextInv'
  <2>1. /\ step[r] \in {"configurations", "history", "drafts", "services"}
        /\ GoesOn(r, ok)
    BY <1>1, AfterFacts DEF StepEnds
  <2>2. PICK s \in {"history", "buffers", "services", "done"} : step' = [step EXCEPT ![r] = s]
    BY <2>1, AfterFacts DEF GoesOn
  <2>3. UNCHANGED <<hold_count, delayed, unloads, bufferStep, restoreVars>>
    BY <1>1 DEF StepEnds
  <2>4. ContextTypeOK'
    BY <2>2, <2>3 DEF ContextTypeOK, UnloadStages
  <2>5. NotMadeYet' /\ ProgressCounts' /\ DelayedOnlyWhileHeld'
    BY <2>1, <2>2, <2>3
    DEF ContextTypeOK, NotMadeYet, ProgressCounts, DelayedOnlyWhileHeld, Unloads
  <2> QED
    BY <2>4, <2>5
<1>2. ASSUME NEW ok \in BOOLEAN, UnloadBuffers(r, ok)
      PROVE  ContextInv'
  <2>1. step[r] = "buffers" /\ saving[r] = 0 /\ in_progress[r] = 0
        /\ UNCHANGED <<hold_count, delayed, unloads, restoreVars>>
    BY <1>2 DEF UnloadBuffers, ContextTypeOK, ProgressCounts, Unloads
  <2>2. \/ /\ step' \in {[step EXCEPT ![r] = "drafts"], [step EXCEPT ![r] = "done"]}
           /\ UNCHANGED bufferStep
        \/ \E modified \in 1..MaxOpen :
             /\ step' = [step EXCEPT ![r] = "saving"]
             /\ in_progress' = [in_progress EXCEPT ![r] = modified]
             /\ saving' = [saving EXCEPT ![r] = modified]
    BY <1>2, <2>1, AfterFacts DEF UnloadBuffers, GoesOn, InProgress
  <2>3. ContextTypeOK'
    BY <2>1, <2>2 DEF ContextTypeOK, UnloadStages
  <2>4. NotMadeYet' /\ ProgressCounts' /\ DelayedOnlyWhileHeld'
    BY <2>1, <2>2
    DEF ContextTypeOK, NotMadeYet, ProgressCounts, DelayedOnlyWhileHeld, Unloads
  <2> QED
    BY <2>3, <2>4
<1>3. ASSUME NEW ok \in BOOLEAN, BufferSaved(r, ok)
      PROVE  ContextInv'
  <2>1. step[r] = "saving" /\ in_progress[r] = saving[r] /\ saving[r] \in 1..MaxOpen
        /\ UNCHANGED <<hold_count, delayed, unloads, restoreVars>>
    BY <1>3 DEF BufferSaved, ContextTypeOK, ProgressCounts, Unloads
  <2>2. /\ saving' = [saving EXCEPT ![r] = saving[r] - 1]
        /\ in_progress' = [in_progress EXCEPT ![r] = in_progress[r] - 1]
        /\ IF in_progress[r] = 1
           THEN step' \in {[step EXCEPT ![r] = "drafts"], [step EXCEPT ![r] = "done"]}
           ELSE step' = step
    BY <1>3, <2>1, AfterFacts DEF BufferSaved, GoesOn
  <2>3. ContextTypeOK'
    BY <2>1, <2>2 DEF ContextTypeOK, UnloadStages
  <2>4. NotMadeYet' /\ ProgressCounts' /\ DelayedOnlyWhileHeld'
    BY <2>1, <2>2
    DEF ContextTypeOK, NotMadeYet, ProgressCounts, DelayedOnlyWhileHeld, Unloads
  <2> QED
    BY <2>3, <2>4
<1> QED
  BY <1>1, <1>2, <1>3 DEF UnloadSteps

LEMMA ContextStepInv == ContextInv /\ [ContextNext]_contextVars => ContextInv'
<1> SUFFICES ASSUME ContextInv, [ContextNext]_contextVars
             PROVE  ContextInv'
  OBVIOUS
<1> USE ContextAssumption DEF ContextInv, restoreVars, bufferStep
<1>1. ASSUME ContextHold
      PROVE  ContextInv'
  BY <1>1 DEF ContextHold, ContextTypeOK, NotMadeYet, ProgressCounts, DelayedOnlyWhileHeld
<1>2. ASSUME ContextRelease
      PROVE  ContextInv'
  <2>1. CASE LastRelease /\ delayed # 0
    <3>1. delayed \in Unloads /\ step[delayed] = "delayed" /\ delayed <= unloads
      BY <2>1 DEF ContextTypeOK, DelayedOnlyWhileHeld, Unloads
    <3>2. ContextTypeOK'
      BY <1>2, <2>1, <3>1 DEF ContextRelease, LastRelease, Unload, ContextTypeOK, UnloadStages
    <3>3. NotMadeYet' /\ ProgressCounts' /\ DelayedOnlyWhileHeld'
      BY <1>2, <2>1, <3>1
      DEF ContextRelease, LastRelease, Unload, ContextTypeOK, NotMadeYet, ProgressCounts,
          DelayedOnlyWhileHeld, Unloads
    <3> QED
      BY <3>2, <3>3
  <2>2. CASE ~(LastRelease /\ delayed # 0)
    BY <1>2, <2>2
    DEF ContextRelease, LastRelease, ContextTypeOK, NotMadeYet, ProgressCounts,
        DelayedOnlyWhileHeld
  <2> QED
    BY <2>1, <2>2
<1>3. ASSUME UnloadAsync
      PROVE  ContextInv'
  <2>1. unloads + 1 \in Unloads /\ step[unloads + 1] = "none" /\ unloads \in Nat
    BY <1>3 DEF UnloadAsync, ContextTypeOK, NotMadeYet, Unloads
  <2>2. ContextTypeOK'
    <3>1. /\ unloads' = unloads + 1 /\ unloads' \in 0..MaxUnloads
          /\ UNCHANGED <<hold_count, bufferStep, restoreVars>>
      BY <1>3 DEF UnloadAsync, ContextTypeOK
    <3>2. delayed' \in {0, delayed, unloads + 1}
      BY <1>3 DEF UnloadAsync, Unload
    <3>3. delayed' \in 0..unloads'
      BY <2>1, <3>1, <3>2 DEF ContextTypeOK
    <3>4. \E s \in {"refused", "configurations", "delayed"} : step' = [step EXCEPT ![unloads + 1] = s]
      BY <1>3 DEF UnloadAsync, Unload
    <3>5. step' \in [Unloads -> UnloadStages]
      BY <2>1, <3>4 DEF ContextTypeOK, UnloadStages
    <3> QED
      BY <3>1, <3>3, <3>5 DEF ContextTypeOK
  <2>3. NotMadeYet' /\ ProgressCounts'
    BY <1>3, <2>1
    DEF UnloadAsync, Unload, ContextTypeOK, NotMadeYet, ProgressCounts, Unloads
  <2>4. DelayedOnlyWhileHeld'
    <3>1. delayed # unloads + 1 /\ UNCHANGED hold_count
      BY <1>3, <2>1 DEF UnloadAsync, ContextTypeOK
    <3>2. CASE delayed # 0
      BY <1>3, <2>1, <3>1, <3>2 DEF UnloadAsync, ContextTypeOK, DelayedOnlyWhileHeld
    <3>3. CASE delayed = 0 /\ hold_count = 0
      <4>1. delayed' = 0 /\ step' = [step EXCEPT ![unloads + 1] = "configurations"]
        BY <1>3, <3>3 DEF UnloadAsync, Unload
      <4> QED
        BY <2>1, <3>3, <4>1 DEF ContextTypeOK, DelayedOnlyWhileHeld, Unloads
    <3>4. CASE delayed = 0 /\ hold_count # 0
      <4>1. delayed' = unloads + 1 /\ step' = [step EXCEPT ![unloads + 1] = "delayed"]
        BY <1>3, <3>4 DEF UnloadAsync
      <4>2. hold_count' > 0
        BY <3>1, <3>4 DEF ContextTypeOK
      <4> QED
        BY <2>1, <3>4, <4>1, <4>2 DEF ContextTypeOK, DelayedOnlyWhileHeld, Unloads
    <3> QED
      BY <3>2, <3>3, <3>4
  <2> QED
    BY <2>2, <2>3, <2>4
<1>4. ASSUME RestoreNext \/ \E n \in 0..MaxDrafts : RestoreAsync(n)
      PROVE  ContextInv'
  <2>1. UNCHANGED <<hold_count, delayed, unloads, step, bufferStep>>
    BY <1>4 DEF RestoreNext, RestoreAsync
  <2>2. restored' \in BOOLEAN /\ restoring' \in BOOLEAN /\ toRestore' \in 0..MaxDrafts
    <3>1. CASE RestoreNext
      <4>1. restored' \in BOOLEAN /\ toRestore' \in {toRestore, toRestore - 1}
        BY <3>1 DEF RestoreNext, ContextTypeOK
      <4>2. toRestore = 0 => toRestore' = toRestore
        BY <3>1 DEF RestoreNext
      <4>3. restoring' = FALSE \/ restoring' = restoring
        BY <3>1, Zenon DEF RestoreNext
      <4>4. restoring' \in BOOLEAN
        BY <4>3, Zenon DEF ContextTypeOK
      <4> QED
        BY <4>1, <4>2, <4>4 DEF ContextTypeOK
    <3>2. ASSUME NEW n \in 0..MaxDrafts, RestoreAsync(n)
          PROVE  /\ restored' \in BOOLEAN /\ restoring' \in BOOLEAN
                 /\ toRestore' \in 0..MaxDrafts
      BY <3>2 DEF RestoreAsync, ContextTypeOK
    <3> QED
      BY <1>4, <3>1, <3>2
  <2> QED
    BY <2>1, <2>2 DEF ContextTypeOK, NotMadeYet, ProgressCounts, DelayedOnlyWhileHeld
<1>5. CASE UNCHANGED contextVars
  BY <1>5 DEF contextVars, ContextTypeOK, NotMadeYet, ProgressCounts, DelayedOnlyWhileHeld
<1> QED
  BY <1>1, <1>2, <1>3, <1>4, <1>5, UnloadStepsInv DEF ContextNext

(* The counters, the requests and the restore keep their types: the counter *)
(* of the buffers that are being saved is never taken below zero.           *)
THEOREM ContextTypeCorrectness == ContextSpec => []ContextTypeOK
<1>1. ContextInv => ContextTypeOK
  BY DEF ContextInv
<1> QED
  BY ContextInitInv, ContextStepInv, <1>1, PTL DEF ContextSpec

(* A request to unload is delayed exactly while the context is held: the    *)
(* last ide_context_release finds it, however often it was held and         *)
(* released and whatever else was requested.                                *)
THEOREM DelayedUnloadIsFound == ContextSpec => []DelayedOnlyWhileHeld
<1>1. ContextInv => DelayedOnlyWhileHeld
  BY DEF ContextInv
<1> QED
  BY ContextInitInv, ContextStepInv, <1>1, PTL DEF ContextSpec

(* How far an unload that has begun is from its end: the steps before the   *)
(* buffers leave room for as many saves as there can be buffers.            *)
StepsLeft(at, count) ==
  CASE at = "configurations" -> MaxOpen + 6
    [] at = "history"        -> MaxOpen + 5
    [] at = "buffers"        -> MaxOpen + 4
    [] at = "saving"         -> count + 3
    [] at = "drafts"         -> 2
    [] at = "services"       -> 1
    [] OTHER                 -> 0
Begun(r) == step[r] \notin {"none", "refused", "delayed", "done"}

(* An unload that has begun is never stuck: it is at a step that will end,  *)
(* and when it waits for buffers, one of them is being saved, whichever     *)
(* could not be saved; each of its steps leaves fewer, also when it is      *)
(* cancelled, and nothing else that happens to the context sets it back.    *)
THEOREM UnloadsGoOn ==
  /\ ContextSpec => [](\A r \in Unloads : Begun(r) =>
                         step[r] \in DOMAIN After /\ (step[r] = "saving" => saving[r] > 0))
  /\ ContextSpec => [][\A r \in Unloads : UnloadSteps(r) =>
                          /\ StepsLeft(step[r], saving[r]) > StepsLeft(step'[r], saving'[r])
                          /\ StepsLeft(step'[r], saving'[r]) \in Nat]_contextVars
  /\ ContextSpec => [][\A r \in Unloads : Begun(r) =>
                          \/ UnloadSteps(r)
                          \/ step'[r] = step[r] /\ saving'[r] = saving[r]]_contextVars
<1>1. ContextInv => \A r \in Unloads : Begun(r) =>
                      step[r] \in DOMAIN After /\ (step[r] = "saving" => saving[r] > 0)
  BY AfterFacts DEF ContextInv, ContextTypeOK, ProgressCounts, Begun, UnloadStages
<1>2. ASSUME ContextInv, NEW r \in Unloads, UnloadSteps(r)
      PROVE  /\ StepsLeft(step[r], saving[r]) > StepsLeft(step'[r], saving'[r])
             /\ StepsLeft(step'[r], saving'[r]) \in Nat
  <2> USE ContextAssumption DEF ContextInv
  <2>1. /\ step \in [Unloads -> UnloadStages] /\ saving \in [Unloads -> 0..MaxOpen]
        /\ in_progress[r] = saving[r] /\ (saving[r] > 0 <=> step[r] = "saving")
    BY <1>2 DEF ContextTypeOK, ProgressCounts
  <2>2. ASSUME NEW ok \in BOOLEAN, StepEnds(r, ok)
        PROVE  /\ StepsLeft(step[r], saving[r]) > StepsLeft(step'[r], saving'[r])
               /\ StepsLeft(step'[r], saving'[r]) \in Nat
    <3>1. /\ step[r] \in DOMAIN After \ {"buffers", "saving"}
          /\ saving' = saving /\ step'[r] \in {After[step[r]], "done"}
      BY <2>1, <2>2 DEF StepEnds, GoesOn, bufferStep
    <3> QED
      BY <3>1, AfterFacts DEF StepsLeft
  <2>3. ASSUME NEW ok \in BOOLEAN, UnloadBuffers(r, ok)
        PROVE  /\ StepsLeft(step[r], saving[r]) > StepsLeft(step'[r], saving'[r])
               /\ StepsLeft(step'[r], saving'[r]) \in Nat
    <3>1. /\ step[r] = "buffers"
          /\ \/ step'[r] \in {"drafts", "done"}
             \/ step'[r] = "saving" /\ saving'[r] \in 0..MaxOpen
      BY <2>1, <2>3, AfterFacts DEF UnloadBuffers, GoesOn
    <3> QED
      BY <3>1 DEF StepsLeft
  <2>4. ASSUME NEW ok \in BOOLEAN, BufferSaved(r, ok)
        PROVE  /\ StepsLeft(step[r], saving[r]) > StepsLeft(step'[r], saving'[r])
               /\ StepsLeft(step'[r], saving'[r]) \in Nat
    <3>1. /\ step[r] = "saving" /\ saving[r] \in 1..MaxOpen
          /\ saving'[r] = saving[r] - 1 /\ step'[r] \in {"saving", "drafts", "done"}
      BY <2>1, <2>4, AfterFacts DEF BufferSaved, GoesOn
    <3> QED
      BY <3>1 DEF StepsLeft
  <2> QED
    BY <1>2, <2>2, <2>3, <2>4 DEF UnloadSteps
<1>3. ContextInv /\ [ContextNext]_contextVars
        => [\A r \in Unloads : UnloadSteps(r) =>
              /\ StepsLeft(step[r], saving[r]) > StepsLeft(step'[r], saving'[r])
              /\ StepsLeft(step'[r], saving'[r]) \in Nat]_contextVars
  BY <1>2
<1>4. ASSUME ContextInv, ContextNext, NEW r \in Unloads, Begun(r), ~UnloadSteps(r)
      PROVE  step'[r] = step[r] /\ saving'[r] = saving[r]
  <2> USE DEF ContextInv, bufferStep
  <2>1. CASE ContextHold \/ RestoreNext \/ \E n \in 0..MaxDrafts : RestoreAsync(n)
    BY <2>1 DEF ContextHold, RestoreNext, RestoreAsync
  <2>2. CASE ContextRelease
    <3>1. delayed # 0 => delayed # r
      BY <1>4 DEF DelayedOnlyWhileHeld, Begun
    <3> QED
      BY <1>4, <2>2, <3>1 DEF ContextRelease, Unload, ContextTypeOK
  <2>3. CASE UnloadAsync
    <3>1. r # unloads + 1
      BY <1>4, ContextAssumption DEF NotMadeYet, Begun, ContextTypeOK
    <3> QED
      BY <1>4, <2>3, <3>1 DEF UnloadAsync, Unload, ContextTypeOK
  <2>4. ASSUME NEW q \in Unloads, UnloadSteps(q)
        PROVE  step'[r] = step[r] /\ saving'[r] = saving[r]
    <3>1. q # r
      BY <1>4, <2>4
    <3> QED
      BY <1>4, <2>4, <3>1
      DEF UnloadSteps, StepEnds, GoesOn, UnloadBuffers, BufferSaved, ContextTypeOK
  <2> QED
    BY <1>4, <2>1, <2>2, <2>3, <2>4 DEF ContextNext
<1>5. ContextInv /\ [ContextNext]_contextVars
        => [\A r \in Unloads : Begun(r) =>
              \/ UnloadSteps(r)
              \/ step'[r] = step[r] /\ saving'[r] = saving[r]]_contextVars
  BY <1>4
<1> QED
  BY ContextInitInv, ContextStepInv, <1>1, <1>3, <1>5, PTL DEF ContextSpec
=============================================================================
