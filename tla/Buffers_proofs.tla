-------------------------- MODULE Buffers_proofs --------------------------
(***************************************************************************)
(* Theorems about Buffers, for any files, buffers, contents, views and     *)
(* saves.                                                                  *)
(***************************************************************************)
EXTENDS Buffers, TLAPS

-----------------------------------------------------------------------------
(* The inductive invariant. *)

(* The buffers that are listed, were, or are shown while they are loaded.   *)
Seen == buffers \cup disposed \cup {l.buffer : l \in {m \in loads : m.stage = "read"}}

(* A buffer that was made has a file; loads and saves are of those, and     *)
(* a buffer that is saved was seen.                                         *)
OfMade ==
  /\ \A b \in 1..created : fileOf[b] \in Files
  /\ \A l \in loads : l.buffer \in 1..created
  /\ \A s \in Slots : saves[s] # None => saves[s].buffer \in Seen

(* A file has one load task; a new buffer is made while no other has its    *)
(* file, and nobody could dispose of it; a buffer that is reloaded was      *)
(* listed.                                                                  *)
Loads ==
  /\ \A l, m \in loads : fileOf[l.buffer] = fileOf[m.buffer] => l = m
  /\ \A l \in loads : IF l.is_new THEN l.buffer \notin disposed /\ BuffersOf(fileOf[l.buffer]) = {}
                                  ELSE l.buffer \in buffers \cup disposed

(* What a buffer can be, depending on whether it is listed. *)
Sets ==
  /\ modified \subseteq Seen /\ cached \subseteq buffers
  /\ buffers \cap disposed = {} /\ grace \cap disposed = {}

BuffersInv ==
  /\ TypeOK /\ OfMade /\ Loads /\ Sets
  /\ OneBufferPerFile /\ LoadingMatchesTasks /\ TimersOfTracked /\ UnsavedMirrors
  /\ GraceOnlyUnheld

-----------------------------------------------------------------------------
LEMMA BuffersInitInv == Init => BuffersInv
<1> SUFFICES ASSUME Init
             PROVE  BuffersInv
  OBVIOUS
<1>1. \A m \in Nat : 0 \in 0..m /\ (m # 0 => 1 \in 0..m)
  OBVIOUS
<1>2. 1..0 = {}
  OBVIOUS
<1>3. TypeOK
  BY <1>1, BuffersAssumption DEF Init, TypeOK, Versions
<1> QED
  BY <1>2, <1>3
  DEF Init, BuffersInv, OfMade, Seen, Loads, Sets, BuffersOf, OneBufferPerFile, LoadingMatchesTasks,
      TimersOfTracked, UnsavedMirrors, GraceOnlyUnheld

(* The buffers that were made. *)
LEMMA MadeFacts ==
  ASSUME BuffersInv
  PROVE  /\ created \in Nat /\ 1..created \subseteq AllBuffers
         /\ 0 \in Versions /\ None \notin Files /\ None \notin Versions
         /\ \A b \in 1..created : fileOf[b] \in Files /\ disk[fileOf[b]] \in Versions
         /\ \A l \in loads : /\ l \in LoadTasks /\ l.buffer \in 1..created
                            /\ fileOf[l.buffer] \in Files
         /\ \A s \in Slots : saves[s] # None => saves[s] \in SaveTasks /\ saves[s].buffer \in Seen
         /\ Seen \subseteq 1..created
<1>1. created \in Nat /\ 1..created \subseteq AllBuffers
  BY BuffersAssumption DEF BuffersInv, TypeOK, AllBuffers
<1>2. 0 \in Versions /\ None \notin Files /\ None \notin Versions
  BY BuffersAssumption DEF Versions
<1>3. \A b \in 1..created : fileOf[b] \in Files /\ disk[fileOf[b]] \in Versions
  BY DEF BuffersInv, TypeOK, OfMade
<1>4. \A l \in loads : l \in LoadTasks /\ l.buffer \in 1..created /\ fileOf[l.buffer] \in Files
  BY DEF BuffersInv, TypeOK, OfMade
<1>5. \A s \in Slots : saves[s] # None => saves[s] \in SaveTasks /\ saves[s].buffer \in Seen
  BY DEF BuffersInv, TypeOK, OfMade
<1>6. Seen \subseteq 1..created
  BY <1>4 DEF BuffersInv, TypeOK, Seen
<1> QED
  BY <1>1, <1>2, <1>3, <1>4, <1>5, <1>6

(* The other buffers are of other files. *)
LEMMA FilesApart ==
  ASSUME BuffersInv, NEW b \in buffers, NEW c \in buffers, b # c
  PROVE  fileOf[b] # fileOf[c]
BY DEF BuffersInv, OneBufferPerFile

(* Nor are those that are shown while they are loaded. *)
LEMMA LoadedApart ==
  ASSUME BuffersInv, NEW b \in Seen \ disposed, NEW c \in buffers, b # c
  PROVE  fileOf[b] # fileOf[c]
<1>1. CASE b \in buffers
  BY <1>1, FilesApart
<1>2. CASE b \notin buffers
  <2>1. PICK l \in loads : l.buffer = b
    BY <1>2 DEF Seen
  <2> QED
    BY <1>2, <2>1 DEF BuffersInv, Loads, BuffersOf
<1> QED
  BY <1>1, <1>2

(* A step that neither loads nor removes a buffer. *)
LEMMA LoadsKept ==
  ASSUME BuffersInv, UNCHANGED <<created, fileOf, loading, loads, buffers, disposed>>
  PROVE  (Loads /\ OneBufferPerFile /\ LoadingMatchesTasks)'
BY DEF BuffersInv, Loads, OneBufferPerFile, LoadingMatchesTasks, BuffersOf

(* A save begins. *)
LEMMA BeginSaveFacts ==
  ASSUME BuffersInv, NEW b \in Seen, b \in 1..created, NEW reclaim \in BOOLEAN,
         BeginSave(b, reclaim)
  PROVE  /\ saves' \in [Slots -> SaveTasks \cup {None}]
         /\ \A s \in Slots : saves'[s] # None => saves'[s].buffer \in Seen
         /\ timeouts' = timeouts \ {b}
<1> DEFINE task == [buffer |-> b, reclaim |-> reclaim, stage |-> "settings"]
<1>1. PICK s \in Slots : saves' = [saves EXCEPT ![s] = task]
  BY DEF BeginSave, Free
<1>2. task \in SaveTasks /\ task.buffer = b
  BY MadeFacts DEF SaveTasks
<1>3. saves \in [Slots -> SaveTasks \cup {None}]
  BY DEF BuffersInv, TypeOK
<1> HIDE DEF task
<1>4. \A r \in Slots : saves'[r] = IF r = s THEN task ELSE saves[r]
  BY <1>1, <1>3
<1>5. saves' \in [Slots -> SaveTasks \cup {None}]
  BY <1>1, <1>2, <1>3
<1> QED
  BY <1>2, <1>4, <1>5 DEF BeginSave, BuffersInv, OfMade

LEMMA SaveInv ==
  ASSUME BuffersInv, NEW b \in AllBuffers, Save(b)
  PROVE  BuffersInv'
<1> USE DEF bufferVars, managerVars
<1>0. /\ saves' \in [Slots -> SaveTasks \cup {None}]
      /\ \A s \in Slots : saves'[s] # None => saves'[s].buffer \in Seen
      /\ timeouts' = timeouts \ {b}
  <2>1. b \in Seen /\ b \in 1..created /\ BeginSave(b, FALSE)
    BY DEF Save, BuffersInv, TypeOK, Seen
  <2> QED
    BY <2>1, BeginSaveFacts
<1>1. TypeOK'
  <2>1. UNCHANGED <<version, disk, created, fileOf, text, mtime_set, holds, modified, volume, cached,
                  grace, disposed, buffers, tracked, loading, loads, unsaved,
                  givenUp>>
    BY DEF Save
  <2>2. saves' \in [Slots -> SaveTasks \cup {None}]
    BY MadeFacts, <1>0 DEF Save, BuffersInv, TypeOK
  <2>3. timeouts' \subseteq 1..created
    BY MadeFacts, <1>0 DEF Save, BuffersInv, TypeOK
  <2> QED
    BY <2>1, <2>2, <2>3 DEF BuffersInv, TypeOK
<1>2. (Loads /\ OneBufferPerFile /\ LoadingMatchesTasks)'
  BY LoadsKept DEF Save
<1>3. OfMade' /\ Sets' /\ TimersOfTracked' /\ GraceOnlyUnheld'
  BY MadeFacts, <1>0 DEF Save, BuffersInv, TypeOK, OfMade, Seen, Sets, TimersOfTracked, GraceOnlyUnheld
<1>4. UnsavedMirrors'
  BY MadeFacts, FilesApart, <1>0 DEF Save, BuffersInv, TypeOK, UnsavedMirrors, Sets
<1> QED
  BY <1>1, <1>2, <1>3, <1>4 DEF BuffersInv

LEMMA AutoSaveInv ==
  ASSUME BuffersInv, NEW b \in AllBuffers, AutoSave(b)
  PROVE  BuffersInv'
<1> USE DEF bufferVars, managerVars
<1>0. /\ saves' \in [Slots -> SaveTasks \cup {None}] /\ b \in 1..created
      /\ \A s \in Slots : saves'[s] # None => saves'[s].buffer \in Seen
      /\ timeouts' = timeouts \ {b}
  <2>1. b \in Seen /\ b \in 1..created
    BY DEF AutoSave, BuffersInv, TypeOK, TimersOfTracked, Seen
  <2>2. CASE b \in volume
    BY <2>1, <2>2 DEF AutoSave, BuffersInv, TypeOK, OfMade
  <2>3. CASE b \notin volume
    BY <2>1, <2>3, BeginSaveFacts DEF AutoSave
  <2> QED
    BY <2>2, <2>3, <2>1
<1>1. TypeOK'
  <2>1. UNCHANGED <<version, disk, created, fileOf, text, mtime_set, holds, modified, volume, cached,
                  grace, disposed, buffers, tracked, loading, loads, unsaved>>
    BY DEF AutoSave
  <2>2. saves' \in [Slots -> SaveTasks \cup {None}]
    BY MadeFacts, <1>0 DEF AutoSave, BuffersInv, TypeOK
  <2>3. timeouts' \subseteq 1..created
    BY MadeFacts, <1>0 DEF AutoSave, BuffersInv, TypeOK
  <2>4. givenUp' \subseteq 1..created
    <3>1. givenUp' \subseteq givenUp \cup {b}
      BY DEF AutoSave
    <3> QED
      BY <1>0, <3>1 DEF BuffersInv, TypeOK
  <2> QED
    BY <2>1, <2>2, <2>3, <2>4 DEF BuffersInv, TypeOK
<1>2. (Loads /\ OneBufferPerFile /\ LoadingMatchesTasks)'
  BY LoadsKept DEF AutoSave
<1>3. OfMade' /\ Sets' /\ TimersOfTracked' /\ GraceOnlyUnheld'
  BY MadeFacts, <1>0 DEF AutoSave, BuffersInv, TypeOK, OfMade, Seen, Sets, TimersOfTracked, GraceOnlyUnheld
<1>4. UnsavedMirrors'
  BY MadeFacts, FilesApart, <1>0 DEF AutoSave, BuffersInv, TypeOK, UnsavedMirrors, Sets
<1> QED
  BY <1>1, <1>2, <1>3, <1>4 DEF BuffersInv

LEMMA HoldInv ==
  ASSUME BuffersInv, NEW b \in AllBuffers, Hold(b)
  PROVE  BuffersInv'
<1> USE DEF bufferVars, managerVars
<1>0. holds[b] + 1 \in 0..MaxHolds /\ b \in AllBuffers
  BY BuffersAssumption DEF Hold, BuffersInv, TypeOK
<1>1. TypeOK'
  <2>1. UNCHANGED <<version, disk, created, fileOf, text, mtime_set, modified, volume, cached, disposed,
                  buffers, tracked, timeouts, loading, loads, saves, unsaved,
                  givenUp>>
    BY DEF Hold
  <2>2. holds' \in [AllBuffers -> 0..MaxHolds]
    BY MadeFacts, <1>0 DEF Hold, BuffersInv, TypeOK
  <2>3. grace' \subseteq 1..created
    BY MadeFacts, <1>0 DEF Hold, BuffersInv, TypeOK
  <2> QED
    BY <2>1, <2>2, <2>3 DEF BuffersInv, TypeOK
<1>2. (Loads /\ OneBufferPerFile /\ LoadingMatchesTasks)'
  BY LoadsKept DEF Hold
<1>3. OfMade' /\ Sets' /\ TimersOfTracked' /\ GraceOnlyUnheld'
  BY MadeFacts, <1>0 DEF Hold, BuffersInv, TypeOK, OfMade, Seen, Sets, TimersOfTracked, GraceOnlyUnheld
<1>4. UnsavedMirrors'
  BY MadeFacts, FilesApart, <1>0 DEF Hold, BuffersInv, TypeOK, UnsavedMirrors, Sets
<1> QED
  BY <1>1, <1>2, <1>3, <1>4 DEF BuffersInv

LEMMA ReleaseInv ==
  ASSUME BuffersInv, NEW b \in AllBuffers, Release(b)
  PROVE  BuffersInv'
<1> USE DEF bufferVars, managerVars
<1>0. /\ holds[b] - 1 \in 0..MaxHolds /\ holds[b] \in Nat /\ b \in 1..created /\ b \notin disposed
  <2>1. holds[b] \in 0..MaxHolds /\ holds[b] > 0
    BY DEF Release, BuffersInv, TypeOK
  <2>2. holds[b] - 1 \in 0..MaxHolds /\ holds[b] \in Nat
    BY <2>1, BuffersAssumption
  <2>3. b \in 1..created /\ b \notin disposed
    BY MadeFacts DEF Release, Viewable, BuffersInv, TypeOK, Sets
  <2> QED
    BY <2>2, <2>3
<1>1. TypeOK'
  <2>1. UNCHANGED <<version, disk, created, fileOf, text, mtime_set, modified, volume, cached, disposed,
                  buffers, tracked, timeouts, loading, loads, saves, unsaved,
                  givenUp>>
    BY DEF Release
  <2>2. holds' \in [AllBuffers -> 0..MaxHolds]
    BY MadeFacts, <1>0 DEF Release, BuffersInv, TypeOK
  <2>3. grace' \subseteq 1..created
    BY MadeFacts, <1>0 DEF Release, BuffersInv, TypeOK
  <2> QED
    BY <2>1, <2>2, <2>3 DEF BuffersInv, TypeOK
<1>2. (Loads /\ OneBufferPerFile /\ LoadingMatchesTasks)'
  BY LoadsKept DEF Release
<1>3. OfMade' /\ Sets' /\ TimersOfTracked' /\ GraceOnlyUnheld'
  BY MadeFacts, <1>0 DEF Release, BuffersInv, TypeOK, OfMade, Seen, Sets, TimersOfTracked, GraceOnlyUnheld
<1>4. UnsavedMirrors'
  BY MadeFacts, FilesApart, <1>0 DEF Release, BuffersInv, TypeOK, UnsavedMirrors, Sets
<1> QED
  BY <1>1, <1>2, <1>3, <1>4 DEF BuffersInv

LEMMA GetContentInv ==
  ASSUME BuffersInv, NEW b \in AllBuffers, GetContent(b)
  PROVE  BuffersInv'
<1> USE DEF bufferVars, managerVars
<1>1. TypeOK'
  <2>1. UNCHANGED <<version, disk, created, fileOf, text, mtime_set, holds, modified, volume, grace,
                  disposed, buffers, tracked, timeouts, loading, loads, saves,
                  givenUp>>
    BY DEF GetContent
  <2>2. cached' \subseteq 1..created
    BY MadeFacts DEF GetContent, BuffersInv, TypeOK
  <2>3. unsaved' \in [Files -> Versions \cup {None}]
    BY MadeFacts DEF GetContent, BuffersInv, TypeOK
  <2> QED
    BY <2>1, <2>2, <2>3 DEF BuffersInv, TypeOK
<1>2. (Loads /\ OneBufferPerFile /\ LoadingMatchesTasks)'
  BY LoadsKept DEF GetContent
<1>3. OfMade' /\ Sets' /\ TimersOfTracked' /\ GraceOnlyUnheld'
  BY MadeFacts DEF GetContent, BuffersInv, TypeOK, OfMade, Seen, Sets, TimersOfTracked, GraceOnlyUnheld
<1>4. UnsavedMirrors'
  BY MadeFacts, FilesApart DEF GetContent, BuffersInv, TypeOK, UnsavedMirrors, Sets
<1> QED
  BY <1>1, <1>2, <1>3, <1>4 DEF BuffersInv

LEMMA VolumeCheckedInv ==
  ASSUME BuffersInv, NEW b \in AllBuffers, VolumeChecked(b)
  PROVE  BuffersInv'
<1> USE DEF bufferVars, managerVars
<1>1. TypeOK'
  <2>1. UNCHANGED <<version, disk, created, fileOf, text, mtime_set, holds, modified, cached, grace,
                  disposed, buffers, tracked, timeouts, loading, loads, saves,
                  unsaved, givenUp>>
    BY DEF VolumeChecked
  <2>2. volume' \subseteq 1..created
    BY MadeFacts DEF VolumeChecked, BuffersInv, TypeOK
  <2> QED
    BY <2>1, <2>2 DEF BuffersInv, TypeOK
<1>2. (Loads /\ OneBufferPerFile /\ LoadingMatchesTasks)'
  BY LoadsKept DEF VolumeChecked
<1>3. OfMade' /\ Sets' /\ TimersOfTracked' /\ GraceOnlyUnheld'
  BY MadeFacts DEF VolumeChecked, BuffersInv, TypeOK, OfMade, Seen, Sets, TimersOfTracked, GraceOnlyUnheld
<1>4. UnsavedMirrors'
  BY MadeFacts, FilesApart DEF VolumeChecked, BuffersInv, TypeOK, UnsavedMirrors, Sets
<1> QED
  BY <1>1, <1>2, <1>3, <1>4 DEF BuffersInv

LEMMA ForeignWriteInv ==
  ASSUME BuffersInv, NEW f \in Files, ForeignWrite(f)
  PROVE  BuffersInv'
<1> USE DEF bufferVars, managerVars
<1>0. version + 1 \in Versions
  <2>1. version \in 0..MaxVersions /\ version < MaxVersions
    BY DEF ForeignWrite, BuffersInv, TypeOK, Versions
  <2> QED
    BY <2>1, BuffersAssumption DEF Versions
<1>1. TypeOK'
  <2>1. UNCHANGED <<created, fileOf, text, mtime_set, holds, modified, volume, cached, grace, disposed,
                  buffers, tracked, timeouts, loading, loads, saves, unsaved,
                  givenUp>>
    BY DEF ForeignWrite
  <2>2. version' \in Versions
    BY MadeFacts, <1>0 DEF ForeignWrite, BuffersInv, TypeOK
  <2>3. disk' \in [Files -> Versions]
    BY MadeFacts, <1>0 DEF ForeignWrite, BuffersInv, TypeOK
  <2> QED
    BY <2>1, <2>2, <2>3 DEF BuffersInv, TypeOK
<1>2. (Loads /\ OneBufferPerFile /\ LoadingMatchesTasks)'
  BY LoadsKept DEF ForeignWrite
<1>3. OfMade' /\ Sets' /\ TimersOfTracked' /\ GraceOnlyUnheld'
  BY MadeFacts, <1>0 DEF ForeignWrite, BuffersInv, TypeOK, OfMade, Seen, Sets, TimersOfTracked, GraceOnlyUnheld
<1>4. UnsavedMirrors'
  BY MadeFacts, FilesApart, <1>0 DEF ForeignWrite, BuffersInv, TypeOK, UnsavedMirrors, Sets
<1> QED
  BY <1>1, <1>2, <1>3, <1>4 DEF BuffersInv

LEMMA WrittenInv ==
  ASSUME BuffersInv, NEW s \in Slots, Written(s)
  PROVE  BuffersInv'
<1> USE DEF bufferVars, managerVars
<1>0. /\ saves[s] # None /\ saves[s] \in SaveTasks /\ saves[s].buffer \in Seen
      /\ saves[s].buffer \in 1..created /\ \A r \in Slots : r # s => saves'[r] = saves[r]
      /\ saves'[s] \in SaveTasks /\ saves'[s].buffer = saves[s].buffer
      /\ saves' \in [Slots -> SaveTasks \cup {None}]
  <2>1. saves[s] # None /\ saves[s] \in SaveTasks /\ saves[s].buffer \in Seen
      /\ saves[s].buffer \in 1..created
    BY MadeFacts DEF Written, SavingAt
  <2>2. \E stage \in {"write", "done", "mtime"} : saves' = [saves EXCEPT ![s].stage = stage]
    BY DEF Written, Advance
  <2> QED
    BY <2>1, <2>2 DEF SaveTasks, BuffersInv, TypeOK
<1>1. TypeOK'
  <2>1. UNCHANGED <<version, created, fileOf, text, mtime_set, holds, modified, volume, cached, grace,
                  disposed, buffers, tracked, timeouts, loading, loads, unsaved,
                  givenUp>>
    BY DEF Written, SavingAt, Advance
  <2>2. saves' \in [Slots -> SaveTasks \cup {None}]
    BY MadeFacts, <1>0 DEF Written, SavingAt, Advance, BuffersInv, TypeOK
  <2>3. disk' \in [Files -> Versions]
    BY MadeFacts, <1>0 DEF Written, SavingAt, Advance, BuffersInv, TypeOK
  <2> QED
    BY <2>1, <2>2, <2>3 DEF BuffersInv, TypeOK
<1>2. (Loads /\ OneBufferPerFile /\ LoadingMatchesTasks)'
  BY LoadsKept DEF Written
<1>3. OfMade' /\ Sets' /\ TimersOfTracked' /\ GraceOnlyUnheld'
  BY MadeFacts, <1>0 DEF Written, SavingAt, Advance, BuffersInv, TypeOK, OfMade, Seen, Sets, TimersOfTracked, GraceOnlyUnheld
<1>4. UnsavedMirrors'
  BY MadeFacts, FilesApart, <1>0 DEF Written, SavingAt, Advance, BuffersInv, TypeOK, UnsavedMirrors, Sets
<1> QED
  BY <1>1, <1>2, <1>3, <1>4 DEF BuffersInv

LEMMA SaveDoneInv ==
  ASSUME BuffersInv, NEW s \in Slots, SaveDone(s)
  PROVE  BuffersInv'
<1> USE DEF bufferVars, managerVars
<1>0. /\ saves[s] # None /\ saves[s] \in SaveTasks /\ saves[s].buffer \in Seen
      /\ saves[s].buffer \in 1..created /\ \A r \in Slots : r # s => saves'[r] = saves[r]
      /\ saves'[s] \in SaveTasks /\ saves'[s].buffer = saves[s].buffer
      /\ saves' \in [Slots -> SaveTasks \cup {None}]
  <2>1. saves[s] # None /\ saves[s] \in SaveTasks /\ saves[s].buffer \in Seen
      /\ saves[s].buffer \in 1..created
    BY MadeFacts DEF SaveDone, SavingAt
  <2>2. \E stage \in {"write", "done", "mtime"} : saves' = [saves EXCEPT ![s].stage = stage]
    BY DEF SaveDone, Advance
  <2> QED
    BY <2>1, <2>2 DEF SaveTasks, BuffersInv, TypeOK
<1>1. TypeOK'
  <2>1. UNCHANGED <<version, disk, created, fileOf, text, mtime_set, holds, volume, cached, grace,
                  disposed, buffers, tracked, timeouts, loading, loads, givenUp>>
    BY DEF SaveDone, SavingAt, Advance, MarkedClean, Unscheduled
  <2>2. saves' \in [Slots -> SaveTasks \cup {None}]
    BY MadeFacts, <1>0 DEF SaveDone, SavingAt, Advance, MarkedClean, Unscheduled, BuffersInv, TypeOK
  <2>3. modified' \subseteq 1..created
    BY MadeFacts, <1>0 DEF SaveDone, SavingAt, Advance, MarkedClean, Unscheduled, BuffersInv, TypeOK
  <2>4. unsaved' \in [Files -> Versions \cup {None}]
    BY MadeFacts, <1>0 DEF SaveDone, SavingAt, Advance, MarkedClean, Unscheduled, BuffersInv, TypeOK
  <2> QED
    BY <2>1, <2>2, <2>3, <2>4 DEF BuffersInv, TypeOK
<1>2. (Loads /\ OneBufferPerFile /\ LoadingMatchesTasks)'
  BY LoadsKept DEF SaveDone
<1>3. OfMade' /\ Sets' /\ TimersOfTracked' /\ GraceOnlyUnheld'
  BY MadeFacts, <1>0 DEF SaveDone, SavingAt, Advance, MarkedClean, Unscheduled, BuffersInv, TypeOK, OfMade, Seen, Sets, TimersOfTracked, GraceOnlyUnheld
<1>4. UnsavedMirrors'
  <2>1. CASE saves[s].buffer \in disposed
    BY <2>1 DEF SaveDone, BuffersInv, UnsavedMirrors
  <2>2. CASE saves[s].buffer \notin disposed
    <3>1. saves[s].buffer \in Seen \ disposed
      BY <1>0, <2>2, MadeFacts
    <3>2. \A c \in buffers \ {saves[s].buffer} : unsaved'[fileOf[c]] = unsaved[fileOf[c]]
      <4>1. unsaved' = [unsaved EXCEPT ![fileOf[saves[s].buffer]] = None]
        BY <2>2 DEF SaveDone, MarkedClean
      <4>2. \A c \in buffers : fileOf[c] \in Files
        BY MadeFacts DEF BuffersInv, TypeOK
      <4>3. \A c \in buffers \ {saves[s].buffer} : fileOf[c] # fileOf[saves[s].buffer]
        BY <3>1, LoadedApart
      <4> QED
        BY <4>1, <4>2, <4>3 DEF BuffersInv, TypeOK
    <3> QED
      BY <2>2, <3>2 DEF SaveDone, MarkedClean, BuffersInv, UnsavedMirrors
  <2> QED
    BY <2>1, <2>2
<1> QED
  BY <1>1, <1>2, <1>3, <1>4 DEF BuffersInv

-----------------------------------------------------------------------------
(* A listed buffer is removed. *)
LEMMA RemoveFacts ==
  ASSUME BuffersInv, NEW b \in buffers, RemoveBuffer(b), UNCHANGED fileOf
  PROVE  /\ buffers' = buffers \ {b} /\ tracked' \subseteq buffers' /\ timeouts' \subseteq tracked'
         /\ disposed' = disposed \cup {b} /\ cached' \subseteq buffers'
         /\ modified' \subseteq Seen /\ modified' \subseteq modified
         /\ grace' \subseteq grace /\ grace' \cap disposed' = {}
         /\ mtime_set' \subseteq 1..created /\ volume' \subseteq 1..created
         /\ givenUp' \subseteq 1..created
         /\ holds' \in [AllBuffers -> 0..MaxHolds] /\ GraceOnlyUnheld'
         /\ text' \in [AllBuffers -> Versions] /\ \A c \in buffers' : text'[c] = text[c]
         /\ unsaved' \in [Files -> Versions \cup {None}] /\ UnsavedMirrors'
<1> USE DEF managerVars
<1>1. /\ buffers' = buffers \ {b} /\ tracked' = tracked \ {b} /\ timeouts' = timeouts \ {b}
      /\ disposed' = disposed \cup {b} /\ grace' = grace \ {b} /\ cached' = cached \ {b}
      /\ modified' = modified \ {b} /\ holds' = [holds EXCEPT ![b] = 0]
      /\ mtime_set' = mtime_set \ {b} /\ volume' = volume \ {b} /\ givenUp' = givenUp \ {b}
      /\ unsaved' \in {unsaved, [unsaved EXCEPT ![fileOf[b]] = None]}
      /\ text' \in {text, [text EXCEPT ![b] = 0]}
  BY DEF RemoveBuffer, Unregistered, Forgotten
<1>2. \A c \in buffers : fileOf[c] \in Files /\ c \in AllBuffers
  BY MadeFacts DEF BuffersInv, TypeOK
<1>3. \A c \in buffers \ {b} : fileOf[c] # fileOf[b]
  BY FilesApart
<1>4. /\ unsaved' \in [Files -> Versions \cup {None}]
      /\ \A c \in buffers \ {b} : unsaved'[fileOf[c]] = unsaved[fileOf[c]]
  BY <1>1, <1>2, <1>3 DEF BuffersInv, TypeOK
<1>5. text' \in [AllBuffers -> Versions] /\ \A c \in buffers \ {b} : text'[c] = text[c]
  BY <1>1, <1>2, MadeFacts DEF BuffersInv, TypeOK
<1>6. holds' \in [AllBuffers -> 0..MaxHolds] /\ \A c \in AllBuffers \ {b} : holds'[c] = holds[c]
  <2>1. 0 \in 0..MaxHolds
    BY BuffersAssumption
  <2> QED
    BY <1>1, <2>1 DEF BuffersInv, TypeOK
<1>7. GraceOnlyUnheld'
  BY <1>1, <1>2, <1>6 DEF BuffersInv, GraceOnlyUnheld, TypeOK, AllBuffers
<1>8. UnsavedMirrors'
  <2> SUFFICES ASSUME NEW c \in (buffers' \cap modified') \cap cached'
               PROVE  unsaved'[fileOf'[c]] = text'[c]
    BY DEF UnsavedMirrors
  <2>1. c \in buffers \ {b} /\ c \in modified /\ c \in cached
    BY <1>1
  <2>2. unsaved[fileOf[c]] = text[c]
    BY <2>1 DEF BuffersInv, UnsavedMirrors
  <2> QED
    BY <2>1, <2>2, <1>4, <1>5
<1>9. /\ tracked' \subseteq buffers' /\ timeouts' \subseteq tracked' /\ cached' \subseteq buffers'
      /\ modified' \subseteq Seen /\ grace' \cap disposed' = {}
  BY <1>1 DEF BuffersInv, Sets, TimersOfTracked
<1>10. /\ mtime_set' \subseteq 1..created /\ volume' \subseteq 1..created
       /\ givenUp' \subseteq 1..created
  BY <1>1 DEF BuffersInv, TypeOK
<1> QED
  BY <1>1, <1>4, <1>5, <1>6, <1>7, <1>8, <1>9, <1>10

(* What a step must keep that changes no load and no file. *)
LEMMA KeptInv ==
  ASSUME BuffersInv, UNCHANGED <<disk, created, fileOf, loading, loads>>,
         version' \in Versions, text' \in [AllBuffers -> Versions],
         holds' \in [AllBuffers -> 0..MaxHolds],
         mtime_set' \subseteq 1..created, volume' \subseteq 1..created, givenUp' \subseteq 1..created,
         saves' \in [Slots -> SaveTasks \cup {None}],
         \A s \in Slots : saves'[s] # None => saves'[s].buffer \in Seen,
         buffers' \subseteq buffers, disposed' = disposed \cup (buffers \ buffers'),
         tracked' \subseteq buffers', timeouts' \subseteq tracked',
         cached' \subseteq buffers', modified' \subseteq Seen,
         grace' \subseteq grace, grace' \cap disposed' = {}, GraceOnlyUnheld',
         unsaved' \in [Files -> Versions \cup {None}], UnsavedMirrors'
  PROVE  BuffersInv'
<1>1. Seen' = Seen
  BY DEF Seen
<1>2. TypeOK'
  <2>1. modified' \subseteq 1..created
    BY MadeFacts
  <2> QED
    BY <2>1 DEF BuffersInv, TypeOK
<1>3. OfMade' /\ Sets' /\ TimersOfTracked'
  <2>1. buffers' \cap disposed' = {}
    BY DEF BuffersInv, Sets
  <2> QED
    BY <1>1, <2>1 DEF BuffersInv, OfMade, Sets, TimersOfTracked
<1>4. OneBufferPerFile' /\ LoadingMatchesTasks'
  BY DEF BuffersInv, OneBufferPerFile, LoadingMatchesTasks
<1>5. Loads'
  <2>1. \A l \in loads : l.is_new => l.buffer \notin buffers
    BY DEF BuffersInv, Loads, BuffersOf
  <2>2. \A l \in loads : l.is_new => BuffersOf(fileOf[l.buffer])' = {}
    BY DEF BuffersInv, Loads, BuffersOf
  <2>3. \A l \in loads : IF l.is_new THEN l.buffer \notin disposed'
                                    ELSE l.buffer \in buffers' \cup disposed'
    BY <2>1 DEF BuffersInv, Loads
  <2> QED
    BY <2>2, <2>3 DEF BuffersInv, Loads
<1> QED
  BY <1>2, <1>3, <1>4, <1>5 DEF BuffersInv

(* The same for one that only changes texts: what is cached has its text.   *)
LEMMA TextsInv ==
  ASSUME BuffersInv,
         UNCHANGED <<disk, created, fileOf, holds, volume, grace, disposed, buffers, tracked,
                     loading, loads, unsaved>>,
         version' \in Versions, text' \in [AllBuffers -> Versions],
         mtime_set' \subseteq 1..created, givenUp' \subseteq 1..created,
         saves' \in [Slots -> SaveTasks \cup {None}],
         \A s \in Slots : saves'[s] # None => saves'[s].buffer \in Seen,
         timeouts' \subseteq tracked, cached' \subseteq cached, modified' \subseteq Seen,
         \A c \in (buffers \cap modified') \cap cached' : c \in modified /\ text'[c] = text[c]
  PROVE  BuffersInv'
<1>1. UnsavedMirrors' /\ GraceOnlyUnheld'
  BY DEF BuffersInv, UnsavedMirrors, GraceOnlyUnheld
<1>2. /\ tracked \subseteq buffers /\ cached \subseteq buffers /\ grace \cap disposed = {}
      /\ holds \in [AllBuffers -> 0..MaxHolds] /\ volume \subseteq 1..created
      /\ unsaved \in [Files -> Versions \cup {None}]
  BY DEF BuffersInv, TypeOK, Sets, TimersOfTracked
<1> QED
  BY <1>1, <1>2, KeptInv

(* The text of a buffer that is shown or saved changes. *)
LEMMA AlteredFacts ==
  ASSUME BuffersInv, NEW b \in Seen, Altered(b), UNCHANGED tracked
  PROVE  /\ version' \in Versions /\ text' \in [AllBuffers -> Versions]
         /\ timeouts' \subseteq tracked /\ cached' \subseteq cached /\ modified' \subseteq Seen
         /\ \A c \in (buffers \cap modified') \cap cached' : c \in modified /\ text'[c] = text[c]
<1>1. version + 1 \in Versions
  BY BuffersAssumption DEF Altered, BuffersInv, TypeOK, Versions
<1>2. /\ version' = version + 1 /\ text' = [text EXCEPT ![b] = version + 1]
      /\ modified' \subseteq modified \cup {b} /\ cached' = cached \ {b}
      /\ timeouts' \subseteq timeouts \cup (tracked \cap {b})
  BY DEF Altered, Changed, Uncached
<1>3. text' \in [AllBuffers -> Versions] /\ \A c \in AllBuffers \ {b} : text'[c] = text[c]
  BY <1>1, <1>2 DEF BuffersInv, TypeOK
<1>4. buffers \subseteq AllBuffers
  BY MadeFacts DEF BuffersInv, TypeOK
<1>5. modified' \subseteq Seen /\ timeouts' \subseteq tracked
  BY <1>2 DEF BuffersInv, Sets, TimersOfTracked
<1> QED
  BY <1>1, <1>2, <1>3, <1>4, <1>5

LEMMA ForgottenFacts ==
  ASSUME BuffersInv, NEW b, Forgotten(b), disposed' = disposed
  PROVE  /\ text' \in [AllBuffers -> Versions]
         /\ \A c \in buffers : text'[c] = text[c]
<1>1. \/ text' = text
      \/ b \in disposed /\ text' = [text EXCEPT ![b] = 0]
  BY DEF Forgotten
<1> QED
  BY <1>1, MadeFacts DEF BuffersInv, TypeOK, Sets

LEMMA EditInv ==
  ASSUME BuffersInv, NEW b \in AllBuffers, Edit(b)
  PROVE  BuffersInv'
<1>1. b \in Seen /\ Altered(b)
  BY DEF Edit, Viewable, Seen
<1>2. /\ UNCHANGED <<disk, created, fileOf, mtime_set, holds, volume, grace, disposed, buffers,
                     tracked, loading, loads, saves, unsaved, givenUp>>
  BY DEF Edit
<1>3. /\ saves \in [Slots -> SaveTasks \cup {None}] /\ mtime_set \subseteq 1..created
      /\ givenUp \subseteq 1..created /\ \A s \in Slots : saves[s] # None => saves[s].buffer \in Seen
  BY MadeFacts DEF BuffersInv, TypeOK
<1> QED
  BY <1>1, <1>2, <1>3, AlteredFacts, TextsInv

LEMMA LoadChunkInv ==
  ASSUME BuffersInv, NEW l \in loads, LoadChunk(l)
  PROVE  BuffersInv'
<1>1. /\ l.buffer \in Seen /\ modified' \subseteq modified \cup {l.buffer}
      /\ cached' = cached \ {l.buffer}
      /\ timeouts' \subseteq timeouts \cup (tracked \cap {l.buffer})
      /\ UNCHANGED <<version, disk, created, fileOf, text, mtime_set, holds, volume, grace, disposed,
                     buffers, tracked, loading, loads, saves, unsaved, givenUp>>
  BY DEF LoadChunk, Changed, Uncached, Seen
<1>2. /\ saves \in [Slots -> SaveTasks \cup {None}] /\ mtime_set \subseteq 1..created
      /\ givenUp \subseteq 1..created /\ \A s \in Slots : saves[s] # None => saves[s].buffer \in Seen
      /\ version \in Versions /\ text \in [AllBuffers -> Versions]
      /\ modified \subseteq Seen /\ timeouts \subseteq tracked
  BY MadeFacts DEF BuffersInv, TypeOK, Sets, TimersOfTracked
<1> QED
  BY <1>1, <1>2, TextsInv

LEMMA SaveFailsInv ==
  ASSUME BuffersInv, NEW s \in Slots, SaveFails(s)
  PROVE  BuffersInv'
<1> USE DEF managerVars
<1> DEFINE b == saves[s].buffer
<1>1. /\ b \in 1..created /\ saves' = [saves EXCEPT ![s] = None]
      /\ givenUp' \subseteq givenUp \cup {b} /\ Forgotten(b)
      /\ UNCHANGED <<version, disk, created, fileOf, mtime_set, modified, volume, cached, holds,
                     grace, disposed, buffers, tracked, timeouts, loading, loads, unsaved>>
  BY MadeFacts DEF SaveFails, SavingAt
<1>2. text' \in [AllBuffers -> Versions] /\ \A c \in buffers : text'[c] = text[c]
  BY <1>1, ForgottenFacts
<1>3. /\ saves' \in [Slots -> SaveTasks \cup {None}] /\ mtime_set \subseteq 1..created
      /\ givenUp' \subseteq 1..created
      /\ \A r \in Slots : saves'[r] # None => saves'[r].buffer \in Seen
      /\ version \in Versions /\ modified \subseteq Seen /\ timeouts \subseteq tracked
  BY <1>1, MadeFacts DEF BuffersInv, TypeOK, Sets, TimersOfTracked
<1> HIDE DEF b
<1> QED
  BY <1>1, <1>2, <1>3, TextsInv

LEMMA SettingsLoadedInv ==
  ASSUME BuffersInv, NEW s \in Slots, SettingsLoaded(s)
  PROVE  BuffersInv'
<1> DEFINE b == saves[s].buffer
<1>1. /\ saves[s] \in SaveTasks /\ b \in Seen
      /\ saves' = [saves EXCEPT ![s].stage = "write"] /\ mtime_set' = mtime_set \ {b}
      /\ UNCHANGED <<disk, created, fileOf, holds, volume, grace, disposed, buffers, tracked, loading,
                     loads, unsaved, givenUp>>
  BY MadeFacts DEF SettingsLoaded, SavingAt, Advance
<1>2. /\ saves' \in [Slots -> SaveTasks \cup {None}] /\ mtime_set' \subseteq 1..created
      /\ givenUp \subseteq 1..created
      /\ \A r \in Slots : saves'[r] # None => saves'[r].buffer \in Seen
  BY <1>1 DEF BuffersInv, TypeOK, OfMade, SaveTasks
<1>3. CASE Altered(b)
  BY <1>1, <1>2, <1>3, AlteredFacts, TextsInv
<1>4. CASE UNCHANGED <<version, text, modified, cached, timeouts>>
  <2>1. /\ version \in Versions /\ text \in [AllBuffers -> Versions]
        /\ modified \subseteq Seen /\ timeouts \subseteq tracked
    BY DEF BuffersInv, TypeOK, Sets, TimersOfTracked
  <2> QED
    BY <1>1, <1>2, <1>4, <2>1, TextsInv
<1> QED
  BY <1>3, <1>4 DEF SettingsLoaded

LEMMA MtimeReloadedInv ==
  ASSUME BuffersInv, NEW s \in Slots, MtimeReloaded(s)
  PROVE  BuffersInv'
<1> USE DEF managerVars
<1> DEFINE b == saves[s].buffer
<1>1. saves[s] # None /\ saves[s] \in SaveTasks /\ b \in Seen /\ b \in 1..created
  BY MadeFacts DEF MtimeReloaded, SavingAt
<1>2. \/ saves' = [saves EXCEPT ![s] = [@ EXCEPT !.stage = "settings"]]
      \/ saves' = [saves EXCEPT ![s] = None]
  BY DEF MtimeReloaded
<1>3. /\ saves' \in [Slots -> SaveTasks \cup {None}] /\ version \in Versions
      /\ \A r \in Slots : saves'[r] # None => saves'[r].buffer \in Seen
  BY <1>1, <1>2 DEF SaveTasks, BuffersInv, TypeOK, OfMade
<1>4. UNCHANGED <<version, disk, created, fileOf, loading, loads>>
  BY DEF MtimeReloaded
<1>5. CASE saves[s].reclaim /\ b \in buffers
  <2>1. RemoveBuffer(b)
    BY <1>5 DEF MtimeReloaded
  <2> QED
    BY <1>3, <1>4, <1>5, <2>1, RemoveFacts, KeptInv
<1>6. CASE ~(saves[s].reclaim /\ b \in buffers)
  <2>1. /\ mtime_set' \subseteq mtime_set \cup {b} /\ volume' = volume \ {b} /\ Forgotten(b)
        /\ UNCHANGED <<modified, cached, buffers, tracked, timeouts, unsaved, disposed, holds, grace,
                       givenUp>>
    BY <1>6 DEF MtimeReloaded
  <2>2. text' \in [AllBuffers -> Versions] /\ \A c \in buffers : text'[c] = text[c]
    BY <2>1, ForgottenFacts
  <2>3. /\ mtime_set' \subseteq 1..created /\ volume' \subseteq 1..created
        /\ givenUp \subseteq 1..created /\ holds \in [AllBuffers -> 0..MaxHolds]
        /\ unsaved \in [Files -> Versions \cup {None}]
        /\ modified \subseteq Seen /\ cached \subseteq buffers
        /\ timeouts \subseteq tracked /\ tracked \subseteq buffers /\ grace \cap disposed = {}
    BY <1>1, <2>1 DEF BuffersInv, TypeOK, Sets, TimersOfTracked
  <2>4. UnsavedMirrors' /\ GraceOnlyUnheld'
    BY <1>4, <2>1, <2>2 DEF BuffersInv, UnsavedMirrors, GraceOnlyUnheld
  <2> QED
    BY <1>3, <1>4, <2>1, <2>2, <2>3, <2>4, KeptInv
<1> QED
  BY <1>5, <1>6

LEMMA ReclaimTimeoutInv ==
  ASSUME BuffersInv, NEW b \in AllBuffers, ReclaimTimeout(b)
  PROVE  BuffersInv'
<1> USE DEF managerVars, bufferVars
<1>1. UNCHANGED <<version, disk, created, fileOf, loading, loads>>
  BY DEF ReclaimTimeout
<1>2. /\ mtime_set \subseteq 1..created /\ volume \subseteq 1..created
      /\ givenUp \subseteq 1..created /\ holds \in [AllBuffers -> 0..MaxHolds]
      /\ saves \in [Slots -> SaveTasks \cup {None}]
      /\ version \in Versions /\ text \in [AllBuffers -> Versions]
      /\ \A s \in Slots : saves[s] # None => saves[s].buffer \in Seen
      /\ cached \subseteq buffers /\ tracked \subseteq buffers /\ timeouts \subseteq tracked
      /\ modified \subseteq Seen /\ grace \cap disposed = {}
      /\ unsaved \in [Files -> Versions \cup {None}] /\ UnsavedMirrors /\ GraceOnlyUnheld
  BY DEF BuffersInv, Sets, TimersOfTracked, TypeOK, OfMade
<1>3. CASE /\ BeginSave(b, TRUE) /\ b \in modified /\ grace' = grace \ {b}
           /\ UNCHANGED <<bufferVars, holds, disposed, buffers, tracked, unsaved, givenUp>>
  <2>1. b \in Seen /\ b \in 1..created
    BY <1>3, MadeFacts DEF BuffersInv, Sets, TypeOK
  <2>2. /\ saves' \in [Slots -> SaveTasks \cup {None}] /\ timeouts' = timeouts \ {b}
        /\ \A s \in Slots : saves'[s] # None => saves'[s].buffer \in Seen
    BY <1>3, <2>1, BeginSaveFacts
  <2>3. UnsavedMirrors' /\ GraceOnlyUnheld'
    BY <1>1, <1>2, <1>3 DEF UnsavedMirrors, GraceOnlyUnheld
  <2> QED
    BY <1>1, <1>2, <1>3, <2>2, <2>3, KeptInv
<1>4. CASE b \in buffers /\ RemoveBuffer(b) /\ UNCHANGED saves
  BY <1>1, <1>2, <1>4, RemoveFacts, KeptInv
<1>5. CASE /\ grace' = grace \ {b}
           /\ UNCHANGED <<bufferVars, holds, disposed, managerVars, unsaved, givenUp, saves>>
  <2>1. UnsavedMirrors' /\ GraceOnlyUnheld'
    BY <1>1, <1>2, <1>5 DEF UnsavedMirrors, GraceOnlyUnheld
  <2> QED
    BY <1>1, <1>2, <1>5, <2>1, KeptInv
<1> QED
  BY <1>3, <1>4, <1>5 DEF ReclaimTimeout

-----------------------------------------------------------------------------
LEMMA LoadFileInv ==
  ASSUME BuffersInv, NEW f \in Files, LoadFile(f)
  PROVE  BuffersInv'
<1> USE DEF managerVars
<1>1. PICK b \in AllBuffers :
        /\ f \notin loading
        /\ IF BuffersOf(f) = {} THEN b = created + 1 /\ created' = b
                               ELSE b \in BuffersOf(f) /\ UNCHANGED created
        /\ fileOf' = [fileOf EXCEPT ![b] = f] /\ mtime_set' = mtime_set \ {b}
        /\ volume' = volume \ {b} /\ loading' = loading \cup {f}
        /\ loads' = loads \cup {[buffer |-> b, is_new |-> BuffersOf(f) = {}, stage |-> "info"]}
  BY DEF LoadFile, MayLoad
<1> DEFINE new == [buffer |-> b, is_new |-> BuffersOf(f) = {}, stage |-> "info"]
<1>2. UNCHANGED <<version, disk, text, holds, modified, cached, grace, disposed, buffers, tracked,
                  timeouts, saves, unsaved, givenUp>>
  BY DEF LoadFile
<1>3. /\ created' \in 0..MaxBuffers /\ 1..created \subseteq 1..created' /\ b \in 1..created'
      /\ 1..created' \subseteq 1..created \cup {b}
  <2>1. CASE BuffersOf(f) = {}
    BY <1>1, <2>1, BuffersAssumption DEF BuffersInv, TypeOK, AllBuffers
  <2>2. CASE BuffersOf(f) # {}
    BY <1>1, <2>2 DEF BuffersInv, TypeOK, BuffersOf
  <2> QED
    BY <2>1, <2>2
<1>4. new \in LoadTasks /\ new.buffer = b /\ (new.is_new <=> BuffersOf(f) = {})
      /\ new.stage = "info"
  BY DEF LoadTasks
<1> HIDE DEF new
<1>5. \A c \in 1..created : fileOf'[c] = fileOf[c]
  <2>1. CASE BuffersOf(f) = {}
    BY <1>1, <2>1, MadeFacts DEF BuffersInv, TypeOK
  <2>2. CASE BuffersOf(f) # {}
    BY <1>1, <2>2, MadeFacts DEF BuffersInv, TypeOK, BuffersOf
  <2> QED
    BY <2>1, <2>2
<1>6. fileOf'[b] = f /\ fileOf' \in [AllBuffers -> Files \cup {None}]
  BY <1>1 DEF BuffersInv, TypeOK
<1>7. loads' = loads \cup {new}
  BY <1>1 DEF new
<1>8. TypeOK'
  <2>1. mtime_set' \subseteq 1..created /\ volume' \subseteq 1..created'
    BY <1>1, <1>3 DEF BuffersInv, TypeOK
  <2>2. loading' \subseteq Files /\ loads' \subseteq LoadTasks
    BY <1>1, <1>4, <1>7 DEF BuffersInv, TypeOK
  <2>3. /\ modified' \subseteq 1..created' /\ cached' \subseteq 1..created'
        /\ grace' \subseteq 1..created' /\ disposed' \subseteq 1..created'
        /\ buffers' \subseteq 1..created' /\ tracked' \subseteq 1..created'
        /\ timeouts' \subseteq 1..created' /\ givenUp' \subseteq 1..created'
    BY <1>2, <1>3 DEF BuffersInv, TypeOK
  <2> QED
    BY <1>2, <1>3, <1>6, <2>1, <2>2, <2>3 DEF BuffersInv, TypeOK
<1>9. \A l \in loads : /\ l.buffer \in 1..created /\ fileOf'[l.buffer] = fileOf[l.buffer]
                     /\ fileOf[l.buffer] # f
  BY <1>1, <1>5, MadeFacts DEF BuffersInv, LoadingMatchesTasks
<1>10. OfMade' /\ Seen' = Seen
  <2>1. Seen' = Seen
    BY <1>2, <1>4, <1>7 DEF Seen
  <2> QED
    BY <2>1, <1>2, <1>3, <1>4, <1>5, <1>6, <1>7, <1>9 DEF BuffersInv, OfMade
<1>11. \A c \in buffers : c \in 1..created /\ fileOf'[c] = fileOf[c]
  BY <1>5 DEF BuffersInv, TypeOK
<1>12. Loads'
  <2>1. \A l, m \in loads' : fileOf'[l.buffer] = fileOf'[m.buffer] => l = m
    BY <1>4, <1>6, <1>7, <1>9 DEF BuffersInv, Loads
  <2>2. \A g \in Files : BuffersOf(g)' = BuffersOf(g)
    BY <1>2, <1>11 DEF BuffersOf
  <2>3. BuffersOf(f) = {} => b \notin disposed
    <3>1. created + 1 \notin 1..created
      BY MadeFacts
    <3> QED
      BY <1>1, <3>1 DEF BuffersInv, TypeOK
  <2>4. \A l \in loads : fileOf[l.buffer] \in Files
    BY MadeFacts
  <2>5. \A l \in loads' : ~l.is_new => l.buffer \in buffers' \cup disposed'
    BY <1>1, <1>2, <1>4, <1>7 DEF BuffersInv, Loads, BuffersOf
  <2>6. \A l \in loads' : l.is_new => l.buffer \notin disposed' /\ BuffersOf(fileOf[l.buffer])' = {}
    <3> SUFFICES ASSUME NEW l \in loads', l.is_new
                 PROVE  l.buffer \notin disposed /\ \A c \in buffers : fileOf'[c] # fileOf'[l.buffer]
      BY <1>2 DEF BuffersOf
    <3>1. CASE l = new
      BY <1>4, <1>6, <1>11, <2>3, <3>1 DEF BuffersOf
    <3>2. CASE l \in loads
      BY <1>9, <1>11, <3>2 DEF BuffersInv, Loads, BuffersOf
    <3> QED
      BY <1>7, <3>1, <3>2
  <2> QED
    BY <2>1, <2>5, <2>6 DEF Loads
<1>13. OneBufferPerFile' /\ UnsavedMirrors'
  BY <1>2, <1>11 DEF BuffersInv, OneBufferPerFile, UnsavedMirrors
<1>14. LoadingMatchesTasks'
  <2>1. loading = {fileOf[l.buffer] : l \in loads}
    BY DEF BuffersInv, LoadingMatchesTasks
  <2> QED
    BY <1>1, <1>4, <1>6, <1>7, <1>9, <2>1 DEF LoadingMatchesTasks
<1>15. Sets' /\ TimersOfTracked' /\ GraceOnlyUnheld'
  BY <1>2, <1>10 DEF BuffersInv, Sets, TimersOfTracked, GraceOnlyUnheld
<1> QED
  BY <1>8, <1>10, <1>12, <1>13, <1>14, <1>15 DEF BuffersInv

(* The end of a load. *)
LEMMA LoadedFacts ==
  ASSUME BuffersInv, NEW l \in loads, NEW ok \in BOOLEAN, Loaded(l, ok), UNCHANGED fileOf
  PROVE  /\ loads' = loads \ {l} /\ loading' \subseteq loading
         /\ givenUp' \subseteq 1..created /\ LoadingMatchesTasks'
         /\ \A m \in loads' : fileOf[m.buffer] # fileOf[l.buffer]
<1>1. loads' = loads \ {l} /\ loading' = loading \ {fileOf[l.buffer]}
  BY DEF Loaded
<1>2. givenUp' \subseteq 1..created
  BY MadeFacts DEF Loaded, BuffersInv, TypeOK
<1>3. \A m \in loads \ {l} : fileOf[m.buffer] # fileOf[l.buffer]
  BY DEF BuffersInv, Loads
<1>4. loading' = {fileOf[m.buffer] : m \in loads'}
  BY <1>1, <1>3 DEF BuffersInv, LoadingMatchesTasks
<1> QED
  BY <1>1, <1>2, <1>3, <1>4 DEF LoadingMatchesTasks

LEMMA LoadInfoInv ==
  ASSUME BuffersInv, NEW l \in loads, NEW ok \in BOOLEAN, LoadInfo(l, ok)
  PROVE  BuffersInv'
<1> USE DEF managerVars, bufferVars
<1> DEFINE b == l.buffer
<1>1. /\ l.stage = "info"
      /\ UNCHANGED <<version, disk, created, fileOf, holds, volume, grace, disposed, buffers, tracked,
                     saves, unsaved>>
  BY DEF LoadInfo
<1>2. /\ loads' \subseteq LoadTasks /\ loading' \subseteq Files /\ givenUp' \subseteq 1..created
      /\ LoadingMatchesTasks' /\ Seen \subseteq Seen'
      /\ \A m, n \in loads' : fileOf[m.buffer] = fileOf[n.buffer] => m = n
      /\ \A m \in loads' : \E n \in loads : n.buffer = m.buffer /\ n.is_new = m.is_new
  <2>1. CASE ok
    <3> DEFINE next == [l EXCEPT !.stage = "read"]
    <3>1. loads' = (loads \ {l}) \cup {next} /\ UNCHANGED <<loading, givenUp>>
      BY <2>1 DEF LoadInfo
    <3>2. next \in LoadTasks /\ next.buffer = l.buffer /\ next.is_new = l.is_new
      BY MadeFacts DEF LoadTasks
    <3> HIDE DEF next
    <3>4. {fileOf[m.buffer] : m \in loads'} = {fileOf[m.buffer] : m \in loads}
      BY <3>1, <3>2
    <3>5. LoadingMatchesTasks'
      BY <1>1, <3>1, <3>4 DEF BuffersInv, LoadingMatchesTasks
    <3>6. \A m, n \in loads' : fileOf[m.buffer] = fileOf[n.buffer] => m = n
      BY <3>1, <3>2 DEF BuffersInv, Loads
    <3>7. \A m \in loads' : \E n \in loads : n.buffer = m.buffer /\ n.is_new = m.is_new
      BY <3>1, <3>2
    <3>8. Seen \subseteq Seen'
      BY <1>1, <3>1 DEF Seen
    <3>9. loads' \subseteq LoadTasks /\ loading' \subseteq Files /\ givenUp' \subseteq 1..created
      BY <3>1, <3>2 DEF BuffersInv, TypeOK
    <3> QED
      BY <3>5, <3>6, <3>7, <3>8, <3>9
  <2>2. CASE ~ok
    <3>1. Loaded(l, FALSE)
      BY <2>2 DEF LoadInfo
    <3>2. /\ loads' = loads \ {l} /\ loading' \subseteq loading
          /\ givenUp' \subseteq 1..created /\ LoadingMatchesTasks'
      BY <1>1, <3>1, LoadedFacts
    <3>3. loads' \subseteq LoadTasks /\ loading' \subseteq Files
      BY <3>2 DEF BuffersInv, TypeOK
    <3>4. \A m, n \in loads' : fileOf[m.buffer] = fileOf[n.buffer] => m = n
      BY <3>2 DEF BuffersInv, Loads
    <3>5. Seen \subseteq Seen'
      BY <1>1, <3>2 DEF Seen
    <3> QED
      BY <3>2, <3>3, <3>4, <3>5
  <2> QED
    BY <2>1, <2>2
<1>3. /\ mtime_set' \subseteq 1..created /\ text' \in [AllBuffers -> Versions]
      /\ modified' \subseteq modified /\ cached' \subseteq cached /\ timeouts' \subseteq tracked
      /\ \A c \in buffers \cap cached' : text'[c] = text[c]
  <2>1. CASE ok
    <3>1. /\ mtime_set' \subseteq mtime_set \cup {b} /\ text' = [text EXCEPT ![b] = 0]
          /\ modified' = modified \ {b} /\ cached' = cached \ {b}
          /\ timeouts' \subseteq timeouts \cup tracked
      BY <2>1 DEF LoadInfo, Changed, Uncached
    <3>2. text' \in [AllBuffers -> Versions] /\ \A c \in AllBuffers \ {b} : text'[c] = text[c]
      BY <3>1, MadeFacts DEF BuffersInv, TypeOK
    <3> QED
      BY <3>1, <3>2, MadeFacts DEF BuffersInv, TypeOK, TimersOfTracked
  <2>2. CASE ~ok
    <3>1. UNCHANGED <<bufferVars, timeouts>>
      BY <2>2 DEF LoadInfo
    <3> QED
      BY <3>1 DEF BuffersInv, TypeOK, TimersOfTracked
  <2> QED
    BY <2>1, <2>2
<1>4. TypeOK'
  <2>1. modified' \subseteq 1..created /\ cached' \subseteq 1..created /\ timeouts' \subseteq 1..created
    BY <1>3 DEF BuffersInv, TypeOK
  <2> QED
    BY <1>1, <1>2, <1>3, <2>1 DEF BuffersInv, TypeOK
<1>5. Loads'
  <2>1. \A m \in loads' : IF m.is_new
                          THEN m.buffer \notin disposed /\ BuffersOf(fileOf[m.buffer]) = {}
                          ELSE m.buffer \in buffers \cup disposed
    BY <1>2 DEF BuffersInv, Loads
  <2> QED
    BY <1>1, <1>2, <2>1 DEF Loads, BuffersOf
<1>6. OfMade' /\ Sets' /\ OneBufferPerFile' /\ TimersOfTracked' /\ GraceOnlyUnheld'
  BY <1>1, <1>2, <1>3
  DEF BuffersInv, OfMade, Sets, OneBufferPerFile, TimersOfTracked, GraceOnlyUnheld
<1>7. UnsavedMirrors'
  BY <1>1, <1>3 DEF BuffersInv, UnsavedMirrors
<1> QED
  BY <1>2, <1>4, <1>5, <1>6, <1>7 DEF BuffersInv

(* What was read, or its mixture with what was typed meanwhile. *)
LEMMA TextReadFacts ==
  ASSUME BuffersInv, NEW b \in AllBuffers, NEW content \in Versions, TextRead(b, content)
  PROVE  /\ version' \in Versions /\ version <= version' /\ text' \in [AllBuffers -> Versions]
         /\ \A c \in AllBuffers \ {b} : text'[c] = text[c]
         /\ text'[b] \in {text[b], content, version'}
<1>1. Latest \in Versions /\ version <= Latest /\ version \in Versions /\ version <= version
  BY BuffersAssumption DEF Latest, BuffersInv, TypeOK, Versions
<1>2. text \in [AllBuffers -> Versions]
  BY DEF BuffersInv, TypeOK
<1>3. CASE text' = [text EXCEPT ![b] = content] /\ UNCHANGED version
  BY <1>1, <1>2, <1>3
<1>4. CASE text' = [text EXCEPT ![b] = Latest] /\ version' = Latest
  BY <1>1, <1>2, <1>4
<1>5. CASE UNCHANGED <<text, version>>
  BY <1>1, <1>2, <1>5
<1> QED
  BY <1>3, <1>4, <1>5 DEF TextRead

LEMMA LoadDoneInv ==
  ASSUME BuffersInv, NEW l \in loads, NEW ok \in BOOLEAN, LoadDone(l, ok)
  PROVE  BuffersInv'
<1> DEFINE b == l.buffer
<1>1. UNCHANGED <<disk, created, fileOf, mtime_set, holds, volume, grace, disposed, saves, unsaved>>
      /\ l.stage = "read"
  BY DEF LoadDone
<1>2. /\ Loaded(l, ok)
      /\ buffers' = IF l.is_new THEN buffers \cup {b} ELSE buffers
      /\ \/ /\ \E content \in 0..disk[fileOf[b]] : TextRead(b, content)
            /\ modified' = modified \ {b} /\ cached' = cached \ {b}
            /\ tracked' = IF l.is_new THEN tracked \cup {b} ELSE tracked
            /\ timeouts' = IF b \in tracked' THEN timeouts \cup {b} ELSE timeouts
         \/ UNCHANGED <<version, text, modified, cached, tracked, timeouts>>
  BY DEF LoadDone, Uncached
<1>3. /\ loads' = loads \ {l} /\ loading' \subseteq loading
      /\ givenUp' \subseteq 1..created /\ LoadingMatchesTasks'
      /\ \A m \in loads' : fileOf[m.buffer] # fileOf[b]
  BY <1>1, <1>2, LoadedFacts
<1>4. /\ b \in 1..created /\ b \in AllBuffers /\ disk[fileOf[b]] \in Versions
      /\ l.is_new => b \notin disposed /\ b \notin buffers /\ b \notin cached
      /\ l.is_new => \A c \in buffers : fileOf[c] # fileOf[b]
      /\ ~l.is_new => b \in buffers \cup disposed
  <2>1. /\ b \in 1..created /\ b \in AllBuffers /\ disk[fileOf[b]] \in Versions
    BY MadeFacts
  <2>2. l.is_new => b \notin disposed /\ \A c \in buffers : fileOf[c] # fileOf[b]
    BY DEF BuffersInv, Loads, BuffersOf
  <2>3. ~l.is_new => b \in buffers \cup disposed
    BY DEF BuffersInv, Loads
  <2> QED
    BY <2>1, <2>2, <2>3 DEF BuffersInv, Sets
<1>5. /\ version' \in Versions /\ text' \in [AllBuffers -> Versions]
      /\ modified' \subseteq modified /\ cached' \subseteq cached
      /\ tracked \subseteq tracked' /\ tracked' \subseteq tracked \cup (buffers' \cap {b})
      /\ timeouts \subseteq timeouts' /\ timeouts' \subseteq timeouts \cup (tracked' \cap {b})
      /\ \A c \in buffers \cap cached' : text'[c] = text[c]
  <2>1. CASE /\ \E content \in 0..disk[fileOf[b]] : TextRead(b, content)
             /\ modified' = modified \ {b} /\ cached' = cached \ {b}
             /\ tracked' = IF l.is_new THEN tracked \cup {b} ELSE tracked
             /\ timeouts' = IF b \in tracked' THEN timeouts \cup {b} ELSE timeouts
    <3>1. PICK content \in 0..disk[fileOf[b]] : TextRead(b, content)
      BY <2>1
    <3>2. content \in Versions
      BY <1>4, <3>1, BuffersAssumption DEF Versions
    <3>3. /\ version' \in Versions /\ text' \in [AllBuffers -> Versions]
          /\ \A c \in AllBuffers \ {b} : text'[c] = text[c]
      BY <1>4, <3>1, <3>2, TextReadFacts
    <3>4. tracked' \subseteq tracked \cup (buffers' \cap {b}) /\ buffers \subseteq AllBuffers
      BY <1>2, <2>1, MadeFacts DEF BuffersInv, TypeOK
    <3> HIDE DEF b
    <3> QED
      BY <2>1, <3>3, <3>4
  <2>2. CASE UNCHANGED <<version, text, modified, cached, tracked, timeouts>>
    BY <2>2 DEF BuffersInv, TypeOK
  <2> QED
    BY <1>2, <2>1, <2>2
<1>6. TypeOK'
  <2>1. buffers' \subseteq 1..created
    BY <1>2, <1>4 DEF BuffersInv, TypeOK
  <2>2. /\ modified' \subseteq 1..created /\ cached' \subseteq 1..created
        /\ tracked' \subseteq 1..created /\ timeouts' \subseteq 1..created
    BY <1>4, <1>5 DEF BuffersInv, TypeOK
  <2>3. loads' \subseteq LoadTasks /\ loading' \subseteq Files
    BY <1>3 DEF BuffersInv, TypeOK
  <2> QED
    BY <1>1, <1>3, <1>5, <2>1, <2>2, <2>3 DEF BuffersInv, TypeOK
<1>7. Seen \subseteq Seen'
  <2>1. b \in buffers' \cup disposed'
    BY <1>1, <1>2, <1>4
  <2> QED
    BY <1>1, <1>2, <1>3, <2>1 DEF Seen
<1>8. OfMade'
  BY <1>1, <1>3, <1>7 DEF BuffersInv, OfMade
<1>9. Loads'
  <2>1. \A m, n \in loads' : fileOf[m.buffer] = fileOf[n.buffer] => m = n
    BY <1>3 DEF BuffersInv, Loads
  <2>2. ASSUME NEW m \in loads', m.is_new
        PROVE  m.buffer \notin disposed /\ \A c \in buffers' : fileOf[c] # fileOf[m.buffer]
    <3>1. m.buffer \notin disposed /\ \A c \in buffers : fileOf[c] # fileOf[m.buffer]
      BY <1>3, <2>2 DEF BuffersInv, Loads, BuffersOf
    <3> QED
      BY <1>2, <1>3, <3>1
  <2>3. \A m \in loads' : m.is_new => m.buffer \notin disposed' /\ BuffersOf(fileOf[m.buffer])' = {}
    BY <1>1, <2>2 DEF BuffersOf
  <2>4. \A m \in loads' : ~m.is_new => m.buffer \in buffers' \cup disposed'
    BY <1>1, <1>2, <1>3 DEF BuffersInv, Loads
  <2> QED
    BY <1>1, <2>1, <2>3, <2>4 DEF Loads
<1>10. Sets' /\ TimersOfTracked' /\ GraceOnlyUnheld'
  <2>1. buffers \subseteq buffers' /\ buffers' \cap disposed' = {}
    BY <1>1, <1>2, <1>4 DEF BuffersInv, Sets
  <2> QED
    BY <1>1, <1>5, <1>7, <2>1 DEF BuffersInv, Sets, TimersOfTracked, GraceOnlyUnheld
<1>11. OneBufferPerFile'
  BY <1>1, <1>2, <1>4 DEF BuffersInv, OneBufferPerFile
<1>12. UnsavedMirrors'
  <2>1. SUFFICES ASSUME NEW c \in (buffers' \cap modified') \cap cached'
                 PROVE  unsaved'[fileOf'[c]] = text'[c]
    BY DEF UnsavedMirrors
  <2>2. c \in modified /\ c \in cached
    BY <1>5
  <2>3. c \in buffers
    BY <2>2 DEF BuffersInv, Sets
  <2>4. unsaved[fileOf[c]] = text[c]
    BY <2>2, <2>3 DEF BuffersInv, UnsavedMirrors
  <2> QED
    BY <1>1, <1>5, <2>3, <2>4
<1> QED
  BY <1>3, <1>6, <1>8, <1>9, <1>10, <1>11, <1>12 DEF BuffersInv

-----------------------------------------------------------------------------
LEMMA BuffersStepInv == BuffersInv /\ [Next]_vars => BuffersInv'
<1> SUFFICES ASSUME BuffersInv, [Next]_vars
             PROVE  BuffersInv'
  OBVIOUS
<1>1. CASE UNCHANGED vars
  BY <1>1
  DEF vars, BuffersInv, TypeOK, OfMade, Loads, Sets, OneBufferPerFile, LoadingMatchesTasks,
      TimersOfTracked, UnsavedMirrors, GraceOnlyUnheld, BuffersOf, Seen
<1>2. CASE Next
  BY <1>2, LoadFileInv, ForeignWriteInv, LoadInfoInv, LoadDoneInv, LoadChunkInv, SettingsLoadedInv, WrittenInv,
     SaveDoneInv, MtimeReloadedInv, SaveFailsInv, SaveInv, AutoSaveInv, HoldInv, ReleaseInv,
     ReclaimTimeoutInv, EditInv, GetContentInv, VolumeCheckedInv
  DEF Next, LoadSteps, SaveSteps
<1> QED
  BY <1>1, <1>2

(* The tables of the manager and the state of every buffer keep their       *)
(* types, whatever is loaded, saved, closed or disposed of.                 *)
THEOREM BuffersTypeCorrectness == Spec => []TypeOK
<1>1. BuffersInv => TypeOK
  BY DEF BuffersInv
<1> QED
  BY BuffersInitInv, BuffersStepInv, <1>1, PTL DEF Spec

(* A file has one buffer, also when it is asked for while it is loading,    *)
(* reloaded or about to be closed.                                          *)
THEOREM BuffersAreUnique == Spec => []OneBufferPerFile
<1>1. BuffersInv => OneBufferPerFile
  BY DEF BuffersInv
<1> QED
  BY BuffersInitInv, BuffersStepInv, <1>1, PTL DEF Spec

(* The manager's table of loading files names exactly those with a load     *)
(* task, whichever of its callbacks fails.                                  *)
THEOREM LoadingIsTracked == Spec => []LoadingMatchesTasks
<1>1. BuffersInv => LoadingMatchesTasks
  BY DEF BuffersInv
<1> QED
  BY BuffersInitInv, BuffersStepInv, <1>1, PTL DEF Spec

(* Only buffers that are listed have an auto-save timeout.                  *)
THEOREM TimersAreOfListed == Spec => []TimersOfTracked
<1>1. BuffersInv => TimersOfTracked
  BY DEF BuffersInv
<1> QED
  BY BuffersInitInv, BuffersStepInv, <1>1, PTL DEF Spec

(* The unsaved files hold the text of a modified buffer whose content was   *)
(* asked for, whatever was reloaded, saved or closed meanwhile.             *)
THEOREM UnsavedIsTheText == Spec => []UnsavedMirrors
<1>1. BuffersInv => UnsavedMirrors
  BY DEF BuffersInv
<1> QED
  BY BuffersInitInv, BuffersStepInv, <1>1, PTL DEF Spec

(* The grace period runs only for a buffer that no view holds: what         *)
(* HeldBuffersStay misses happens after it.                                 *)
THEOREM GraceIsOfUnheld == Spec => []GraceOnlyUnheld
<1>1. BuffersInv => GraceOnlyUnheld
  BY DEF BuffersInv
<1> QED
  BY BuffersInitInv, BuffersStepInv, <1>1, PTL DEF Spec

-----------------------------------------------------------------------------
(* What is edited is on its way to the file. *)

(* No content is later than the latest. *)
NoneLater ==
  /\ \A b \in AllBuffers : text[b] \in 0..version
  /\ \A f \in Files : disk[f] \in 0..version

EditsInv == NoneLater /\ EditsAreScheduled

LEMMA NoneLaterKept ==
  ASSUME BuffersInv, NoneLater, UNCHANGED disk, version' \in Nat, version <= version',
         \A b \in AllBuffers : text'[b] = text[b] \/ text'[b] \in 0..version'
  PROVE  NoneLater'
<1>1. version \in Nat /\ \A n \in 0..version : n \in 0..version'
  BY DEF BuffersInv, TypeOK, Versions
<1> QED
  BY <1>1 DEF NoneLater

LEMMA AlteredNoneLater ==
  ASSUME BuffersInv, NoneLater, NEW b, Altered(b), UNCHANGED disk
  PROVE  NoneLater'
<1>1. version' = version + 1 /\ text' = [text EXCEPT ![b] = version + 1] /\ version \in Nat
      /\ text \in [AllBuffers -> Versions]
  BY DEF Altered, BuffersInv, TypeOK, Versions
<1>2. \A c \in AllBuffers : text'[c] = text[c] \/ text'[c] = version'
  BY <1>1
<1>3. version' \in Nat /\ version <= version' /\ version' \in 0..version'
  BY <1>1
<1> QED
  BY <1>2, <1>3, NoneLaterKept

LEMMA NoneLaterNext == BuffersInv /\ NoneLater /\ [Next]_vars => NoneLater'
<1> SUFFICES ASSUME BuffersInv, NoneLater, [Next]_vars
             PROVE  NoneLater'
  OBVIOUS
<1>0. /\ version \in Nat /\ disk \in [Files -> Versions] /\ text \in [AllBuffers -> Versions]
      /\ \A n \in 0..version : n \in 0..(version + 1)
      /\ version + 1 \in 0..(version + 1) /\ 0 \in 0..version /\ version <= version
  BY DEF BuffersInv, TypeOK, Versions
<1> USE DEF bufferVars, managerVars
<1>1. ASSUME NEW b, UNCHANGED <<version, disk>>, text' = text \/ text' = [text EXCEPT ![b] = 0]
      PROVE  NoneLater'
  <2>1. \A c \in AllBuffers : text'[c] = text[c] \/ text'[c] \in 0..version'
    BY <1>0, <1>1
  <2> QED
    BY <1>0, <1>1, <2>1, NoneLaterKept
<1>2. ASSUME NEW f \in Files, ForeignWrite(f)
      PROVE  NoneLater'
  BY <1>0, <1>2 DEF ForeignWrite, NoneLater
<1>3. ASSUME NEW b \in AllBuffers, Edit(b)
      PROVE  NoneLater'
  BY <1>3, AlteredNoneLater DEF Edit
<1>4. ASSUME NEW l \in loads, NEW ok \in BOOLEAN, LoadInfo(l, ok)
      PROVE  NoneLater'
  <2>1. text' = text \/ text' = [text EXCEPT ![l.buffer] = 0]
    BY <1>4 DEF LoadInfo
  <2> QED
    BY <1>1, <1>4, <2>1 DEF LoadInfo
<1>5. ASSUME NEW l \in loads, NEW ok \in BOOLEAN, LoadDone(l, ok)
      PROVE  NoneLater'
  <2>1. disk[fileOf[l.buffer]] \in 0..version /\ l.buffer \in AllBuffers
    BY MadeFacts DEF NoneLater
  <2>2. CASE ok
    <3>1. PICK content \in 0..disk[fileOf[l.buffer]] : TextRead(l.buffer, content)
      BY <1>5, <2>2 DEF LoadDone
    <3>2. content \in 0..version /\ content \in Versions
      BY <1>0, <2>1, <3>1, BuffersAssumption DEF BuffersInv, TypeOK, Versions
    <3>3. /\ version' \in Versions /\ version <= version'
          /\ \A c \in AllBuffers \ {l.buffer} : text'[c] = text[c]
          /\ text'[l.buffer] \in {text[l.buffer], content, version'}
      BY <2>1, <3>1, <3>2, TextReadFacts
    <3>4. version' \in Nat /\ content \in 0..version' /\ version' \in 0..version'
      BY <1>0, <3>2, <3>3 DEF Versions
    <3>5. \A c \in AllBuffers : text'[c] = text[c] \/ text'[c] \in 0..version'
      BY <3>3, <3>4
    <3> QED
      BY <1>5, <3>3, <3>4, <3>5, NoneLaterKept DEF LoadDone
  <2>3. CASE ~ok
    BY <1>1, <1>5, <2>3 DEF LoadDone
  <2> QED
    BY <2>2, <2>3
<1>6. ASSUME NEW s \in Slots, Written(s)
      PROVE  NoneLater'
  <2>1. text[saves[s].buffer] \in 0..version
    BY <1>6, MadeFacts DEF Written, SavingAt, NoneLater
  <2> QED
    BY <1>0, <1>6, <2>1 DEF Written, NoneLater
<1>7. ASSUME NEW s \in Slots, SettingsLoaded(s)
      PROVE  NoneLater'
  <2>1. CASE Altered(saves[s].buffer)
    BY <1>7, <2>1, AlteredNoneLater DEF SettingsLoaded
  <2>2. CASE UNCHANGED <<version, text>>
    BY <1>1, <1>7, <2>2 DEF SettingsLoaded
  <2> QED
    BY <1>7, <2>1, <2>2 DEF SettingsLoaded
<1>8. ASSUME NEW s \in Slots, SaveDone(s) \/ MtimeReloaded(s) \/ SaveFails(s)
      PROVE  NoneLater'
  <2>1. text' = text \/ text' = [text EXCEPT ![saves[s].buffer] = 0]
    BY <1>8 DEF SaveDone, MtimeReloaded, SaveFails, RemoveBuffer, Forgotten
  <2> QED
    BY <1>1, <1>8, <2>1 DEF SaveDone, MtimeReloaded, SaveFails
<1>9. ASSUME NEW b \in AllBuffers,
             \/ Save(b) \/ AutoSave(b) \/ Hold(b) \/ Release(b) \/ ReclaimTimeout(b)
             \/ GetContent(b) \/ VolumeChecked(b)
      PROVE  NoneLater'
  <2>1. text' = text \/ text' = [text EXCEPT ![b] = 0]
    BY <1>9 DEF Save, AutoSave, Hold, Release, ReclaimTimeout, GetContent, VolumeChecked,
                RemoveBuffer, Forgotten
  <2> QED
    BY <1>1, <1>9, <2>1 DEF Save, AutoSave, Hold, Release, ReclaimTimeout, GetContent, VolumeChecked
<1>10. ASSUME NEW f \in Files, LoadFile(f)
      PROVE  NoneLater'
  BY <1>1, <1>10 DEF LoadFile
<1>11. ASSUME NEW l \in loads, LoadChunk(l)
      PROVE  NoneLater'
  BY <1>1, <1>11 DEF LoadChunk
<1>12. CASE UNCHANGED vars
  BY <1>1, <1>12 DEF vars
<1> QED
  BY <1>2, <1>3, <1>4, <1>5, <1>6, <1>7, <1>8, <1>9, <1>10, <1>11, <1>12 DEF Next, LoadSteps, SaveSteps

(* A step that writes no file, leaves a timeout, or a save that will still  *)
(* read it, to each buffer that had one, and a timeout to those it changes. *)
LEMMA ScheduleKept ==
  ASSUME BuffersInv, EditsInv, UNCHANGED <<disk, fileOf>>, tracked' \subseteq tracked,
         disposed \subseteq disposed',
         \A b \in tracked' : text'[b] \in {text[b], 0} \/ b \in timeouts',
         \A b \in tracked' \ givenUp' : b \notin givenUp /\ (Scheduled(b) => Scheduled(b)')
  PROVE  EditsAreScheduled'
<1> SUFFICES ASSUME NEW b \in tracked' \ givenUp', Unwritten(b)'
             PROVE  Scheduled(b)'
  BY DEF EditsAreScheduled
<1>1. CASE text'[b] = text[b]
  BY <1>1 DEF EditsInv, EditsAreScheduled, Unwritten
<1>2. CASE text'[b] = 0
  <2>1. disk[fileOf[b]] \in Nat
    BY MadeFacts DEF BuffersInv, TypeOK, TimersOfTracked, Versions
  <2> QED
    BY <1>2, <2>1 DEF Unwritten
<1>3. CASE b \in timeouts'
  BY <1>3 DEF Scheduled
<1> QED
  BY <1>1, <1>2, <1>3

LEMMA SamePlans ==
  ASSUME NEW b, UNCHANGED saves, b \in timeouts => b \in timeouts', Scheduled(b)
  PROVE  Scheduled(b)'
BY DEF Scheduled

(* A save that begins takes the place of the timeout. *)
LEMMA BeginSavePlans ==
  ASSUME BuffersInv, NEW b \in AllBuffers, NEW reclaim \in BOOLEAN, BeginSave(b, reclaim),
         NEW c \in tracked, Scheduled(c)
  PROVE  Scheduled(c)'
<1> DEFINE task == [buffer |-> b, reclaim |-> reclaim, stage |-> "settings"]
<1>1. PICK s \in Slots : saves[s] = None /\ saves' = [saves EXCEPT ![s] = task]
  BY DEF BeginSave, Free
<1>2. /\ task.buffer = b /\ task.stage = "settings"
      /\ saves \in [Slots -> SaveTasks \cup {None}]
  BY DEF BuffersInv, TypeOK
<1>3. task # None
  <2>1. task \in SaveTasks
    BY DEF SaveTasks
  <2> HIDE DEF task
  <2> QED
    BY <2>1, BuffersAssumption
<1> HIDE DEF task
<1>4. saves'[s] = task /\ \A r \in Slots \ {s} : saves'[r] = saves[r]
  BY <1>1, <1>2
<1>5. CASE c = b
  BY <1>2, <1>3, <1>4, <1>5 DEF Scheduled
<1>6. CASE c # b
  BY <1>1, <1>4, <1>6 DEF Scheduled, BeginSave
<1> QED
  BY <1>5, <1>6

(* The save in slot s moves on, or ends. *)
LEMMA OtherPlans ==
  ASSUME BuffersInv, NEW s \in Slots, saves[s] # None, NEW task, saves' = [saves EXCEPT ![s] = task],
         NEW b, b \in timeouts => b \in timeouts', Scheduled(b),
         \/ saves[s].buffer # b
         \/ saves[s].stage \notin {"settings", "write"}
         \/ task # None /\ task.buffer = b /\ task.stage \in {"settings", "write"}
  PROVE  Scheduled(b)'
<1>1. saves'[s] = task /\ \A r \in Slots \ {s} : saves'[r] = saves[r]
  BY DEF BuffersInv, TypeOK
<1> QED
  BY <1>1 DEF Scheduled

(* A save reaches the file. *)
LEMMA WrittenKeepsEdits ==
  ASSUME BuffersInv, EditsInv, NEW s \in Slots, Written(s)
  PROVE  EditsAreScheduled'
<1> DEFINE c == saves[s].buffer
           task == [saves[s] EXCEPT !.stage = "done"]
<1>1. /\ saves[s] # None /\ saves[s].stage = "write" /\ c \in 1..created
      /\ fileOf[c] \in Files /\ c \in Seen
      /\ saves' = [saves EXCEPT ![s] = task]
      /\ disk' = [disk EXCEPT ![fileOf[c]] = text[c]]
      /\ UNCHANGED <<fileOf, text, tracked, timeouts, disposed, givenUp>>
  BY MadeFacts DEF Written, SavingAt, Advance, BuffersInv, OfMade, bufferVars, managerVars
<1>2. SUFFICES ASSUME NEW b \in tracked \ givenUp, Unwritten(b)'
               PROVE  Scheduled(b)'
  BY <1>1 DEF EditsAreScheduled
<1>3. disk \in [Files -> Versions] /\ b \in AllBuffers /\ b \in buffers /\ fileOf[b] \in Files
      /\ text[b] \in Nat
  BY MadeFacts DEF BuffersInv, TypeOK, TimersOfTracked, Versions
<1>4. fileOf[b] # fileOf[c]
  <2>1. c # b
    <3> SUFFICES ASSUME c = b PROVE FALSE
      OBVIOUS
    <3>1. disk'[fileOf[b]] = text[b]
      BY <1>1, <1>3
    <3> QED
      BY <1>1, <1>2, <1>3, <3>1 DEF Unwritten
  <2>2. c \notin disposed \/ fileOf[c] # fileOf[b]
    BY <1>1, <1>2 DEF Unwritten
  <2> QED
    BY <1>1, <1>3, <2>1, <2>2, LoadedApart
<1>5. Unwritten(b)
  <2>1. disk'[fileOf[b]] = disk[fileOf[b]]
    BY <1>1, <1>3, <1>4
  <2> QED
    BY <1>1, <1>2, <2>1 DEF Unwritten
<1>6. Scheduled(b)
  BY <1>5 DEF EditsInv, EditsAreScheduled
<1>7. c # b
  BY <1>4
<1> HIDE DEF task
<1> QED
  BY <1>1, <1>6, <1>7, OtherPlans

LEMMA LoadDoneKeepsEdits ==
  ASSUME BuffersInv, EditsInv, NEW l \in loads, NEW ok \in BOOLEAN, LoadDone(l, ok)
  PROVE  EditsAreScheduled'
<1>1. l.buffer \in AllBuffers /\ UNCHANGED <<disk, fileOf, saves, disposed>>
      /\ disk[fileOf[l.buffer]] \in Versions /\ tracked \subseteq AllBuffers
  BY MadeFacts DEF LoadDone, BuffersInv, TypeOK
<1>2. CASE ok
  <2>1. /\ tracked' \subseteq tracked \cup {l.buffer} /\ UNCHANGED givenUp
        /\ timeouts' = IF l.buffer \in tracked' THEN timeouts \cup {l.buffer} ELSE timeouts
    BY <1>2 DEF LoadDone, Loaded
  <2>2. PICK content \in 0..disk[fileOf[l.buffer]] : TextRead(l.buffer, content)
    BY <1>2 DEF LoadDone
  <2>3. content \in Versions
    BY <1>1, <2>2, BuffersAssumption DEF Versions
  <2>4. \A c \in AllBuffers \ {l.buffer} : text'[c] = text[c]
    BY <1>1, <2>2, <2>3, TextReadFacts
  <2>5. SUFFICES ASSUME NEW b \in tracked' \ givenUp', Unwritten(b)'
                 PROVE  Scheduled(b)'
    BY DEF EditsAreScheduled
  <2>6. CASE b = l.buffer
    BY <2>1, <2>6 DEF Scheduled
  <2>7. CASE b # l.buffer
    <3>1. b \in tracked \ givenUp /\ Unwritten(b)
      BY <1>1, <2>1, <2>4, <2>5, <2>7 DEF Unwritten
    <3>2. Scheduled(b)
      BY <3>1 DEF EditsInv, EditsAreScheduled
    <3> QED
      BY <1>1, <2>1, <3>2, SamePlans
  <2> QED
    BY <2>6, <2>7
<1>3. CASE ~ok
  <2>1. UNCHANGED <<text, tracked, timeouts>> /\ givenUp \subseteq givenUp'
    BY <1>3 DEF LoadDone, Loaded
  <2> QED
    BY <1>1, <2>1, ScheduleKept DEF Scheduled
<1> QED
  BY <1>2, <1>3

LEMMA LoadFileKeepsEdits ==
  ASSUME BuffersInv, EditsInv, NEW f \in Files, LoadFile(f)
  PROVE  EditsAreScheduled'
<1>1. PICK b0 \in AllBuffers :
        /\ fileOf' = [fileOf EXCEPT ![b0] = f]
        /\ b0 = created + 1 \/ b0 \in BuffersOf(f)
  BY DEF LoadFile
<1>2. UNCHANGED <<disk, text, disposed, tracked, timeouts, saves, givenUp>>
  BY DEF LoadFile, managerVars
<1>3. \A b \in 1..created : fileOf'[b] = fileOf[b]
  <2>1. created \in Nat /\ fileOf \in [AllBuffers -> Files \cup {None}] /\ 1..created \subseteq AllBuffers
    BY MadeFacts DEF BuffersInv, TypeOK
  <2> QED
    BY <1>1, <2>1 DEF BuffersOf
<1>4. tracked \subseteq 1..created /\ disposed \subseteq 1..created
  BY DEF BuffersInv, TypeOK
<1>5. \A b \in tracked : Unwritten(b)' => Unwritten(b)
  BY <1>2, <1>3, <1>4 DEF Unwritten
<1> QED
  BY <1>2, <1>5 DEF EditsInv, EditsAreScheduled, Scheduled

(* A text that changes gets a timeout. *)
LEMMA AlteredPlans ==
  ASSUME BuffersInv, NEW b, Altered(b), UNCHANGED tracked
  PROVE  /\ \A c \in tracked : text'[c] \in {text[c], 0} \/ c \in timeouts'
         /\ timeouts \subseteq timeouts'
<1>1. /\ text' = [text EXCEPT ![b] = version + 1]
      /\ timeouts' = IF b \in tracked THEN timeouts \cup {b} ELSE timeouts
  BY DEF Altered, Changed
<1>2. text \in [AllBuffers -> Versions] /\ tracked \subseteq AllBuffers
  BY MadeFacts DEF BuffersInv, TypeOK
<1> QED
  BY <1>1, <1>2

LEMMA EditKeepsEdits ==
  ASSUME BuffersInv, EditsInv, NEW b \in AllBuffers, Edit(b)
  PROVE  EditsAreScheduled'
<1>1. Altered(b) /\ UNCHANGED <<disk, fileOf, disposed, tracked, saves, givenUp>>
  BY DEF Edit
<1> QED
  BY <1>1, AlteredPlans, ScheduleKept, SamePlans

LEMMA ForeignWriteKeepsEdits ==
  ASSUME BuffersInv, EditsInv, NEW f \in Files, ForeignWrite(f)
  PROVE  EditsAreScheduled'
<1>1. /\ disk' = [disk EXCEPT ![f] = version + 1]
      /\ UNCHANGED <<text, timeouts, fileOf, disposed, tracked, saves, givenUp>>
  BY DEF ForeignWrite, managerVars, bufferVars
<1>2. disk \in [Files -> Versions] /\ version \in Nat
  BY DEF BuffersInv, TypeOK, Versions
<1>3. SUFFICES ASSUME NEW c \in tracked \ givenUp, Unwritten(c)'
               PROVE  Scheduled(c)'
  BY <1>1 DEF EditsAreScheduled
<1>4. fileOf[c] \in Files /\ text[c] \in 0..version
  BY MadeFacts DEF BuffersInv, TypeOK, EditsInv, NoneLater
<1>5. fileOf[c] # f
  <2> SUFFICES ASSUME fileOf[c] = f PROVE FALSE
    OBVIOUS
  <2>1. disk'[fileOf'[c]] = version + 1 /\ text'[c] > disk'[fileOf'[c]]
    BY <1>1, <1>2, <1>3 DEF Unwritten
  <2> QED
    BY <1>1, <1>2, <1>4, <2>1
<1>6. disk'[fileOf[c]] = disk[fileOf[c]]
  BY <1>1, <1>2, <1>4, <1>5
<1>7. Scheduled(c)
  BY <1>1, <1>3, <1>6 DEF EditsInv, EditsAreScheduled, Unwritten
<1> QED
  BY <1>1, <1>7, SamePlans

LEMMA ForgottenPlans ==
  ASSUME BuffersInv, NEW b, Forgotten(b)
  PROVE  \A c \in tracked : text'[c] \in {text[c], 0}
<1>1. text' \in {text, [text EXCEPT ![b] = 0]}
  BY DEF Forgotten
<1>2. text \in [AllBuffers -> Versions] /\ tracked \subseteq AllBuffers
  BY MadeFacts DEF BuffersInv, TypeOK
<1> QED
  BY <1>1, <1>2

LEMMA RemovalPlans ==
  ASSUME BuffersInv, NEW b, RemoveBuffer(b)
  PROVE  /\ tracked' \subseteq tracked /\ disposed \subseteq disposed'
         /\ \A c \in tracked' : /\ c \in timeouts => c \in timeouts'
                                /\ c \in givenUp => c \in givenUp'
                                /\ text'[c] \in {text[c], 0}
BY ForgottenPlans DEF RemoveBuffer, Unregistered

LEMMA SaveStepKeepsEdits ==
  ASSUME BuffersInv, EditsInv, NEW s \in Slots,
         SettingsLoaded(s) \/ SaveDone(s) \/ MtimeReloaded(s) \/ SaveFails(s)
  PROVE  EditsAreScheduled'
<1> DEFINE b == saves[s].buffer
<1>1. /\ saves[s] # None /\ saves[s] \in SaveTasks
      /\ UNCHANGED <<disk, fileOf>>
  BY MadeFacts DEF SettingsLoaded, SaveDone, MtimeReloaded, SaveFails, SavingAt
<1>2. /\ tracked' \subseteq tracked /\ disposed \subseteq disposed'
      /\ \A c \in tracked' : /\ c \in timeouts => c \in timeouts'
                             /\ c \in givenUp => c \in givenUp'
                             /\ text'[c] \in {text[c], 0} \/ c \in timeouts'
  <2>1. CASE SettingsLoaded(s)
    <3>1. UNCHANGED <<tracked, disposed, givenUp>>
      BY <2>1 DEF SettingsLoaded
    <3>2. CASE Altered(b)
      BY <3>1, <3>2, AlteredPlans
    <3>3. CASE UNCHANGED <<text, timeouts>>
      BY <3>1, <3>3
    <3> QED
      BY <2>1, <3>2, <3>3 DEF SettingsLoaded
  <2>2. CASE SaveDone(s)
    BY <2>2 DEF SaveDone, Unscheduled
  <2>3. CASE SaveFails(s)
    <3>1. /\ UNCHANGED <<tracked, disposed, timeouts>> /\ givenUp \subseteq givenUp'
          /\ Forgotten(b)
      BY <2>3 DEF SaveFails, managerVars
    <3> QED
      BY <3>1, ForgottenPlans
  <2>4. CASE MtimeReloaded(s)
    <3>1. CASE RemoveBuffer(b)
      BY <3>1, RemovalPlans
    <3>2. CASE UNCHANGED <<tracked, disposed, timeouts, givenUp>> /\ Forgotten(b)
      BY <3>2, ForgottenPlans
    <3> QED
      BY <2>4, <3>1, <3>2 DEF MtimeReloaded, managerVars
  <2> QED
    BY <2>1, <2>2, <2>3, <2>4
<1>3. PICK task : /\ saves' = [saves EXCEPT ![s] = task]
                  /\ \/ b \in givenUp' \/ b \notin tracked'
                     \/ saves[s].stage \notin {"settings", "write"}
                     \/ task # None /\ task.buffer = b /\ task.stage \in {"settings", "write"}
  <2>1. CASE SaveFails(s)
    <3>1. b \in disposed => b \notin tracked'
      BY <2>1 DEF SaveFails, managerVars, BuffersInv, Sets, TimersOfTracked
    <3> QED
      BY <2>1, <3>1 DEF SaveFails
  <2>2. CASE SettingsLoaded(s)
    <3> DEFINE next == [saves[s] EXCEPT !.stage = "write"]
    <3>1. saves' = [saves EXCEPT ![s] = next]
      BY <2>2 DEF SettingsLoaded, Advance
    <3>2. next \in SaveTasks /\ next.buffer = b /\ next.stage = "write"
      BY <1>1 DEF SaveTasks
    <3> HIDE DEF next
    <3>3. next # None
      BY <3>2, BuffersAssumption
    <3> QED
      BY <3>1, <3>2, <3>3
  <2>3. CASE SaveDone(s)
    BY <2>3 DEF SaveDone, SavingAt, Advance
  <2>4. CASE MtimeReloaded(s)
    BY <2>4 DEF MtimeReloaded, SavingAt
  <2> QED
    BY <2>1, <2>2, <2>3, <2>4
<1>4. ASSUME NEW c \in tracked' \ givenUp', Scheduled(c)
      PROVE  Scheduled(c)'
  BY <1>1, <1>2, <1>3, <1>4, OtherPlans
<1> QED
  BY <1>1, <1>2, <1>4, ScheduleKept

(* A load begins to read. *)
LEMMA LoadInfoKeepsEdits ==
  ASSUME BuffersInv, EditsInv, NEW l \in loads, NEW ok \in BOOLEAN, LoadInfo(l, ok)
  PROVE  EditsAreScheduled'
<1>1. /\ UNCHANGED <<disk, fileOf, tracked, disposed, saves>>
      /\ text' \in {text, [text EXCEPT ![l.buffer] = 0]}
      /\ timeouts \subseteq timeouts' /\ givenUp \subseteq givenUp'
  BY DEF LoadInfo, Loaded, Changed, bufferVars
<1>2. \A c \in tracked : text'[c] \in {text[c], 0}
  <2>1. text \in [AllBuffers -> Versions] /\ tracked \subseteq AllBuffers
    BY MadeFacts DEF BuffersInv, TypeOK
  <2> QED
    BY <1>1, <2>1
<1> QED
  BY <1>1, <1>2, ScheduleKept, SamePlans

LEMMA EditsNext == BuffersInv /\ EditsInv /\ [Next]_vars => EditsAreScheduled'
<1> SUFFICES ASSUME BuffersInv, EditsInv, [Next]_vars
             PROVE  EditsAreScheduled'
  OBVIOUS
<1>0. tracked \subseteq AllBuffers
  BY MadeFacts DEF BuffersInv, TypeOK
<1> USE DEF bufferVars, managerVars
<1>1. ASSUME NEW l \in loads, LoadChunk(l)
      PROVE  EditsAreScheduled'
  <2>1. /\ UNCHANGED <<text, disk, fileOf, tracked, disposed, saves, givenUp>>
        /\ timeouts \subseteq timeouts'
    BY <1>1 DEF LoadChunk, Changed
  <2> QED
    BY <2>1, ScheduleKept, SamePlans
<1>2. ASSUME NEW b \in AllBuffers, Hold(b) \/ Release(b) \/ GetContent(b) \/ VolumeChecked(b)
      PROVE  EditsAreScheduled'
  <2>1. UNCHANGED <<text, disk, fileOf, tracked, disposed, saves, timeouts, givenUp>>
    BY <1>2 DEF Hold, Release, GetContent, VolumeChecked
  <2> QED
    BY <2>1, ScheduleKept DEF Scheduled
<1>3. ASSUME NEW b \in AllBuffers, Save(b)
      PROVE  EditsAreScheduled'
  <2>1. UNCHANGED <<text, disk, fileOf, tracked, disposed, givenUp>> /\ BeginSave(b, FALSE)
    BY <1>3 DEF Save
  <2> QED
    BY <2>1, BeginSavePlans, ScheduleKept
<1>4. ASSUME NEW b \in AllBuffers, AutoSave(b)
      PROVE  EditsAreScheduled'
  <2>1. UNCHANGED <<text, disk, fileOf, tracked, disposed>> /\ givenUp \subseteq givenUp'
    BY <1>4 DEF AutoSave
  <2>2. ASSUME NEW c \in tracked \ givenUp', Scheduled(c)
        PROVE  Scheduled(c)'
    <3>1. CASE b \in volume
      <4>1. c # b /\ UNCHANGED saves /\ timeouts' = timeouts \ {b}
        BY <1>4, <2>2, <3>1 DEF AutoSave
      <4> QED
        BY <2>2, <4>1, SamePlans
    <3>2. CASE b \notin volume
      BY <1>4, <2>2, <3>2, BeginSavePlans DEF AutoSave
    <3> QED
      BY <3>1, <3>2
  <2> QED
    BY <2>1, <2>2, ScheduleKept
<1>5. ASSUME NEW b \in AllBuffers, ReclaimTimeout(b)
      PROVE  EditsAreScheduled'
  <2>1. UNCHANGED <<disk, fileOf>>
    BY <1>5 DEF ReclaimTimeout
  <2>2. CASE BeginSave(b, TRUE) /\ UNCHANGED <<text, tracked, disposed, givenUp>>
    BY <2>1, <2>2, BeginSavePlans, ScheduleKept
  <2>3. CASE RemoveBuffer(b) /\ UNCHANGED saves
    BY <2>1, <2>3, RemovalPlans, SamePlans, ScheduleKept
  <2>4. CASE UNCHANGED <<text, tracked, timeouts, disposed, givenUp, saves>>
    BY <2>1, <2>4, SamePlans, ScheduleKept
  <2> QED
    BY <1>5, <2>2, <2>3, <2>4 DEF ReclaimTimeout
<1>6. CASE UNCHANGED vars
  <2>1. UNCHANGED <<text, disk, fileOf, tracked, disposed, saves, timeouts, givenUp>>
    BY <1>6 DEF vars
  <2> QED
    BY <2>1, ScheduleKept DEF Scheduled
<1> QED
  BY <1>1, <1>2, <1>3, <1>4, <1>5, <1>6, LoadFileKeepsEdits, ForeignWriteKeepsEdits,
     LoadInfoKeepsEdits, LoadDoneKeepsEdits, WrittenKeepsEdits, SaveStepKeepsEdits, EditKeepsEdits
  DEF Next, LoadSteps, SaveSteps

(* With auto-save, a text that is newer than its file is about to be saved: *)
(* it has a timeout, or a save that has not written yet, however edits,     *)
(* saves, reloads and reclamations follow each other.                       *)
THEOREM EditsAreOnTheirWay == Spec => []EditsAreScheduled
<1>1. Init => EditsInv
  BY DEF Init, EditsInv, NoneLater, EditsAreScheduled
<1>2. EditsInv => EditsAreScheduled
  BY DEF EditsInv
<1>3. BuffersInv /\ EditsInv /\ [Next]_vars => EditsInv'
  BY NoneLaterNext, EditsNext DEF EditsInv
<1> QED
  BY BuffersInitInv, BuffersStepInv, <1>1, <1>2, <1>3, PTL DEF Spec
=============================================================================
