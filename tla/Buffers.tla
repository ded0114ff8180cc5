------------------------------ MODULE Buffers ------------------------------
(***************************************************************************)
(* IdeBufferManager, with what IdeBuffer and IdeUnsavedFiles do for it:    *)
(* buffers are loaded, edited, saved by hand, by a timer or because no     *)
(* view holds them any more, and reloaded when their file has changed.     *)
(* Loading and saving are chains of callbacks, with the user, the other    *)
(* programs and the timers in between.                                     *)
(*                                                                         *)
(* Contents are numbered in the order in which they come up; 0 stands for  *)
(* what a buffer holds while its file is being read: nothing, or a part.   *)
(***************************************************************************)
EXTENDS Naturals

CONSTANTS
  Files,
  MaxBuffers,   \* bound: how many buffers are ever made
  MaxVersions,  \* bound: how many contents there ever are
  MaxHolds,     \* bound: views of one buffer
  MaxSaves,     \* bound: saves at the same time
  None          \* no file, no content, no time stamp, no save

AllBuffers == 1..MaxBuffers
Versions == 0..MaxVersions
Slots == 1..MaxSaves

LoadTasks == [buffer : AllBuffers, is_new : BOOLEAN, stage : {"info", "read"}]
SaveTasks == [buffer : AllBuffers, reclaim : BOOLEAN,
              stage : {"settings", "write", "done", "mtime"}]

ASSUME BuffersAssumption ==
  /\ MaxBuffers \in Nat /\ MaxVersions \in Nat \ {0} /\ MaxHolds \in Nat /\ MaxSaves \in Nat
  /\ None \notin Files \cup Nat \cup SaveTasks

VARIABLES
  version,   \* the latest content
  disk,      \* the content of the files
  (* the buffers, in the order in which they were made; of a disposed one    *)
  (* the holds, the flags and a text that no save is to write are forgotten, *)
  (* as nobody looks at them again                                           *)
  created,   \* how many there are
  fileOf,    \* IdeBuffer:file
  text,
  mtime_set, \* those whose time of modification is known
  holds,     \* hold_count
  modified,  \* those with gtk_text_buffer_get_modified
  volume,    \* changed_on_volume
  cached,    \* those whose content is cached
  grace,     \* those with a reclamation_handler
  disposed,
  (* the manager *)
  buffers,
  tracked,   \* those whose "changed" signal is connected
  timeouts,  \* those with an auto-save timeout
  loading,   \* the files being loaded
  loads,     \* the load tasks
  saves,     \* the save tasks
  unsaved,   \* IdeUnsavedFiles, None for no entry
  givenUp    \* history: those a load or save of which failed or was left out

vars == <<version, disk, created, fileOf, text, mtime_set, holds, modified, volume, cached, grace,
          disposed, buffers, tracked, timeouts, loading, loads, saves, unsaved, givenUp>>

bufferVars  == <<text, mtime_set, modified, volume, cached>>
managerVars == <<buffers, tracked, timeouts>>

(* ide_buffer_manager_get_buffer *)
BuffersOf(f) == {b \in buffers : fileOf[b] = f}

(* mutant of Uncached: the content stays cached *)
UncachedNot(b) == UNCHANGED cached

(* ide_buffer_changed *)
Uncached(b) == cached' = cached \ {b}

(* The text changes: that, and ide_buffer_manager_buffer_changed. *)
Changed(b) ==
  /\ Uncached(b)
  /\ timeouts' = IF b \in tracked THEN timeouts \cup {b} ELSE timeouts

(* The next content, as long as the bound allows another. *)
Latest == IF version < MaxVersions THEN version + 1 ELSE version

(* The user edits, or ide_buffer_trim_trailing_whitespace does. *)
Altered(b) ==
  /\ version < MaxVersions
  /\ version' = version + 1
  /\ text' = [text EXCEPT ![b] = version + 1]
  /\ modified' = modified \cup ({b} \ disposed)
  /\ Changed(b)

Saving(tasks, b) == \E s \in Slots : tasks[s] # None /\ tasks[s].buffer = b

(* The text of a disposed buffer is forgotten, unless it is still to be saved. *)
Forgotten(b) ==
  text' = IF b \in disposed' /\ ~Saving(saves', b) THEN [text EXCEPT ![b] = 0] ELSE text

-----------------------------------------------------------------------------
(* Loading. *)

(* mutant of MayLoad: a file is loaded also while it is loading *)
MayAlwaysLoad(f) == TRUE

MayLoad(f) == f \notin loading

(* ide_buffer_manager_load_file_async: without a buffer, or with            *)
(* force_reload; otherwise the buffer there is is returned.                 *)
LoadFile(f) ==
  \E b \in AllBuffers :
    /\ MayLoad(f)
    /\ IF BuffersOf(f) = {} THEN b = created + 1 /\ created' = b
                            ELSE b \in BuffersOf(f) /\ UNCHANGED created
    /\ fileOf' = [fileOf EXCEPT ![b] = f]
    /\ mtime_set' = mtime_set \ {b}
    /\ volume' = volume \ {b}
    /\ loading' = loading \cup {f}
    /\ loads' = loads \cup {[buffer |-> b, is_new |-> BuffersOf(f) = {}, stage |-> "info"]}
    /\ UNCHANGED <<version, disk, text, holds, modified, cached, grace, disposed, managerVars,
                   saves, unsaved, givenUp>>

(* mutant of Loaded: the table of files being loaded is only cleared of those that were *)
LoadedWell(l, ok) ==
  /\ loads' = loads \ {l}
  /\ loading' = IF ok THEN loading \ {fileOf[l.buffer]} ELSE loading
  /\ givenUp' = IF ok THEN givenUp ELSE givenUp \cup ({l.buffer} \ disposed)

(* The task of a load ends: ide_buffer_manager_load_task_completed. *)
Loaded(l, ok) ==
  /\ loads' = loads \ {l}
  /\ loading' = loading \ {fileOf[l.buffer]}
  /\ givenUp' = IF ok THEN givenUp ELSE givenUp \cup ({l.buffer} \ disposed)

(* ide_buffer_manager__load_file_query_info_cb, and gtk_source_file_loader, *)
(* which clears the buffer.                                                 *)
LoadInfo(l, ok) ==
  LET b == l.buffer
  IN  /\ l.stage = "info"
      /\ IF ok
         THEN /\ mtime_set' = mtime_set \cup ({b} \ disposed)
              /\ loads' = (loads \ {l}) \cup {[l EXCEPT !.stage = "read"]}
              /\ text' = [text EXCEPT ![b] = 0]
              /\ modified' = modified \ {b}
              /\ Changed(b)
              /\ UNCHANGED <<loading, givenUp>>
         ELSE Loaded(l, FALSE) /\ UNCHANGED <<bufferVars, timeouts>>
      /\ UNCHANGED <<version, disk, created, fileOf, holds, volume, grace, disposed, buffers,
                     tracked, saves, unsaved>>

(* gtk_source_file_loader has read a part of the file. *)
LoadChunk(l) ==
  /\ l.stage = "read"
  /\ modified' = modified \cup ({l.buffer} \ disposed)
  /\ Changed(l.buffer)
  /\ UNCHANGED <<version, disk, created, fileOf, text, mtime_set, holds, volume, grace, disposed,
                 buffers, tracked, loading, loads, saves, unsaved, givenUp>>

(* The text that was read, or its mixture with what was typed meanwhile. *)
TextRead(b, content) ==
  LET seen == b \notin disposed \/ Saving(saves, b)
  IN  \/ /\ seen /\ text[b] = 0
         /\ text' = [text EXCEPT ![b] = content] /\ UNCHANGED version
      \/ /\ seen /\ text[b] # 0
         /\ text' = [text EXCEPT ![b] = Latest] /\ version' = Latest
      \/ ~seen /\ UNCHANGED <<text, version>>

(* ide_buffer_manager_load_file__load_cb, with ide_buffer_manager_track_    *)
(* buffer.  A new buffer is listed also when its file could not be read,    *)
(* but then it is not tracked.  The buffer keeps the part that was read.    *)
LoadDone(l, ok) ==
  LET b == l.buffer
  IN  /\ l.stage = "read"
      /\ Loaded(l, ok)
      /\ buffers' = IF l.is_new THEN buffers \cup {b} ELSE buffers
      /\ IF ok
         THEN /\ \E content \in 0..disk[fileOf[b]] : TextRead(b, content)
              /\ modified' = modified \ {b} /\ Uncached(b)
              /\ tracked' = IF l.is_new THEN tracked \cup {b} ELSE tracked
              /\ timeouts' = IF b \in tracked' THEN timeouts \cup {b} ELSE timeouts
         ELSE UNCHANGED <<version, text, modified, cached, tracked, timeouts>>
      /\ UNCHANGED <<disk, created, fileOf, mtime_set, holds, volume, grace, disposed, saves,
                     unsaved>>

-----------------------------------------------------------------------------
(* Saving. *)

Free == {s \in Slots : saves[s] = None}

(* ide_buffer_manager_save_file_async *)
BeginSave(b, reclaim) ==
  /\ \E s \in Free : /\ \A r \in Free : s <= r
                     /\ saves' = [saves EXCEPT ![s] = [buffer |-> b, reclaim |-> reclaim,
                                                       stage |-> "settings"]]
  /\ timeouts' = timeouts \ {b}

(* The user saves, or ide_buffer_manager_save_all_async, of the modified. *)
Save(b) ==
  /\ b \in buffers
  /\ BeginSave(b, FALSE)
  /\ UNCHANGED <<version, disk, created, fileOf, bufferVars, holds, grace, disposed, buffers,
                 tracked, loading, loads, unsaved, givenUp>>

(* ide_buffer_manager_auto_save_cb *)
AutoSave(b) ==
  /\ b \in timeouts
  /\ IF b \in volume
     THEN timeouts' = timeouts \ {b} /\ givenUp' = givenUp \cup {b} /\ UNCHANGED saves
     ELSE BeginSave(b, FALSE) /\ UNCHANGED givenUp
  /\ UNCHANGED <<version, disk, created, fileOf, bufferVars, holds, grace, disposed, buffers,
                 tracked, loading, loads, unsaved>>

SavingAt(s, stage) == saves[s] # None /\ saves[s].stage = stage

Advance(s, stage) == saves' = [saves EXCEPT ![s].stage = stage]

(* The task of a save ends with an error: nobody tries again, and           *)
(* ide_buffer_manager_reclaim__save_cb ignores the reclamation.             *)
SaveFails(s) ==
  /\ SavingAt(s, "settings") \/ SavingAt(s, "write")
  /\ saves' = [saves EXCEPT ![s] = None]
  /\ givenUp' = givenUp \cup ({saves[s].buffer} \ disposed)
  /\ UNCHANGED <<version, disk, created, fileOf, mtime_set, modified, volume, cached, holds,
                 grace, disposed, managerVars, loading, loads, unsaved>>
  /\ Forgotten(saves[s].buffer)

(* ide_buffer_manager_save_file__load_settings_cb, which trims the lines    *)
(* when the settings say so.                                                *)
SettingsLoaded(s) ==
  /\ SavingAt(s, "settings")
  /\ Advance(s, "write")
  /\ mtime_set' = mtime_set \ {saves[s].buffer}
  /\ \/ Altered(saves[s].buffer)
     \/ UNCHANGED <<version, text, modified, cached, timeouts>>
  /\ UNCHANGED <<disk, created, fileOf, holds, volume, grace, disposed, buffers, tracked, loading,
                 loads, unsaved, givenUp>>

(* The saver writes what the buffer holds by then. *)
Written(s) ==
  /\ SavingAt(s, "write")
  /\ Advance(s, "done")
  /\ disk' = [disk EXCEPT ![fileOf[saves[s].buffer]] = text[saves[s].buffer]]
  /\ UNCHANGED <<version, created, fileOf, bufferVars, holds, grace, disposed, managerVars,
                 loading, loads, unsaved, givenUp>>

(* mutant of Unscheduled: a save that is done takes the timeout with it *)
UnscheduledToo(b) == timeouts' = timeouts \ {b}

Unscheduled(b) == UNCHANGED timeouts

MarkedClean(b) ==
  /\ modified' = modified \ {b}
  /\ unsaved' = [unsaved EXCEPT ![fileOf[b]] = None]

(* ide_buffer_manager_save_file__save_cb.  A disposed buffer has no file,   *)
(* so that it is neither marked nor removed from the unsaved files.         *)
SaveDone(s) ==
  LET b == saves[s].buffer
  IN  /\ SavingAt(s, "done")
      /\ Advance(s, "mtime")
      /\ IF b \in disposed THEN UNCHANGED <<modified, unsaved>> ELSE MarkedClean(b)
      /\ Unscheduled(b)
      /\ UNCHANGED <<version, disk, created, fileOf, text, mtime_set, holds, volume, cached,
                     grace, disposed, buffers, tracked, loading, loads, givenUp>>

(* mutant of Unregistered: the timeout stays *)
UnregisteredNot(b) ==
  /\ buffers' = buffers \ {b} /\ tracked' = tracked \ {b}
  /\ UNCHANGED timeouts

Unregistered(b) ==
  /\ buffers' = buffers \ {b} /\ tracked' = tracked \ {b}
  /\ timeouts' = timeouts \ {b}

(* ide_buffer_manager_remove_buffer, which looks only for listed ones, with *)
(* the other handlers of buffer-unloaded and ide_buffer_dispose, but for    *)
(* what that saves.                                                         *)
RemoveBuffer(b) ==
  /\ Unregistered(b)
  /\ unsaved' = IF b \in modified THEN unsaved ELSE [unsaved EXCEPT ![fileOf[b]] = None]
  /\ disposed' = disposed \cup {b}
  /\ holds' = [holds EXCEPT ![b] = 0]
  /\ Forgotten(b)
  /\ grace' = grace \ {b} /\ cached' = cached \ {b} /\ modified' = modified \ {b}
  /\ mtime_set' = mtime_set \ {b} /\ volume' = volume \ {b} /\ givenUp' = givenUp \ {b}

(* ide_buffer_manager__buffer_reload_mtime_cb ends the task, after which    *)
(* ide_buffer_manager_reclaim__save_cb removes the buffer.  What was        *)
(* changed since it was marked clean is saved once more when it is disposed *)
(* of.                                                                      *)
MtimeReloaded(s) ==
  LET b == saves[s].buffer
      removed == saves[s].reclaim /\ b \in buffers
  IN  /\ SavingAt(s, "mtime")
      /\ saves' = [saves EXCEPT ![s] = IF removed /\ b \in modified
                                      THEN [@ EXCEPT !.stage = "settings"] ELSE None]
      /\ IF removed
         THEN RemoveBuffer(b)
         ELSE /\ mtime_set' = mtime_set \cup ({b} \ disposed)
              /\ volume' = volume \ {b}
              /\ UNCHANGED <<modified, cached, managerVars, unsaved, disposed, holds, grace,
                             givenUp>>
              /\ Forgotten(b)
      /\ UNCHANGED <<version, disk, created, fileOf, loading, loads>>

-----------------------------------------------------------------------------
(* The buffers and their views. *)

(* A view may be there as soon as load-buffer is emitted. *)
Viewable(b) ==
  \/ b \in buffers
  \/ b \notin disposed /\ \E l \in loads : l.buffer = b /\ l.stage = "read"

(* ide_buffer_hold *)
Hold(b) ==
  /\ Viewable(b) /\ holds[b] < MaxHolds
  /\ holds' = [holds EXCEPT ![b] = @ + 1]
  /\ grace' = grace \ {b}
  /\ UNCHANGED <<version, disk, created, fileOf, bufferVars, disposed, managerVars, loading,
                 loads, saves, unsaved, givenUp>>

(* ide_buffer_release *)
Release(b) ==
  /\ Viewable(b) /\ holds[b] > 0
  /\ holds' = [holds EXCEPT ![b] = @ - 1]
  /\ grace' = IF holds[b] = 1 THEN grace \cup {b} ELSE grace
  /\ UNCHANGED <<version, disk, created, fileOf, bufferVars, disposed, managerVars, loading,
                 loads, saves, unsaved, givenUp>>

(* ide_buffer_reclaim_timeout, _ide_buffer_manager_reclaim *)
ReclaimTimeout(b) ==
  /\ b \in grace
  /\ \/ /\ b \in modified \ volume
        /\ BeginSave(b, TRUE)
        /\ grace' = grace \ {b}
        /\ UNCHANGED <<bufferVars, holds, disposed, buffers, tracked, unsaved, givenUp>>
     \/ /\ b \in buffers /\ b \notin modified \ volume
        /\ UNCHANGED saves
        /\ RemoveBuffer(b)
     \/ /\ b \notin buffers /\ b \notin modified \ volume
        /\ grace' = grace \ {b}
        /\ UNCHANGED <<bufferVars, holds, disposed, managerVars, unsaved, givenUp, saves>>
  /\ UNCHANGED <<version, disk, created, fileOf, loading, loads>>

(* The user edits. *)
Edit(b) ==
  /\ Viewable(b)
  /\ Altered(b)
  /\ UNCHANGED <<disk, created, fileOf, mtime_set, holds, volume, grace, disposed, buffers,
                 tracked, loading, loads, saves, unsaved, givenUp>>

(* ide_buffer_get_content, ide_unsaved_files_update *)
GetContent(b) ==
  /\ b \in buffers \ cached
  /\ cached' = cached \cup {b}
  /\ unsaved' = [unsaved EXCEPT ![fileOf[b]] = text[b]]
  /\ UNCHANGED <<version, disk, created, fileOf, text, mtime_set, modified, volume, holds, grace,
                 disposed, managerVars, loading, loads, saves, givenUp>>

(* ide_buffer__check_for_volume_cb, whenever it comes after                 *)
(* ide_buffer_check_for_volume_change: the answer may be older than what    *)
(* the buffer knows, so whether the two stamps differ is left open.         *)
VolumeChecked(b) ==
  /\ b \in mtime_set \ volume
  /\ volume' = volume \cup {b}
  /\ UNCHANGED <<version, disk, created, fileOf, text, mtime_set, modified, cached, holds, grace,
                 disposed, managerVars, loading, loads, saves, unsaved, givenUp>>

(* Another program writes the file. *)
ForeignWrite(f) ==
  /\ version < MaxVersions
  /\ version' = version + 1
  /\ disk' = [disk EXCEPT ![f] = version + 1]
  /\ UNCHANGED <<created, fileOf, bufferVars, holds, grace, disposed, managerVars, loading, loads,
                 saves, unsaved, givenUp>>

-----------------------------------------------------------------------------
Init ==
  /\ version = 1 /\ disk = [f \in Files |-> 1]
  /\ created = 0
  /\ fileOf = [b \in AllBuffers |-> None] /\ text = [b \in AllBuffers |-> 0]
  /\ mtime_set = {} /\ holds = [b \in AllBuffers |-> 0]
  /\ modified = {} /\ volume = {} /\ cached = {} /\ grace = {} /\ disposed = {}
  /\ buffers = {} /\ tracked = {} /\ timeouts = {}
  /\ loading = {} /\ loads = {} /\ saves = [s \in Slots |-> None]
  /\ unsaved = [f \in Files |-> None] /\ givenUp = {}

LoadSteps == \E l \in loads, ok \in BOOLEAN : LoadInfo(l, ok) \/ LoadDone(l, ok)

SaveSteps(s) == SettingsLoaded(s) \/ Written(s) \/ SaveDone(s) \/ MtimeReloaded(s)

Next ==
  \/ \E f \in Files : LoadFile(f) \/ ForeignWrite(f)
  \/ LoadSteps
  \/ \E l \in loads : LoadChunk(l)
  \/ \E s \in Slots : SaveSteps(s) \/ SaveFails(s)
  \/ \E b \in AllBuffers :
       \/ Save(b) \/ AutoSave(b) \/ Hold(b) \/ Release(b) \/ ReclaimTimeout(b)
       \/ Edit(b) \/ GetContent(b) \/ VolumeChecked(b)

(* The timeouts fire, and the files are read and written. *)
Fairness ==
  /\ \A b \in AllBuffers : WF_vars(AutoSave(b))
  /\ \A s \in Slots : WF_vars(SaveSteps(s))
  /\ WF_vars(LoadSteps)

Spec == Init /\ [][Next]_vars
FairSpec == Spec /\ Fairness

-----------------------------------------------------------------------------
TypeOK ==
  /\ version \in Versions /\ disk \in [Files -> Versions]
  /\ created \in 0..MaxBuffers
  /\ fileOf \in [AllBuffers -> Files \cup {None}] /\ text \in [AllBuffers -> Versions]
  /\ mtime_set \subseteq 1..created /\ holds \in [AllBuffers -> 0..MaxHolds]
  /\ modified \subseteq 1..created /\ volume \subseteq 1..created /\ cached \subseteq 1..created
  /\ grace \subseteq 1..created /\ disposed \subseteq 1..created
  /\ buffers \subseteq 1..created /\ tracked \subseteq 1..created /\ timeouts \subseteq 1..created
  /\ loading \subseteq Files /\ loads \subseteq LoadTasks
  /\ saves \in [Slots -> SaveTasks \cup {None}]
  /\ unsaved \in [Files -> Versions \cup {None}] /\ givenUp \subseteq 1..created

(* However often a file is asked for, while it is loading, open, reloaded   *)
(* or about to be closed: it has one buffer.                                *)
OneBufferPerFile ==
  \A b, c \in buffers : fileOf[b] = fileOf[c] => b = c

(* The table of the files being loaded names those with a load task, so     *)
(* that no file is refused as busy for ever.                                *)
LoadingMatchesTasks == loading = {fileOf[l.buffer] : l \in loads}

(* A buffer that is gone is not saved by a timer any more.                  *)
TimersOfTracked == timeouts \subseteq tracked /\ tracked \subseteq buffers

(* What the unsaved files say of a modified buffer, once its content was    *)
(* asked for, is its text: the compilers that read them see the edits.      *)
UnsavedMirrors ==
  \A b \in buffers \cap modified \cap cached : unsaved[fileOf[b]] = text[b]

(* A buffer whose grace period runs is held by no view.                     *)
GraceOnlyUnheld == \A b \in grace : holds[b] = 0

(* The file does not have the text yet; files that had another buffer are  *)
(* left out, as the last save of that one may come late.                    *)
Unwritten(b) ==
  /\ text[b] > disk[fileOf[b]]
  /\ \A c \in disposed : fileOf[c] # fileOf[b]
(* Auto-save will save the buffer, or a save will still read its text. *)
Scheduled(b) ==
  \/ b \in timeouts
  \/ \E s \in Slots : saves[s] # None /\ saves[s].buffer = b
                      /\ saves[s].stage \in {"settings", "write"}

(* A text that is newer than its file has a timeout, or a save that will    *)
(* still read it, also when it changed while a save was writing it; unless  *)
(* a load or save of the buffer failed.                                     *)
EditsAreScheduled == \A b \in tracked \ givenUp : Unwritten(b) => Scheduled(b)

(* With auto-save, an edit reaches the disk, also one made while the buffer *)
(* is being saved, which marks it clean: unless a load or a save of it fails,  *)
(* the file was changed by somebody else when the timeout fired, or the     *)
(* buffer is closed; and unless it is the second buffer of its file, for    *)
(* which the last save of the first may come late.                          *)
Behind(f) == \E b \in (BuffersOf(f) \cap tracked) \ (volume \cup givenUp) : Unwritten(b)
AutoSaveCatchesUp == \A f \in Files : Behind(f) ~> ~Behind(f)

(* "deal with the case where we are transitioning to a new split after      *)
(* dropping the current split": a buffer that a view holds is not removed.  *)
HeldBuffersStay == [][\A b \in buffers \ buffers' : holds[b] = 0]_vars
=============================================================================
