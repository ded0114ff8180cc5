---------------------------- MODULE Diagnostics ----------------------------
(***************************************************************************)
(* IdeDiagnosticsManager: keeps, per file, a group of what the diagnostic  *)
(* providers report.  An open buffer gives its group an adapter, which     *)
(* loads the providers of the buffer's language; they are asked again, a   *)
(* short while after every change, and answer whenever they like: for      *)
(* their own file or another, also when their buffer is long closed.       *)
(*                                                                         *)
(* A group lives on while its providers do, whether or not the table of    *)
(* the manager still lists it.                                             *)
(***************************************************************************)
EXTENDS Naturals, FiniteSets

CONSTANTS
  Files,
  Buffers,
  Plugins,       \* those with a diagnostic provider
  Languages,     \* which of them match, for each language a buffer may have
  MaxGroups,     \* bound: how many groups are ever made
  MaxProviders,  \* bound: how many providers are ever made
  None           \* no buffer, no file

Groups == 1..MaxGroups
Providers == 1..MaxProviders

ASSUME DiagnosticsAssumption ==
  /\ Plugins \subseteq Nat \ {0} /\ IsFiniteSet(Plugins)
  /\ Languages \subseteq SUBSET Plugins
  /\ MaxGroups \in Nat /\ MaxProviders \in Nat
  /\ None \notin Buffers \cup Files

VARIABLES
  fileOf,    \* IdeBuffer:file, None for a buffer that is not open
  (* the manager *)
  byFile,    \* groups_by_file, 0 for no entry
  timer,     \* queued_diagnose_source is set
  (* the groups, in the order in which they were made *)
  made,      \* how many there are
  file,      \* group->file
  buffer,    \* group->buffer_wr
  shown,     \* the providers that diagnostics_by_provider has diagnostics of
  adapters,  \* those with an adapter,
  value,     \*   the plugins that match its value,
  reloads,   \*   those whose adapter has its reload_handler set
  stray,     \* a disposed adapter left such a timeout behind
  needs,     \* needs_diagnose
  flagged,   \* has_diagnostics
  removed,   \* was_removed
  (* the providers, in the order in which they were made *)
  born,      \* how many there are
  group,     \* IDE_DIAGNOSTICS_GROUP
  plugin,    \* whose extension they are
  loaded,    \* those an adapter holds
  asked,     \* those that diagnose: in_diagnose counts the ones of the group
  aborted    \* the process has ended in an assertion or a fault

tableVars    == <<made, byFile, file>>
adapterVars  == <<adapters, value, reloads, stray>>
providerVars == <<born, group, plugin>>
vars == <<fileOf, tableVars, timer, buffer, shown, adapterVars, needs, flagged, removed,
          providerVars, loaded, asked, aborted>>

Open == {b \in Buffers : fileOf[b] # None}

Listed == {byFile[f] : f \in Files} \ {0}

Extensions(g) == {p \in loaded : group[p] = g}

InDiagnose(g) == {p \in asked : group[p] = g}

(* ide_diagnostics_group_unref: neither the table nor a provider has it any *)
(* more, and it was freed, together with its adapter.                       *)
Freed(g) == g \notin Listed /\ \A p \in loaded \cup asked : group[p] # g

Running == ~aborted /\ UNCHANGED aborted

-----------------------------------------------------------------------------
(* The table. *)

GroupFor(f) == IF byFile[f] = 0 THEN made + 1 ELSE byFile[f]

(* mutant of FindOrMake: the group found missing is not kept *)
FindOrForget(f) ==
  /\ GroupFor(f) <= MaxGroups
  /\ made' = made
  /\ byFile' = [byFile EXCEPT ![f] = GroupFor(f)]
  /\ file' = [file EXCEPT ![GroupFor(f)] = f]

(* g_hash_table_lookup; without an entry a group is made and inserted. *)
FindOrMake(f) ==
  /\ GroupFor(f) <= MaxGroups
  /\ made' = IF byFile[f] = 0 THEN made + 1 ELSE made
  /\ byFile' = [byFile EXCEPT ![f] = GroupFor(f)]
  /\ file' = [file EXCEPT ![GroupFor(f)] = f]

(* mutant of Queue: nothing is queued behind a diagnosis *)
QueueIdle(g) ==
  /\ needs' = needs \cup {g}
  /\ timer' = (timer \/ asked = {})

(* ide_diagnostics_group_queue_diagnose *)
Queue(g) ==
  /\ needs' = needs \cup {g}
  /\ timer' = (timer \/ InDiagnose(g) = {})

(* mutant of ShownWithout: only their own groups are cleared *)
ShownElsewhere(ps) ==
  [g \in Groups |-> IF g \in Listed \cap {group[p] : p \in ps} THEN shown[g] \ ps ELSE shown[g]]

(* ide_diagnostics_manager_clear_by_provider, for each provider of ps *)
ShownWithout(ps) ==
  [g \in Groups |-> IF g \in Listed THEN shown[g] \ ps ELSE shown[g]]

-----------------------------------------------------------------------------
(* The buffers. *)

(* ide_diagnostics_manager_buffer_loaded, for a new buffer, and once more   *)
(* for one that was loaded again                                            *)
BufferLoaded(b, f, matching) ==
  LET g == GroupFor(f)
  IN  /\ Running
      /\ \/ b \notin Open /\ \A c \in Open : fileOf[c] # f
         \/ fileOf[b] = f
      /\ fileOf' = [fileOf EXCEPT ![b] = f]
      /\ FindOrMake(f)
      /\ buffer' = [buffer EXCEPT ![g] = b]
      /\ adapters' = adapters \cup {g}
      /\ value' = [value EXCEPT ![g] = IF g \in adapters THEN @ ELSE matching]
      /\ reloads' = IF g \in adapters THEN reloads ELSE reloads \cup {g}
      /\ Queue(g)
      /\ UNCHANGED <<shown, stray, flagged, removed, providerVars, loaded, asked>>

(* ide_diagnostics_group_has_diagnostics *)
HasDiagnostics(g) == shown[g] # {}

(* ide_diagnostics_manager_buffer_unloaded: the adapter is disposed of, and *)
(* with it its providers are unloaded, while a timeout it has set stays;    *)
(* has_diagnostics is what held before that.                                *)
BufferUnloaded(b) ==
  LET g == GroupFor(fileOf[b])  ps == Extensions(g)
  IN  /\ Running
      /\ b \in Open
      /\ fileOf' = [fileOf EXCEPT ![b] = None]
      /\ FindOrMake(fileOf[b])
      /\ buffer' = [h \in Groups |-> IF h = g \/ buffer[h] = b THEN None ELSE buffer[h]]
      /\ shown' = ShownWithout(ps)
      /\ adapters' = adapters \ {g}
      /\ value' = [value EXCEPT ![g] = {}]
      /\ reloads' = reloads \ {g}
      /\ stray' = (stray \/ g \in reloads)
      /\ loaded' = loaded \ ps
      /\ flagged' = IF HasDiagnostics(g) THEN flagged \cup {g} ELSE flagged \ {g}
      /\ UNCHANGED <<needs, timer, removed, providerVars, asked>>

(* ide_diagnostics_manager_buffer_changed *)
BufferChanged(b) ==
  /\ Running
  /\ b \in Open
  /\ FindOrMake(fileOf[b])
  /\ Queue(GroupFor(fileOf[b]))
  /\ UNCHANGED <<fileOf, buffer, shown, adapterVars, flagged, removed, providerVars,
                 loaded, asked>>

(* ide_diagnostics_manager_buffer_notify_language *)
BufferLanguage(b, matching) ==
  LET g == GroupFor(fileOf[b])
  IN  /\ Running
      /\ b \in Open
      /\ FindOrMake(fileOf[b])
      /\ IF g \in adapters /\ value[g] # matching
         THEN /\ value' = [value EXCEPT ![g] = matching]
              /\ reloads' = reloads \cup {g}
         ELSE UNCHANGED <<value, reloads>>
      /\ UNCHANGED <<fileOf, timer, buffer, shown, adapters, stray, needs, flagged, removed,
                     providerVars, loaded, asked>>

(* mutant of Moved: the entry of the old file stays *)
MovedTwice(g, f) == [byFile EXCEPT ![f] = g]

(* g_hash_table_steal and g_hash_table_insert: the group takes the place of *)
(* the one that was listed under the file.                                  *)
Moved(g, f) == [byFile EXCEPT ![file[g]] = 0, ![f] = g]

(* ide_diagnostics_manager_update_group_by_file, and the file of the buffer *)
BufferSavedAs(b, f) ==
  /\ Running
  /\ b \in Open /\ f # fileOf[b]
  /\ fileOf' = [fileOf EXCEPT ![b] = f]
  /\ LET groups == {g \in Listed : buffer[g] = b /\ file[g] # f}
     IN  \/ \E g \in groups : /\ byFile' = Moved(g, f)
                              /\ file' = [file EXCEPT ![g] = f]
         \/ groups = {} /\ UNCHANGED <<byFile, file>>
  /\ UNCHANGED <<made, timer, buffer, shown, adapterVars, needs, flagged, removed,
                 providerVars, loaded, asked>>

-----------------------------------------------------------------------------
(* The providers. *)

(* ide_extension_set_adapter_reload: what its value does not match any more *)
(* is unloaded, and what newly matches is loaded.                           *)
Mismatched(g) == {p \in Extensions(g) : plugin[p] \notin value[g]}
NewlyMatched(g) == value[g] \ {plugin[p] : p \in Extensions(g)}

(* The timeout of an adapter.  An extension is only added for a group that  *)
(* the table lists.                                                         *)
Reload(g) ==
  LET gone  == Mismatched(g)
      fresh == NewlyMatched(g)
      Id(q) == born + Cardinality({r \in fresh : r <= q})
      ids   == {Id(q) : q \in fresh}
  IN  /\ Running
      /\ g \in reloads /\ ~Freed(g)
      /\ g \in Listed \/ fresh = {}
      /\ born + Cardinality(fresh) <= MaxProviders
      /\ reloads' = reloads \ {g}
      /\ born' = born + Cardinality(fresh)
      /\ group' = [p \in Providers |-> IF p \in ids THEN g ELSE group[p]]
      /\ plugin' = [p \in Providers |-> IF p \in ids THEN CHOOSE q \in fresh : Id(q) = p
                                                     ELSE plugin[p]]
      /\ loaded' = (loaded \ gone) \cup ids
      /\ shown' = ShownWithout(gone)
      /\ IF fresh # {} THEN Queue(g) ELSE UNCHANGED <<needs, timer>>
      /\ UNCHANGED <<fileOf, tableVars, buffer, adapters, value, stray, flagged, removed,
                     asked>>

(* find_group_from_adapter does not find the group of a new extension, or   *)
(* the last one unloaded takes the group along, and so the adapter itself.  *)
ReloadUnlisted(g) ==
  /\ ~aborted
  /\ g \in reloads \ Listed /\ ~Freed(g)
  /\ \/ NewlyMatched(g) # {}
     \/ \A p \in (loaded \cup asked) \ (Mismatched(g) \ asked) : group[p] # g
  /\ aborted' = TRUE
  /\ UNCHANGED <<fileOf, tableVars, timer, buffer, shown, adapterVars, needs, flagged,
                 removed, providerVars, loaded, asked>>

(* The timeouts of adapters that were finalized: their memory is what it    *)
(* was, which ends the process, or that of an adapter made since, which     *)
(* reloads what its own timeout does.                                       *)
ReloadDisposed ==
  LET freed == {g \in reloads : Freed(g)}
  IN  /\ ~aborted
      /\ stray \/ freed # {}
      /\ reloads' = reloads \ freed
      /\ stray' = FALSE
      /\ \/ aborted' = TRUE
         \/ adapters \ freed # {} /\ aborted' = FALSE
      /\ UNCHANGED <<fileOf, tableVars, timer, buffer, shown, adapters, value, needs,
                     flagged, removed, providerVars, loaded, asked>>

(* ide_diagnostics_manager_provider_invalidated *)
ProviderInvalidated(p) ==
  /\ Running
  /\ p \in loaded
  /\ Queue(group[p])
  /\ UNCHANGED <<fileOf, tableVars, buffer, shown, adapterVars, flagged, removed,
                 providerVars, loaded, asked>>

(* ide_diagnostics_manager_begin_diagnose, ide_diagnostics_group_diagnose *)
BeginDiagnose ==
  LET begin == {g \in Listed \cap needs \cap adapters : InDiagnose(g) = {}}
  IN  /\ Running
      /\ timer
      /\ timer' = FALSE
      /\ needs' = needs \ begin
      /\ flagged' = flagged \ begin
      /\ asked' = asked \cup {p \in loaded : group[p] \in begin}
      /\ UNCHANGED <<fileOf, tableVars, buffer, shown, adapterVars, removed,
                     providerVars, loaded>>

(* mutant of MustDiagnose: the last answer does not look for changes *)
MustDiagnoseAlready(g, p) == FALSE

(* A change came in while the group was diagnosed, and p is the last to answer. *)
MustDiagnose(g, p) == g \notin removed /\ InDiagnose(g) = {p} /\ g \in needs

(* mutant of CanDispose: what is reported for the file does not count *)
CanDisposeShown(g, flags) == buffer[g] = None /\ g \notin adapters

(* ide_diagnostics_group_can_dispose *)
CanDispose(g, flags) == buffer[g] = None /\ g \notin adapters /\ g \notin flags

(* ide_diagnostics_group_diagnose_cb: what the provider said before is     *)
(* forgotten, what it says of its own file goes to its group, and what it  *)
(* says of another to the group listed for that.  The group that is done   *)
(* with is removed by its file, whichever group is listed for it.          *)
Answer(p, own, others) ==
  LET g    == group[p]
      told == (IF own THEN {g} ELSE {}) \cup {GroupFor(f) : f \in others}
      new  == {f \in others : byFile[f] = 0}
      done == ~MustDiagnose(g, p) /\ CanDispose(g, flagged \cup told)
  IN  /\ Running
      /\ p \in asked
      /\ file[g] \notin others /\ told \subseteq Groups
      /\ asked' = asked \ {p}
      /\ shown' = [h \in Groups |-> ShownWithout({p})[h] \cup {q \in {p} : h \in told}]
      /\ flagged' = flagged \cup told
      /\ made' = IF new = {} THEN made ELSE made + 1
      /\ file' = [h \in Groups |-> IF new # {} /\ h = made + 1 THEN CHOOSE f \in new : TRUE
                                                             ELSE file[h]]
      /\ byFile' = [f \in Files |-> IF f \in others THEN GroupFor(f)
                                    ELSE IF done /\ f = file[g] THEN 0
                                    ELSE byFile[f]]
      /\ removed' = IF done THEN removed \cup {g} ELSE removed
      /\ timer' = (timer \/ MustDiagnose(g, p))
      /\ UNCHANGED <<fileOf, buffer, adapterVars, needs, providerVars, loaded>>

-----------------------------------------------------------------------------
Init ==
  /\ fileOf = [b \in Buffers |-> None]
  /\ byFile = [f \in Files |-> 0] /\ timer = FALSE
  /\ made = 0 /\ file = [g \in Groups |-> None]
  /\ buffer = [g \in Groups |-> None] /\ shown = [g \in Groups |-> {}]
  /\ adapters = {} /\ value = [g \in Groups |-> {}]
  /\ reloads = {} /\ stray = FALSE
  /\ needs = {} /\ flagged = {} /\ removed = {}
  /\ born = 0
  /\ group = [p \in Providers |-> 0] /\ plugin = [p \in Providers |-> 0]
  /\ loaded = {} /\ asked = {} /\ aborted = FALSE

(* bound: a provider reports of at most one file that is not its own *)
Elsewhere == {{}} \cup {{f} : f \in Files}

Answers(p) == \E own \in BOOLEAN, others \in Elsewhere : Answer(p, own, others)

Next ==
  \/ \E b \in Buffers, f \in Files, m \in Languages : BufferLoaded(b, f, m)
  \/ \E b \in Buffers : BufferUnloaded(b) \/ BufferChanged(b)
  \/ \E b \in Buffers, m \in Languages : BufferLanguage(b, m)
  \/ \E b \in Buffers, f \in Files : BufferSavedAs(b, f)
  \/ \E g \in Groups : Reload(g) \/ ReloadUnlisted(g)
  \/ ReloadDisposed
  \/ \E p \in Providers : ProviderInvalidated(p) \/ Answers(p)
  \/ BeginDiagnose

(* The main loop runs the timeout; the providers answer, if only with an error. *)
Fairness == WF_vars(BeginDiagnose) /\ \A p \in Providers : WF_vars(Answers(p))

Spec == Init /\ [][Next]_vars
FairSpec == Spec /\ Fairness

-----------------------------------------------------------------------------
TypeOK ==
  /\ fileOf \in [Buffers -> Files \cup {None}]
  /\ made \in 0..MaxGroups
  /\ byFile \in [Files -> 0..made]
  /\ file \in [Groups -> Files \cup {None}]
  /\ timer \in BOOLEAN
  /\ buffer \in [Groups -> Buffers \cup {None}]
  /\ shown \in [Groups -> SUBSET Providers]
  /\ adapters \subseteq 1..made /\ reloads \subseteq 1..made
  /\ stray \in BOOLEAN /\ aborted \in BOOLEAN
  /\ value \in [Groups -> SUBSET Plugins]
  /\ needs \subseteq 1..made /\ flagged \subseteq 1..made /\ removed \subseteq 1..made
  /\ born \in 0..MaxProviders
  /\ group \in [Providers -> 0..made] /\ plugin \in [Providers -> Plugins \cup {0}]
  /\ loaded \subseteq 1..born /\ asked \subseteq 1..born

(* The table lists a group under the file the group has, and so under one   *)
(* file only, through every renaming, removal and replacement.              *)
ListedByTheirFile == \A f \in Files : byFile[f] # 0 => file[byFile[f]] = f

(* A change is never forgotten: a group that needs a diagnosis and could be *)
(* diagnosed has the timeout running, or a diagnosis whose end starts it.   *)
NothingForgotten ==
  \A g \in Listed \cap needs \cap adapters : timer \/ InDiagnose(g) # {}

(* Whoever is unloaded takes along what it reported, of every file; only an *)
(* answer that comes later can bring it back.                               *)
UnloadingClears ==
  [][\A g \in Listed' : \A p \in shown'[g] \ loaded' :
       p \notin loaded /\ (p \in shown[g] \/ p \in asked)]_vars

(* A group that no buffer shows is only disposed of once it shows nothing.  *)
DisposesOfTheEmpty ==
  [][\A g \in removed' \ removed : shown'[g] = {}]_vars

(* A change is followed by a diagnosis that starts after it, as long as the *)
(* buffer and the process stay.                                             *)
ChangesAreDiagnosed ==
  \A g \in Groups :
    (g \in Listed \cap needs \cap adapters)
      ~> (g \notin Listed \cap needs \cap adapters \/ aborted)

(* "setup all of our state needed for tracking diagnostics during the       *)
(* lifetime of the buffer": while a buffer is open, its file has a group    *)
(* with an adapter.                                                         *)
TrackedWhileOpen == \A b \in Open : byFile[fileOf[b]] \in adapters
=============================================================================
