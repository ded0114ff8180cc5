# GNOME Builder: a TLA+ model of its core

GNOME Builder is an IDE whose core, `src/libide`, is written in C on top of
GLib: nearly all of it runs in one main loop, and everything that takes time is
an asynchronous operation that ends in a callback. There are few data races, but
between any two callbacks anything else may happen: a configuration changes, a
file is closed, an operation is cancelled, a plugin is loaded. The model
describes the state machines these callbacks drive. A step of the specifications
is one callback of the main loop with all the calls it makes.

Paths below are relative to `src/libide`.

1. [Inventory](#inventory)
2. [Modules](#modules)
3. [Runs](#runs)
4. [Fairness](#fairness)
5. [Proofs](#proofs)
6. [What is not modelled](#what-is-not-modelled)
7. [Where the code and its documentation differ](#where-the-code-and-its-documentation-differ)
8. [Plan](#plan)

## Inventory

### Build pipeline (`buildsystem/ide-build-pipeline.c`) — modelled, but for what "What is not modelled" names

*State.* The array of entries (stage, phase, whence, priority), kept sorted; the
queue of tasks (`task_queue`); the operation that is worked on (`busy`, `failed`,
`position`, `current_stage`, `requested_mask`, `chained_bindings`); whether the
addins are loaded.
*Operations.* `request_phase`, `execute_async`, `clean_async`, `rebuild_async`,
`invalidate_phase`, `connect`, `disconnect`; internally `queue_flush`, `do_flush`,
`tick_execute`, `tick_clean`, `tick_rebuild` and the callbacks of the stages and of
the directory reaper; `load` and `unload` follow the "ready" property of the
configuration.
*Interactions.* Plugins connect stages through `IdeBuildPipelineAddin`; the build
manager is the client; `started` and `finished` tell observers.
*Hard.* The walk over the entries is spread over many callbacks and remembers an
index, while the array may change; a flush that finds the pipeline busy does
nothing, so that every task depends on the one before it to wake it; the mask of
requested phases is shared by all clients and cleared by each completion.
*Correct when* one operation is worked on at a time, in the order of requests;
every accepted task is answered once; a build that succeeds has run, in order,
every enabled stage that had to run; a cleaned stage runs again.

### Build stages (`ide-build-stage.c`, `ide-build-stage-launcher.c`) — modelled, but for what "What is not modelled" names

*State.* `completed`, `disabled`, `transient`, a pause count and a queued execution.
*Operations.* `_ide_build_stage_execute_with_query_async` emits `query`, whose
handlers may mark the stage done or stale, or pause it and unpause it later;
`chain` offers a later stage to an earlier one; `clean_async`.
*Correct when* each query leads to exactly one answer.

### Build manager (`ide-build-manager.c`) — modelled, but for what "What is not modelled" names

*State.* The current pipeline, `can_build`, `building`, the timer, one cancellable.
*Operations.* `execute_async` (which first saves all buffers for a real build),
`clean_async`, `rebuild_async`, `cancel`; `invalidate_pipeline` when the
configuration manager says so; `ensure_runtime_cb` when the runtime of a new
pipeline is there.
*Interactions.* Buffer manager (save all), runtime manager, configuration manager,
pipeline, run manager, and everything that listens to `build-started`,
`build-finished` and `build-failed`.
*Hard.* A pipeline that is replaced keeps its tasks and lives on; the answers for
it arrive late; saving the files is a window in which the pipeline can be replaced.
*Correct when* the flags and the signals are those of the current pipeline, and no
pipeline works before it is set up.

### Diagnostics (`diagnostics/ide-diagnostics-manager.c`, `plugins/ide-extension-set-adapter.c`)

*State.* A group per file: its providers (through an extension adapter), what each
of them reported, `needs_diagnose`, `in_diagnose`, `was_removed`; one timeout.
*Operations.* Loaded, changed, renamed and unloaded buffers; providers that load,
unload and are invalidated with their plugins; the timeout; the answers.
*Hard.* A provider answers when its buffer is closed, its file renamed, its plugin gone,
or for another file than it was asked about.
*Correct when* each group is listed under its own file, the last change is diagnosed, and
what a provider reported goes with it.

### Buffers and drafts (`buffers`)

*State.* The list of buffers, the files being `loading`, the auto-save timeouts, the
tasks of loads and saves; per buffer text, "modified", cached content, hold count, grace
period; `IdeUnsavedFiles` with the drafts directory and its manifest.
*Operations.* Load, reload, edit, save (by hand, by timeout, when no view is left),
hold and release; the drafts are saved in a thread and restored at the next start.
*Hard.* Loads and saves are chains of callbacks with edits, closing and other saves in
between; a crash may come between any two files of a save of the drafts.
*Correct when* a file has one buffer, no timeout outlives its buffer, what is handed to
compilers as unsaved content is the text, an edit reaches the disk, a held buffer stays, and a
restart finds the drafts.

### Run manager (`runner/ide-run-manager.c`)

*State.* `busy`, the cancellable, the handlers and the chosen one.
*Operations.* `run_async`: build and install, discover the target, run; `cancel`.
*Hard.* Any step may fail or be cancelled; a request that is refused replaces the
cancellable; the build manager may drop a build without an answer.
*Correct when* one run is in progress at most, and a cancelled one ends.

### Services (`subprocess`, `workers`, `langserv`)

*State.* The supervisor's subprocess and delayed restarts; the worker processes, their
connections and waiting requests; the documents a language server was told of.
*Hard.* Exits, stops and delayed restarts cross; a worker dies during the shutdown;
documents are edited while the server starts, or starts again.
*Correct when* no subprocess runs that nobody will stop, a supervised one comes back, and the
server has the texts the buffers have.

### Context (`ide-context.c`)

*State.* The hold count, the delayed unload, what the unload waits for.
*Operations.* `hold`, `release`, `unload_async`, `restore_async`.
*Correct when* a delayed unload is found by the last release, and an unload that has begun
ends.

### Other parts

| Part | State and operations | Correct when |
|---|---|---|
| Transfers (`transfers`) | the transfers, active and completed | all-transfers-completed is emitted once all are done |
| Configurations (`buildsystem/ide-configuration*.c`, `buildconfig`) | the set, the current one, delayed writeback | the last change is saved |
| Highlighting | the invalid range, an idle callback | what was edited is highlighted again |
| History | a list and its forks | moving back and forward are inverse |

The remaining parts (source view, editor, search, snippets, version control,
settings, plugins, vendored code) are listed with the reason in `PROJECT.json`: they
are user interface, pure data or I/O.

How the parts interact: the workbench or a key press activates an action of the
*build manager* or *run manager*; the run manager asks the build manager for the
install phase; the build manager saves the *buffers* (which writes files and removes
*drafts*) and gives a task to the *pipeline*; the pipeline runs *stages*, which
spawn *subprocesses*; diagnostics and the client of the *language server* follow the buffers
through `buffer-loaded`, `buffer-saved` and `buffer-unloaded`; a change of the *configuration* makes the build manager throw
the pipeline away and make a new one. Unloading the *context* goes through all of
them, once nobody holds it.

## Modules

| Module | Models | Remarks |
|---|---|---|
| `JobQueue` | what a pipeline promises its callers | abstract: FIFO, one job at a time, one answer each |
| `BuildPipeline` | pipeline and stages | implements `JobQueue` |
| `BuildManager` | the manager, and each pipeline as far as `JobQueue` describes it | demands no more than `JobQueue` of each |
| `Diagnostics` | the diagnostics manager, its groups and adapters | |
| `Buffers` | the buffer manager with its buffers | what is saved where |
| `UnsavedFiles` | the drafts, their thread, crashes and restarts | |
| `RunManager` | the run manager | the build manager as "answers, fails or drops" |
| `SubprocessSupervisor`, `Workers` | the supervisor; the worker manager and its processes | |
| `LanguageClient` | the client of a language server over the server's lives | the supervisor as "spawned" |
| `ContextUnload` | holding, unloading and restoring a context | the buffers as those still to be saved |
| `MCBuildPipeline`, `MCBuildManager`, `MCDiagnostics` | | values of the constants for TLC |
| `MCComponents` | | the components that share no state, side by side |
| `BuildPipeline_proofs` | | types, the order of the entries, the queue and its refinement of `JobQueue`, requests, callbacks |
| `BuildPipelineWalk_proofs` | | the walk over the entries: its position, its order, what it reaches, what is cleaned, and that it ends |
| `BuildManager_proofs` | | types, the invariants of the manager, `JobQueue` of each pipeline |
| `Diagnostics_proofs` | | types, the table, changes, unloading, disposal |
| `Buffers_proofs` | | types and the invariants of the buffer manager, edits on their way to the file |
| `Services_proofs` | | supervisor, workers, run manager, language client |
| `Unload_proofs` | | drafts, context |
| `Components_proofs` | | the components side by side: what is proved of one holds of them together |

### BuildPipeline

The array of entries is the set `connected`, since its order is that of
`pipeline_entry_compare`, the operator `Before`; the index of an entry is the number
of those before it (`IndexOf`). A stage that the next load would create again is a
stage of its own (`Batch` says which load creates it). A GTask is an element of
`Tasks`, its fate is `state`. A phase is a number, `requested_mask` the highest bit
set in it: `request_phase` always sets all lower bits as well. What the main loop
will call is `flushes` (the pending timeouts of `queue_flush`) and `activity` (which
callback the operation waits for: none, `unpause`, the stage, a stage that was
complete already, the clean of a stage, the reaper).

| Action | Code |
|---|---|
| `RequestPhase`, `ExecuteAsync`, `CleanAsync`, `RebuildAsync` | the public functions |
| `Cancel` | `g_cancellable_cancel` on the task's cancellable |
| `InvalidatePhase`, `Connect`, `Disconnect` | the public functions plugins call |
| `Load`, `Unload` | `notify_ready` |
| `FlushNothing`, `FlushFails`, `FlushStarts` | the three ways through `do_flush` |
| `Unpause` | the handler that paused a stage lets it go on |
| `StageReturns`, `CleanReturns`, `ReapReturns` | `stage_execute_cb`, `clean_cb`, `reaper_cb` |

`TickExecute`, `TickClean`, `TickRebuild`, `StageExecuted` and `TaskCompleted` are the
functions these call, with their whole effect: completing a task also releases the
transient stages, unloads the addins when the configuration is no longer ready, and
queues the next flush. `GBinding`s between chained stages are `bindings`: a change of
"completed" is passed on transitively, as far as there are stages left that it changes: `Following` is
the least set that is closed under the bindings (`Bound`).

The variables `asked`, `ran`, `stale`, `present`, `reshaped` and `lapsed` only serve the
properties; no action reads them. `present` holds the stages that were connected when a clean was
requested, as what a clean promises is about these.

### BuildManager

Pipelines are numbered as they are made; `pipeline` is the current one or 0. Of each
it keeps the setup, the queue, whether a phase is requested, and which task runs. The
`DzlSignalGroup` of the code is the test `g = pipeline` in `HearStarted`,
`HearFinished` and `HearBoth`. `announced` and `mismatched` remember the signals
observers saw, `worked` the tasks a pipeline took up or said were up to date already.

| Action | Code |
|---|---|
| `ExecuteReturns`, `Execute` | `execute_async`, with and without an immediate answer |
| `Saved` | `save_all_cb` |
| `CleanOrRebuild` | `clean_async`, `rebuild_async`, under the guard of their actions |
| `Cancel`, `InvalidatePipeline`, `RuntimeEnsured` | `cancel`, `invalidate_pipeline`, `ensure_runtime_cb` |
| `FlushStarts`, `FlushFails`, `RebuildBuilds`, `Completes` | what the pipeline does, and the signals the manager hears |

### Diagnostics

A group is a number, given as it is made, that lives on after the table dropped it; a provider
is one extension that an adapter loaded, of one plugin, for one group. `shown[g]` is the set of
providers with an entry in `diagnostics_by_provider`; the diagnostics themselves are not
distinguished. A language is the set of plugins that match it. An answer reaches
the provider's own group and at most one other file. What plugins do reaches it through
the adapter: `Reload` is `ide_extension_set_adapter_reload`. A buffer that is reloaded emits `buffer-loaded` again.

Closing a buffer disposes of the adapter but leaves a timeout it has set. For a group that the table has dropped,
`find_group_from_adapter` finds nothing and ends in `g_assert_not_reached` (`ReloadUnlisted`; with the assertions compiled
out, `meson.build:132`, the NULL it returns is used). For an adapter that was finalized the timeout finds whatever its
memory holds (`stray`, `ReloadDisposed`): the process ends, or the memory is that of an adapter made since. `aborted` is
the end of the process, after which nothing happens; the properties hold up to it.

### Buffers, UnsavedFiles

A content is a number, in the order in which contents come up, so that "newer" is "greater"; 0 is what a buffer
holds while its file is read, nothing or a part. A load is a record that goes
"info", "read": `LoadInfo` starts the loader, which clears the buffer, `LoadChunk` is any part it reads, and `LoadDone`
leaves what the file had, or what was read before an error; what was typed in between is a text of its own
(`TextRead`). `Changed` is the "changed" signal with its two handlers, `Altered` an edit, by the user or by
`ide_buffer_trim_trailing_whitespace` when a save has loaded the file's settings. `mtime_set` are the buffers that can tell that
their file has changed; since the answer of the stat may be older than the buffer's time stamp, `VolumeChecked` may find a
difference at any time. The text of a disposed buffer that no save will write is forgotten (`Forgotten`), which nobody can
notice. A save goes "settings", "write", "done", "mtime", one action for each callback:
`SettingsLoaded`, `Written` (the saver's worker), `SaveDone`, `MtimeReloaded`. `Slots` are the
saves at the same time. A save that reclaims removes its buffer at the end (`RemoveBuffer`),
and once more writes what was changed since. `givenUp` and `volume` are the buffers
auto-save is not expected to reach.

A save of `UnsavedFiles` copies the entries (`BeginSaving`), writes one draft after the other
(`SaveDraft`) and the manifest last (`SaveManifest`); `Restart` is a crash at any point and
`restore_worker` of the next start. `kept` remembers what the last finished save wrote.

### RunManager, SubprocessSupervisor, Workers, LanguageClient, ContextUnload

Requests, subprocesses, clients and unloads are numbered in the order in which they come; where the
code compares pointers, the model compares numbers. `RunManager` has one action for each callback of a
run, `Answered` being any of them; its handlers are a list, in which an id may come twice, and the chosen one is a place in
it. `SubprocessSupervisor!WaitCb` is `wait_cb` with and without
the rate limit; `RestartFires` starts whatever `supervising` says, as the code does. In `Workers`
the connection is the pid at its other end. In `LanguageClient` a text is a number of edits and
`copy` what the server will have when it has read what was sent; JSON-RPC keeps the
order. `ContextUnload` counts the buffers the unload waits for as the code does
(`IN_PROGRESS`), and takes the later steps one by one; each of them, the saving included, may end with an error or cancelled,
which ends the unload (`GoesOn`, `ide_async_helper_cb`).

Definitions commented "mutant of X" are plausible mistakes. Nothing uses them; each is
put in the place of `X` once to see that a property notices.

## Runs

| Run | Instance | Distinct states | Shows |
|---|---|---|---|
| `pipeline_stages` | two builds; four stages: queried with any outcome, chained, disabled; phase 1 may be invalidated; one cancellable | 28,705 | types, one operation at a time, stages in order and none left out |
| `pipeline_operations` | a build, a clean and a rebuild; two stages, one that may be paused and one a launcher; two cancellables | 160,486 | callbacks meet their task, the queue is exact, clean works, what is cancelled stops, `JobQueue` is implemented, every task is answered |
| `pipeline_reshape` | two builds; four stages that come with two loads, are connected and disconnected; one transient | 51,822 | no wakeup is lost |
| `manager_ops` | a build, a configure, a rebuild and a clean; two pipelines, so one replacement at any moment | 370,534 | flags, timer and signals agree with the current pipeline; only prepared pipelines work; every task ends |
| `diagnostics_groups` | one buffer, two files, two plugins in two languages, two groups, two providers | 439,143 | types, the table, no change forgotten, unloading clears, only empty groups are disposed of, changes are diagnosed |
| `components_all` | one component at a time: two buffers of one file with one save and two contents; three runs and lists of two handlers; four subprocesses; two plugins with three workers; two drafts with two savers and one crash; two unloads of two buffers; two documents with two lives of the server | 416,709 | the invariants of each component; an edit is on its way to the file and gets there, a cancelled run and a begun unload end |
| `diagnostics_tracked`, `buffers_held`, `pipeline_transients`, `pipeline_clean`, `pipeline_skip`, `manager_success` | | | the differences with the documentation described [below](#where-the-code-and-its-documentation-differ) |

**Why the bounds are enough.** Two tasks are the least that wait for one another; the
third of `pipeline_operations` lets every kind follow every kind. Two phases distinguish
"up to the requested phase" from "all". Four stages give one before, one after and one
between in a chain, and an entry that moves under `position`. Two loads show a reload;
a second invalidation of the same phase would find the same states. Two pipelines in the manager
are one that is replaced and one that replaces it; a third only repeats the same
relation, since a superseded pipeline and the manager ignore each other, and the
theorems hold for any number.

In `components_all` two buffers of one file are one that is closed while the other is opened; edits by the
user, the trimming of a save and another program compete for one version, enough for "newer than the disk". Two lists
of the same handler are what tells a handler from its id. Two saves of the
drafts overlap and a third only meets the same files. The invariants of two saves at the same time (6.3 million
states) and of three contents (819 thousand) in `Buffers`, of three contents in `UnsavedFiles` (2.1 million) and of three
edits in `LanguageClient` (206 thousand) were checked once and found no
difference; two buffers in `Diagnostics` were searched to depth 15 (6.7 million). They are too slow to be repeated with
every run, and the theorems hold for any number.

**One run for several components.** The components of `MCComponents` share no variable, so that their
product would only multiply the states: the variable `live` chooses the one that moves, and the
others keep their initial state, in which none of their fair actions is enabled. Each property
therefore speaks of the behaviours of its own component.

**Bounds in the model.** `MaxBuffers`, `MaxVersions`, `MaxHolds`, `MaxSaves`, `MaxRuns`, `MaxHandlers`,
`MaxSpawns`, `MaxRestarts`, `MaxWorkers`, `MaxRequests`, `MaxContents`, `MaxSavers`, `MaxCrashes`,
`MaxContextHolds`, `MaxUnloads`, `MaxOpen`, `MaxDrafts`, `MaxEdits`, `MaxClients`, `MaxGroups`,
`MaxProviders` and the `MaxLoads`, `Invalidations`, `Removable` and `MaxPipelines` limit
what the environment may do; `Tasks` is finite because a task is used once. Since tasks
run out, the runs stop in states with nothing left to do: that is why deadlock is not
checked. That the code does not get stuck earlier is what `NoLostWakeup`,
`TasksAreAnswered` and `TasksEnd` are for.

## Fairness

`BuildPipeline!Fairness` is weak fairness of `DoFlush` and of each task's callbacks: the
GLib main loop dispatches a timeout that has expired and a GTask that has returned. That a
stage returns at all means that its subprocess ends or is cancelled, and that a
handler that pauses a stage unpauses it; no fairness is assumed of clients, plugins,
cancellation or the configuration. `TasksAreAnswered` assumes that the configuration
stays ready; the code does not flush the queue when it becomes ready again.

`BuildManager!Fairness` is weak fairness of what each pipeline does, which is what
`TasksAreAnswered` gives it, and of `Saved`: saving ends, with errors or not. No fairness is
assumed of `RuntimeEnsured`: installing a runtime may take for ever.

`Diagnostics!Fairness`: the timeout expires, and every provider answers, if only with an error; a
language server that never does keeps its group in diagnosis, also in the code.

`Buffers!Fairness`: the auto-save timeouts expire, and loads and saves come to their next callback,
with errors or not. Nothing is assumed of users, views or the grace period.

`RunManager!RunFairness`: the timeout of `cancel` expires, and what was cancelled answers, as GIO
operations with a cancellable do. A run that nobody cancels may last for ever.

`ContextUnload!ContextFairness`: each step of a begun unload ends, and so do the saves it waits for, with errors or
cancelled. Nobody is assumed to release the context, and nothing about restoring, which no property depends on.

## Proofs

The theorems hold for all constants that satisfy the assumptions of the modules:
`StagesAssumption`, `TasksAssumption` (types, a finite set of stages), `KeysAssumption` (no
two stages have the same place in the order) and `ChainsAssumption` for the pipeline,
`ManagerAssumption` for the manager. TLC evaluates these assumptions in every run.

* `TypeCorrect`: every variable keeps its type. The argument needs that
  `First` and `Last` exist (`FirstExists`, `LastExists`), which follows from the order
  being total and the set of stages finite, by well-foundedness of the strict subset
  ordering. The invariant is split into the parts that the walk, the goal and the flow
  of tasks change (`FlowTypes`, `GoalTypes`, `WalkTypes`, `RestTypes`).
* `SingleFlightCorrect`, `QueueCorrect`, `WakeupCorrect`: the conjunction `QueueInv` of the
  three invariants is inductive, and none of them alone is: that the head of the queue is a queued
  task is needed for the busy bit, and the busy bit for the wakeup. `KindsOfSteps` first reduces the
  actions to the few things they do to the queue.
* `ImplementsJobQueue`: from the same invariant, `waiting <- queue` and
  `serving <- the running tasks`.
* `RequestsCorrect`: the mask only grows unless a task is answered (`MaskGrows`). No run checks the property, `RequestsAccumulate`:
  what can go wrong with a request is beyond it, and is the subject of `manager_success`.
* `CancelledCorrect`: each callback of a cancelled task answers it with an error or leaves it with the stage it has
  (`Stops`, `CallbackStops`); a flush may still begin a cancelled clean or rebuild, but not end it with success.
* `CallbacksCorrect`: `CallbackInv` adds that the list of a clean holds stages only, that it is empty
  for the other kinds, and that waiting builds have a phase.
* `PositionCorrect`, `StagesAreOrdered`: neither invariant is inductive. The index of an entry is a
  cardinality; `IndexOrders` says that it increases with the order, and what the walk has behind it is `Swept`: every
  enabled stage up to the position has run, and none after it. `OrderInv` adds to the two invariants that the stages
  a chain takes over leave no gap (`ChainHasNoGaps`), and what holds while the reaper runs.
* `BuildsReachTheirPhase`: that a stage that ran is still complete when the build ends, unless it was
  made stale, depends on the bindings. `BindInv` says that bindings lead forward in the order (`Forward`), that a stage
  that ran is complete or within reach of a stale one (`Bound`), and that a stage that chains others is incomplete while it
  executes, which is what `ChainsAssumption` is for. The lemmas on `Bound` (it is closed, least, and grows with its
  arguments) replace an induction over paths, since `Bound` is defined as an intersection.
* `CleanedStagesRunAgain`: `CleanInv` says that each stage a clean has promised (`Promised`: plain, of its phases,
  present at the request) is still on its list or incomplete already; that nothing completes a stage while the clean is
  worked on follows from `QueueInv` and `CallbackInv`.
* `TasksGoOn`: `CallbacksLeft` counts how many callbacks a task may still have before it; each of them lowers
  the number, since `position` only grows and stays inside the array (`WalkInv`), even if stages come and go. What
  remains of `TasksAreAnswered` is the fairness.
* `BuildingCorrect`, `TimerCorrect`, `SignalsCorrect`, `PreparationCorrect` (`NothingBeforeSetup`): the conjunction `ManagerInv`
  is inductive. To the invariants it adds that a pipeline runs one task at a time
  (else the end of one would not make it idle), that a queue holds queued tasks of its own
  pipeline only (else a start would make another pipeline busy), that pipelines are made
  in order (else a new one might have worked already) and that the signal heard last
  is that of the current pipeline. TLC checked `ManagerInv` on the instance of `manager_ops`
  before it was proved.
* `QueuesCorrect`: every pipeline the manager ever made, current or superseded, is a `JobQueue`,
  from the same invariant and the same kinds of steps.

* `Diagnostics_proofs`: the conjunction `DiagnosticsInv`. That the table lists each group under its
  file (`TableCorrect`) needs that a listed group is listed once and was made; that nothing is forgotten
  (`ChangesRemembered`) needs that a group is in diagnosis while a provider owes an answer. `UnloadingCorrect`
  and `DisposalCorrect` are action properties that follow from it.
* `Buffers_proofs`: the conjunction `BuffersInv`. One buffer per file needs that no two loads are of the same
  file and that the load of a new buffer has no rival (`Loads`), which is what the table `loading` ensures, so that
  `LoadingMatchesTasks` is part of the same induction; `TimersOfTracked` and `UnsavedMirrors` need that only
  buffers that were made and not disposed of are listed, tracked, cached or timed (`OfMade`, `Sets`). There is a
  lemma for each action. `EditsAreOnTheirWay` needs that no text and no file is later than the latest version
  (`NoneLater`), so that what another program writes is newer than any text, and, from `BuffersInv`, that a save
  writes the file of one buffer only.
* `Services_proofs`: `SupervisorInv` (a subprocess whose exit is to be reported has exited),
  `WorkersInv`, `RunInv` (which step of a run goes with which flag) and `LanguageInv` (before the server
  is initialized nothing was told, and an untroubled document has one handler). `RunsGoOn` shows that only the
  answer to its present step moves a run, and that a run whose build was dropped blocks the run manager for good.
* `Unload_proofs`: `DraftsInv` relates what a save still has to write to what is on the disk and in
  the manifest; `ContextInv` relates the delayed request to the hold count. `UnloadsGoOn` counts the steps an unload
  has left; that it is never stuck while buffers are saved is because a step "saving" has a save to wait for. An
  error or a cancellation ends it at once.
* `Components_proofs`: every behaviour of `MCComponents` is one of each component, as the others leave its variables alone
  (`ComponentsImplementEach`); so `ComponentsTypeOK` and `NoOrphans` follow from the theorems of the components.

The assumptions are those the modules name (`DiagnosticsAssumption`, `BuffersAssumption`,
`RunManagerAssumption`, `SupervisorAssumption`, `WorkersAssumption`, `UnsavedFilesAssumption`,
`ContextAssumption`, `LanguageAssumption`): bounds are natural numbers and "none" is not a value. Every inductive
invariant was checked by TLC before it was proved.

Model-checked only: liveness (`TasksAreAnswered`, `TasksEnd`, `ChangesAreDiagnosed`,
`AutoSaveCatchesUp`, `CancelledRunsEnd`, `UnloadsEnd`), since the prover has no support for fairness. What liveness rests on
is proved where it is not obvious: `WakeupCorrect` and `TasksGoOn` for `TasksAreAnswered`, `ChangesRemembered`
for `ChangesAreDiagnosed`, `EditsAreOnTheirWay` for `AutoSaveCatchesUp`, `RunsGoOn` for
`CancelledRunsEnd`, `UnloadsGoOn` for `UnloadsEnd`. Every invariant and every action property of a passing run is stated
by a theorem. The six differences with the documentation are counterexamples, which TLC finds.

## What is not modelled

*Build system.* Extraction of diagnostics from the build log, the log and
PTY, messages, build times, error counters, the environment and launchers; disposal and
reference counts. Spawning, the file system and runtimes appear as an outcome: success or
failure. The stages of the plugins are their constants: phase, query, chain, launcher.
Two pipelines at work in the same build directory are possible in the model of the manager, as
in the code; what their processes do to each other's files is not part of it.

*Diagnostics.* The diagnostics and their severities, sequence numbers, the signals for the gutter; the "enabled"
settings of plugins; more than one other file per answer.

*Buffers.* Saving under another name (it is in `Diagnostics` and `LanguageClient`), files that
do not exist yet, the count of `save_all` (it is in `BuildManager`), switching auto-save off, `apply_edits`, views that release a buffer after it was removed, cursor positions.
`AutoSaveCatchesUp` leaves out the second buffer of a file while a save of the first is late.

*Runs.* Options, arguments and environment, enabling of actions, `STOPPED`, the hooks of runner addins.

*Services.* Launchers, custom handlers of `supervise`, finalization; the worker's own side; requests to
the language server and their answers, published diagnostics, files trashed or renamed in the project.

*Context.* Initialization, which is one linear chain, and the release of device and runtime managers.

*Parts without a module.* `Transfers` starts each transfer at once, so that there is no queue to model; of
`Configurations` the pipeline and the manager see that one changes or becomes ready, and the rest is key
files; the highlight engine and the history change synchronously, with one idle callback at most.
The source view, the editor, completion, snippets, search, version control, settings, the plugins of the
build systems and of the languages, and the vendored libraries are user interface, parsers, wrappers of
libraries or data. Together they are by far the most lines of the repository, and have few states of their own
that a model checker could say something about; what they ask of the core is what the modules let any
client do.

*Hazards without a property.* In six cases the code does what one would fear, and nothing in the repository
claims otherwise, so that no property can hold or be refuted: tasks stranded by a completion while the configuration is not
ready (`lapsed` excludes them from `NoLostWakeup`), a stage invalidated while it executes, a build dropped without
an answer ("dropped" is an end for `TasksEnd`), the cancellable replaced by a refused request to run (`asides`),
documents announced twice or not at all (`astray`), and a file of several that cannot be saved. `PROJECT.json` lists them
with these reasons. That the completion of one task clears the request of another is within reach of
`SuccessWasWorkedFor`, which it refutes as the invalidation in its trace does.

## Where the code and its documentation differ

Each of these six is a run that TLC ends with a counterexample.

1. `release_transients` looks at entry `i - 1` but removes entry `i`
   (`ide-build-pipeline.c:602`): a transient stage stays and its successor goes. Run
   `pipeline_transients`.
2. `unload` during a build disconnects the addins' stages under the walk, which then
   skips a stage and succeeds (`ide-build-pipeline.c:916`). Run `pipeline_skip`.
3. The clean of a launcher stage leaves `completed` set
   (`ide-build-stage-launcher.c:215`), so that it does not run in the next build. Run
   `pipeline_clean`.
4. A build whose pipeline is replaced while the files are saved is answered TRUE without
   having been built (`ide-build-manager.c:1117`). Run `manager_success`.
5. `diagnose_cb` disposes of a group by removing its file from the table, whichever group is listed there
   by then (`ide-diagnostics-manager.c:399`): a buffer that is opened again loses its group to the second late answer
   to the one that was closed. Run `diagnostics_tracked`.
6. The end of the save that precedes a reclamation removes the buffer, although a view may hold it again
   (`ide-buffer-manager.c:1936`). Run `buffers_held`.

Noted while reading, without a run of their own:

* The stages for the configuration's build commands are connected by every load and
  disconnected by no unload (`ide-build-pipeline.c:876`).
* The bindings of chained stages lose their free function once they are stolen
  (`ide-build-pipeline.c:1240` with 1204): later ones are never unbound (`unbinds`).
* A task answered while the configuration is not ready strands the ones that wait
  (`ide-build-pipeline.c:1407`); `lapsed` marks this case.
* `finished` reports no failure for a failed reaper or clean, or for a
  cancellation (`ide-build-pipeline.c:2596`).
* The completion of any task clears a phase requested for another (`ide-build-pipeline.c:1386`).
* The completion of a stage overrides an invalidation that came while it ran
  (`ide-build-pipeline.c:1237`).
* The stages to clean are fixed when the clean is requested.
* Cancelling in the build manager reaches the cancellable of the latest operation only.
* A group that the table has dropped while its providers were loaded stays, and is never diagnosed again.
* A request to run that is refused as busy has already replaced the cancellable (`ide-run-manager.c:613`), so that
  stopping reaches nobody; and when the build manager drops the build, the run manager stays busy. `asides` and
  `dropped` mark these cases.
* A supervisor that was stopped starts again when a delayed restart fires
  (`ide-subprocess-supervisor.c:249`).
* A worker's proxy is made on the connection of a subprocess that may have died; a request for a proxy after the
  shutdown is never answered.
* `unsaved_file_copy` leaves `temp_fd` 0, so that `unsaved_file_free` closes file descriptor 0; a file that is removed
  while the drafts are saved comes back with its old draft; `ide_context_restore_async` loads the files from the disk
  and never asks for the drafts.
* A buffer that is reloaded emits `buffer-loaded` again, upon which the language client connects to its edits
  again: from then on the server is told of each edit twice. One whose language changes, or that is saved
  under another name, is not announced (`ide-langserv-client.c:278`). `astray` marks them.
* Once an unload has begun, a second one is accepted.
* When the last active transfer fails, `all-transfers-completed` is not emitted
  (`ide-transfer-manager.c:382`), although its documentation says "completed or failed"; executing a transfer that is active
  already is ignored.
* A configuration provider that overrides the default configuration leaves `current` on the one it removed.
* A build is dropped, and its callback never called, when the pipeline is lost while the files
  are saved (the state "dropped" of `BuildManager`).

## Plan

What would add most, in this order:

1. `Diagnostics` on top of `Buffers`, with saving under another name in both, and `LanguageClient` on top of
   `SubprocessSupervisor`: each composition in one module with a run of its own.
2. An abstract specification of what becomes of an edit (in the buffer, in a draft, or in the file), implemented by
   `Buffers` and `UnsavedFiles` together.
3. `Configurations` with its delayed writeback, and the highlight engine.
