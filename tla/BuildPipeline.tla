--------------------------- MODULE BuildPipeline ---------------------------
(***************************************************************************)
(* IdeBuildPipeline and its IdeBuildStages: plugins connect stages to the  *)
(* phases of a build; clients request a phase and execute, clean or        *)
(* rebuild.  The operations wait in a queue and are worked on one at a     *)
(* time, stage after stage, by callbacks of the main loop.                 *)
(*                                                                         *)
(* A step of this module is one callback of the GLib main loop, with every *)
(* call it makes: between two callbacks anything else may run.             *)
(***************************************************************************)
EXTENDS Integers, Sequences, FiniteSets

CONSTANTS
  Stages,     \* the IdeBuildStage objects; each enters the pipeline at most once
  NPhases,    \* the phases are 1..NPhases; 0 is IDE_BUILD_PHASE_NONE
  PhaseOf,    \* the phase each stage is connected to
  Whence,     \* -1: with PHASE_BEFORE, 0: plainly, 1: with PHASE_AFTER
  Priority,   \* the priority it is connected with
  Batch,      \* n > 0: the n-th load connects it; 0: a plugin does, at any time
  Commands,   \* the stages made from the configuration's command lists
  Disabled,   \* the stages with the "disabled" property
  Transient,  \* the stages with the "transient" property
  Launchers,  \* the stages that are IdeBuildStageLaunchers
  Query,      \* what its "query" handlers may do; {} for a stage without one
  Chains,     \* <<a, b>>: the "chain" handler of a accepts b as part of a's work
  Tasks,      \* the operations clients may start
  Kind,       \* "build", "clean" or "rebuild"
  Cancellables,   \* the tasks that were given a GCancellable
  Invalidations,  \* bound: the sets of phases plugins may invalidate
  Removable,      \* bound: the stages plugins may disconnect
  MaxLoads,   \* bound: how often the configuration becomes ready
  None        \* no stage

(* pipeline_entry_compare, with the order of insertion among equal entries. *)
Before(a, b) ==
  \/ PhaseOf[a] < PhaseOf[b]
  \/ /\ PhaseOf[a] = PhaseOf[b]
     /\ \/ Whence[a] < Whence[b]
        \/ /\ Whence[a] = Whence[b]
           /\ \/ Priority[a] < Priority[b]
              \/ Priority[a] = Priority[b] /\ Batch[a] < Batch[b]

QueryOutcomes == {"keep", "done", "stale", "pause"}

ASSUME StagesAssumption ==
  /\ IsFiniteSet(Stages)
  /\ None \notin Stages
  /\ NPhases \in Nat /\ MaxLoads \in Nat
  /\ PhaseOf \in [Stages -> 1..NPhases]
  /\ Whence \in [Stages -> {-1, 0, 1}]
  /\ Priority \in [Stages -> Int]
  /\ Batch \in [Stages -> 0..MaxLoads]
  /\ Commands \subseteq {s \in Stages : Batch[s] > 0}
  /\ Disabled \subseteq Stages /\ Transient \subseteq Stages
  /\ Launchers \subseteq Stages
  /\ Query \in [Stages -> SUBSET QueryOutcomes]
  /\ Chains \subseteq Stages \X Stages

(* Two stages are never connected with the same key at the same time. *)
ASSUME KeysAssumption ==
  \A a, b \in Stages : a # b => Before(a, b) \/ Before(b, a)

(* A stage that takes over the work of later ones always runs again itself, *)
(* as the query handler of IdeAutotoolsMakeStage sees to.                   *)
ASSUME ChainsAssumption ==
  \A pair \in Chains : Query[pair[1]] = {"stale"}

ASSUME TasksAssumption ==
  /\ Kind \in [Tasks -> {"build", "clean", "rebuild"}]
  /\ Cancellables \subseteq Tasks
  /\ Invalidations \subseteq SUBSET (1..NPhases)
  /\ Removable \subseteq Stages \ Commands

VARIABLES
  (* the array of entries, and what loads and unloads it *)
  connected,  \* the stages in self->pipeline, which is sorted by Before
  retired,    \* the stages that were removed from it
  ready,      \* the "ready" property of the configuration
  loads,      \* how many times the pipeline was loaded
  addins,     \* self->addins is set
  (* the stages *)
  completed,  \* the "completed" property of each stage
  bindings,   \* the GBindings from one stage's "completed" to another's
  (* the operation being worked on *)
  busy, failed, position, requested,
  current,    \* self->current_stage
  activity,   \* which callback the operation waits for
  chained,    \* the targets of the bindings in self->chained_bindings
  unbinds,    \* chained_bindings still has chained_binding_clear as free func
  (* the queue *)
  queue,      \* self->task_queue
  flushes,    \* the timeouts of queue_flush that have not fired
  state,      \* of each task
  phase,      \* TaskData.phase
  toClean,    \* TaskData.clean.stages
  cancelled,  \* the tasks whose GCancellable was cancelled
  (* what the properties remember; no action reads these *)
  asked,      \* the phase a client requested for the task it is to start,
              \* since a task was last answered
  ran,        \* when a stage last succeeded: "never", "earlier", or in the
              \* operation being worked on: "now"
  stale,      \* the stages invalidated since they were last started
  present,    \* the stages that were connected when a clean was requested
  reshaped,   \* entries came or went while the operation was worked on
  lapsed      \* a task was answered while the configuration was not ready

arrayVars == <<connected, retired, addins>>
stageVars == <<completed, bindings>>
workVars  == <<busy, failed, position, requested, current, activity, chained,
               unbinds>>
taskVars  == <<state, phase, toClean, cancelled>>
ghostVars == <<asked, ran, stale, present, reshaped, lapsed>>
vars == <<arrayVars, ready, loads, stageVars, workVars, queue, flushes,
          taskVars, ghostVars>>

Activities ==
  {"idle", "paused", "executing", "answered", "cleaning", "reaping"}

-----------------------------------------------------------------------------
(* The array of entries. *)

IndexOf(s) == Cardinality({x \in connected : Before(x, s)})

Last(S) == CHOOSE s \in S : \A x \in S \ {s} : Before(x, s)

(* mutant of First: the pipeline is walked from the end *)
FirstIsLast(S) == Last(S)

First(S) == CHOOSE s \in S : \A x \in S \ {s} : Before(s, x)

(* What unloading the addins disconnects: the stages they track. *)
Tracked == {s \in connected \ Commands : addins /\ Batch[s] = loads}

(* Going down from i = len, a transient entry i - 1 has entry i removed. *)
Released ==
  {s \in connected : \E x \in Transient \cap connected : IndexOf(s) = IndexOf(x) + 1}

Later(p, q) == IF p > q THEN p ELSE q

-----------------------------------------------------------------------------
(* The stages. *)

(* The stages of open that bindings lead to from those in S, through open: *)
(* the least set that has those of S and is closed under the bindings.      *)
Bound(binds, S, open) ==
  {s \in open : \A C \in SUBSET open :
     /\ S \cap open \subseteq C
     /\ \A x \in C, y \in open : <<x, y>> \in binds => y \in C
     => s \in C}

(* The stages whose "completed" changes when that of those in S is set to v: *)
(* a binding passes on a change, and only a change.                          *)
Following(comp, binds, S, v) == Bound(binds, S, {s \in Stages : comp[s] # v})

SetCompleted(comp, binds, S, v) ==
  LET changed == Following(comp, binds, S, v)
  IN  [s \in Stages |-> IF s \in changed THEN v ELSE comp[s]]

HasQuery(s) == Query[s] # {}

(* What request_phase answers when the phases up to p are requested. *)
NeedsExecution(p, comp) ==
  \E s \in connected : PhaseOf[s] <= p /\ (~comp[s] \/ HasQuery(s))

(* The entries after position that tick_execute may run, up to phase goal. *)
Remaining(goal, pos) ==
  {s \in connected \ Disabled : PhaseOf[s] <= goal /\ IndexOf(s) > pos}

(* The entries try_chain adds to the work of stage h, of those in todo. *)
ChainedTo(h, todo) ==
  {s \in todo : /\ Before(h, s)
                /\ \A x \in todo : Before(h, x) /\ ~Before(s, x) => <<h, x>> \in Chains}

(* mutant of PositionAfter: try_chain does not advance the position *)
PositionNotAdvanced(h, rest) == IndexOf(h)

(* Where try_chain leaves the position. *)
PositionAfter(h, rest) == IndexOf(Last({h} \cup rest))

(* mutant of Linked: the bindings go the wrong way *)
LinkedBackwards(binds, h, rest) == binds \cup (rest \X {h})

(* The bindings after try_chain made "completed" of rest follow that of h. *)
Linked(binds, h, rest) == binds \cup ({h} \X rest)

-----------------------------------------------------------------------------
(* Working on an operation. *)

(* mutant of FlushesAfter: the next task is not looked for *)
NoFlushAfter(pending) == pending

FlushesAfter(pending) == IF ready THEN pending + 1 ELSE pending

(* task_notify_completed, after the answer was delivered to the client. *)
TaskCompleted(t, answer, fail, pending) ==
  /\ state' = [state EXCEPT ![t] = answer]
  /\ toClean' = [toClean EXCEPT ![t] = {}]
  /\ present' = [present EXCEPT ![t] = {}]
  /\ busy' = FALSE /\ failed' = fail /\ requested' = 0
  /\ current' = None /\ activity' = "idle"
  /\ LET kept == connected \ Released
         left == IF ready THEN kept ELSE kept \ Tracked
     IN  connected' = left /\ retired' = retired \cup (connected \ left)
  /\ addins' = (addins /\ ready)
  /\ flushes' = FlushesAfter(pending)
  /\ lapsed' = (lapsed \/ ~ready)
  /\ asked' = [u \in Tasks |-> 0]

(* mutant of TaskContinues: the busy bit is not set *)
ContinuesUnprotected(t, waitsFor, pending) ==
  /\ state' = [state EXCEPT ![t] = "running"]
  /\ busy' = FALSE /\ failed' = FALSE
  /\ activity' = waitsFor
  /\ flushes' = pending
  /\ UNCHANGED <<arrayVars, asked, present, lapsed>>

(* The operation goes on: it now waits for another callback. *)
TaskContinues(t, waitsFor, pending) ==
  /\ state' = [state EXCEPT ![t] = "running"]
  /\ busy' = TRUE /\ failed' = FALSE
  /\ activity' = waitsFor
  /\ flushes' = pending
  /\ UNCHANGED <<arrayVars, asked, present, lapsed>>

(* What the handlers of a query make of "completed". *)
AfterQuery(q, h, comp, binds) ==
  CASE q = "done"  -> SetCompleted(comp, binds, {h}, TRUE)
    [] q = "stale" -> SetCompleted(comp, binds, {h}, FALSE)
    [] OTHER       -> comp

(* Unless it was paused, the stage answers at once when it is complete. *)
WaitsFor(q, done) ==
  CASE q = "pause" -> "paused" [] q # "pause" /\ done -> "answered" [] OTHER -> "executing"

(* _ide_build_stage_execute_with_query_async, after try_chain. *)
StartStage(t, h, rest, comp, binds, pending) ==
  /\ current' = h
  /\ chained' = rest
  /\ position' = PositionAfter(h, rest)
  /\ bindings' = Linked(binds, h, rest)
  /\ stale' = stale \ ({h} \cup rest)
  /\ \E q \in IF HasQuery(h) THEN Query[h] ELSE {"keep"} :
       /\ completed' = AfterQuery(q, h, comp, Linked(binds, h, rest))
       /\ TaskContinues(t, WaitsFor(q, completed'[h]), pending)

WalkEnds(t, answer, comp, binds, pos, pending) ==
  /\ TaskCompleted(t, answer, FALSE, pending)
  /\ completed' = comp /\ bindings' = binds /\ position' = pos
  /\ chained' = {} /\ UNCHANGED stale

(* tick_execute, in a callback that has already come to the given values. *)
TickExecute(t, comp, binds, pos, pending) ==
  LET goal == Later(requested, phase[t])
      todo == Remaining(goal, pos)
      next == First(todo)
  IN  \/ /\ t \in cancelled
         /\ WalkEnds(t, "error", comp, binds, pos, pending)
      \/ /\ t \notin cancelled /\ ~NeedsExecution(goal, comp)
         /\ WalkEnds(t, "ok", comp, binds, pos, pending)
      \/ /\ t \notin cancelled /\ NeedsExecution(goal, comp) /\ todo = {}
         /\ WalkEnds(t, "ok", comp, binds, Later(pos + 1, Cardinality(connected)), pending)
      \/ /\ t \notin cancelled /\ NeedsExecution(goal, comp) /\ todo # {}
         /\ StartStage(t, next, ChainedTo(next, todo), comp, binds, pending)
         /\ requested' = goal
         /\ UNCHANGED toClean

(* tick_clean; the default clean of a stage resets "completed" right away,  *)
(* that of a launcher stage runs its clean command and leaves it alone.     *)
TickClean(t, left, pending) ==
  \/ /\ left = {}
     /\ TaskCompleted(t, IF t \in cancelled THEN "error" ELSE "ok", FALSE, pending)
     /\ UNCHANGED completed
  \/ /\ left # {}
     /\ LET s == Last(left)
        IN  /\ current' = s
            /\ completed' = IF s \in Launchers THEN completed
                            ELSE SetCompleted(completed, bindings, {s}, FALSE)
     /\ toClean' = [toClean EXCEPT ![t] = left]
     /\ TaskContinues(t, "cleaning", pending)
     /\ UNCHANGED requested

(* tick_rebuild: every entry is reset, then the reaper removes files. *)
TickRebuild(t, pending) ==
  /\ completed' = SetCompleted(completed, bindings, connected, FALSE)
  /\ TaskContinues(t, "reaping", pending)
  /\ UNCHANGED <<requested, current, toClean>>

(* stage_execute_cb for the current stage, with the answer of the stage. *)
StageExecuted(t, comp, ok) ==
  LET done  == {current} \cup chained
      after == SetCompleted(comp, bindings, {current}, ok)
      binds == IF unbinds THEN bindings \ ({current} \X chained) ELSE bindings
  IN  /\ unbinds' = FALSE
      /\ \/ /\ ok
            /\ ran' = [s \in Stages |-> IF s \in done THEN "now" ELSE ran[s]]
            /\ TickExecute(t, after, binds, position, flushes)
         \/ /\ ~ok
            /\ TaskCompleted(t, "error", TRUE, flushes)
            /\ completed' = after /\ bindings' = binds /\ chained' = {}
            /\ UNCHANGED <<position, ran, stale>>

Running(t) == state[t] = "running"

-----------------------------------------------------------------------------
(* What clients and plugins do. *)

(* mutant of RequestPhase: the mask is added, not or'ed *)
RequestPhaseAdds(t, p) ==
  /\ state[t] = "new" /\ Kind[t] = "build"
  /\ requested' = requested + p
  /\ asked' = [asked EXCEPT ![t] = Later(@, p)]
  /\ UNCHANGED <<arrayVars, ready, loads, stageVars, busy, failed, position,
                 current, activity, chained, unbinds, queue, flushes, taskVars,
                 ran, stale, present, reshaped, lapsed>>

(* A client asks for a phase, in order to execute the pipeline later: the  *)
(* build manager saves the open files in between.                          *)
RequestPhase(t, p) ==
  /\ state[t] = "new" /\ Kind[t] = "build"
  /\ requested' = Later(requested, p)
  /\ asked' = [asked EXCEPT ![t] = Later(@, p)]
  /\ UNCHANGED <<arrayVars, ready, loads, stageVars, busy, failed, position,
                 current, activity, chained, unbinds, queue, flushes, taskVars,
                 ran, stale, present, reshaped, lapsed>>

(* mutants of Enqueue: at the head of the queue; without queue_flush *)
EnqueueAtHead(t) ==
  /\ queue' = <<t>> \o queue
  /\ state' = [state EXCEPT ![t] = "queued"]
  /\ flushes' = flushes + 1
EnqueueSilently(t) ==
  /\ queue' = Append(queue, t)
  /\ state' = [state EXCEPT ![t] = "queued"]
  /\ UNCHANGED flushes

Enqueue(t) ==
  /\ queue' = Append(queue, t)
  /\ state' = [state EXCEPT ![t] = "queued"]
  /\ flushes' = flushes + 1

AnswerAtOnce(t) ==
  /\ state' = [state EXCEPT ![t] = IF t \in cancelled THEN "error" ELSE "ok"]
  /\ UNCHANGED <<queue, flushes>>

ExecuteAsync(t) ==
  /\ state[t] = "new" /\ Kind[t] = "build"
  /\ IF requested = 0 THEN AnswerAtOnce(t) ELSE Enqueue(t)
  /\ phase' = [phase EXCEPT ![t] = requested]
  /\ UNCHANGED <<arrayVars, ready, loads, stageVars, workVars, toClean,
                 cancelled, ghostVars>>

(* mutant of Affected: the phase itself is left out *)
AffectedLater(p) == {s \in connected : PhaseOf[s] > p}

Affected(p) == {s \in connected : PhaseOf[s] >= p}

(* The entries to clean are fixed here: those of phase p and later. *)
CleanAsync(t, p) ==
  /\ state[t] = "new" /\ Kind[t] = "clean"
  /\ IF Affected(p) = {} THEN AnswerAtOnce(t) ELSE Enqueue(t)
  /\ toClean' = [toClean EXCEPT ![t] = Affected(p)]
  /\ phase' = [phase EXCEPT ![t] = p]
  /\ present' = [present EXCEPT ![t] = connected]
  /\ UNCHANGED <<arrayVars, ready, loads, stageVars, workVars, cancelled,
                 asked, ran, stale, reshaped, lapsed>>

RebuildAsync(t, p) ==
  /\ state[t] = "new" /\ Kind[t] = "rebuild"
  /\ Enqueue(t)
  /\ phase' = [phase EXCEPT ![t] = p]
  /\ UNCHANGED <<arrayVars, ready, loads, stageVars, workVars, toClean,
                 cancelled, ghostVars>>

Cancel(t) ==
  /\ state[t] \in {"new", "queued", "running"}
  /\ t \in Cancellables \ cancelled
  /\ cancelled' = cancelled \cup {t}
  /\ UNCHANGED <<arrayVars, ready, loads, stageVars, workVars, queue, flushes,
                 state, phase, toClean, ghostVars>>

InvalidatePhase(ps) ==
  /\ LET hit == {s \in connected : PhaseOf[s] \in ps}
     IN  /\ completed' = SetCompleted(completed, bindings, hit, FALSE)
         /\ stale' = stale \cup hit
  /\ UNCHANGED <<arrayVars, ready, loads, bindings, workVars, queue, flushes,
                 taskVars, asked, ran, present, reshaped, lapsed>>

(* Entries are inserted or removed; position is not adjusted. *)
Reshape(now) ==
  /\ connected' = now
  /\ retired' = retired \cup (connected \ now)
  /\ reshaped' = (reshaped \/ (busy /\ now # connected))
  /\ UNCHANGED <<stageVars, workVars, queue, flushes, taskVars, asked, ran,
                 stale, present, lapsed>>

Connect(s) ==
  /\ Batch[s] = 0 /\ s \notin connected \cup retired
  /\ Reshape(connected \cup {s})
  /\ UNCHANGED <<ready, loads, addins>>

Disconnect(s) ==
  /\ s \in connected \cap Removable
  /\ Reshape(connected \ {s})
  /\ UNCHANGED <<ready, loads, addins>>

(* notify_ready when the configuration has become ready: load. *)
Load ==
  /\ ~ready /\ loads < MaxLoads
  /\ ready' = TRUE /\ addins' = TRUE
  /\ loads' = loads + 1
  /\ Reshape(connected \cup {s \in Stages : Batch[s] = loads + 1})

(* notify_ready when it no longer is: unload, even if busy. *)
Unload ==
  /\ ready
  /\ ready' = FALSE /\ addins' = FALSE
  /\ UNCHANGED loads
  /\ Reshape(connected \ Tracked)

-----------------------------------------------------------------------------
(* The callbacks of the main loop. *)

(* do_flush when there is nothing to start. *)
FlushNothing ==
  /\ flushes > 0
  /\ busy \/ queue = <<>>
  /\ flushes' = flushes - 1
  /\ UNCHANGED <<arrayVars, ready, loads, stageVars, workVars, queue, taskVars,
                 ghostVars>>

(* mutant of FlushFails: only the first task leaves the queue *)
FlushFailsKeepsQueue ==
  /\ flushes > 0
  /\ ~busy /\ queue # <<>>
  /\ flushes' = flushes - 1
  /\ queue' = Tail(queue)
  /\ state' = [t \in Tasks |-> IF state[t] = "queued" THEN "error" ELSE state[t]]
  /\ toClean' = [t \in Tasks |-> IF state[t] = "queued" THEN {} ELSE toClean[t]]
  /\ present' = [t \in Tasks |-> IF state[t] = "queued" THEN {} ELSE present[t]]
  /\ UNCHANGED <<arrayVars, ready, loads, stageVars, workVars, phase, cancelled,
                 asked, ran, stale, reshaped, lapsed>>

(* do_flush when the build directory cannot be made. *)
FlushFails ==
  /\ flushes > 0
  /\ ~busy /\ queue # <<>>
  /\ flushes' = flushes - 1
  /\ queue' = <<>>
  /\ state' = [t \in Tasks |-> IF state[t] = "queued" THEN "error" ELSE state[t]]
  /\ toClean' = [t \in Tasks |-> IF state[t] = "queued" THEN {} ELSE toClean[t]]
  /\ present' = [t \in Tasks |-> IF state[t] = "queued" THEN {} ELSE present[t]]
  /\ UNCHANGED <<arrayVars, ready, loads, stageVars, workVars, phase, cancelled,
                 asked, ran, stale, reshaped, lapsed>>

(* do_flush when it takes up the next task. *)
FlushStarts ==
  /\ flushes > 0
  /\ ~busy /\ queue # <<>>
  /\ queue' = Tail(queue)
  /\ ran' = [s \in Stages |-> IF ran[s] = "now" THEN "earlier" ELSE ran[s]]
  /\ reshaped' = FALSE
  /\ LET t == Head(queue)
     IN  \/ /\ Kind[t] = "build"
            /\ TickExecute(t, completed, bindings, -1, flushes - 1)
         \/ /\ Kind[t] = "clean"
            /\ TickClean(t, toClean[t], flushes - 1)
            /\ position' = -1
            /\ UNCHANGED <<bindings, chained, stale>>
         \/ /\ Kind[t] = "rebuild"
            /\ TickRebuild(t, flushes - 1)
            /\ position' = -1
            /\ UNCHANGED <<bindings, chained, stale>>
  /\ UNCHANGED <<ready, loads, unbinds, phase, cancelled>>

(* The handler that paused the stage is done, and unpauses it. *)
Unpause(t) ==
  /\ Running(t) /\ activity = "paused"
  /\ \E comp \in {completed} \cup {SetCompleted(completed, bindings, {current}, v) : v \in BOOLEAN} :
       \/ /\ comp[current]
          /\ StageExecuted(t, comp, t \notin cancelled)
       \/ /\ ~comp[current]
          /\ completed' = comp
          /\ TaskContinues(t, "executing", flushes)
          /\ UNCHANGED <<bindings, position, requested, current, chained, unbinds,
                         toClean, ran, stale>>
  /\ UNCHANGED <<ready, loads, queue, phase, cancelled, reshaped>>

(* The stage has answered; its GTask turns a cancellation into an error. *)
StageReturns(t) ==
  /\ Running(t)
  /\ \/ /\ activity = "executing"
        /\ \E ok \in BOOLEAN : (ok => t \notin cancelled) /\ StageExecuted(t, completed, ok)
     \/ activity = "answered" /\ StageExecuted(t, completed, t \notin cancelled)
  /\ UNCHANGED <<ready, loads, queue, phase, cancelled, reshaped>>

(* mutant of CleanReturns: the stage that succeeded decides, whatever was cancelled *)
CleanReturnsAnyway(t) ==
  /\ Running(t) /\ activity = "cleaning"
  /\ \/ /\ current \in Launchers
        /\ TaskCompleted(t, "error", FALSE, flushes)
        /\ UNCHANGED completed
     \/ TickClean(t, toClean[t] \ {current}, flushes)
  /\ UNCHANGED <<ready, loads, bindings, position, chained, unbinds, queue, phase,
                 cancelled, ran, stale, reshaped>>

(* clean_cb *)
CleanReturns(t) ==
  /\ Running(t) /\ activity = "cleaning"
  /\ \/ /\ t \in cancelled \/ current \in Launchers
        /\ TaskCompleted(t, "error", FALSE, flushes)
        /\ UNCHANGED completed
     \/ /\ t \notin cancelled
        /\ TickClean(t, toClean[t] \ {current}, flushes)
  /\ UNCHANGED <<ready, loads, bindings, position, chained, unbinds, queue, phase,
                 cancelled, ran, stale, reshaped>>

(* mutant of ReapReturns: a rebuild of no phase goes on building *)
ReapReturnsAndBuilds(t) ==
  /\ Running(t) /\ activity = "reaping"
  /\ \/ /\ TaskCompleted(t, "error", FALSE, flushes)
        /\ UNCHANGED <<stageVars, position, chained, stale>>
     \/ TickExecute(t, completed, bindings, position, flushes)
  /\ UNCHANGED <<ready, loads, unbinds, queue, phase, cancelled, ran, reshaped>>

(* reaper_cb *)
ReapReturns(t) ==
  /\ Running(t) /\ activity = "reaping"
  /\ \/ /\ TaskCompleted(t, "error", FALSE, flushes)
        /\ UNCHANGED <<stageVars, position, chained, stale>>
     \/ /\ phase[t] = 0
        /\ TaskCompleted(t, IF t \in cancelled THEN "error" ELSE "ok", FALSE, flushes)
        /\ UNCHANGED <<stageVars, position, chained, stale>>
     \/ /\ phase[t] # 0
        /\ TickExecute(t, completed, bindings, position, flushes)
  /\ UNCHANGED <<ready, loads, unbinds, queue, phase, cancelled, ran, reshaped>>

-----------------------------------------------------------------------------

Init ==
  /\ ready \in BOOLEAN
  /\ addins = ready
  /\ loads = IF ready THEN 1 ELSE 0
  /\ loads <= MaxLoads
  /\ connected = {s \in Stages : Batch[s] # 0 /\ Batch[s] = loads}
  /\ retired = {}
  /\ completed = [s \in Stages |-> FALSE]
  /\ bindings = {}
  /\ busy = FALSE /\ failed = FALSE /\ position = -1 /\ requested = 0
  /\ current = None /\ activity = "idle"
  /\ chained = {} /\ unbinds = TRUE
  /\ queue = <<>> /\ flushes = 0
  /\ state = [t \in Tasks |-> "new"]
  /\ phase = [t \in Tasks |-> 0]
  /\ toClean = [t \in Tasks |-> {}]
  /\ cancelled = {}
  /\ asked = [t \in Tasks |-> 0]
  /\ ran = [s \in Stages |-> "never"]
  /\ stale = {}
  /\ present = [t \in Tasks |-> {}]
  /\ reshaped = FALSE /\ lapsed = FALSE

DoFlush == FlushNothing \/ FlushFails \/ FlushStarts

Callback(t) == Unpause(t) \/ StageReturns(t) \/ CleanReturns(t) \/ ReapReturns(t)

Next ==
  \/ \E t \in Tasks :
       \/ \E p \in 1..NPhases : RequestPhase(t, p) \/ CleanAsync(t, p)
       \/ \E p \in 0..NPhases : RebuildAsync(t, p)
       \/ ExecuteAsync(t)
       \/ Cancel(t)
       \/ Callback(t)
  \/ \E ps \in Invalidations : InvalidatePhase(ps)
  \/ \E s \in Stages : Connect(s) \/ Disconnect(s)
  \/ Load \/ Unload
  \/ DoFlush

Spec == Init /\ [][Next]_vars

(* The main loop runs what is pending; stages and reapers come to an end. *)
Fairness == WF_vars(DoFlush) /\ \A t \in Tasks : WF_vars(Callback(t))

FairSpec == Spec /\ Fairness
-----------------------------------------------------------------------------
(* Properties. *)

(* Every variable has the values its declaration in the source allows. *)
TypeOK ==
  /\ connected \subseteq Stages /\ retired \subseteq Stages
  /\ ready \in BOOLEAN /\ addins \in BOOLEAN /\ loads \in 0..MaxLoads
  /\ completed \in [Stages -> BOOLEAN]
  /\ bindings \subseteq Stages \X Stages
  /\ busy \in BOOLEAN /\ failed \in BOOLEAN
  /\ position \in Int /\ requested \in 0..NPhases
  /\ current \in Stages \cup {None} /\ activity \in Activities
  /\ chained \subseteq Stages /\ unbinds \in BOOLEAN
  /\ queue \in Seq(Tasks) /\ flushes \in Nat
  /\ state \in [Tasks -> {"new", "queued", "running", "ok", "error"}]
  /\ phase \in [Tasks -> 0..NPhases]
  /\ toClean \in [Tasks -> SUBSET Stages]
  /\ cancelled \subseteq Tasks
  /\ asked \in [Tasks -> 0..NPhases]
  /\ ran \in [Stages -> {"never", "earlier", "now"}]
  /\ present \in [Tasks -> SUBSET Stages]
  /\ stale \subseteq Stages /\ reshaped \in BOOLEAN /\ lapsed \in BOOLEAN

(* The busy bit protects the pipeline: it is set exactly while one task has *)
(* been taken from the queue and not been answered, and only then is some   *)
(* callback of a stage or of the reaper outstanding.                        *)
SingleFlight ==
  /\ \A t, u \in Tasks : Running(t) /\ Running(u) => t = u
  /\ busy <=> \E t \in Tasks : Running(t)
  /\ busy <=> activity # "idle"

(* A callback finds the task it expects (the assertions on td->type in      *)
(* tick_execute, clean_cb and reaper_cb): stages execute for a build or a   *)
(* rebuild that has a phase, and the stage that answers a clean is the last *)
(* one on the task's list.                                                  *)
CallbackFindsItsTask ==
  \A t \in Tasks : Running(t) =>
    /\ activity \in {"paused", "executing", "answered"} =>
         Kind[t] \in {"build", "rebuild"} /\ phase[t] # 0 /\ current # None
    /\ activity = "cleaning" =>
         Kind[t] = "clean" /\ toClean[t] # {} /\ current = Last(toClean[t])
    /\ activity = "reaping" => Kind[t] = "rebuild"

(* The queue holds the accepted tasks that have not started, each once. *)
QueueHoldsWaiting ==
  /\ \A i, j \in 1..Len(queue) : queue[i] = queue[j] => i = j
  /\ \A t \in Tasks : state[t] = "queued" <=> \E i \in 1..Len(queue) : queue[i] = t

(* A task that waits while nothing is worked on has a timeout pending that  *)
(* will start it, unless a task was answered while the configuration was    *)
(* not ready (nothing flushes the queue when it becomes ready again).       *)
NoLostWakeup ==
  queue # <<>> /\ ~busy /\ ~lapsed => flushes > 0

(* The phase a client requested is still requested when it starts its task, *)
(* whatever other clients requested meanwhile, unless a task was answered in *)
(* between (which clears the mask).                                         *)
RequestsAccumulate ==
  \A t \in Tasks : state[t] = "new" => asked[t] <= requested

(* While a stage executes in a pipeline that was not reshaped, position is *)
(* the index of the last stage chained to it, and all stages up to the     *)
(* current one that had to run have run.                                   *)
PositionMatchesCurrent ==
  activity \in {"paused", "executing", "answered"} /\ ~reshaped =>
    /\ {current} \cup chained \subseteq connected
    /\ position = IndexOf(Last({current} \cup chained))
    /\ PhaseOf[current] <= requested
    /\ \A s \in connected \ Disabled : Before(s, current) => ran[s] = "now"

(* No stage runs twice in one execution, nor after a later one, alone or   *)
(* chained to another, unless the pipeline was reshaped meanwhile.         *)
StagesRunInOrder ==
  activity \in {"paused", "executing", "answered"} /\ ~reshaped =>
    \A s \in {current} \cup chained, x \in Stages : ran[x] = "now" => Before(x, s)

Answered(t) == state[t] \in {"queued", "running"} /\ state'[t] \in {"ok", "error"}

(* When a build or rebuild succeeds, every enabled stage up to its phase has *)
(* run in this execution, or was complete and has no query to ask; and it is *)
(* complete unless it, or a stage it is bound to, was invalidated meanwhile. *)
(* (A pipeline that was reshaped is the subject of SuccessMeansAllRan.)      *)
BuildReachesPhase ==
  [][\A t \in Tasks :
       Answered(t) /\ state'[t] = "ok" /\ Kind[t] # "clean" /\ ~reshaped' =>
         \A s \in connected \ Disabled : PhaseOf[s] <= phase[t] =>
           \/ /\ ran'[s] = "now"
              /\ completed'[s] \/ s \in Bound(bindings, stale, Stages)
           \/ completed'[s] /\ ~HasQuery(s)]_vars

(* After a clean has succeeded, the plain stages of its phase and of later   *)
(* ones that were connected when it was requested will run again: none is    *)
(* complete, whatever ran between the request, when the list of stages was   *)
(* made, and its turn, and whatever was connected or removed meanwhile.      *)
(* (Launcher stages are the subject of CleanResetsEveryStage.)               *)
CleanedMustRunAgain ==
  [][\A t \in Tasks :
       Answered(t) /\ state'[t] = "ok" /\ Kind[t] = "clean" =>
         \A s \in present[t] \ Launchers : PhaseOf[s] >= phase[t] => ~completed'[s]]_vars

(* Whenever a cancellation comes, while the task waits, while a stage works   *)
(* or is paused, or while the reaper does: the answer is an error although    *)
(* the stage succeeds, and the task goes on to no further stage.              *)
CancelledTasksStop ==
  [][\A t \in Tasks \cap cancelled : state[t] \in {"queued", "running"} =>
       /\ state'[t] # "ok"
       /\ Running(t) /\ state'[t] = "running" => current' = current]_vars

(* The operations of a pipeline are a queue of jobs, worked on one by one. *)
JobQueue == INSTANCE JobQueue WITH
  Jobs <- Tasks, waiting <- queue, serving <- {t \in Tasks : Running(t)}

IsJobQueue == JobQueue!Spec

(* Every accepted task is answered in the end, if the configuration stays *)
(* ready.                                                                  *)
TasksAreAnswered ==
  []ready => \A t \in Tasks : state[t] = "queued" ~> state[t] \in {"ok", "error"}

-----------------------------------------------------------------------------
(* What the documentation says and the code does not do. *)

(* "Transient stages ... will be removed after the execute_async() operation *)
(* has completed successfully or has failed": these and no others.           *)
TransientsAreReleased ==
  [][busy /\ ~busy' => connected' = connected \ Transient]_vars

(* "Any phase that has been invalidated up to the requested phase will be  *)
(* executed until a stage has failed": when a build succeeds every enabled *)
(* stage up to its phase that is still there is complete, or was           *)
(* invalidated once more.                                                  *)
SuccessMeansAllRan ==
  [][\A t \in Tasks :
       Answered(t) /\ state'[t] = "ok" /\ Kind[t] # "clean" =>
         \A s \in connected \ Disabled :
           PhaseOf[s] <= phase[t] => completed'[s] \/ s \in stale]_vars

(* "Afterwards, we ensure their IdeBuildStage:completed bit is cleared so *)
(* they will run as part of the next build operation."                    *)
CleanResetsEveryStage ==
  [][\A t \in Tasks :
       Running(t) /\ state'[t] = "ok" /\ Kind[t] = "clean" =>
         \A s \in connected : PhaseOf[s] >= phase[t] => ~completed'[s]]_vars

=============================================================================
