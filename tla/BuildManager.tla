---------------------------- MODULE BuildManager ----------------------------
(***************************************************************************)
(* IdeBuildManager: owns the pipeline of the current configuration and     *)
(* makes a new one whenever the configuration manager says "invalidate".   *)
(* Clients execute, clean and rebuild through it.                          *)
(*                                                                         *)
(* Each pipeline is only seen through what JobQueue promises; that is what *)
(* BuildPipeline implements, and PipelinesAreJobQueues checks that this    *)
(* module asks no more of it.  A superseded pipeline lives on as long as   *)
(* it has tasks, next to the current one.                                  *)
(***************************************************************************)
EXTENDS Naturals, Sequences

CONSTANTS
  Tasks,        \* the operations clients start, each with its own GCancellable
  Kind,         \* "build": a phase for which the files are saved first,
                \* "configure": an earlier phase, "clean" or "rebuild"
  MaxPipelines, \* bound: how many pipelines are made
  None          \* no cancellable

Pipelines == 1..MaxPipelines

ASSUME ManagerAssumption ==
  /\ Kind \in [Tasks -> {"build", "configure", "clean", "rebuild"}]
  /\ MaxPipelines \in Nat \ {0}
  /\ None \notin Tasks \cup Pipelines
  /\ Tasks \cap Nat = {}

VARIABLES
  (* of the manager *)
  pipeline,     \* self->pipeline: the current one, 0 for NULL
  canBuild,     \* self->can_build
  building,     \* self->building
  timer,        \* self->timer_source is set
  cancellable,  \* self->cancellable: that of a task, or of the setup of a pipeline
  (* of the pipelines, in the order in which they were made *)
  created,      \* how many there are
  setup,        \* "none", "ensuring" its runtime, "ready" or "failed"
  waiting,      \* the task_queue of each
  requested,    \* whether requested_mask is set
  (* of the tasks *)
  state,        \* "saving": the files are saved; "dropped": it never returns
  home,         \* the pipeline that was given the task, 0 before
  cancelled,    \* the cancellables that were cancelled
  (* what the properties remember *)
  announced,    \* the pipeline of the last BUILD_STARTED that was not followed
                \* by BUILD_FINISHED or BUILD_FAILED
  mismatched,   \* these signals came in another order, or for other pipelines
  worked        \* the tasks some pipeline took up, or said it need not

managerVars  == <<pipeline, canBuild, building, timer, cancellable>>
pipelineVars == <<created, setup, waiting, requested>>
taskVars     == <<state, home, cancelled>>
signalVars   == <<announced, mismatched>>
vars == <<managerVars, pipelineVars, taskVars, signalVars, worked>>

Running(g, t) == home[t] = g /\ state[t] = "running"

Busy(g) == \E t \in Tasks : Running(g, t)

-----------------------------------------------------------------------------
(* The signals of the current pipeline, the only one the manager listens to. *)

HearStarted(g) ==
  /\ building' = (building \/ g = pipeline)
  /\ timer' = (timer \/ g = pipeline)
  /\ announced' = IF g = pipeline THEN g ELSE announced
  /\ mismatched' = (mismatched \/ (g = pipeline /\ announced # 0))

(* mutant of HearFinished: the timer is left running *)
HearFinishedTicking(g) ==
  /\ building' = (building /\ g # pipeline)
  /\ UNCHANGED timer
  /\ announced' = IF g = pipeline THEN 0 ELSE announced
  /\ mismatched' = (mismatched \/ (g = pipeline /\ announced # g))

HearFinished(g) ==
  /\ building' = (building /\ g # pipeline)
  /\ timer' = (timer /\ g # pipeline)
  /\ announced' = IF g = pipeline THEN 0 ELSE announced
  /\ mismatched' = (mismatched \/ (g = pipeline /\ announced # g))

(* The operation was started and finished in one callback. *)
HearBoth(g) ==
  /\ building' = (building /\ g # pipeline)
  /\ timer' = (timer /\ g # pipeline)
  /\ announced' = IF g = pipeline THEN 0 ELSE announced
  /\ mismatched' = (mismatched \/ (g = pipeline /\ announced # 0))

-----------------------------------------------------------------------------
(* A pipeline, as the manager knows it. *)

Queue(g, t) ==
  /\ waiting' = [waiting EXCEPT ![g] = Append(@, t)]
  /\ state' = [state EXCEPT ![t] = "queued"]
  /\ home' = [home EXCEPT ![t] = g]

Verdicts(t) == IF t \in cancelled THEN {"error"} ELSE {"ok", "error"}

(* ide_build_pipeline_execute_async: without a requested phase there is *)
(* nothing to execute, and the task is answered.                        *)
ExecuteOn(g, t) ==
  IF requested[g]
  THEN Queue(g, t)
  ELSE /\ state' = [state EXCEPT ![t] = IF t \in cancelled THEN "error" ELSE "ok"]
       /\ home' = [home EXCEPT ![t] = g]
       /\ UNCHANGED waiting

(* mutant of FlushStarts: the busy bit is not looked at *)
FlushStartsBusy(g) ==
  /\ waiting[g] # <<>>
  /\ waiting' = [waiting EXCEPT ![g] = Tail(@)]
  /\ worked' = worked \cup {Head(waiting[g])}
  /\ state' = [state EXCEPT ![Head(waiting[g])] = "running"]
  /\ HearStarted(g)
  /\ UNCHANGED <<pipeline, canBuild, cancellable, created, setup, requested, home, cancelled>>

(* do_flush takes up a task: stages have to run, or there is nothing to do. *)
FlushStarts(g) ==
  /\ ~Busy(g) /\ waiting[g] # <<>>
  /\ waiting' = [waiting EXCEPT ![g] = Tail(@)]
  /\ LET t == Head(waiting[g])
     IN  /\ worked' = worked \cup {t}
         /\ \/ /\ state' = [state EXCEPT ![t] = "running"]
               /\ requested' = [requested EXCEPT ![g] = @ \/ Kind[t] \in {"build", "configure"}]
               /\ HearStarted(g)
            \/ /\ \E v \in Verdicts(t) : state' = [state EXCEPT ![t] = v]
               /\ requested' = [requested EXCEPT ![g] = FALSE]
               /\ HearBoth(g)
  /\ UNCHANGED <<pipeline, canBuild, cancellable, created, setup, home, cancelled>>

(* mutant of FlushFails: the tasks leave the queue without an answer *)
FlushFailsForgets(g) ==
  /\ ~Busy(g) /\ waiting[g] # <<>>
  /\ waiting' = [waiting EXCEPT ![g] = <<>>]
  /\ UNCHANGED <<managerVars, created, setup, requested, taskVars, signalVars, worked>>

(* do_flush cannot make the build directory. *)
FlushFails(g) ==
  /\ ~Busy(g) /\ waiting[g] # <<>>
  /\ waiting' = [waiting EXCEPT ![g] = <<>>]
  /\ state' = [t \in Tasks |->
                 IF home[t] = g /\ state[t] = "queued" THEN "error" ELSE state[t]]
  /\ UNCHANGED <<managerVars, created, setup, requested, home, cancelled, signalVars, worked>>

(* The stages of a rebuild are executed, once its files are removed. *)
RebuildBuilds(g, t) ==
  /\ Running(g, t) /\ Kind[t] = "rebuild" /\ ~requested[g]
  /\ requested' = [requested EXCEPT ![g] = TRUE]
  /\ UNCHANGED <<managerVars, created, setup, waiting, taskVars, signalVars, worked>>

(* task_notify_completed, after the task was answered. *)
Completes(g, t) ==
  /\ Running(g, t)
  /\ \E v \in Verdicts(t) : state' = [state EXCEPT ![t] = v]
  /\ requested' = [requested EXCEPT ![g] = FALSE]
  /\ HearFinished(g)
  /\ UNCHANGED <<pipeline, canBuild, cancellable, created, setup, waiting, home, cancelled, worked>>

-----------------------------------------------------------------------------
(* The manager. *)

(* mutant of Prepared: the setup of the pipeline is not waited for *)
PreparedOrNot == pipeline # 0

Prepared == pipeline # 0 /\ canBuild

(* execute_async, when the pipeline is not prepared or knows that no stage *)
(* needs to be executed.                                                   *)
ExecuteReturns(t) ==
  /\ state[t] = "new" /\ Kind[t] \in {"build", "configure"}
  /\ \/ ~Prepared /\ state' = [state EXCEPT ![t] = "error"] /\ UNCHANGED <<requested, worked>>
     \/ /\ Prepared
        /\ requested' = [requested EXCEPT ![pipeline] = TRUE]
        /\ state' = [state EXCEPT ![t] = "ok"]
        /\ worked' = worked \cup {t}
  /\ UNCHANGED <<managerVars, created, setup, waiting, home, cancelled, signalVars>>

(* execute_async otherwise; a real build first saves the open files. *)
Execute(t) ==
  /\ state[t] = "new" /\ Prepared
  /\ requested' = [requested EXCEPT ![pipeline] = TRUE]
  /\ cancellable' = t
  /\ \/ /\ Kind[t] = "build"
        /\ state' = [state EXCEPT ![t] = "saving"]
        /\ UNCHANGED <<waiting, home>>
     \/ Kind[t] = "configure" /\ Queue(pipeline, t)
  /\ UNCHANGED <<pipeline, canBuild, building, timer, created, setup, cancelled, signalVars, worked>>

(* save_all_cb: the pipeline may have been replaced, or be gone, since. *)
Saved(t) ==
  /\ state[t] = "saving"
  /\ \/ /\ t \in cancelled
        /\ state' = [state EXCEPT ![t] = "error"]
        /\ UNCHANGED <<waiting, home>>
     \/ /\ t \notin cancelled /\ pipeline = 0
        /\ state' = [state EXCEPT ![t] = "dropped"]
        /\ UNCHANGED <<waiting, home>>
     \/ t \notin cancelled /\ pipeline # 0 /\ ExecuteOn(pipeline, t)
  /\ UNCHANGED <<managerVars, created, setup, requested, cancelled, signalVars, worked>>

(* The "clean" and "rebuild" actions, which are enabled only when there is a *)
(* prepared pipeline that is not busy; cleaning may find no stage to clean.  *)
CleanOrRebuild(t) ==
  /\ state[t] = "new" /\ Kind[t] \in {"clean", "rebuild"}
  /\ Prepared /\ ~Busy(pipeline)
  /\ cancellable' = t
  /\ \/ Queue(pipeline, t) /\ UNCHANGED worked
     \/ /\ Kind[t] = "clean"
        /\ state' = [state EXCEPT ![t] = "ok"]
        /\ worked' = worked \cup {t}
        /\ UNCHANGED <<waiting, home>>
  /\ UNCHANGED <<pipeline, canBuild, building, timer, created, setup, requested, cancelled, signalVars>>

(* mutant of Cancelled: there is no test for NULL *)
CancelledBlindly == cancelled \cup {cancellable}

Cancelled == cancelled \cup ({cancellable} \ {None})

(* The "cancel" action, which is enabled while the pipeline is busy. *)
Cancel ==
  /\ pipeline # 0 /\ Busy(pipeline)
  /\ cancelled' = Cancelled
  /\ cancellable' = None
  /\ UNCHANGED <<pipeline, canBuild, building, timer, pipelineVars, state, home, signalVars, worked>>

(* mutants of SynthesizeFailure: nothing is emitted; building stays set *)
FailSilently ==
  /\ building' = FALSE /\ timer' = FALSE
  /\ UNCHANGED signalVars
FailAndBuild ==
  /\ timer' = FALSE
  /\ announced' = IF building THEN 0 ELSE announced
  /\ mismatched' = (mismatched \/ (building /\ announced # pipeline))
  /\ UNCHANGED building

(* The observers are told that the build in flight, if there is one, failed. *)
SynthesizeFailure ==
  /\ building' = FALSE
  /\ timer' = (timer /\ ~building)
  /\ announced' = IF building THEN 0 ELSE announced
  /\ mismatched' = (mismatched \/ (building /\ announced # pipeline))

(* invalidate_pipeline *)
InvalidatePipeline ==
  /\ created < MaxPipelines
  /\ SynthesizeFailure
  /\ cancelled' = Cancelled
  /\ canBuild' = FALSE
  /\ pipeline' = created + 1 /\ created' = created + 1
  /\ setup' = [setup EXCEPT ![created + 1] = "ensuring"]
  /\ cancellable' = created + 1
  /\ UNCHANGED <<waiting, requested, state, home, worked>>

(* ensure_runtime_cb *)
RuntimeEnsured(g) ==
  /\ setup[g] = "ensuring"
  /\ \/ /\ g = pipeline
        /\ setup' = [setup EXCEPT ![g] = "ready"]
        /\ canBuild' = TRUE
        /\ UNCHANGED pipeline
     \/ /\ setup' = [setup EXCEPT ![g] = "failed"]
        /\ pipeline' = IF g = pipeline THEN 0 ELSE pipeline
        /\ UNCHANGED canBuild
  /\ UNCHANGED <<building, timer, cancellable, created, waiting, requested, taskVars,
                 signalVars, worked>>

-----------------------------------------------------------------------------

(* initable_init makes the first pipeline. *)
Init ==
  /\ pipeline = 1 /\ created = 1 /\ cancellable = 1
  /\ canBuild = FALSE /\ building = FALSE /\ timer = FALSE
  /\ setup = [g \in Pipelines |-> IF g = 1 THEN "ensuring" ELSE "none"]
  /\ waiting = [g \in Pipelines |-> <<>>]
  /\ requested = [g \in Pipelines |-> FALSE]
  /\ state = [t \in Tasks |-> "new"]
  /\ home = [t \in Tasks |-> 0]
  /\ cancelled = {}
  /\ announced = 0 /\ mismatched = FALSE
  /\ worked = {}

PipelineStep(g) ==
  FlushStarts(g) \/ FlushFails(g) \/ \E t \in Tasks : Completes(g, t)

Next ==
  \/ \E t \in Tasks : ExecuteReturns(t) \/ Execute(t) \/ Saved(t) \/ CleanOrRebuild(t)
  \/ \E g \in Pipelines : PipelineStep(g) \/ RuntimeEnsured(g)
  \/ \E g \in Pipelines, t \in Tasks : RebuildBuilds(g, t)
  \/ Cancel
  \/ InvalidatePipeline

Spec == Init /\ [][Next]_vars

(* The pipelines work off their queues, and the files are saved in the end. *)
Fairness ==
  /\ \A g \in Pipelines : WF_vars(PipelineStep(g))
  /\ \A t \in Tasks : WF_vars(Saved(t))

FairSpec == Spec /\ Fairness
-----------------------------------------------------------------------------
(* Properties. *)

TypeOK ==
  /\ pipeline \in 0..MaxPipelines /\ created \in Pipelines
  /\ canBuild \in BOOLEAN /\ building \in BOOLEAN /\ timer \in BOOLEAN
  /\ cancellable \in Tasks \cup Pipelines \cup {None}
  /\ setup \in [Pipelines -> {"none", "ensuring", "ready", "failed"}]
  /\ waiting \in [Pipelines -> Seq(Tasks)]
  /\ requested \in [Pipelines -> BOOLEAN]
  /\ state \in [Tasks -> {"new", "saving", "queued", "running", "ok", "error", "dropped"}]
  /\ home \in [Tasks -> 0..MaxPipelines]
  /\ cancelled \subseteq Tasks \cup Pipelines
  /\ announced \in 0..MaxPipelines /\ mismatched \in BOOLEAN
  /\ worked \subseteq Tasks

(* What the manager knows of a build agrees with its pipeline, whatever was *)
(* replaced meanwhile (the assertion in invalidate_pipeline that a manager  *)
(* which is building has a pipeline).                                       *)
BuildingMatchesPipeline == building <=> pipeline # 0 /\ Busy(pipeline)

(* The timer runs while the manager is building (the assertion in          *)
(* start_timer that it is not started twice).                              *)
TimerRunsWhileBuilding == timer <=> building

(* Observers hear of one end after each start, for the same pipeline; the  *)
(* run button, the build panel and the notifications rely on it.           *)
SignalsComeInPairs == ~mismatched /\ (announced # 0 <=> building)

(* No pipeline is given an operation before its runtime is ensured and its *)
(* addins are loaded, although save_all_cb does not look.                  *)
OnlyPreparedPipelinesWork ==
  \A g \in Pipelines : setup[g] # "ready" =>
    ~requested[g] /\ waiting[g] = <<>> /\ ~Busy(g)

(* A manager that can build has a pipeline, and it is prepared: the late   *)
(* answer for a superseded pipeline changes nothing.                       *)
CanBuildMeansPrepared == canBuild => pipeline # 0 /\ setup[pipeline] = "ready"

(* Whatever is replaced while it is being set up, nothing is built, and     *)
(* building is not offered, before the setup of the current pipeline ends.  *)
NothingBeforeSetup == OnlyPreparedPipelinesWork /\ CanBuildMeansPrepared

(* Every pipeline, also a superseded one, is a queue of jobs. *)
TaskOf(g, t) == IF home[t] = g THEN state[t] ELSE "new"

JobQueueOf(g) == INSTANCE JobQueue WITH
  Jobs <- Tasks, waiting <- waiting[g], serving <- {t \in Tasks : Running(g, t)},
  state <- [t \in Tasks |-> TaskOf(g, t)]

PipelinesAreJobQueues ==
  /\ \A g \in Pipelines : JobQueueOf(g)!Init
  /\ [][\A g \in Pipelines : [JobQueueOf(g)!Next]_(JobQueueOf(g)!jobVars)]_vars

(* Every operation a client has started ends, also on a superseded         *)
(* pipeline, unless it is dropped.                                         *)
TasksEnd ==
  \A t \in Tasks :
    state[t] \in {"saving", "queued"} ~> state[t] \in {"ok", "error", "dropped"}

-----------------------------------------------------------------------------
(* What the documentation says and the code does not do. *)

(* "This function will request that @phase is completed in the underlying  *)
(* build pipeline and execute a build.  Upon completion, @callback will be *)
(* executed and it can determine the success or failure of the operation": *)
(* success is reported only for what a pipeline worked on.                 *)
SuccessWasWorkedFor == \A t \in Tasks : state[t] = "ok" => t \in worked
=============================================================================
