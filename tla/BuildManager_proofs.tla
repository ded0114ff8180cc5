------------------------ MODULE BuildManager_proofs ------------------------
(***************************************************************************)
(* Theorems about BuildManager that hold for every set of tasks, whatever  *)
(* their kinds, and any number of pipelines.                               *)
(***************************************************************************)
EXTENDS BuildManager, TLAPS

-----------------------------------------------------------------------------
(* The inductive invariant. *)

(* A pipeline works on one task at a time. *)
OneAtATime ==
  \A g \in Pipelines : \A t, u \in Tasks : Running(g, t) /\ Running(g, u) => t = u

(* A queue holds queued tasks of its own pipeline, each of them once. *)
QueuesHoldQueued ==
  \A g \in Pipelines : \A i \in 1..Len(waiting[g]) :
    /\ home[waiting[g][i]] = g /\ state[waiting[g][i]] = "queued"
    /\ \A j \in 1..Len(waiting[g]) : waiting[g][i] = waiting[g][j] => i = j

(* Only the pipelines that were made have left "none". *)
MadeInOrder ==
  /\ pipeline <= created
  /\ \A g \in Pipelines : g > created => setup[g] = "none"

(* A task that no pipeline was given is not at home anywhere. *)
HomelessBefore ==
  \A t \in Tasks : state[t] \in {"new", "saving", "dropped"} => home[t] = 0

(* BUILD_STARTED was heard from the current pipeline. *)
AnnouncedIsCurrent == announced # 0 => announced = pipeline

Manager ==
  /\ BuildingMatchesPipeline
  /\ TimerRunsWhileBuilding
  /\ SignalsComeInPairs
  /\ AnnouncedIsCurrent

Queues == OneAtATime /\ QueuesHoldQueued /\ HomelessBefore

Setups == OnlyPreparedPipelinesWork /\ CanBuildMeansPrepared /\ MadeInOrder

ManagerInv == TypeOK /\ Manager /\ Queues /\ Setups

-----------------------------------------------------------------------------
(* Types. *)

LEMMA InitTypes == Init => TypeOK
<1> SUFFICES ASSUME Init
             PROVE  TypeOK
  OBVIOUS
<1>1. 1 \in Pipelines /\ 1 \in 0..MaxPipelines /\ 0 \in 0..MaxPipelines
  BY ManagerAssumption DEF Pipelines
<1>2. /\ canBuild \in BOOLEAN /\ building \in BOOLEAN /\ timer \in BOOLEAN
      /\ mismatched \in BOOLEAN /\ requested \in [Pipelines -> BOOLEAN]
  BY Zenon DEF Init
<1>3. setup \in [Pipelines -> {"none", "ensuring", "ready", "failed"}]
  BY DEF Init
<1>4. waiting \in [Pipelines -> Seq(Tasks)]
  BY DEF Init
<1> QED
  BY <1>1, <1>2, <1>3, <1>4 DEF Init, TypeOK

(* What a pipeline says to the manager keeps its types. *)
LEMMA HearTypes ==
  ASSUME TypeOK, NEW g \in Pipelines, HearStarted(g) \/ HearFinished(g) \/ HearBoth(g)
  PROVE  /\ building' \in BOOLEAN /\ timer' \in BOOLEAN
         /\ announced' \in 0..MaxPipelines /\ mismatched' \in BOOLEAN
<1>1. building' \in BOOLEAN /\ timer' \in BOOLEAN /\ mismatched' \in BOOLEAN
  BY Zenon DEF HearStarted, HearFinished, HearBoth
<1>2. announced' \in {0, g, announced}
  BY DEF HearStarted, HearFinished, HearBoth
<1> QED
  BY <1>1, <1>2, ManagerAssumption DEF TypeOK, Pipelines

LEMMA CancelledTypes ==
  ASSUME TypeOK
  PROVE  Cancelled \subseteq Tasks \cup Pipelines
BY DEF TypeOK, Cancelled

LEMMA QueueTypes ==
  ASSUME TypeOK, NEW g \in Pipelines, NEW t \in Tasks, Queue(g, t)
  PROVE  /\ waiting' \in [Pipelines -> Seq(Tasks)]
         /\ state' \in [Tasks -> {"new", "saving", "queued", "running", "ok", "error", "dropped"}]
         /\ home' \in [Tasks -> 0..MaxPipelines]
BY ManagerAssumption DEF TypeOK, Queue, Pipelines

LEMMA CurrentIsPipeline ==
  ASSUME TypeOK, pipeline # 0
  PROVE  pipeline \in Pipelines
BY ManagerAssumption DEF TypeOK, Pipelines

LEMMA TypesKept == TypeOK /\ [Next]_vars => TypeOK'
<1> SUFFICES ASSUME TypeOK, [Next]_vars
             PROVE  TypeOK'
  OBVIOUS
<1> USE ManagerAssumption DEF managerVars, pipelineVars, taskVars, signalVars
<1>1. ASSUME NEW t \in Tasks, ExecuteReturns(t)
      PROVE  TypeOK'
  BY <1>1 DEF TypeOK, ExecuteReturns
<1>2. ASSUME NEW t \in Tasks, Execute(t)
      PROVE  TypeOK'
  <2>1. pipeline \in Pipelines
    BY <1>2, CurrentIsPipeline DEF Execute, Prepared
  <2>2. CASE Queue(pipeline, t)
    BY <1>2, <2>1, <2>2, QueueTypes DEF Execute, TypeOK
  <2>3. CASE UNCHANGED <<waiting, home>> /\ state' = [state EXCEPT ![t] = "saving"]
    BY <1>2, <2>3 DEF Execute, TypeOK
  <2> QED
    BY <1>2, <2>2, <2>3 DEF Execute
<1>3. ASSUME NEW t \in Tasks, Saved(t)
      PROVE  TypeOK'
  <2>1. CASE UNCHANGED <<waiting, home>>
    BY <1>3, <2>1 DEF Saved, TypeOK, ExecuteOn, Queue
  <2>2. CASE pipeline # 0 /\ ExecuteOn(pipeline, t)
    <3>1. pipeline \in Pipelines
      BY <2>2, CurrentIsPipeline
    <3>2. CASE Queue(pipeline, t)
      BY <1>3, <3>1, <3>2, QueueTypes DEF Saved, TypeOK
    <3>3. CASE ~requested[pipeline]
      <4>1. state' \in [Tasks -> {"new", "saving", "queued", "running", "ok", "error", "dropped"}]
        BY <2>2, <3>3 DEF ExecuteOn, TypeOK
      <4>2. home' \in [Tasks -> 0..MaxPipelines] /\ UNCHANGED waiting
        BY <2>2, <3>1, <3>3 DEF ExecuteOn, TypeOK, Pipelines
      <4> QED
        BY <1>3, <4>1, <4>2 DEF Saved, TypeOK
    <3> QED
      BY <2>2, <3>2, <3>3 DEF ExecuteOn
  <2> QED
    BY <1>3, <2>1, <2>2 DEF Saved
<1>4. ASSUME NEW t \in Tasks, CleanOrRebuild(t)
      PROVE  TypeOK'
  <2>1. pipeline \in Pipelines
    BY <1>4, CurrentIsPipeline DEF CleanOrRebuild, Prepared
  <2>2. CASE Queue(pipeline, t)
    BY <1>4, <2>1, <2>2, QueueTypes DEF CleanOrRebuild, TypeOK
  <2>3. CASE UNCHANGED <<waiting, home>> /\ state' = [state EXCEPT ![t] = "ok"]
    BY <1>4, <2>3 DEF CleanOrRebuild, TypeOK
  <2> QED
    BY <1>4, <2>2, <2>3 DEF CleanOrRebuild
<1>5. ASSUME NEW g \in Pipelines, FlushStarts(g)
      PROVE  TypeOK'
  <2>1. /\ Head(waiting[g]) \in Tasks
        /\ waiting' \in [Pipelines -> Seq(Tasks)]
    BY <1>5 DEF FlushStarts, TypeOK
  <2>2. HearStarted(g) \/ HearBoth(g)
    BY <1>5 DEF FlushStarts
  <2>3. requested' \in [Pipelines -> BOOLEAN]
    BY <1>5 DEF FlushStarts, TypeOK
  <2>4. state' \in [Tasks -> {"new", "saving", "queued", "running", "ok", "error", "dropped"}]
    BY <1>5, <2>1 DEF FlushStarts, TypeOK, Verdicts
  <2> QED
    BY <1>5, <2>1, <2>2, <2>3, <2>4, HearTypes DEF FlushStarts, TypeOK
<1>6. ASSUME NEW g \in Pipelines, FlushFails(g)
      PROVE  TypeOK'
  BY <1>6 DEF FlushFails, TypeOK
<1>7. ASSUME NEW g \in Pipelines, NEW t \in Tasks, Completes(g, t)
      PROVE  TypeOK'
  <2>1. state' \in [Tasks -> {"new", "saving", "queued", "running", "ok", "error", "dropped"}]
    BY <1>7 DEF Completes, TypeOK, Verdicts
  <2> QED
    BY <1>7, <2>1, HearTypes DEF Completes, TypeOK
<1>8. ASSUME NEW g \in Pipelines, RuntimeEnsured(g)
      PROVE  TypeOK'
  <2>1. setup' \in [Pipelines -> {"none", "ensuring", "ready", "failed"}]
    BY <1>8 DEF RuntimeEnsured, TypeOK
  <2>2. pipeline' \in 0..MaxPipelines
    BY <1>8 DEF RuntimeEnsured, TypeOK
  <2>3. canBuild' \in BOOLEAN
    BY <1>8 DEF RuntimeEnsured, TypeOK
  <2> QED
    BY <1>8, <2>1, <2>2, <2>3 DEF RuntimeEnsured, TypeOK
<1>9. ASSUME NEW g \in Pipelines, NEW t \in Tasks, RebuildBuilds(g, t)
      PROVE  TypeOK'
  BY <1>9 DEF RebuildBuilds, TypeOK
<1>10. ASSUME Cancel
       PROVE  TypeOK'
  BY <1>10, CancelledTypes DEF Cancel, TypeOK
<1>11. ASSUME InvalidatePipeline
       PROVE  TypeOK'
  <2>1. created + 1 \in Pipelines
    BY <1>11 DEF InvalidatePipeline, TypeOK, Pipelines
  <2>2. building' \in BOOLEAN /\ timer' \in BOOLEAN /\ mismatched' \in BOOLEAN
    BY <1>11, Zenon DEF InvalidatePipeline, SynthesizeFailure
  <2>3. announced' \in 0..MaxPipelines
    BY <1>11 DEF InvalidatePipeline, SynthesizeFailure, TypeOK
  <2>4. setup' \in [Pipelines -> {"none", "ensuring", "ready", "failed"}]
    BY <1>11 DEF InvalidatePipeline, TypeOK
  <2>5. cancelled' \subseteq Tasks \cup Pipelines
    BY <1>11, CancelledTypes DEF InvalidatePipeline
  <2>6. pipeline' \in 0..MaxPipelines
    BY <1>11, <2>1 DEF InvalidatePipeline, Pipelines
  <2> QED
    BY <1>11, <2>1, <2>2, <2>3, <2>4, <2>5, <2>6 DEF InvalidatePipeline, TypeOK
<1>12. CASE UNCHANGED vars
  BY <1>12 DEF vars, TypeOK
<1> QED
  BY <1>1, <1>2, <1>3, <1>4, <1>5, <1>6, <1>7, <1>8, <1>9, <1>10, <1>11, <1>12
  DEF Next, PipelineStep

(* The manager's state has its types, however many pipelines were made. *)
THEOREM ManagerTypeCorrect == Spec => []TypeOK
BY InitTypes, TypesKept, PTL DEF Spec

-----------------------------------------------------------------------------
(* Each step is of one of a few kinds, as far as the queues are concerned. *)

Elsewhere == UNCHANGED <<waiting, home, state>>

Begins(t) ==
  /\ state[t] \in {"new", "saving"}
  /\ \E v \in {"saving", "ok", "error", "dropped"} : state' = [state EXCEPT ![t] = v]
  /\ UNCHANGED <<waiting, home>>

AnsweredAtOnce(g, t) ==
  /\ state[t] = "saving"
  /\ \E v \in {"ok", "error"} : state' = [state EXCEPT ![t] = v]
  /\ home' = [home EXCEPT ![t] = g]
  /\ UNCHANGED waiting

Accepted(g, t) == state[t] \in {"new", "saving"} /\ Queue(g, t)

Starts(g) ==
  /\ ~Busy(g) /\ waiting[g] # <<>>
  /\ waiting' = [waiting EXCEPT ![g] = Tail(@)]
  /\ \E v \in {"running", "ok", "error"} : state' = [state EXCEPT ![Head(waiting[g])] = v]
  /\ UNCHANGED home

Ends(g, t) ==
  /\ Running(g, t)
  /\ \E v \in {"ok", "error"} : state' = [state EXCEPT ![t] = v]
  /\ UNCHANGED <<waiting, home>>

(* The step of a client, of one of the manager's operations for the task t. *)
ClientStep(t) == ExecuteReturns(t) \/ Execute(t) \/ Saved(t) \/ CleanOrRebuild(t)

LEMMA KindsOfClientSteps ==
  ASSUME TypeOK, NEW t \in Tasks, ClientStep(t)
  PROVE  \/ Begins(t)
         \/ \E g \in Pipelines : AnsweredAtOnce(g, t) \/ Accepted(g, t)
<1>1. CASE ExecuteReturns(t)
  BY <1>1 DEF Begins, ExecuteReturns
<1>2. CASE Execute(t)
  BY <1>2, CurrentIsPipeline DEF Execute, Prepared, Begins, Accepted
<1>3. CASE Saved(t)
  <2>1. CASE UNCHANGED <<waiting, home>> /\ (state' = [state EXCEPT ![t] = "error"]
                                         \/ state' = [state EXCEPT ![t] = "dropped"])
    BY <1>3, <2>1 DEF Saved, Begins
  <2>2. CASE pipeline # 0 /\ ExecuteOn(pipeline, t)
    BY <1>3, <2>2, CurrentIsPipeline DEF Saved, ExecuteOn, Accepted, AnsweredAtOnce
  <2> QED
    BY <1>3, <2>1, <2>2 DEF Saved
<1>4. CASE CleanOrRebuild(t)
  BY <1>4, CurrentIsPipeline DEF CleanOrRebuild, Prepared, Begins, Accepted
<1> QED
  BY <1>1, <1>2, <1>3, <1>4 DEF ClientStep

LEMMA KindsOfSteps ==
  ASSUME TypeOK, [Next]_vars
  PROVE  \/ Elsewhere
         \/ \E t \in Tasks : Begins(t)
         \/ \E g \in Pipelines, t \in Tasks :
              AnsweredAtOnce(g, t) \/ Accepted(g, t) \/ Ends(g, t)
         \/ \E g \in Pipelines : Starts(g) \/ FlushFails(g)
<1> USE DEF managerVars, pipelineVars, taskVars, signalVars
<1>1. ASSUME NEW t \in Tasks, ClientStep(t)
      PROVE  \/ Begins(t)
             \/ \E g \in Pipelines : AnsweredAtOnce(g, t) \/ Accepted(g, t)
  BY <1>1, KindsOfClientSteps
<1>2. ASSUME NEW g \in Pipelines, FlushStarts(g)
      PROVE  Starts(g)
  BY <1>2 DEF FlushStarts, Starts, Verdicts
<1>3. ASSUME NEW g \in Pipelines, NEW t \in Tasks, Completes(g, t)
      PROVE  Ends(g, t)
  BY <1>3 DEF Completes, Ends, Verdicts
<1>4. ASSUME NEW g \in Pipelines, RuntimeEnsured(g)
      PROVE  Elsewhere
  BY <1>4 DEF RuntimeEnsured, Elsewhere
<1>5. ASSUME NEW g \in Pipelines, NEW t \in Tasks, RebuildBuilds(g, t)
      PROVE  Elsewhere
  BY <1>5 DEF RebuildBuilds, Elsewhere
<1>6. Cancel => Elsewhere
  BY DEF Cancel, Elsewhere
<1>7. InvalidatePipeline => Elsewhere
  BY DEF InvalidatePipeline, Elsewhere
<1>8. UNCHANGED vars => Elsewhere
  BY DEF vars, Elsewhere
<1> QED
  BY <1>1, <1>2, <1>3, <1>4, <1>5, <1>6, <1>7, <1>8 DEF Next, PipelineStep, ClientStep

-----------------------------------------------------------------------------
(* The queues. *)

LEMMA QueuesKept ==
  ASSUME TypeOK, Queues, [Next]_vars
  PROVE  Queues'
<1> USE DEF Queues, OneAtATime, QueuesHoldQueued, HomelessBefore, Running
<1>1. CASE Elsewhere
  BY <1>1 DEF Elsewhere
<1>2. ASSUME NEW t \in Tasks, Begins(t)
      PROVE  Queues'
  BY <1>2 DEF Begins, TypeOK
<1>3. ASSUME NEW g \in Pipelines, NEW t \in Tasks, AnsweredAtOnce(g, t)
      PROVE  Queues'
  BY <1>3 DEF AnsweredAtOnce, TypeOK
<1>4. ASSUME NEW g \in Pipelines, NEW t \in Tasks, Accepted(g, t)
      PROVE  Queues'
  <2>1. OneAtATime' /\ HomelessBefore'
    BY <1>4 DEF Accepted, Queue, TypeOK
  <2>2. ASSUME NEW f \in Pipelines, NEW i \in 1..Len(waiting'[f]), NEW j \in 1..Len(waiting'[f])
        PROVE  /\ home'[waiting'[f][i]] = f /\ state'[waiting'[f][i]] = "queued"
               /\ waiting'[f][i] = waiting'[f][j] => i = j
    <3>1. CASE f = g
      <4>1. /\ Len(waiting[g]) \in Nat
            /\ waiting'[g] = Append(waiting[g], t) /\ Len(waiting'[g]) = Len(waiting[g]) + 1
            /\ waiting'[g][Len(waiting[g]) + 1] = t
            /\ \A k \in 1..Len(waiting[g]) : waiting'[g][k] = waiting[g][k]
        BY <1>4 DEF Accepted, Queue, TypeOK
      <4>2. \A k \in 1..Len(waiting[g]) : waiting[g][k] # t
        BY <1>4 DEF Accepted
      <4>3. \A k \in 1..Len(waiting'[g]) : k \in 1..Len(waiting[g]) \/ k = Len(waiting[g]) + 1
        BY <4>1
      <4>4. home'[t] = g /\ state'[t] = "queued"
        BY <1>4 DEF Accepted, Queue, TypeOK
      <4>5. waiting'[f][i] = waiting'[f][j] => i = j
        BY <3>1, <4>1, <4>2, <4>3
      <4>6. \A k \in 1..Len(waiting[g]) : waiting[g][k] \in Tasks
        BY DEF TypeOK
      <4>7. home'[waiting'[f][i]] = f /\ state'[waiting'[f][i]] = "queued"
        BY <1>4, <3>1, <4>1, <4>2, <4>3, <4>4, <4>6 DEF Accepted, Queue, TypeOK
      <4> QED
        BY <4>5, <4>7
    <3>2. CASE f # g
      <4>1. waiting'[f] = waiting[f]
        BY <1>4, <3>2 DEF Accepted, Queue, TypeOK
      <4>2. waiting[f][i] # t /\ waiting[f][i] \in Tasks
        BY <1>4, <4>1 DEF Accepted, TypeOK
      <4> QED
        BY <1>4, <4>1, <4>2 DEF Accepted, Queue, TypeOK
    <3> QED
      BY <3>1, <3>2
  <2> QED
    BY <2>1, <2>2
<1>5. ASSUME NEW g \in Pipelines, NEW t \in Tasks, Ends(g, t)
      PROVE  Queues'
  BY <1>5 DEF Ends, TypeOK
<1>6. ASSUME NEW g \in Pipelines, Starts(g)
      PROVE  Queues'
  <2>1. /\ Head(waiting[g]) \in Tasks /\ Head(waiting[g]) = waiting[g][1]
        /\ 1 \in 1..Len(waiting[g])
    BY <1>6 DEF Starts, TypeOK
  <2>2. home[Head(waiting[g])] = g /\ state[Head(waiting[g])] = "queued"
    BY <2>1
  <2>3. OneAtATime' /\ HomelessBefore'
    BY <1>6, <2>1, <2>2 DEF Starts, Busy, TypeOK
  <2>4. ASSUME NEW f \in Pipelines, NEW i \in 1..Len(waiting'[f]), NEW j \in 1..Len(waiting'[f])
        PROVE  /\ home'[waiting'[f][i]] = f /\ state'[waiting'[f][i]] = "queued"
               /\ waiting'[f][i] = waiting'[f][j] => i = j
    <3>1. CASE f = g
      <4>1. /\ Len(waiting[g]) \in Nat
            /\ waiting'[g] = Tail(waiting[g]) /\ Len(waiting'[g]) = Len(waiting[g]) - 1
            /\ \A k \in 1..Len(waiting'[g]) : waiting'[g][k] = waiting[g][k + 1]
        BY <1>6 DEF Starts, TypeOK
      <4>2. /\ i + 1 \in 1..Len(waiting[g]) /\ j + 1 \in 1..Len(waiting[g])
            /\ waiting'[g][i] = waiting[g][i + 1] /\ waiting'[g][j] = waiting[g][j + 1]
        BY <3>1, <4>1
      <4>3. waiting[g][i + 1] # Head(waiting[g])
        BY <2>1, <4>2
      <4>4. waiting[g][i + 1] \in Tasks
        BY <4>2 DEF TypeOK
      <4> QED
        BY <1>6, <3>1, <4>2, <4>3, <4>4 DEF Starts, TypeOK
    <3>2. CASE f # g
      <4>1. waiting'[f] = waiting[f]
        BY <1>6, <3>2 DEF Starts, TypeOK
      <4>2. waiting[f][i] # Head(waiting[g]) /\ waiting[f][i] \in Tasks
        BY <2>2, <3>2, <4>1 DEF TypeOK
      <4> QED
        BY <1>6, <4>1, <4>2 DEF Starts, TypeOK
    <3> QED
      BY <3>1, <3>2
  <2> QED
    BY <2>3, <2>4
<1>7. ASSUME NEW g \in Pipelines, FlushFails(g)
      PROVE  Queues'
  <2>1. OneAtATime' /\ HomelessBefore'
    BY <1>7 DEF FlushFails, TypeOK
  <2>2. ASSUME NEW f \in Pipelines, NEW i \in 1..Len(waiting'[f]), NEW j \in 1..Len(waiting'[f])
        PROVE  /\ home'[waiting'[f][i]] = f /\ state'[waiting'[f][i]] = "queued"
               /\ waiting'[f][i] = waiting'[f][j] => i = j
    <3>1. f # g /\ waiting'[f] = waiting[f]
      BY <1>7 DEF FlushFails, TypeOK
    <3>2. waiting[f][i] \in Tasks
      BY <3>1 DEF TypeOK
    <3> QED
      BY <1>7, <3>1, <3>2 DEF FlushFails
  <2> QED
    BY <2>1, <2>2
<1> QED
  BY <1>1, <1>2, <1>3, <1>4, <1>5, <1>6, <1>7, KindsOfSteps

(* The pipelines that are busy after a step. *)
LEMMA BusyWasBusy ==
  ASSUME TypeOK, Queues, [Next]_vars, NEW f \in Pipelines, Busy(f)'
  PROVE  Busy(f) \/ Starts(f)
<1> SUFFICES ASSUME NEW t \in Tasks, Running(f, t)'
             PROVE  Busy(f) \/ Starts(f)
  BY DEF Busy
<1> USE DEF Running, Busy
<1>1. CASE Elsewhere
  BY <1>1 DEF Elsewhere
<1>2. ASSUME NEW u \in Tasks, Begins(u)
      PROVE  Busy(f)
  BY <1>2 DEF Begins, TypeOK
<1>3. ASSUME NEW g \in Pipelines, NEW u \in Tasks, AnsweredAtOnce(g, u)
      PROVE  Busy(f)
  BY <1>3 DEF AnsweredAtOnce, TypeOK
<1>4. ASSUME NEW g \in Pipelines, NEW u \in Tasks, Accepted(g, u)
      PROVE  Busy(f)
  BY <1>4 DEF Accepted, Queue, TypeOK
<1>5. ASSUME NEW g \in Pipelines, NEW u \in Tasks, Ends(g, u)
      PROVE  Busy(f)
  BY <1>5 DEF Ends, TypeOK
<1>6. ASSUME NEW g \in Pipelines, Starts(g)
      PROVE  Busy(f) \/ Starts(f)
  <2>1. /\ Head(waiting[g]) \in Tasks /\ Head(waiting[g]) = waiting[g][1]
        /\ 1 \in 1..Len(waiting[g])
    BY <1>6 DEF Starts, TypeOK
  <2>2. home[Head(waiting[g])] = g
    BY <2>1 DEF Queues, QueuesHoldQueued
  <2> QED
    BY <1>6, <2>1, <2>2 DEF Starts, TypeOK
<1>7. ASSUME NEW g \in Pipelines, FlushFails(g)
      PROVE  Busy(f)
  BY <1>7 DEF FlushFails, TypeOK
<1> QED
  BY <1>1, <1>2, <1>3, <1>4, <1>5, <1>6, <1>7, KindsOfSteps

-----------------------------------------------------------------------------
(* The setup of the pipelines. *)

(* A pipeline is only given work, and only goes on, when it is prepared. *)
LEMMA WorkWasPrepared ==
  ASSUME TypeOK, Queues, Setups, [Next]_vars, NEW g \in Pipelines,
         requested'[g] \/ waiting'[g] # <<>> \/ Busy(g)'
  PROVE  setup[g] = "ready"
<1> USE DEF managerVars, pipelineVars, taskVars, signalVars
<1> SUFFICES ASSUME setup[g] # "ready"
             PROVE  FALSE
  OBVIOUS
<1>1. ~requested[g] /\ waiting[g] = <<>> /\ ~Busy(g)
  BY DEF Setups, OnlyPreparedPipelinesWork
<1>2. ~Busy(g)'
  BY <1>1, BusyWasBusy DEF Starts
<1>3. Prepared => pipeline \in Pipelines /\ g # pipeline
  BY CurrentIsPipeline DEF Prepared, Setups, CanBuildMeansPrepared
<1> DEFINE Kept == requested'[g] = requested[g] /\ waiting'[g] = waiting[g]
<1>4. ASSUME NEW t \in Tasks, ExecuteReturns(t)
      PROVE  Kept
  BY <1>3, <1>4 DEF ExecuteReturns, TypeOK
<1>5. ASSUME NEW t \in Tasks, Execute(t)
      PROVE  Kept
  BY <1>3, <1>5 DEF Execute, Queue, TypeOK
<1>6. ASSUME NEW t \in Tasks, Saved(t)
      PROVE  Kept
  BY <1>1, <1>6, CurrentIsPipeline DEF Saved, ExecuteOn, Queue, TypeOK
<1>7. ASSUME NEW t \in Tasks, CleanOrRebuild(t)
      PROVE  Kept
  BY <1>3, <1>7 DEF CleanOrRebuild, Queue, TypeOK
<1>8. ASSUME NEW f \in Pipelines, FlushStarts(f)
      PROVE  Kept
  <2>1. f # g
    BY <1>1, <1>8 DEF FlushStarts
  <2> QED
    BY <1>8, <2>1 DEF FlushStarts, TypeOK
<1>9. ASSUME NEW f \in Pipelines, FlushFails(f)
      PROVE  Kept
  BY <1>1, <1>9 DEF FlushFails, TypeOK
<1>10. ASSUME NEW f \in Pipelines, NEW t \in Tasks, Completes(f, t)
       PROVE  Kept
  <2>1. f # g
    BY <1>1, <1>10 DEF Completes, Busy
  <2> QED
    BY <1>10, <2>1 DEF Completes, TypeOK
<1>11. ASSUME NEW f \in Pipelines, NEW t \in Tasks, RebuildBuilds(f, t)
       PROVE  Kept
  <2>1. f # g
    BY <1>1, <1>11 DEF RebuildBuilds, Busy
  <2> QED
    BY <1>11, <2>1 DEF RebuildBuilds, TypeOK
<1>12. ASSUME NEW f \in Pipelines, RuntimeEnsured(f)
       PROVE  Kept
  BY <1>12 DEF RuntimeEnsured
<1>13. Cancel \/ InvalidatePipeline \/ UNCHANGED vars => Kept
  BY DEF Cancel, InvalidatePipeline, vars
<1>14. Kept
  BY <1>4, <1>5, <1>6, <1>7, <1>8, <1>9, <1>10, <1>11, <1>12, <1>13
  DEF Next, PipelineStep
<1> QED
  BY <1>1, <1>2, <1>14

(* The setup of the pipelines changes only when one is made, and when its  *)
(* runtime is ensured.                                                     *)
LEMMA SetupsKept ==
  ASSUME TypeOK, Queues, Setups, [Next]_vars
  PROVE  Setups'
<1> USE DEF managerVars, pipelineVars, taskVars, signalVars, Setups
<1>1. CASE UNCHANGED <<pipeline, canBuild, created, setup>>
  <2>1. OnlyPreparedPipelinesWork'
    BY <1>1, WorkWasPrepared, Zenon DEF OnlyPreparedPipelinesWork
  <2> QED
    BY <1>1, <2>1 DEF CanBuildMeansPrepared, MadeInOrder
<1>2. ASSUME NEW g \in Pipelines, RuntimeEnsured(g)
      PROVE  Setups'
  <2>1. /\ g <= created
        /\ \A f \in Pipelines : f # g => setup'[f] = setup[f]
        /\ setup'[g] \in {"ready", "failed"}
    BY <1>2, ManagerAssumption DEF RuntimeEnsured, TypeOK, MadeInOrder, Pipelines
  <2>2. OnlyPreparedPipelinesWork'
    <3> SUFFICES ASSUME NEW f \in Pipelines, setup'[f] # "ready",
                        requested'[f] \/ waiting'[f] # <<>> \/ Busy(f)'
                 PROVE  FALSE
      BY Zenon DEF OnlyPreparedPipelinesWork
    <3>1. setup[f] = "ready"
      BY WorkWasPrepared
    <3> QED
      BY <1>2, <2>1, <3>1 DEF RuntimeEnsured
  <2>3. CanBuildMeansPrepared'
    <3>1. CASE g = pipeline /\ UNCHANGED pipeline /\ setup' = [setup EXCEPT ![g] = "ready"]
      BY <1>2, <3>1, ManagerAssumption DEF CanBuildMeansPrepared, TypeOK, Pipelines
    <3>2. CASE UNCHANGED canBuild /\ pipeline' = IF g = pipeline THEN 0 ELSE pipeline
      <4>1. canBuild => g # pipeline
        BY <1>2 DEF RuntimeEnsured, CanBuildMeansPrepared
      <4>2. canBuild => pipeline' \in Pipelines /\ pipeline' = pipeline /\ setup'[pipeline] = "ready"
        BY <2>1, <3>2, <4>1, CurrentIsPipeline DEF CanBuildMeansPrepared
      <4> QED
        BY <3>2, <4>2, ManagerAssumption DEF CanBuildMeansPrepared, Pipelines
    <3> QED
      BY <1>2, <3>1, <3>2 DEF RuntimeEnsured
  <2>4. MadeInOrder'
    BY <1>2, <2>1, ManagerAssumption DEF RuntimeEnsured, MadeInOrder, TypeOK, Pipelines
  <2> QED
    BY <2>2, <2>3, <2>4
<1>3. CASE InvalidatePipeline
  <2>1. /\ created + 1 \in Pipelines /\ setup[created + 1] = "none"
        /\ \A f \in Pipelines : f # created + 1 => setup'[f] = setup[f]
        /\ setup'[created + 1] = "ensuring"
    BY <1>3, ManagerAssumption DEF InvalidatePipeline, TypeOK, MadeInOrder, Pipelines
  <2>2. OnlyPreparedPipelinesWork'
    <3> SUFFICES ASSUME NEW f \in Pipelines, setup'[f] # "ready",
                        requested'[f] \/ waiting'[f] # <<>> \/ Busy(f)'
                 PROVE  FALSE
      BY Zenon DEF OnlyPreparedPipelinesWork
    <3>1. setup[f] = "ready"
      BY WorkWasPrepared
    <3> QED
      BY <2>1, <3>1
  <2>3. CanBuildMeansPrepared'
    BY <1>3 DEF InvalidatePipeline, CanBuildMeansPrepared
  <2>4. MadeInOrder'
    BY <1>3, <2>1, ManagerAssumption DEF InvalidatePipeline, MadeInOrder, TypeOK, Pipelines
  <2> QED
    BY <2>2, <2>3, <2>4
<1>4. \/ UNCHANGED <<pipeline, canBuild, created, setup>>
      \/ \E g \in Pipelines : RuntimeEnsured(g)
      \/ InvalidatePipeline
  BY DEF Next, PipelineStep, ExecuteReturns, Execute, Saved, CleanOrRebuild,
         FlushStarts, FlushFails, Completes, RebuildBuilds, Cancel, vars
<1> QED
  BY <1>1, <1>2, <1>3, <1>4

-----------------------------------------------------------------------------
(* What the manager knows of its pipeline. *)

(* Steps that neither start nor end a task leave every pipeline as busy as *)
(* it was.                                                                 *)
LEMMA QuietSteps ==
  ASSUME TypeOK,
         \/ Elsewhere
         \/ \E t \in Tasks : Begins(t)
         \/ \E g \in Pipelines, t \in Tasks : AnsweredAtOnce(g, t) \/ Accepted(g, t)
         \/ \E g \in Pipelines : FlushFails(g)
  PROVE  \A f \in Pipelines : Busy(f)' <=> Busy(f)
<1> SUFFICES ASSUME NEW f \in Pipelines, NEW t \in Tasks
             PROVE  Running(f, t)' <=> Running(f, t)
  BY DEF Busy
<1> USE DEF Running
<1>1. CASE Elsewhere
  BY <1>1 DEF Elsewhere
<1>2. ASSUME NEW u \in Tasks, Begins(u)
      PROVE  Running(f, t)' <=> Running(f, t)
  BY <1>2 DEF Begins, TypeOK
<1>3. ASSUME NEW g \in Pipelines, NEW u \in Tasks, AnsweredAtOnce(g, u) \/ Accepted(g, u)
      PROVE  Running(f, t)' <=> Running(f, t)
  BY <1>3 DEF AnsweredAtOnce, Accepted, Queue, TypeOK
<1>4. ASSUME NEW g \in Pipelines, FlushFails(g)
      PROVE  Running(f, t)' <=> Running(f, t)
  BY <1>4 DEF FlushFails, TypeOK
<1> QED
  BY <1>1, <1>2, <1>3, <1>4

(* After a pipeline takes up the head of its queue, it is busy unless the *)
(* task was answered in the same callback; the others are as before.      *)
LEMMA StartsBusy ==
  ASSUME TypeOK, Queues, NEW g \in Pipelines, Starts(g)
  PROVE  /\ Busy(g)' <=> state'[Head(waiting[g])] = "running"
         /\ \A f \in Pipelines \ {g} : Busy(f)' <=> Busy(f)
<1>1. /\ Head(waiting[g]) \in Tasks /\ Head(waiting[g]) = waiting[g][1]
      /\ 1 \in 1..Len(waiting[g])
  BY DEF Starts, TypeOK
<1>2. home[Head(waiting[g])] = g
  BY <1>1 DEF Queues, QueuesHoldQueued
<1>3. \A t \in Tasks \ {Head(waiting[g])} : state'[t] = state[t]
  BY <1>1 DEF Starts, TypeOK
<1>4. Busy(g)' <=> state'[Head(waiting[g])] = "running"
  BY <1>1, <1>2, <1>3 DEF Starts, Busy, Running
<1>5. ASSUME NEW f \in Pipelines \ {g}, NEW t \in Tasks
      PROVE  Running(f, t)' <=> Running(f, t)
  BY <1>2, <1>3 DEF Starts, Running
<1> QED
  BY <1>4, <1>5 DEF Busy

LEMMA EndsBusy ==
  ASSUME TypeOK, Queues, NEW g \in Pipelines, NEW t \in Tasks, Ends(g, t)
  PROVE  /\ Busy(g) /\ ~Busy(g)'
         /\ \A f \in Pipelines \ {g} : Busy(f)' <=> Busy(f)
<1>1. state'[t] # "running" /\ \A u \in Tasks \ {t} : state'[u] = state[u]
  BY DEF Ends, TypeOK
<1>2. ~Busy(g)'
  BY <1>1 DEF Ends, Busy, Running, Queues, OneAtATime
<1>3. ASSUME NEW f \in Pipelines \ {g}, NEW u \in Tasks
      PROVE  Running(f, u)' <=> Running(f, u)
  BY <1>1 DEF Ends, Running
<1> QED
  BY <1>2, <1>3 DEF Ends, Busy

(* The flags, the timer and the signals follow the current pipeline. *)
LEMMA ManagerFollows ==
  ASSUME TypeOK, Manager, Queues, Setups, [Next]_vars
  PROVE  Manager'
<1> USE DEF managerVars, pipelineVars, taskVars, signalVars
<1> DEFINE mine == <<pipeline, building, timer, announced, mismatched>>
           Same == /\ pipeline' = pipeline /\ announced' = announced
                   /\ (building' <=> building) /\ (timer' <=> timer)
                   /\ (mismatched' <=> mismatched)
<1>1. ASSUME Same, pipeline # 0 => (Busy(pipeline)' <=> Busy(pipeline))
      PROVE  Manager'
  BY <1>1, Zenon DEF Manager, BuildingMatchesPipeline, TimerRunsWhileBuilding,
     SignalsComeInPairs, AnnouncedIsCurrent, Busy, Running
<1>2. ASSUME NEW t \in Tasks, ClientStep(t)
      PROVE  Manager'
  <2>1. UNCHANGED mine
    BY <1>2 DEF ClientStep, ExecuteReturns, Execute, Saved, CleanOrRebuild
  <2>2. \A f \in Pipelines : Busy(f)' <=> Busy(f)
    BY <1>2, KindsOfClientSteps, QuietSteps
  <2> QED
    BY <1>1, <2>1, <2>2, CurrentIsPipeline
<1>3. ASSUME \/ \E g \in Pipelines : FlushFails(g)
             \/ \E g \in Pipelines, t \in Tasks : RebuildBuilds(g, t)
             \/ Cancel \/ UNCHANGED vars
      PROVE  Manager'
  <2>1. UNCHANGED mine
    BY <1>3 DEF FlushFails, RebuildBuilds, Cancel, vars
  <2>2. Elsewhere \/ \E g \in Pipelines : FlushFails(g)
    BY <1>3 DEF RebuildBuilds, Cancel, vars, Elsewhere
  <2>3. \A f \in Pipelines : Busy(f)' <=> Busy(f)
    BY <2>2, QuietSteps
  <2> QED
    BY <1>1, <2>1, <2>3, CurrentIsPipeline
<1>4. ASSUME NEW g \in Pipelines, FlushStarts(g)
      PROVE  Manager'
  <2>1. Starts(g) /\ ~Busy(g) /\ Head(waiting[g]) \in Tasks
    BY <1>4 DEF FlushStarts, Starts, Verdicts, TypeOK
  <2>2. pipeline' = pipeline
    BY <1>4 DEF FlushStarts
  <2>3. HearStarted(g) \/ HearBoth(g)
    BY <1>4 DEF FlushStarts
  <2>4. CASE g # pipeline
    <3>1. Same
      BY <2>2, <2>3, <2>4, Zenon DEF HearStarted, HearBoth
    <3>2. pipeline # 0 => (Busy(pipeline)' <=> Busy(pipeline))
      <4>1. \A f \in Pipelines \ {g} : Busy(f)' <=> Busy(f)
        BY <2>1, StartsBusy
      <4> QED
        BY <2>2, <2>4, <4>1, CurrentIsPipeline DEF Busy, Running
    <3> QED
      BY <1>1, <3>1, <3>2
  <2>5. CASE g = pipeline
    <3>1. ~building /\ ~timer /\ ~mismatched /\ announced = 0
      BY <2>1, <2>5 DEF Manager, BuildingMatchesPipeline, TimerRunsWhileBuilding,
                        SignalsComeInPairs
    <3>2. g # 0
      BY ManagerAssumption DEF Pipelines
    <3>3. ASSUME state' = [state EXCEPT ![Head(waiting[g])] = "running"], HearStarted(g)
          PROVE  Manager'
      <4>1. Busy(pipeline)'
        BY <2>1, <2>2, <2>5, <3>3, StartsBusy DEF TypeOK
      <4>2. building' /\ timer' /\ announced' = g /\ ~mismatched'
        BY <2>5, <3>1, <3>3, Zenon DEF HearStarted
      <4> QED
        BY <2>2, <2>5, <3>2, <4>1, <4>2 DEF Manager, BuildingMatchesPipeline,
           TimerRunsWhileBuilding, SignalsComeInPairs, AnnouncedIsCurrent, Busy, Running
    <3>4. ASSUME NEW v \in {"ok", "error"}, HearBoth(g),
                 state' = [state EXCEPT ![Head(waiting[g])] = v]
          PROVE  Manager'
      <4>1. ~Busy(pipeline)'
        BY <2>1, <2>2, <2>5, <3>4, StartsBusy DEF TypeOK
      <4>2. ~building' /\ ~timer' /\ announced' = 0 /\ ~mismatched'
        BY <2>5, <3>1, <3>4, Zenon DEF HearBoth
      <4> QED
        BY <2>2, <2>5, <3>2, <4>1, <4>2 DEF Manager, BuildingMatchesPipeline,
           TimerRunsWhileBuilding, SignalsComeInPairs, AnnouncedIsCurrent, Busy, Running
    <3> QED
      BY <1>4, <3>3, <3>4 DEF FlushStarts, Verdicts
  <2> QED
    BY <2>4, <2>5
<1>5. ASSUME NEW g \in Pipelines, NEW t \in Tasks, Completes(g, t)
      PROVE  Manager'
  <2>1. Ends(g, t)
    BY <1>5 DEF Completes, Ends, Verdicts
  <2>2. pipeline' = pipeline /\ HearFinished(g)
    BY <1>5 DEF Completes
  <2>3. CASE g # pipeline
    <3>1. Same
      BY <2>2, <2>3, Zenon DEF HearFinished
    <3>2. pipeline # 0 => (Busy(pipeline)' <=> Busy(pipeline))
      <4>1. \A f \in Pipelines \ {g} : Busy(f)' <=> Busy(f)
        BY <2>1, EndsBusy
      <4> QED
        BY <2>2, <2>3, <4>1, CurrentIsPipeline DEF Busy, Running
    <3> QED
      BY <1>1, <3>1, <3>2
  <2>4. CASE g = pipeline
    <3>1. Busy(pipeline) /\ ~Busy(pipeline)' /\ g # 0
      <4>1. Busy(g) /\ ~Busy(g)'
        BY <2>1, EndsBusy
      <4> QED
        BY <2>2, <2>4, <4>1, ManagerAssumption DEF Busy, Running, Pipelines
    <3>2. ~mismatched /\ announced = g
      BY <2>4, <3>1 DEF Manager, BuildingMatchesPipeline, SignalsComeInPairs, AnnouncedIsCurrent
    <3>3. ~building' /\ ~timer' /\ announced' = 0 /\ ~mismatched'
      BY <2>2, <2>4, <3>2, Zenon DEF HearFinished
    <3> QED
      BY <2>2, <3>1, <3>3 DEF Manager, BuildingMatchesPipeline,
         TimerRunsWhileBuilding, SignalsComeInPairs, AnnouncedIsCurrent, Busy, Running
  <2> QED
    BY <2>3, <2>4
<1>6. ASSUME NEW g \in Pipelines, RuntimeEnsured(g)
      PROVE  Manager'
  <2>1. UNCHANGED <<building, timer, announced, mismatched>> /\ Elsewhere
    BY <1>6 DEF RuntimeEnsured, Elsewhere
  <2>2. \A f \in Pipelines : Busy(f)' <=> Busy(f)
    BY <2>1, QuietSteps
  <2>3. CASE pipeline' = pipeline
    BY <1>1, <2>1, <2>2, <2>3, CurrentIsPipeline
  <2>4. CASE g = pipeline /\ pipeline' = 0
    <3>1. ~Busy(pipeline)
      BY <1>6, <2>4, Zenon DEF RuntimeEnsured, Setups, OnlyPreparedPipelinesWork
    <3>2. ~building /\ ~timer /\ ~mismatched /\ announced = 0
      BY <3>1 DEF Manager, BuildingMatchesPipeline, TimerRunsWhileBuilding, SignalsComeInPairs
    <3> QED
      BY <2>1, <2>4, <3>2 DEF Manager, BuildingMatchesPipeline,
         TimerRunsWhileBuilding, SignalsComeInPairs, AnnouncedIsCurrent
  <2> QED
    BY <1>6, <2>3, <2>4 DEF RuntimeEnsured
<1>7. ASSUME InvalidatePipeline
      PROVE  Manager'
  <2>1. ~building' /\ ~timer' /\ announced' = 0 /\ ~mismatched'
    BY <1>7, Zenon DEF InvalidatePipeline, SynthesizeFailure, Manager,
       TimerRunsWhileBuilding, SignalsComeInPairs, AnnouncedIsCurrent
  <2>2. created + 1 \in Pipelines /\ setup[created + 1] # "ready"
    BY <1>7, ManagerAssumption DEF InvalidatePipeline, TypeOK, Setups, MadeInOrder, Pipelines
  <2>3. pipeline' = created + 1 /\ UNCHANGED <<home, state>>
    BY <1>7 DEF InvalidatePipeline
  <2>4. ~Busy(pipeline)'
    <3>1. ~Busy(created + 1)
      BY <2>2 DEF Setups, OnlyPreparedPipelinesWork
    <3> QED
      BY <2>3, <3>1 DEF Busy, Running
  <2> QED
    BY <2>1, <2>4 DEF Manager, BuildingMatchesPipeline, TimerRunsWhileBuilding,
       SignalsComeInPairs, AnnouncedIsCurrent
<1> QED
  BY <1>2, <1>3, <1>4, <1>5, <1>6, <1>7 DEF Next, PipelineStep, ClientStep

-----------------------------------------------------------------------------
(* The theorems. *)

LEMMA InitInv == Init => ManagerInv
<1> SUFFICES ASSUME Init
             PROVE  ManagerInv
  OBVIOUS
<1>1. \A g \in Pipelines : ~Busy(g) /\ waiting[g] = <<>> /\ ~requested[g]
  BY DEF Init, Busy, Running
<1>2. 1 \in Pipelines
  BY ManagerAssumption DEF Pipelines
<1>3. Manager
  BY <1>1, <1>2, Zenon DEF Init, Manager, BuildingMatchesPipeline, TimerRunsWhileBuilding,
     SignalsComeInPairs, AnnouncedIsCurrent
<1>4. Queues
  BY DEF Init, Queues, OneAtATime, QueuesHoldQueued, HomelessBefore, Running
<1>5. Setups
  BY <1>1, <1>2, ManagerAssumption DEF Init, Setups, OnlyPreparedPipelinesWork,
     CanBuildMeansPrepared, MadeInOrder, Pipelines
<1> QED
  BY <1>3, <1>4, <1>5, InitTypes DEF ManagerInv

THEOREM ManagerInvCorrect == Spec => []ManagerInv
<1>1. ManagerInv /\ [Next]_vars => ManagerInv'
  BY TypesKept, QueuesKept, SetupsKept, ManagerFollows DEF ManagerInv
<1> QED
  BY InitInv, <1>1, PTL DEF Spec

(* The manager says it is building exactly while its current pipeline is   *)
(* busy, across every replacement of the pipeline.                         *)
THEOREM BuildingCorrect == Spec => []BuildingMatchesPipeline
<1>1. ManagerInv => BuildingMatchesPipeline
  BY DEF ManagerInv, Manager
<1> QED
  BY <1>1, ManagerInvCorrect, PTL

(* The timer of the manager runs exactly while it is building. *)
THEOREM TimerCorrect == Spec => []TimerRunsWhileBuilding
<1>1. ManagerInv => TimerRunsWhileBuilding
  BY DEF ManagerInv, Manager
<1> QED
  BY <1>1, ManagerInvCorrect, PTL

(* Observers hear of one end after each start, for the same pipeline. *)
THEOREM SignalsCorrect == Spec => []SignalsComeInPairs
<1>1. ManagerInv => SignalsComeInPairs
  BY DEF ManagerInv, Manager
<1> QED
  BY <1>1, ManagerInvCorrect, PTL

(* No pipeline works before it is set up, and a manager that can build has *)
(* a pipeline that is.                                                     *)
THEOREM PreparationCorrect == Spec => []NothingBeforeSetup
<1>1. ManagerInv => NothingBeforeSetup
  BY DEF ManagerInv, Setups, NothingBeforeSetup
<1> QED
  BY <1>1, ManagerInvCorrect, PTL

-----------------------------------------------------------------------------
(* Every pipeline is a queue of jobs. *)

LEMMA QueuesInit == Init => \A g \in Pipelines : JobQueueOf(g)!Init
BY ManagerAssumption DEF Init, JobQueueOf!Init, Running, TaskOf, Pipelines

LEMMA QueuesNext ==
  ASSUME TypeOK, Queues, [Next]_vars, NEW f \in Pipelines
  PROVE  [JobQueueOf(f)!Next]_(JobQueueOf(f)!jobVars)
<1> USE DEF TaskOf, Running, TypeOK
<1> DEFINE serving == {t \in Tasks : Running(f, t)}
           states == [t \in Tasks |-> TaskOf(f, t)]
<1> SUFFICES \/ JobQueueOf(f)!Next
             \/ waiting'[f] = waiting[f] /\ UNCHANGED <<serving, states>>
  BY DEF JobQueueOf!jobVars
<1>0. 0 \notin Pipelines
  BY ManagerAssumption DEF Pipelines
<1>1. CASE Elsewhere
  BY <1>1 DEF Elsewhere
<1>2. ASSUME NEW t \in Tasks, Begins(t)
      PROVE  waiting'[f] = waiting[f] /\ UNCHANGED <<serving, states>>
  <2>1. home[t] # f
    BY <1>0, <1>2 DEF Begins, Queues, HomelessBefore
  <2> QED
    BY <1>2, <2>1 DEF Begins
<1>3. ASSUME NEW g \in Pipelines, NEW t \in Tasks, AnsweredAtOnce(g, t)
      PROVE  \/ JobQueueOf(f)!Next
             \/ waiting'[f] = waiting[f] /\ UNCHANGED <<serving, states>>
  <2>1. home[t] # f /\ states[t] = "new"
    BY <1>0, <1>3 DEF AnsweredAtOnce, Queues, HomelessBefore
  <2>2. CASE f = g
    <3>1. JobQueueOf(f)!AnswerAtOnce(t)
      BY <1>3, <2>1, <2>2 DEF AnsweredAtOnce, JobQueueOf!AnswerAtOnce, JobQueueOf!Answers
    <3> QED
      BY <3>1 DEF JobQueueOf!Next
  <2>3. CASE f # g
    BY <1>3, <2>1, <2>3 DEF AnsweredAtOnce
  <2> QED
    BY <2>2, <2>3
<1>4. ASSUME NEW g \in Pipelines, NEW t \in Tasks, Accepted(g, t)
      PROVE  \/ JobQueueOf(f)!Next
             \/ waiting'[f] = waiting[f] /\ UNCHANGED <<serving, states>>
  <2>1. home[t] # f /\ states[t] = "new"
    BY <1>0, <1>4 DEF Accepted, Queues, HomelessBefore
  <2>2. CASE f = g
    <3>1. JobQueueOf(f)!Accept(t)
      BY <1>4, <2>1, <2>2 DEF Accepted, Queue, JobQueueOf!Accept
    <3> QED
      BY <3>1 DEF JobQueueOf!Next
  <2>3. CASE f # g
    BY <1>4, <2>1, <2>3 DEF Accepted, Queue
  <2> QED
    BY <2>2, <2>3
<1>5. ASSUME NEW g \in Pipelines, NEW t \in Tasks, Ends(g, t)
      PROVE  \/ JobQueueOf(f)!Next
             \/ waiting'[f] = waiting[f] /\ UNCHANGED <<serving, states>>
  <2>1. CASE f = g
    <3>1. JobQueueOf(f)!Finish(t)
      <4>1. serving' = {} /\ t \in serving
        BY <1>5, <2>1 DEF Ends, Queues, OneAtATime
      <4>2. \E a \in {"ok", "error"} : states' = [states EXCEPT ![t] = a]
        BY <1>5, <2>1 DEF Ends
      <4> QED
        BY <1>5, <4>1, <4>2 DEF Ends, JobQueueOf!Finish, JobQueueOf!Answers
    <3> QED
      BY <3>1 DEF JobQueueOf!Next
  <2>2. CASE f # g
    BY <1>5, <2>2 DEF Ends
  <2> QED
    BY <2>1, <2>2
<1>6. ASSUME NEW g \in Pipelines, Starts(g)
      PROVE  \/ JobQueueOf(f)!Next
             \/ waiting'[f] = waiting[f] /\ UNCHANGED <<serving, states>>
  <2> DEFINE h == Head(waiting[g])
  <2>1. h \in Tasks /\ h = waiting[g][1] /\ 1 \in 1..Len(waiting[g])
    BY <1>6 DEF Starts
  <2>2. home[h] = g /\ state[h] = "queued"
    BY <2>1 DEF Queues, QueuesHoldQueued
  <2>3. CASE f = g
    <3>1. serving = {} /\ waiting[f] # <<>> /\ waiting'[f] = Tail(waiting[f])
      BY <1>6, <2>3 DEF Starts, Busy
    <3>2. PICK v \in {"running", "ok", "error"} : state' = [state EXCEPT ![h] = v]
      BY <1>6 DEF Starts
    <3>3. states' = [states EXCEPT ![h] = v]
      BY <1>6, <2>1, <2>2, <2>3, <3>2 DEF Starts
    <3>4. serving' = IF v = "running" THEN {h} ELSE {}
      BY <1>6, <2>1, <2>2, <2>3, <3>1, <3>2 DEF Starts
    <3>5. JobQueueOf(f)!Start
      BY <2>3, <3>1, <3>3, <3>4 DEF JobQueueOf!Start, JobQueueOf!Answers
    <3> QED
      BY <3>5 DEF JobQueueOf!Next
  <2>4. CASE f # g
    BY <1>6, <2>1, <2>2, <2>4 DEF Starts
  <2> QED
    BY <2>3, <2>4
<1>7. ASSUME NEW g \in Pipelines, FlushFails(g)
      PROVE  \/ JobQueueOf(f)!Next
             \/ waiting'[f] = waiting[f] /\ UNCHANGED <<serving, states>>
  <2>1. CASE f = g
    <3>1. serving = {} /\ serving' = {} /\ waiting[f] # <<>> /\ waiting'[f] = <<>>
      BY <1>7, <2>1 DEF FlushFails, Busy
    <3>2. states' = [t \in Tasks |-> IF states[t] = "queued" THEN "error" ELSE states[t]]
      BY <1>7, <2>1 DEF FlushFails
    <3>3. JobQueueOf(f)!RefuseAll
      BY <3>1, <3>2 DEF JobQueueOf!RefuseAll
    <3> QED
      BY <3>3 DEF JobQueueOf!Next
  <2>2. CASE f # g
    BY <1>7, <2>2 DEF FlushFails
  <2> QED
    BY <2>1, <2>2
<1> QED
  BY <1>1, <1>2, <1>3, <1>4, <1>5, <1>6, <1>7, KindsOfSteps

(* Each pipeline, also a superseded one, serves what the manager gives it  *)
(* in order, one task at a time, and answers each task once.               *)
THEOREM QueuesCorrect == Spec => PipelinesAreJobQueues
<1>1. ManagerInv /\ [Next]_vars =>
        [\A g \in Pipelines : [JobQueueOf(g)!Next]_(JobQueueOf(g)!jobVars)]_vars
  BY QueuesNext DEF ManagerInv
<1> QED
  BY QueuesInit, <1>1, ManagerInvCorrect, PTL DEF Spec, PipelinesAreJobQueues
=============================================================================
