------------------------ MODULE BuildPipeline_proofs ------------------------
(***************************************************************************)
(* Theorems about BuildPipeline that hold for every set of stages, tasks   *)
(* and phases and every choice of the other constants.  First the types.   *)
(* Then the queue: one operation is worked on at a time, what waits is in  *)
(* the queue, a timeout that starts it is never forgotten, and the         *)
(* pipeline as a whole implements JobQueue.  Then the tasks: what the      *)
(* callbacks of an operation take for granted about its task, and what     *)
(* becomes of the phases clients request.                                  *)
(***************************************************************************)
EXTENDS BuildPipeline, FiniteSetTheorems, SequenceTheorems, TLAPS

-----------------------------------------------------------------------------
(* The order of the entries. *)

(* pipeline_entry_compare never puts two stages before each other. *)
LEMMA BeforeIsAsymmetric ==
  ASSUME NEW a \in Stages, NEW b \in Stages, Before(a, b)
  PROVE  ~Before(b, a) /\ a # b
BY StagesAssumption DEF Before

LEMMA BeforeIsTransitive ==
  ASSUME NEW a \in Stages, NEW b \in Stages, NEW c \in Stages,
         Before(a, b), Before(b, c)
  PROVE  Before(a, c)
BY StagesAssumption DEF Before

(* A set of stages that is not empty has a first one: the walk over the    *)
(* entries always finds the one to execute next.                           *)
LEMMA FirstExists ==
  ASSUME NEW S \in SUBSET Stages, S # {}
  PROVE  First(S) \in S /\ \A x \in S \ {First(S)} : Before(First(S), x)
<1> DEFINE Down(s) == {x \in S : Before(x, s)}
           Downs == {Down(s) : s \in S}
<1>1. IsWellFoundedOn(StrictSubsetOrdering(Stages), SUBSET Stages)
  <2>1. FiniteSubsetsOf(Stages) = SUBSET Stages
    BY StagesAssumption, FS_FiniteSubsetsOfFinite
  <2> QED
    BY <2>1, FS_StrictSubsetOrderingWellFounded
<1>2. Downs \subseteq SUBSET Stages /\ Downs # {}
  OBVIOUS
<1>3. PICK D \in Downs : \A E \in Downs : <<E, D>> \notin StrictSubsetOrdering(Stages)
  BY <1>1, <1>2, WFMin
<1>4. PICK s \in S : D = Down(s)
  OBVIOUS
<1>5. ASSUME NEW y \in S, Before(y, s)
      PROVE  FALSE
  <2>1. Down(y) \subseteq Down(s)
    BY <1>5, BeforeIsTransitive
  <2>2. y \in Down(s) /\ y \notin Down(y)
    BY <1>5, BeforeIsAsymmetric
  <2>3. <<Down(y), Down(s)>> \in StrictSubsetOrdering(Stages)
    BY <2>1, <2>2 DEF StrictSubsetOrdering
  <2> QED
    BY <2>3, <1>3, <1>4
<1>6. \A x \in S \ {s} : Before(s, x)
  BY <1>5, KeysAssumption
<1> QED
  BY <1>6 DEF First

(* Likewise it has a last one: the walk of a clean goes down to it. *)
LEMMA LastExists ==
  ASSUME NEW S \in SUBSET Stages, S # {}
  PROVE  Last(S) \in S /\ \A x \in S \ {Last(S)} : Before(x, Last(S))
<1> DEFINE Up(s) == {x \in S : Before(s, x)}
           Ups == {Up(s) : s \in S}
<1>1. IsWellFoundedOn(StrictSubsetOrdering(Stages), SUBSET Stages)
  <2>1. FiniteSubsetsOf(Stages) = SUBSET Stages
    BY StagesAssumption, FS_FiniteSubsetsOfFinite
  <2> QED
    BY <2>1, FS_StrictSubsetOrderingWellFounded
<1>2. Ups \subseteq SUBSET Stages /\ Ups # {}
  OBVIOUS
<1>3. PICK U \in Ups : \A E \in Ups : <<E, U>> \notin StrictSubsetOrdering(Stages)
  BY <1>1, <1>2, WFMin
<1>4. PICK s \in S : U = Up(s)
  OBVIOUS
<1>5. ASSUME NEW y \in S, Before(s, y)
      PROVE  FALSE
  <2>1. Up(y) \subseteq Up(s)
    BY <1>5, BeforeIsTransitive
  <2>2. y \in Up(s) /\ y \notin Up(y)
    BY <1>5, BeforeIsAsymmetric
  <2>3. <<Up(y), Up(s)>> \in StrictSubsetOrdering(Stages)
    BY <2>1, <2>2 DEF StrictSubsetOrdering
  <2> QED
    BY <2>3, <1>3, <1>4
<1>6. \A x \in S \ {s} : Before(x, s)
  BY <1>5, KeysAssumption
<1> QED
  BY <1>6 DEF Last

-----------------------------------------------------------------------------
(* Types. *)

LEMMA IndexOfType ==
  ASSUME TypeOK, NEW s
  PROVE  IndexOf(s) \in Nat /\ Cardinality(connected) \in Nat
<1>1. IsFiniteSet(connected) /\ IsFiniteSet({x \in connected : Before(x, s)})
  BY StagesAssumption, FS_Subset DEF TypeOK
<1> QED
  BY <1>1, FS_CardinalityType DEF IndexOf

LEMMA SetCompletedType ==
  ASSUME NEW comp \in [Stages -> BOOLEAN], NEW binds, NEW S, NEW v \in BOOLEAN
  PROVE  SetCompleted(comp, binds, S, v) \in [Stages -> BOOLEAN]
BY DEF SetCompleted

(* The types of what every step of an operation assigns ... *)
FlowTypes ==
  /\ connected \subseteq Stages /\ retired \subseteq Stages
  /\ addins \in BOOLEAN
  /\ busy \in BOOLEAN /\ failed \in BOOLEAN /\ activity \in Activities
  /\ flushes \in Nat
  /\ state \in [Tasks -> {"new", "queued", "running", "ok", "error"}]
  /\ asked \in [Tasks -> 0..NPhases] /\ lapsed \in BOOLEAN
  /\ present \in [Tasks -> SUBSET Stages]

(* ... of what is also reset when it ends ... *)
GoalTypes ==
  /\ requested \in 0..NPhases
  /\ current \in Stages \cup {None}
  /\ toClean \in [Tasks -> SUBSET Stages]

(* ... and of what the execution of stages assigns. *)
WalkTypes ==
  /\ completed \in [Stages -> BOOLEAN]
  /\ bindings \subseteq Stages \X Stages
  /\ position \in Int /\ chained \subseteq Stages /\ stale \subseteq Stages

RestTypes ==
  /\ ready \in BOOLEAN /\ loads \in 0..MaxLoads
  /\ unbinds \in BOOLEAN /\ queue \in Seq(Tasks)
  /\ phase \in [Tasks -> 0..NPhases] /\ cancelled \subseteq Tasks
  /\ ran \in [Stages -> {"never", "earlier", "now"}] /\ reshaped \in BOOLEAN

LEMMA TypeParts ==
  FlowTypes' /\ GoalTypes' /\ WalkTypes' /\ RestTypes' => TypeOK'
BY DEF TypeOK, FlowTypes, GoalTypes, WalkTypes, RestTypes

LEMMA TaskCompletedType ==
  ASSUME TypeOK, NEW t \in Tasks, NEW answer \in {"ok", "error"},
         NEW fail \in BOOLEAN, NEW pending \in Nat,
         TaskCompleted(t, answer, fail, pending)
  PROVE  FlowTypes' /\ GoalTypes'
<1>1. NPhases \in Nat
  BY StagesAssumption
<1>2. connected' \subseteq Stages /\ retired' \subseteq Stages
  BY DEF TypeOK, TaskCompleted
<1>3. addins' \in BOOLEAN /\ lapsed' \in BOOLEAN
  BY Zenon DEF TypeOK, TaskCompleted
<1>4. flushes' \in Nat
  BY DEF TypeOK, TaskCompleted, FlushesAfter
<1>5. busy' \in BOOLEAN /\ failed' \in BOOLEAN
  BY Zenon DEF TaskCompleted
<1>6. FlowTypes'
  BY <1>1, <1>2, <1>3, <1>4, <1>5 DEF TypeOK, TaskCompleted, FlowTypes, Activities
<1>7. GoalTypes'
  BY <1>1 DEF TypeOK, TaskCompleted, GoalTypes
<1> QED
  BY <1>6, <1>7

LEMMA TaskContinuesType ==
  ASSUME TypeOK, NEW t \in Tasks, NEW waitsFor \in Activities,
         NEW pending \in Nat, TaskContinues(t, waitsFor, pending)
  PROVE  FlowTypes'
BY DEF TypeOK, TaskContinues, FlowTypes, arrayVars

LEMMA WalkEndsType ==
  ASSUME TypeOK, NEW t \in Tasks, NEW answer \in {"ok", "error"},
         NEW comp \in [Stages -> BOOLEAN], NEW binds \in SUBSET (Stages \X Stages),
         NEW pos \in Int, NEW pending \in Nat,
         WalkEnds(t, answer, comp, binds, pos, pending)
  PROVE  FlowTypes' /\ GoalTypes' /\ WalkTypes'
<1>1. FlowTypes' /\ GoalTypes'
  BY TaskCompletedType DEF WalkEnds
<1>2. WalkTypes'
  BY DEF WalkEnds, WalkTypes, TypeOK
<1> QED
  BY <1>1, <1>2

LEMMA StartStageType ==
  ASSUME TypeOK, NEW t \in Tasks, NEW h \in Stages, NEW rest \in SUBSET Stages,
         NEW comp \in [Stages -> BOOLEAN], NEW binds \in SUBSET (Stages \X Stages),
         NEW pending \in Nat, StartStage(t, h, rest, comp, binds, pending)
  PROVE  FlowTypes' /\ current' \in Stages /\ WalkTypes'
<1>1. PICK q \in IF HasQuery(h) THEN Query[h] ELSE {"keep"} :
        /\ completed' = AfterQuery(q, h, comp, Linked(binds, h, rest))
        /\ TaskContinues(t, WaitsFor(q, completed'[h]), pending)
  BY DEF StartStage
<1>2. WaitsFor(q, completed'[h]) \in Activities
  BY DEF WaitsFor, Activities
<1>3. FlowTypes'
  BY <1>1, <1>2, TaskContinuesType
<1>4. completed' \in [Stages -> BOOLEAN]
  <2>1. SetCompleted(comp, Linked(binds, h, rest), {h}, TRUE) \in [Stages -> BOOLEAN]
    BY SetCompletedType
  <2>2. SetCompleted(comp, Linked(binds, h, rest), {h}, FALSE) \in [Stages -> BOOLEAN]
    BY SetCompletedType
  <2> QED
    BY <1>1, <2>1, <2>2 DEF AfterQuery
<1>5. bindings' \subseteq Stages \X Stages
  BY DEF StartStage, Linked
<1>6. position' \in Int
  BY IndexOfType DEF StartStage, PositionAfter
<1> QED
  BY <1>3, <1>4, <1>5, <1>6 DEF StartStage, WalkTypes, TypeOK

LEMMA TickExecuteType ==
  ASSUME TypeOK, NEW t \in Tasks, NEW comp \in [Stages -> BOOLEAN],
         NEW binds \in SUBSET (Stages \X Stages), NEW pos \in Int,
         NEW pending \in Nat, TickExecute(t, comp, binds, pos, pending)
  PROVE  FlowTypes' /\ GoalTypes' /\ WalkTypes'
<1> DEFINE goal == Later(requested, phase[t])
           todo == Remaining(goal, pos)
           next == First(todo)
<1>1. CASE \E answer \in {"ok", "error"}, end \in {pos, Later(pos + 1, Cardinality(connected))} :
              WalkEnds(t, answer, comp, binds, end, pending)
  <2>1. Later(pos + 1, Cardinality(connected)) \in Int
    BY IndexOfType DEF Later
  <2> QED
    BY <1>1, <2>1, WalkEndsType
<1>2. CASE /\ todo # {} /\ StartStage(t, next, ChainedTo(next, todo), comp, binds, pending)
           /\ requested' = goal /\ UNCHANGED toClean
  <2>1. todo \in SUBSET Stages
    BY DEF TypeOK, Remaining
  <2>2. next \in Stages
    BY <1>2, <2>1, FirstExists
  <2>3. ChainedTo(next, todo) \in SUBSET Stages
    BY <2>1 DEF ChainedTo
  <2>4. FlowTypes' /\ current' \in Stages /\ WalkTypes'
    BY <1>2, <2>2, <2>3, StartStageType
  <2>5. goal \in 0..NPhases
    BY DEF TypeOK, Later
  <2>6. GoalTypes'
    BY <1>2, <2>4, <2>5 DEF TypeOK, GoalTypes
  <2> QED
    BY <2>4, <2>6
<1> QED
  BY <1>1, <1>2 DEF TickExecute

LEMMA StageExecutedType ==
  ASSUME TypeOK, NEW t \in Tasks, NEW comp \in [Stages -> BOOLEAN],
         NEW ok \in BOOLEAN, StageExecuted(t, comp, ok)
  PROVE  FlowTypes' /\ GoalTypes' /\ WalkTypes' /\ unbinds' \in BOOLEAN
         /\ ran' \in [Stages -> {"never", "earlier", "now"}]
<1> DEFINE after == SetCompleted(comp, bindings, {current}, ok)
           binds == IF unbinds THEN bindings \ ({current} \X chained) ELSE bindings
<1>1. after \in [Stages -> BOOLEAN]
  BY SetCompletedType
<1>2. binds \in SUBSET (Stages \X Stages)
  BY DEF TypeOK
<1>3. unbinds' \in BOOLEAN /\ ran' \in [Stages -> {"never", "earlier", "now"}]
  <2>1. unbinds' \in BOOLEAN
    BY Zenon DEF StageExecuted
  <2>2. CASE ok
    BY <2>2 DEF StageExecuted, TypeOK
  <2>3. CASE ~ok
    BY <2>3 DEF StageExecuted, TypeOK
  <2> QED
    BY <2>1, <2>2, <2>3
<1>4. position \in Int /\ flushes \in Nat
  BY DEF TypeOK
<1>5. CASE ok
  <2>1. TickExecute(t, after, binds, position, flushes)
    BY <1>5 DEF StageExecuted
  <2> QED
    BY <1>1, <1>2, <1>3, <1>4, <2>1, TickExecuteType
<1>6. CASE ~ok
  <2>1. /\ TaskCompleted(t, "error", TRUE, flushes)
        /\ completed' = after /\ bindings' = binds /\ chained' = {}
        /\ UNCHANGED <<position, stale>>
    BY <1>6 DEF StageExecuted
  <2>2. FlowTypes' /\ GoalTypes'
    BY <2>1, <1>4, TaskCompletedType
  <2>3. WalkTypes'
    BY <2>1, <1>1, <1>2 DEF WalkTypes, TypeOK
  <2> QED
    BY <1>3, <2>2, <2>3
<1> QED
  BY <1>5, <1>6

LEMMA TickCleanType ==
  ASSUME TypeOK, NEW t \in Tasks, NEW left \in SUBSET Stages,
         NEW pending \in Nat, TickClean(t, left, pending)
  PROVE  FlowTypes' /\ GoalTypes' /\ completed' \in [Stages -> BOOLEAN]
<1>1. CASE left = {}
  <2>1. PICK answer \in {"ok", "error"} :
          TaskCompleted(t, answer, FALSE, pending) /\ UNCHANGED completed
    BY <1>1 DEF TickClean
  <2> QED
    BY <2>1, TaskCompletedType DEF TypeOK
<1>2. CASE left # {}
  <2>1. Last(left) \in Stages
    BY <1>2, LastExists
  <2>2. TaskContinues(t, "cleaning", pending)
    BY <1>2 DEF TickClean
  <2>3. FlowTypes'
    BY <2>2, TaskContinuesType DEF Activities
  <2>4. GoalTypes'
    BY <1>2, <2>1 DEF TickClean, GoalTypes, TypeOK
  <2>5. SetCompleted(completed, bindings, {Last(left)}, FALSE) \in [Stages -> BOOLEAN]
    BY SetCompletedType DEF TypeOK
  <2> QED
    BY <1>2, <2>3, <2>4, <2>5 DEF TickClean, TypeOK
<1> QED
  BY <1>1, <1>2

LEMMA TickRebuildType ==
  ASSUME TypeOK, NEW t \in Tasks, NEW pending \in Nat, TickRebuild(t, pending)
  PROVE  FlowTypes' /\ GoalTypes' /\ completed' \in [Stages -> BOOLEAN]
<1>1. FlowTypes'
  BY TaskContinuesType DEF TickRebuild, Activities
<1>2. GoalTypes'
  BY DEF TickRebuild, GoalTypes, TypeOK
<1>3. completed' \in [Stages -> BOOLEAN]
  BY SetCompletedType DEF TickRebuild, TypeOK
<1> QED
  BY <1>1, <1>2, <1>3

LEMMA EnqueueType ==
  ASSUME TypeOK, NEW t \in Tasks, Enqueue(t) \/ AnswerAtOnce(t)
  PROVE  /\ queue' \in Seq(Tasks) /\ flushes' \in Nat
         /\ state' \in [Tasks -> {"new", "queued", "running", "ok", "error"}]
<1>1. CASE Enqueue(t)
  BY <1>1 DEF TypeOK, Enqueue
<1>2. CASE AnswerAtOnce(t)
  BY <1>2 DEF TypeOK, AnswerAtOnce
<1> QED
  BY <1>1, <1>2

-----------------------------------------------------------------------------
LEMMA InitType == Init => TypeOK
<1> SUFFICES ASSUME Init PROVE TypeOK
  OBVIOUS
<1>1. NPhases \in Nat /\ MaxLoads \in Nat
  BY StagesAssumption
<1>2. addins \in BOOLEAN /\ ready \in BOOLEAN /\ busy \in BOOLEAN /\ failed \in BOOLEAN
      /\ unbinds \in BOOLEAN /\ reshaped \in BOOLEAN /\ lapsed \in BOOLEAN
  BY Zenon DEF Init
<1>3. loads \in 0..MaxLoads
  BY <1>1 DEF Init
<1> QED
  BY <1>1, <1>2, <1>3 DEF Init, TypeOK, Activities

LEMMA NextType == TypeOK /\ [Next]_vars => TypeOK'
<1> SUFFICES ASSUME TypeOK, [Next]_vars PROVE TypeOK'
  OBVIOUS
<1>0. NPhases \in Nat /\ MaxLoads \in Nat
  BY StagesAssumption
<1> USE DEF arrayVars, stageVars, workVars, taskVars, ghostVars
<1>1. ASSUME NEW t \in Tasks, NEW p \in 1..NPhases, RequestPhase(t, p)
      PROVE  TypeOK'
  <2>1. requested' \in 0..NPhases /\ asked' \in [Tasks -> 0..NPhases]
    BY <1>0, <1>1 DEF RequestPhase, TypeOK, Later
  <2> QED
    BY <1>1, <2>1 DEF RequestPhase, TypeOK
<1>2. ASSUME NEW t \in Tasks, NEW p \in 1..NPhases, CleanAsync(t, p)
      PROVE  TypeOK'
  <2>1. Enqueue(t) \/ AnswerAtOnce(t)
    BY <1>2 DEF CleanAsync
  <2>2. toClean' \in [Tasks -> SUBSET Stages]
    BY <1>2 DEF CleanAsync, Affected, TypeOK
  <2> QED
    BY <1>0, <1>2, <2>1, <2>2, EnqueueType DEF CleanAsync, TypeOK
<1>3. ASSUME NEW t \in Tasks, NEW p \in 0..NPhases, RebuildAsync(t, p)
      PROVE  TypeOK'
  BY <1>0, <1>3, EnqueueType DEF RebuildAsync, TypeOK
<1>4. ASSUME NEW t \in Tasks, ExecuteAsync(t)
      PROVE  TypeOK'
  <2>1. Enqueue(t) \/ AnswerAtOnce(t)
    BY <1>4 DEF ExecuteAsync
  <2> QED
    BY <1>0, <1>4, <2>1, EnqueueType DEF ExecuteAsync, TypeOK
<1>5. ASSUME NEW t \in Tasks, Cancel(t)
      PROVE  TypeOK'
  BY <1>5 DEF Cancel, TypeOK
<1>6. ASSUME NEW t \in Tasks, Unpause(t)
      PROVE  TypeOK'
  <2>1. PICK comp \in {completed} \cup {SetCompleted(completed, bindings, {current}, v) : v \in BOOLEAN} :
          \/ comp[current] /\ StageExecuted(t, comp, t \notin cancelled)
          \/ /\ ~comp[current] /\ completed' = comp
             /\ TaskContinues(t, "executing", flushes)
             /\ UNCHANGED <<bindings, position, requested, current, chained, unbinds,
                            toClean, ran, stale>>
    BY <1>6 DEF Unpause
  <2>2. comp \in [Stages -> BOOLEAN]
    <3>1. completed \in [Stages -> BOOLEAN]
      BY DEF TypeOK
    <3>2. \A v \in BOOLEAN : SetCompleted(completed, bindings, {current}, v) \in [Stages -> BOOLEAN]
      BY <3>1, SetCompletedType
    <3> QED
      BY <2>1, <3>1, <3>2
  <2>3. CASE StageExecuted(t, comp, t \notin cancelled)
    <3>1. FlowTypes' /\ GoalTypes' /\ WalkTypes' /\ unbinds' \in BOOLEAN
          /\ ran' \in [Stages -> {"never", "earlier", "now"}]
      BY <2>2, <2>3, StageExecutedType
    <3>2. RestTypes'
      BY <1>6, <3>1 DEF Unpause, TypeOK, RestTypes
    <3> QED
      BY <3>1, <3>2, TypeParts
  <2>4. CASE /\ completed' = comp /\ TaskContinues(t, "executing", flushes)
             /\ UNCHANGED <<bindings, position, requested, current, chained, unbinds,
                            toClean, ran, stale>>
    <3>1. FlowTypes'
      BY <2>4, TaskContinuesType DEF TypeOK, Activities
    <3> QED
      BY <1>6, <2>2, <2>4, <3>1 DEF Unpause, TypeOK, FlowTypes
  <2> QED
    BY <2>1, <2>3, <2>4
<1>7. ASSUME NEW t \in Tasks, StageReturns(t)
      PROVE  TypeOK'
  <2>1. PICK ok \in BOOLEAN : StageExecuted(t, completed, ok)
    BY <1>7 DEF StageReturns
  <2>2. FlowTypes' /\ GoalTypes' /\ WalkTypes' /\ unbinds' \in BOOLEAN
        /\ ran' \in [Stages -> {"never", "earlier", "now"}]
    BY <2>1, StageExecutedType DEF TypeOK
  <2>3. RestTypes'
    BY <1>7, <2>2 DEF StageReturns, TypeOK, RestTypes
  <2> QED
    BY <2>2, <2>3, TypeParts
<1>8. ASSUME NEW t \in Tasks, CleanReturns(t)
      PROVE  TypeOK'
  <2>1. FlowTypes' /\ GoalTypes' /\ completed' \in [Stages -> BOOLEAN]
    <3>1. CASE TaskCompleted(t, "error", FALSE, flushes) /\ UNCHANGED completed
      BY <3>1, TaskCompletedType DEF TypeOK
    <3>2. CASE TickClean(t, toClean[t] \ {current}, flushes)
      BY <3>2, TickCleanType DEF TypeOK
    <3> QED
      BY <1>8, <3>1, <3>2 DEF CleanReturns
  <2>2. RestTypes' /\ WalkTypes'
    BY <1>8, <2>1 DEF CleanReturns, TypeOK, RestTypes, WalkTypes
  <2> QED
    BY <2>1, <2>2, TypeParts
<1>9. ASSUME NEW t \in Tasks, ReapReturns(t)
      PROVE  TypeOK'
  <2>1. FlowTypes' /\ GoalTypes' /\ WalkTypes'
    <3>1. CASE /\ \E answer \in {"ok", "error"} : TaskCompleted(t, answer, FALSE, flushes)
               /\ UNCHANGED <<stageVars, position, chained, stale>>
      BY <3>1, TaskCompletedType DEF TypeOK, WalkTypes
    <3>2. CASE TickExecute(t, completed, bindings, position, flushes)
      BY <3>2, TickExecuteType DEF TypeOK
    <3> QED
      BY <1>9, <3>1, <3>2 DEF ReapReturns
  <2>2. RestTypes'
    BY <1>9 DEF ReapReturns, TypeOK, RestTypes
  <2> QED
    BY <2>1, <2>2, TypeParts
<1>10. ASSUME NEW ps \in Invalidations, InvalidatePhase(ps)
       PROVE  TypeOK'
  <2>1. completed' \in [Stages -> BOOLEAN]
    BY <1>10, SetCompletedType DEF InvalidatePhase, TypeOK
  <2> QED
    BY <1>10, <2>1 DEF InvalidatePhase, TypeOK
<1>11. ASSUME NEW s \in Stages, Connect(s) \/ Disconnect(s)
       PROVE  TypeOK'
  <2>1. reshaped' \in BOOLEAN
    BY <1>11, Zenon DEF Connect, Disconnect, Reshape, TypeOK
  <2> QED
    BY <1>11, <2>1 DEF Connect, Disconnect, Reshape, TypeOK
<1>12. ASSUME Load \/ Unload
       PROVE  TypeOK'
  <2>1. reshaped' \in BOOLEAN /\ ready' \in BOOLEAN /\ addins' \in BOOLEAN
    BY <1>12, Zenon DEF Load, Unload, Reshape, TypeOK
  <2>2. loads' \in 0..MaxLoads
    BY <1>0, <1>12 DEF Load, Unload, TypeOK
  <2>3. connected' \subseteq Stages /\ retired' \subseteq Stages
    BY <1>12 DEF Load, Unload, Reshape, TypeOK
  <2> QED
    BY <1>12, <2>1, <2>2, <2>3 DEF Load, Unload, Reshape, TypeOK
<1>13. ASSUME FlushNothing
       PROVE  TypeOK'
  BY <1>13 DEF FlushNothing, TypeOK
<1>14. ASSUME FlushFails
       PROVE  TypeOK'
  BY <1>14 DEF FlushFails, TypeOK
<1>15. ASSUME FlushStarts
       PROVE  TypeOK'
  <2> DEFINE t == Head(queue)
  <2>1. t \in Tasks /\ Tail(queue) \in Seq(Tasks) /\ flushes - 1 \in Nat
    BY <1>15 DEF FlushStarts, TypeOK
  <2>2. RestTypes'
    BY <1>15, <2>1 DEF FlushStarts, TypeOK, RestTypes
  <2>3. CASE TickExecute(t, completed, bindings, -1, flushes - 1)
    <3>1. completed \in [Stages -> BOOLEAN] /\ bindings \in SUBSET (Stages \X Stages)
      BY DEF TypeOK
    <3>2. FlowTypes' /\ GoalTypes' /\ WalkTypes'
      BY <2>1, <2>3, <3>1, TickExecuteType
    <3> QED
      BY <2>2, <3>2, TypeParts
  <2>4. CASE /\ TickClean(t, toClean[t], flushes - 1) \/ TickRebuild(t, flushes - 1)
             /\ position' = -1 /\ UNCHANGED <<bindings, chained, stale>>
    <3>1. FlowTypes' /\ GoalTypes' /\ completed' \in [Stages -> BOOLEAN]
      BY <2>1, <2>4, TickCleanType, TickRebuildType DEF TypeOK
    <3>2. WalkTypes'
      BY <2>4, <3>1 DEF TypeOK, WalkTypes
    <3> QED
      BY <2>2, <3>1, <3>2, TypeParts
  <2> QED
    BY <1>15, <2>3, <2>4 DEF FlushStarts
<1>16. CASE UNCHANGED vars
  BY <1>16 DEF vars, TypeOK
<1> QED
  BY <1>1, <1>2, <1>3, <1>4, <1>5, <1>6, <1>7, <1>8, <1>9, <1>10, <1>11, <1>12, <1>13, <1>14,
     <1>15, <1>16 DEF Next, Callback, DoFlush

(* Every variable keeps its type, for any stages, tasks and phases. *)
THEOREM TypeCorrect == Spec => []TypeOK
BY InitType, NextType, PTL DEF Spec

-----------------------------------------------------------------------------
(* The queue. *)


Answers == {"ok", "error"}

(* What a step of the operation on task t may do to the queue's variables: *)
(* the task is answered, or waits for another callback.                    *)
TaskEnds(t, pending) ==
  \E answer \in Answers, fail \in BOOLEAN : TaskCompleted(t, answer, fail, pending)

TaskGoesOn(t, pending) ==
  \E waitsFor \in Activities \ {"idle"} : TaskContinues(t, waitsFor, pending)

Worked(t, pending) == TaskEnds(t, pending) \/ TaskGoesOn(t, pending)

FlushWorks ==
  /\ flushes > 0 /\ ~busy /\ queue # <<>>
  /\ queue' = Tail(queue)
  /\ Worked(Head(queue), flushes - 1)

CallbackWorks(t) ==
  /\ Running(t)
  /\ UNCHANGED queue
  /\ Worked(t, flushes)

Accepts(t) ==
  /\ state[t] = "new"
  /\ Enqueue(t) \/ AnswerAtOnce(t)
  /\ UNCHANGED <<busy, activity, lapsed>>

Elsewhere == UNCHANGED <<queue, flushes, state, busy, activity, lapsed>>

-----------------------------------------------------------------------------
LEMMA WalkEndsWorks ==
  ASSUME NEW t, NEW answer \in Answers, NEW comp, NEW binds, NEW pos, NEW pending,
         WalkEnds(t, answer, comp, binds, pos, pending)
  PROVE  Worked(t, pending)
<1>1. TaskCompleted(t, answer, FALSE, pending)
  BY DEF WalkEnds
<1> QED
  BY <1>1 DEF Worked, TaskEnds

LEMMA StartStageWorks ==
  ASSUME NEW t, NEW h, NEW rest, NEW comp, NEW binds, NEW pending,
         StartStage(t, h, rest, comp, binds, pending)
  PROVE  Worked(t, pending)
<1>1. PICK q : TaskContinues(t, WaitsFor(q, completed'[h]), pending)
  BY DEF StartStage
<1>2. WaitsFor(q, completed'[h]) \in Activities \ {"idle"}
  BY DEF WaitsFor, Activities
<1> QED
  BY <1>1, <1>2 DEF Worked, TaskGoesOn

LEMMA TickExecuteWorks ==
  ASSUME NEW t, NEW comp, NEW binds, NEW pos, NEW pending,
         TickExecute(t, comp, binds, pos, pending)
  PROVE  Worked(t, pending)
<1> DEFINE goal == Later(requested, phase[t])
           todo == Remaining(goal, pos)
           next == First(todo)
<1>1. CASE \E answer \in Answers : \E end : WalkEnds(t, answer, comp, binds, end, pending)
  BY <1>1, WalkEndsWorks
<1>2. CASE StartStage(t, next, ChainedTo(next, todo), comp, binds, pending)
  BY <1>2, StartStageWorks
<1> QED
  BY <1>1, <1>2 DEF TickExecute, Answers

LEMMA TickCleanWorks ==
  ASSUME NEW t, NEW left, NEW pending, TickClean(t, left, pending)
  PROVE  Worked(t, pending)
<1>1. CASE left = {}
  BY <1>1 DEF TickClean, Worked, TaskEnds, Answers
<1>2. CASE left # {}
  <2>1. TaskContinues(t, "cleaning", pending)
    BY <1>2 DEF TickClean
  <2> QED
    BY <2>1 DEF Worked, TaskGoesOn, Activities
<1> QED
  BY <1>1, <1>2

LEMMA TickRebuildWorks ==
  ASSUME NEW t, NEW pending, TickRebuild(t, pending)
  PROVE  Worked(t, pending)
BY DEF TickRebuild, Worked, TaskGoesOn, Activities

LEMMA StageExecutedWorks ==
  ASSUME NEW t, NEW comp, NEW ok \in BOOLEAN, StageExecuted(t, comp, ok)
  PROVE  Worked(t, flushes)
<1>1. CASE ok
  BY <1>1, TickExecuteWorks DEF StageExecuted
<1>2. CASE ~ok
  BY <1>2 DEF StageExecuted, Worked, TaskEnds, Answers
<1> QED
  BY <1>1, <1>2

LEMMA CallbackWorksOf ==
  ASSUME NEW t \in Tasks, Callback(t)
  PROVE  CallbackWorks(t)
<1> USE DEF arrayVars, stageVars, workVars, taskVars, ghostVars
<1>1. ASSUME Unpause(t)
      PROVE  CallbackWorks(t)
  <2>1. PICK comp : \/ StageExecuted(t, comp, t \notin cancelled)
                    \/ TaskContinues(t, "executing", flushes)
    BY <1>1, Zenon DEF Unpause
  <2>2. CASE StageExecuted(t, comp, t \notin cancelled)
    <3>1. (t \notin cancelled) \in BOOLEAN
      OBVIOUS
    <3> QED
      BY <1>1, <2>2, <3>1, StageExecutedWorks DEF Unpause, CallbackWorks
  <2>3. CASE TaskContinues(t, "executing", flushes)
    BY <1>1, <2>3 DEF Unpause, CallbackWorks, Worked, TaskGoesOn, Activities
  <2> QED
    BY <2>1, <2>2, <2>3
<1>2. ASSUME StageReturns(t)
      PROVE  CallbackWorks(t)
  <2>1. PICK ok \in BOOLEAN : StageExecuted(t, completed, ok)
    BY <1>2 DEF StageReturns
  <2> QED
    BY <1>2, <2>1, StageExecutedWorks DEF StageReturns, CallbackWorks
<1>3. ASSUME CleanReturns(t)
      PROVE  CallbackWorks(t)
  <2>1. CASE TaskCompleted(t, "error", FALSE, flushes)
    BY <1>3, <2>1 DEF CleanReturns, CallbackWorks, Worked, TaskEnds, Answers
  <2>2. CASE TickClean(t, toClean[t] \ {current}, flushes)
    BY <1>3, <2>2, TickCleanWorks DEF CleanReturns, CallbackWorks
  <2> QED
    BY <1>3, <2>1, <2>2 DEF CleanReturns
<1>4. ASSUME ReapReturns(t)
      PROVE  CallbackWorks(t)
  <2>1. CASE \E answer \in Answers : TaskCompleted(t, answer, FALSE, flushes)
    BY <1>4, <2>1 DEF ReapReturns, CallbackWorks, Worked, TaskEnds
  <2>2. CASE TickExecute(t, completed, bindings, position, flushes)
    BY <1>4, <2>2, TickExecuteWorks DEF ReapReturns, CallbackWorks
  <2> QED
    BY <1>4, <2>1, <2>2 DEF ReapReturns, Answers
<1> QED
  BY <1>1, <1>2, <1>3, <1>4 DEF Callback

(* Every step is one of a few kinds, as far as the queue is concerned. *)
LEMMA KindsOfSteps ==
  ASSUME [Next]_vars
  PROVE  \/ Elsewhere
         \/ \E t \in Tasks : Accepts(t)
         \/ FlushNothing \/ FlushFails \/ FlushWorks
         \/ \E t \in Tasks : CallbackWorks(t)
<1> USE DEF arrayVars, stageVars, workVars, taskVars, ghostVars
<1>1. ASSUME NEW t \in Tasks, NEW p, RequestPhase(t, p)
      PROVE  Elsewhere
  BY <1>1 DEF RequestPhase, Elsewhere
<1>2. ASSUME NEW t \in Tasks, NEW p, CleanAsync(t, p)
      PROVE  Accepts(t)
  BY <1>2 DEF CleanAsync, Accepts
<1>3. ASSUME NEW t \in Tasks, NEW p, RebuildAsync(t, p)
      PROVE  Accepts(t)
  BY <1>3 DEF RebuildAsync, Accepts
<1>4. ASSUME NEW t \in Tasks, ExecuteAsync(t)
      PROVE  Accepts(t)
  BY <1>4 DEF ExecuteAsync, Accepts
<1>5. ASSUME NEW t \in Tasks, Cancel(t)
      PROVE  Elsewhere
  BY <1>5 DEF Cancel, Elsewhere
<1>6. ASSUME NEW t \in Tasks, Callback(t)
      PROVE  CallbackWorks(t)
  BY <1>6, CallbackWorksOf
<1>7. ASSUME NEW ps, InvalidatePhase(ps)
       PROVE  Elsewhere
  BY <1>7 DEF InvalidatePhase, Elsewhere
<1>8. ASSUME NEW now, Reshape(now)
       PROVE  Elsewhere
  BY <1>8 DEF Reshape, Elsewhere
<1>9. ASSUME FlushStarts
       PROVE  FlushWorks
  <2>1. Worked(Head(queue), flushes - 1)
    BY <1>9, TickExecuteWorks, TickCleanWorks, TickRebuildWorks DEF FlushStarts
  <2> QED
    BY <1>9, <2>1 DEF FlushStarts, FlushWorks
<1>10. CASE UNCHANGED vars
  BY <1>10 DEF vars, Elsewhere
<1> QED
  BY <1>1, <1>2, <1>3, <1>4, <1>5, <1>6, <1>7, <1>8, <1>9, <1>10
  DEF Next, DoFlush, Connect, Disconnect, Load, Unload

-----------------------------------------------------------------------------
(* What the two outcomes of a step of an operation do to these variables. *)
LEMMA WorkedState ==
  ASSUME TypeOK, NEW t \in Tasks, NEW pending \in Nat, Worked(t, pending)
  PROVE  \/ /\ TaskEnds(t, pending)
            /\ \E answer \in Answers : state' = [state EXCEPT ![t] = answer]
            /\ busy' = FALSE /\ activity' = "idle"
            /\ lapsed' \/ flushes' = pending + 1
         \/ /\ TaskGoesOn(t, pending)
            /\ state' = [state EXCEPT ![t] = "running"]
            /\ busy' = TRUE /\ activity' # "idle"
<1>1. CASE TaskEnds(t, pending)
  <2>1. PICK answer \in Answers, fail \in BOOLEAN : TaskCompleted(t, answer, fail, pending)
    BY <1>1 DEF TaskEnds
  <2>2. lapsed' \/ flushes' = pending + 1
    BY <2>1 DEF TaskCompleted, FlushesAfter
  <2>3. busy' = FALSE /\ activity' = "idle" /\ state' = [state EXCEPT ![t] = answer]
    BY <2>1 DEF TaskCompleted
  <2> QED
    BY <1>1, <2>2, <2>3
<1>2. CASE TaskGoesOn(t, pending)
  BY <1>2 DEF TaskGoesOn, TaskContinues
<1> QED
  BY <1>1, <1>2 DEF Worked

LEMMA HeadOfQueue ==
  ASSUME TypeOK, QueueHoldsWaiting, queue # <<>>
  PROVE  /\ Head(queue) \in Tasks /\ state[Head(queue)] = "queued"
         /\ Tail(queue) \in Seq(Tasks)
         /\ \A t \in Tasks : state[t] = "queued" /\ t # Head(queue)
               <=> \E i \in 1..Len(Tail(queue)) : Tail(queue)[i] = t
         /\ \A i, j \in 1..Len(Tail(queue)) : Tail(queue)[i] = Tail(queue)[j] => i = j
<1>1. queue \in Seq(Tasks) /\ Len(queue) \in Nat /\ Len(queue) > 0
  BY EmptySeq DEF TypeOK
<1>2. /\ Head(queue) = queue[1] /\ Head(queue) \in Tasks
      /\ Tail(queue) \in Seq(Tasks) /\ Len(Tail(queue)) = Len(queue) - 1
      /\ \A i \in 1..Len(Tail(queue)) : Tail(queue)[i] = queue[i + 1]
  BY <1>1, HeadTailProperties
<1>3. state[Head(queue)] = "queued"
  BY <1>1, <1>2 DEF QueueHoldsWaiting
<1>4. \A i, j \in 1..Len(Tail(queue)) : Tail(queue)[i] = Tail(queue)[j] => i = j
  BY <1>1, <1>2 DEF QueueHoldsWaiting
<1>5. ASSUME NEW t \in Tasks, state[t] = "queued", t # Head(queue)
      PROVE  \E i \in 1..Len(Tail(queue)) : Tail(queue)[i] = t
  <2>1. PICK i \in 1..Len(queue) : queue[i] = t
    BY <1>5 DEF QueueHoldsWaiting
  <2>2. i - 1 \in 1..Len(Tail(queue)) /\ i = (i - 1) + 1
    BY <1>1, <1>2, <1>5, <2>1
  <2> QED
    BY <1>2, <2>1, <2>2
<1>6. ASSUME NEW t \in Tasks, NEW i \in 1..Len(Tail(queue)), Tail(queue)[i] = t
      PROVE  state[t] = "queued" /\ t # Head(queue)
  <2>1. i + 1 \in 1..Len(queue) /\ queue[i + 1] = t
    BY <1>1, <1>2, <1>6
  <2>2. 1 \in 1..Len(queue) /\ i + 1 # 1
    BY <1>1, <1>2
  <2> QED
    BY <1>2, <2>1, <2>2 DEF QueueHoldsWaiting
<1> QED
  BY <1>2, <1>3, <1>4, <1>5, <1>6

(* The invariant that carries the properties of the queue. *)
QueueInv == SingleFlight /\ QueueHoldsWaiting /\ NoLostWakeup

LEMMA QueueInvInit == Init => QueueInv
BY DEF Init, QueueInv, SingleFlight, QueueHoldsWaiting, NoLostWakeup, Running

LEMMA QueueInvNext == TypeOK /\ QueueInv /\ [Next]_vars => QueueInv'
<1> SUFFICES ASSUME TypeOK, QueueInv, [Next]_vars PROVE QueueInv'
  OBVIOUS
<1> USE DEF QueueInv
<1>1. CASE Elsewhere
  BY <1>1 DEF Elsewhere, SingleFlight, QueueHoldsWaiting, NoLostWakeup, Running
<1>2. ASSUME NEW t \in Tasks, Accepts(t)
      PROVE  QueueInv'
  <2>1. \A u \in Tasks : Running(u)' <=> Running(u)
    BY <1>2 DEF Accepts, Enqueue, AnswerAtOnce, TypeOK, Running
  <2>2. SingleFlight'
    BY <1>2, <2>1 DEF Accepts, SingleFlight
  <2>3. CASE Enqueue(t)
    <3>1. /\ queue' \in Seq(Tasks) /\ Len(queue') = Len(queue) + 1 /\ Len(queue) \in Nat
          /\ \A i \in 1..Len(queue) : queue'[i] = queue[i]
          /\ queue'[Len(queue) + 1] = t
      BY <2>3, AppendProperties, LenProperties DEF Enqueue, TypeOK
    <3>2. \A i \in 1..Len(queue) : queue[i] # t
      BY <1>2 DEF Accepts, QueueHoldsWaiting
    <3>3. \A i, j \in 1..Len(queue') : queue'[i] = queue'[j] => i = j
      BY <3>1, <3>2 DEF QueueHoldsWaiting
    <3>4. \A u \in Tasks : state'[u] = "queued" <=> state[u] = "queued" \/ u = t
      BY <2>3 DEF Enqueue, TypeOK
    <3>5. \A u \in Tasks : (\E i \in 1..Len(queue') : queue'[i] = u)
                        <=> (\E i \in 1..Len(queue) : queue[i] = u) \/ u = t
      <4>1. \A i \in 1..Len(queue') : i \in 1..Len(queue) \/ i = Len(queue) + 1
        BY <3>1
      <4>2. 1..Len(queue) \subseteq 1..Len(queue') /\ Len(queue) + 1 \in 1..Len(queue')
        BY <3>1
      <4> QED
        BY <3>1, <4>1, <4>2
    <3>6. QueueHoldsWaiting'
      BY <3>3, <3>4, <3>5 DEF QueueHoldsWaiting
    <3>7. NoLostWakeup'
      BY <2>3 DEF Enqueue, NoLostWakeup, TypeOK
    <3> QED
      BY <2>2, <3>6, <3>7
  <2>4. CASE AnswerAtOnce(t)
    <3>1. \A u \in Tasks : state'[u] = "queued" <=> state[u] = "queued"
      BY <1>2, <2>4 DEF Accepts, AnswerAtOnce, TypeOK
    <3>2. QueueHoldsWaiting' /\ NoLostWakeup'
      BY <1>2, <2>4, <3>1 DEF Accepts, AnswerAtOnce, QueueHoldsWaiting, NoLostWakeup
    <3> QED
      BY <2>2, <3>2
  <2> QED
    BY <1>2, <2>3, <2>4 DEF Accepts
<1>3. CASE FlushNothing
  BY <1>3 DEF FlushNothing, SingleFlight, QueueHoldsWaiting, NoLostWakeup, Running,
     workVars, taskVars
<1>4. CASE FlushFails
  <2>1. \A t \in Tasks : state'[t] # "queued" /\ (Running(t)' <=> Running(t))
    BY <1>4 DEF FlushFails, TypeOK, Running
  <2>2. SingleFlight'
    BY <1>4, <2>1 DEF FlushFails, SingleFlight, workVars
  <2>3. queue' = <<>>
    BY <1>4 DEF FlushFails
  <2> QED
    BY <2>1, <2>2, <2>3 DEF QueueHoldsWaiting, NoLostWakeup
<1>5. CASE FlushWorks
  <2> DEFINE t == Head(queue)
  <2>1. t \in Tasks /\ state[t] = "queued" /\ flushes - 1 \in Nat
    BY <1>5, HeadOfQueue DEF FlushWorks, TypeOK
  <2>2. \A u \in Tasks : ~Running(u)
    BY <1>5 DEF FlushWorks, SingleFlight
  <2>3. Worked(t, flushes - 1)
    BY <1>5 DEF FlushWorks
  <2>4. \A u \in Tasks : u # t => state'[u] = state[u]
    BY <2>1, <2>3, WorkedState DEF TypeOK
  <2>5. \/ /\ \E answer \in Answers : state'[t] = answer
           /\ busy' = FALSE /\ activity' = "idle"
        \/ state'[t] = "running" /\ busy' = TRUE /\ activity' # "idle"
    BY <2>1, <2>3, WorkedState DEF TypeOK
  <2>6. SingleFlight'
    <3>1. CASE (\E answer \in Answers : state'[t] = answer) /\ busy' = FALSE /\ activity' = "idle"
      <4>1. \A u \in Tasks : ~Running(u)'
        BY <2>2, <2>4, <3>1 DEF Running, Answers
      <4> QED
        BY <3>1, <4>1 DEF SingleFlight
    <3>2. CASE state'[t] = "running" /\ busy' = TRUE /\ activity' # "idle"
      <4>1. \A u \in Tasks : Running(u)' <=> u = t
        BY <2>2, <2>4, <3>2 DEF Running
      <4> QED
        BY <2>1, <3>2, <4>1 DEF SingleFlight
    <3> QED
      BY <2>5, <3>1, <3>2
  <2>7. QueueHoldsWaiting'
    <3>1. \A u \in Tasks : state'[u] = "queued" <=> state[u] = "queued" /\ u # t
      BY <2>4, <2>5 DEF Answers
    <3>2. queue' = Tail(queue) /\ queue # <<>>
      BY <1>5 DEF FlushWorks
    <3> QED
      BY <3>1, <3>2, HeadOfQueue DEF QueueHoldsWaiting
  <2>8. NoLostWakeup'
    <3>1. lapsed' \/ flushes' = flushes - 1 + 1 \/ busy'
      BY <2>1, <2>3, WorkedState
    <3>2. flushes - 1 + 1 > 0
      BY <2>1
    <3> QED
      BY <3>1, <3>2 DEF NoLostWakeup
  <2> QED
    BY <2>6, <2>7, <2>8
<1>6. ASSUME NEW t \in Tasks, CallbackWorks(t)
      PROVE  QueueInv'
  <2>1. Running(t) /\ Worked(t, flushes) /\ queue' = queue /\ flushes \in Nat
    BY <1>6 DEF CallbackWorks, TypeOK
  <2>2. \A u \in Tasks : u # t => ~Running(u)
    BY <2>1 DEF SingleFlight
  <2>3. \A u \in Tasks : u # t => state'[u] = state[u]
    BY <2>1, WorkedState DEF TypeOK
  <2>4. state'[t] # "queued" /\ (Running(t)' <=> busy') /\ (busy' <=> activity' # "idle")
    BY <2>1, WorkedState DEF TypeOK, Running, Answers
  <2>5. SingleFlight'
    BY <2>2, <2>3, <2>4 DEF SingleFlight, Running
  <2>6. QueueHoldsWaiting'
    BY <2>1, <2>3, <2>4 DEF QueueHoldsWaiting, Running
  <2>7. NoLostWakeup'
    <3>1. lapsed' \/ flushes' = flushes + 1 \/ busy'
      BY <2>1, WorkedState
    <3>2. flushes + 1 > 0
      BY <2>1
    <3> QED
      BY <3>1, <3>2 DEF NoLostWakeup
  <2> QED
    BY <2>5, <2>6, <2>7
<1> QED
  BY <1>1, <1>2, <1>3, <1>4, <1>5, <1>6, KindsOfSteps

LEMMA QueueInvCorrect == Spec => []QueueInv
<1>1. TypeOK /\ QueueInv /\ [Next]_vars => QueueInv'
  BY QueueInvNext
<1> QED
  BY <1>1, QueueInvInit, TypeCorrect, PTL DEF Spec

(* One operation at a time: the busy bit is set exactly while one task runs. *)
THEOREM SingleFlightCorrect == Spec => []SingleFlight
BY QueueInvCorrect, PTL DEF QueueInv

(* The queue holds the accepted tasks that have not started, each once. *)
THEOREM QueueCorrect == Spec => []QueueHoldsWaiting
BY QueueInvCorrect, PTL DEF QueueInv

(* A task that waits while nothing is worked on has a timeout pending. *)
THEOREM WakeupCorrect == Spec => []NoLostWakeup
BY QueueInvCorrect, PTL DEF QueueInv

-----------------------------------------------------------------------------
(* Refinement. *)

Serving == {t \in Tasks : Running(t)}

LEMMA JobQueueInit == Init => JobQueue!Init
BY DEF Init, JobQueue!Init, Running

LEMMA JobQueueNext ==
  TypeOK /\ QueueInv /\ [Next]_vars => [JobQueue!Next]_(JobQueue!jobVars)
<1> SUFFICES ASSUME TypeOK, QueueInv, [Next]_vars
             PROVE  JobQueue!Next \/ UNCHANGED <<queue, Serving, state>>
  BY DEF JobQueue!jobVars, Serving
<1> USE DEF JobQueue!Answers, Answers
<1>1. CASE Elsewhere
  BY <1>1 DEF Elsewhere, Serving, Running
<1>2. ASSUME NEW t \in Tasks, Accepts(t)
      PROVE  JobQueue!Next
  <2>1. Serving' = Serving
    BY <1>2 DEF Accepts, Enqueue, AnswerAtOnce, TypeOK, Serving, Running
  <2>2. CASE Enqueue(t)
    <3>1. JobQueue!Accept(t)
      BY <1>2, <2>1, <2>2 DEF Accepts, Enqueue, JobQueue!Accept, Serving
    <3> QED
      BY <3>1 DEF JobQueue!Next
  <2>3. CASE AnswerAtOnce(t)
    <3>1. JobQueue!AnswerAtOnce(t)
      BY <1>2, <2>1, <2>3 DEF Accepts, AnswerAtOnce, JobQueue!AnswerAtOnce, Serving
    <3> QED
      BY <3>1 DEF JobQueue!Next
  <2> QED
    BY <1>2, <2>2, <2>3 DEF Accepts
<1>3. CASE FlushNothing
  BY <1>3 DEF FlushNothing, taskVars, Serving, Running
<1>4. CASE FlushFails
  <2>1. Serving = {} /\ Serving' = {}
    BY <1>4 DEF FlushFails, QueueInv, SingleFlight, Serving, Running, TypeOK
  <2>2. JobQueue!RefuseAll
    BY <1>4, <2>1 DEF FlushFails, JobQueue!RefuseAll, Serving
  <2> QED
    BY <2>2 DEF JobQueue!Next
<1>5. CASE FlushWorks
  <2> DEFINE t == Head(queue)
  <2>1. t \in Tasks /\ state[t] = "queued" /\ flushes - 1 \in Nat
    BY <1>5, HeadOfQueue DEF FlushWorks, TypeOK, QueueInv
  <2>2. Serving = {}
    BY <1>5 DEF FlushWorks, QueueInv, SingleFlight, Serving
  <2>3. \/ \E answer \in Answers : state' = [state EXCEPT ![t] = answer]
        \/ state' = [state EXCEPT ![t] = "running"]
    BY <1>5, <2>1, WorkedState DEF FlushWorks
  <2>4. queue # <<>> /\ queue' = Tail(queue)
    BY <1>5 DEF FlushWorks
  <2>5. CASE \E answer \in Answers : state' = [state EXCEPT ![t] = answer]
    <3>1. Serving' = {}
      BY <2>1, <2>2, <2>5 DEF Serving, Running, TypeOK
    <3> QED
      BY <2>2, <2>4, <2>5, <3>1 DEF JobQueue!Next, JobQueue!Start, Serving
  <2>6. CASE state' = [state EXCEPT ![t] = "running"]
    <3>1. Serving' = {t}
      BY <2>1, <2>2, <2>6 DEF Serving, Running, TypeOK
    <3> QED
      BY <2>2, <2>4, <2>6, <3>1 DEF JobQueue!Next, JobQueue!Start, Serving
  <2> QED
    BY <2>3, <2>5, <2>6
<1>6. ASSUME NEW t \in Tasks, CallbackWorks(t)
      PROVE  JobQueue!Next \/ UNCHANGED <<queue, Serving, state>>
  <2>1. Running(t) /\ Worked(t, flushes) /\ queue' = queue /\ flushes \in Nat
    BY <1>6 DEF CallbackWorks, TypeOK
  <2>2. Serving = {t}
    BY <2>1 DEF QueueInv, SingleFlight, Serving
  <2>3. CASE \E answer \in Answers : state' = [state EXCEPT ![t] = answer]
    <3>1. Serving' = {}
      BY <2>2, <2>3 DEF Serving, Running, TypeOK
    <3>2. JobQueue!Finish(t)
      BY <2>1, <2>2, <2>3, <3>1 DEF JobQueue!Finish, Serving
    <3> QED
      BY <3>2 DEF JobQueue!Next
  <2>4. CASE state' = [state EXCEPT ![t] = "running"]
    <3>1. state' = state
      BY <2>1, <2>4 DEF Running, TypeOK
    <3> QED
      BY <2>1, <3>1 DEF Serving, Running
  <2> QED
    BY <2>1, <2>3, <2>4, WorkedState
<1> QED
  BY <1>1, <1>2, <1>3, <1>4, <1>5, <1>6, KindsOfSteps

(* A pipeline serves its operations as JobQueue says: in the order in which *)
(* they were accepted, one at a time, each answered once.                   *)
THEOREM ImplementsJobQueue == Spec => IsJobQueue
BY JobQueueInit, JobQueueNext, TypeCorrect, QueueInvCorrect, PTL
   DEF Spec, IsJobQueue, JobQueue!Spec

-----------------------------------------------------------------------------
(* Requests. *)

(* The mask of requested phases is reset for all, or it only grows. *)
MaskGrows ==
  \/ asked' = [u \in Tasks |-> 0]
  \/ asked' = asked /\ requested' >= requested

LEMMA CompletionResetsMask ==
  ASSUME NEW t, NEW answer, NEW fail, NEW pending,
         TaskCompleted(t, answer, fail, pending)
  PROVE  MaskGrows
BY DEF TaskCompleted, MaskGrows

LEMMA UnchangedMaskGrows ==
  ASSUME TypeOK, asked' = asked, requested' = requested
  PROVE  MaskGrows
BY StagesAssumption DEF TypeOK, MaskGrows

LEMMA TickExecuteMask ==
  ASSUME TypeOK, NEW t \in Tasks, NEW comp, NEW binds, NEW pos, NEW pending,
         TickExecute(t, comp, binds, pos, pending)
  PROVE  MaskGrows
<1> DEFINE goal == Later(requested, phase[t])
           todo == Remaining(goal, pos)
           next == First(todo)
<1>1. CASE \E answer, end : WalkEnds(t, answer, comp, binds, end, pending)
  BY <1>1, CompletionResetsMask DEF WalkEnds
<1>2. CASE StartStage(t, next, ChainedTo(next, todo), comp, binds, pending) /\ requested' = goal
  <2>1. goal >= requested
    BY StagesAssumption DEF TypeOK, Later
  <2>2. asked' = asked
    BY <1>2 DEF StartStage, TaskContinues
  <2> QED
    BY <1>2, <2>1, <2>2 DEF MaskGrows
<1> QED
  BY <1>1, <1>2 DEF TickExecute

LEMMA TickCleanMask ==
  ASSUME TypeOK, NEW t, NEW left, NEW pending, TickClean(t, left, pending)
  PROVE  MaskGrows
<1>1. CASE left = {}
  BY <1>1, CompletionResetsMask DEF TickClean
<1>2. CASE left # {}
  BY <1>2, UnchangedMaskGrows DEF TickClean, TaskContinues
<1> QED
  BY <1>1, <1>2

LEMMA StageExecutedMask ==
  ASSUME TypeOK, NEW t \in Tasks, NEW comp, NEW ok \in BOOLEAN, StageExecuted(t, comp, ok)
  PROVE  MaskGrows
<1>1. CASE ok
  BY <1>1, TickExecuteMask DEF StageExecuted
<1>2. CASE ~ok
  BY <1>2, CompletionResetsMask DEF StageExecuted
<1> QED
  BY <1>1, <1>2

LEMMA StepsGrowMask ==
  ASSUME TypeOK, [Next]_vars
  PROVE  \/ MaskGrows
         \/ \E t \in Tasks, p \in 1..NPhases : RequestPhase(t, p)
<1> USE DEF ghostVars, workVars
<1>1. ASSUME NEW t \in Tasks, NEW p, CleanAsync(t, p) \/ RebuildAsync(t, p)
      PROVE  MaskGrows
  BY <1>1, UnchangedMaskGrows DEF CleanAsync, RebuildAsync
<1>2. ASSUME NEW t \in Tasks, ExecuteAsync(t) \/ Cancel(t)
      PROVE  MaskGrows
  BY <1>2, UnchangedMaskGrows DEF ExecuteAsync, Cancel
<1>3. ASSUME NEW t \in Tasks, Unpause(t)
      PROVE  MaskGrows
  <2>1. PICK comp : \/ StageExecuted(t, comp, t \notin cancelled)
                    \/ TaskContinues(t, "executing", flushes) /\ UNCHANGED requested
    BY <1>3, Zenon DEF Unpause
  <2>2. (t \notin cancelled) \in BOOLEAN
    OBVIOUS
  <2> QED
    BY <2>1, <2>2, StageExecutedMask, UnchangedMaskGrows DEF TaskContinues
<1>4. ASSUME NEW t \in Tasks, StageReturns(t)
      PROVE  MaskGrows
  BY <1>4, StageExecutedMask DEF StageReturns
<1>5. ASSUME NEW t \in Tasks, CleanReturns(t)
      PROVE  MaskGrows
  BY <1>5, TickCleanMask, CompletionResetsMask DEF CleanReturns
<1>6. ASSUME NEW t \in Tasks, ReapReturns(t)
      PROVE  MaskGrows
  BY <1>6, TickExecuteMask, CompletionResetsMask DEF ReapReturns
<1>7. ASSUME NEW ps, InvalidatePhase(ps)
      PROVE  MaskGrows
  BY <1>7, UnchangedMaskGrows DEF InvalidatePhase
<1>8. ASSUME NEW now, Reshape(now)
      PROVE  MaskGrows
  BY <1>8, UnchangedMaskGrows DEF Reshape
<1>9. ASSUME FlushNothing \/ FlushFails
      PROVE  MaskGrows
  BY <1>9, UnchangedMaskGrows DEF FlushNothing, FlushFails
<1>10. ASSUME FlushStarts
       PROVE  MaskGrows
  <2>1. Head(queue) \in Tasks
    BY <1>10 DEF FlushStarts, TypeOK
  <2>2. CASE TickRebuild(Head(queue), flushes - 1)
    BY <2>2, UnchangedMaskGrows DEF TickRebuild, TaskContinues
  <2> QED
    BY <1>10, <2>1, <2>2, TickExecuteMask, TickCleanMask DEF FlushStarts
<1>11. CASE UNCHANGED vars
  BY <1>11, UnchangedMaskGrows DEF vars
<1> QED
  BY <1>1, <1>2, <1>3, <1>4, <1>5, <1>6, <1>7, <1>8, <1>9, <1>10, <1>11
  DEF Next, Callback, DoFlush, Connect, Disconnect, Load, Unload

(* No task becomes new again. *)
LEMMA NewWasNew ==
  ASSUME TypeOK, QueueInv, [Next]_vars, NEW t \in Tasks, state'[t] = "new"
  PROVE  state[t] = "new"
<1>1. CASE Elsewhere
  BY <1>1 DEF Elsewhere
<1>2. ASSUME NEW u \in Tasks, Accepts(u)
      PROVE  state[t] = "new"
  BY <1>2 DEF Accepts, Enqueue, AnswerAtOnce, TypeOK
<1>3. CASE FlushNothing \/ FlushFails
  BY <1>3 DEF FlushNothing, FlushFails, taskVars, TypeOK
<1>4. ASSUME NEW u \in Tasks, NEW pending \in Nat, Worked(u, pending)
      PROVE  state[t] = "new"
  BY <1>4, WorkedState DEF TypeOK, Answers
<1>5. CASE FlushWorks
  BY <1>4, <1>5, HeadOfQueue DEF FlushWorks, TypeOK, QueueInv
<1>6. ASSUME NEW u \in Tasks, CallbackWorks(u)
      PROVE  state[t] = "new"
  BY <1>4, <1>6 DEF CallbackWorks, TypeOK
<1> QED
  BY <1>1, <1>2, <1>3, <1>5, <1>6, KindsOfSteps

LEMMA RequestsNext ==
  TypeOK /\ QueueInv /\ RequestsAccumulate /\ [Next]_vars => RequestsAccumulate'
<1> SUFFICES ASSUME TypeOK, QueueInv, RequestsAccumulate, [Next]_vars,
                    NEW t \in Tasks, state'[t] = "new"
             PROVE  asked'[t] <= requested'
  BY DEF RequestsAccumulate
<1>1. asked[t] <= requested /\ asked[t] \in Nat /\ requested \in Nat
  <2>1. state[t] = "new"
    BY NewWasNew
  <2>2. asked[t] <= requested
    BY <2>1 DEF RequestsAccumulate
  <2>3. asked[t] \in Nat /\ requested \in Nat
    BY StagesAssumption DEF TypeOK
  <2> QED
    BY <2>2, <2>3
<1>2. TypeOK'
  BY NextType
<1>3. requested' \in Nat
  BY <1>2, StagesAssumption DEF TypeOK
<1>4. CASE MaskGrows
  BY <1>1, <1>3, <1>4 DEF MaskGrows
<1>5. ASSUME NEW u \in Tasks, NEW p \in 1..NPhases, RequestPhase(u, p)
      PROVE  asked'[t] <= requested'
  BY <1>1, <1>5, StagesAssumption DEF RequestPhase, TypeOK, Later
<1> QED
  BY <1>4, <1>5, StepsGrowMask

(* A phase a client requested is still requested when it starts its task, *)
(* unless a task was answered in between.                                 *)
THEOREM RequestsCorrect == Spec => []RequestsAccumulate
<1>1. Init => RequestsAccumulate
  BY DEF Init, RequestsAccumulate
<1> QED
  BY <1>1, RequestsNext, TypeCorrect, QueueInvCorrect, PTL DEF Spec

-----------------------------------------------------------------------------
(* Callbacks. *)

(* What a callback relies on, and that only builds of some phase wait. *)
CallbackInv ==
  /\ CallbackFindsItsTask
  /\ \A t \in Tasks : state[t] \in {"queued", "running"} /\ Kind[t] = "build" => phase[t] # 0

(* The task t has been answered, or its stages execute. *)
EndsOrWalks(t) ==
  /\ UNCHANGED phase
  /\ \/ \E answer \in Answers : state' = [state EXCEPT ![t] = answer]
     \/ /\ state' = [state EXCEPT ![t] = "running"]
        /\ activity' \in {"paused", "executing", "answered"} /\ current' # None

LEMMA TaskCompletedEnds ==
  ASSUME NEW t, NEW answer \in Answers, NEW fail, NEW pending, UNCHANGED phase,
         TaskCompleted(t, answer, fail, pending)
  PROVE  EndsOrWalks(t)
BY DEF TaskCompleted, EndsOrWalks

LEMMA TickExecuteEndsOrWalks ==
  ASSUME TypeOK, NEW t \in Tasks, NEW comp, NEW binds, NEW pos, NEW pending,
         UNCHANGED phase, TickExecute(t, comp, binds, pos, pending)
  PROVE  EndsOrWalks(t)
<1> DEFINE goal == Later(requested, phase[t])
           todo == Remaining(goal, pos)
           next == First(todo)
<1>1. CASE \E answer \in Answers : \E end : WalkEnds(t, answer, comp, binds, end, pending)
  BY <1>1, TaskCompletedEnds DEF WalkEnds
<1>2. CASE todo # {} /\ StartStage(t, next, ChainedTo(next, todo), comp, binds, pending)
  <2>1. todo \in SUBSET Stages
    BY DEF TypeOK, Remaining
  <2>2. next \in Stages
    BY <1>2, <2>1, FirstExists
  <2>3. current' # None
    BY <1>2, <2>2, StagesAssumption DEF StartStage
  <2>4. PICK q : TaskContinues(t, WaitsFor(q, completed'[next]), pending)
    BY <1>2 DEF StartStage
  <2>5. WaitsFor(q, completed'[next]) \in {"paused", "executing", "answered"}
    BY DEF WaitsFor
  <2> QED
    BY <2>3, <2>4, <2>5 DEF TaskContinues, EndsOrWalks
<1> QED
  BY <1>1, <1>2 DEF TickExecute, Answers

LEMMA StageExecutedEndsOrWalks ==
  ASSUME TypeOK, NEW t \in Tasks, NEW comp, NEW ok \in BOOLEAN,
         UNCHANGED phase, StageExecuted(t, comp, ok)
  PROVE  EndsOrWalks(t)
<1>1. CASE ok
  BY <1>1, TickExecuteEndsOrWalks DEF StageExecuted
<1>2. CASE ~ok
  BY <1>2, TaskCompletedEnds DEF StageExecuted, Answers
<1> QED
  BY <1>1, <1>2

(* Ending a task, or executing its stages, is right for a build or rebuild *)
(* of some phase, if no other task runs.                                   *)
LEMMA EndsOrWalksKeepsInv ==
  ASSUME TypeOK, CallbackInv, NEW t \in Tasks, EndsOrWalks(t),
         \A u \in Tasks : Running(u) => u = t,
         \/ \E answer \in Answers : state' = [state EXCEPT ![t] = answer]
         \/ Kind[t] \in {"build", "rebuild"} /\ phase[t] # 0
  PROVE  CallbackInv'
<1>1. CASE \E answer \in Answers : state' = [state EXCEPT ![t] = answer]
  <2>1. \A u \in Tasks : ~Running(u)' /\ (state'[u] = "queued" => state[u] = "queued")
    BY <1>1 DEF TypeOK, Running, Answers
  <2> QED
    BY <2>1 DEF CallbackInv, CallbackFindsItsTask, EndsOrWalks, Running
<1>2. CASE /\ Kind[t] \in {"build", "rebuild"} /\ phase[t] # 0
           /\ state' = [state EXCEPT ![t] = "running"]
           /\ activity' \in {"paused", "executing", "answered"} /\ current' # None
  <2>1. \A u \in Tasks : /\ Running(u)' => u = t
                         /\ state'[u] = "queued" => state[u] = "queued"
    BY <1>2 DEF TypeOK, Running
  <2>2. phase' = phase
    BY DEF EndsOrWalks
  <2>3. CallbackFindsItsTask'
    BY <1>2, <2>1, <2>2 DEF CallbackFindsItsTask
  <2> QED
    BY <1>2, <2>1, <2>2, <2>3 DEF CallbackInv, Running
<1> QED
  BY <1>1, <1>2 DEF EndsOrWalks

(* Nor does a step disturb it that leaves the operation alone. *)
LEMMA ElsewhereKeepsInv ==
  ASSUME CallbackInv, UNCHANGED <<activity, current, state, phase, toClean>>
  PROVE  CallbackInv'
BY DEF CallbackInv, CallbackFindsItsTask, Running

LEMMA TickCleanKeepsInv ==
  ASSUME TypeOK, CallbackInv, NEW t \in Tasks, Kind[t] = "clean",
         \A u \in Tasks : Running(u) => u = t, UNCHANGED phase,
         NEW left, NEW pending, TickClean(t, left, pending)
  PROVE  CallbackInv'
<1>1. CASE left = {}
  <2>1. PICK answer \in Answers : TaskCompleted(t, answer, FALSE, pending)
    BY <1>1 DEF TickClean, Answers
  <2>2. state' = [state EXCEPT ![t] = answer]
    BY <2>1 DEF TaskCompleted
  <2> QED
    BY <2>1, <2>2, TaskCompletedEnds, EndsOrWalksKeepsInv
<1>2. CASE left # {}
  <2>1. /\ state' = [state EXCEPT ![t] = "running"] /\ activity' = "cleaning"
        /\ current' = Last(left) /\ toClean' = [toClean EXCEPT ![t] = left]
    BY <1>2 DEF TickClean, TaskContinues
  <2>2. \A u \in Tasks : /\ Running(u)' => u = t
                         /\ state'[u] = "queued" => state[u] = "queued"
    BY <2>1 DEF TypeOK, Running
  <2>3. toClean'[t] = left
    BY <2>1 DEF TypeOK
  <2>4. CallbackFindsItsTask'
    BY <1>2, <2>1, <2>2, <2>3 DEF CallbackFindsItsTask
  <2> QED
    BY <2>2, <2>4 DEF CallbackInv, Running
<1> QED
  BY <1>1, <1>2

LEMMA AcceptedKeepsInv ==
  ASSUME TypeOK, CallbackInv, NEW t \in Tasks, state[t] = "new",
         Enqueue(t) \/ AnswerAtOnce(t), UNCHANGED <<activity, current>>,
         NEW p, phase' = [phase EXCEPT ![t] = p],
         Enqueue(t) /\ Kind[t] = "build" => p # 0,
         \A u \in Tasks : u # t => toClean'[u] = toClean[u]
  PROVE  CallbackInv'
<1>1. \A u \in Tasks : u # t => /\ state'[u] = state[u]
                               /\ phase'[u] = phase[u]
  BY DEF Enqueue, AnswerAtOnce, TypeOK
<1>2. ~Running(t)' /\ (state'[t] = "queued" => Enqueue(t))
  BY DEF Enqueue, AnswerAtOnce, TypeOK, Running
<1>3. phase'[t] = p
  BY DEF TypeOK
<1>4. CallbackFindsItsTask'
  BY <1>1, <1>2 DEF CallbackInv, CallbackFindsItsTask, Running
<1> QED
  BY <1>1, <1>2, <1>3, <1>4 DEF CallbackInv, Running

LEMMA CallbackInvNext == TypeOK /\ QueueInv /\ CallbackInv /\ [Next]_vars => CallbackInv'
<1> SUFFICES ASSUME TypeOK, QueueInv, CallbackInv, [Next]_vars PROVE CallbackInv'
  OBVIOUS
<1> USE DEF workVars, taskVars
<1>1. ASSUME NEW t \in Tasks, NEW p, RequestPhase(t, p) \/ Cancel(t)
      PROVE  CallbackInv'
  BY <1>1, ElsewhereKeepsInv DEF RequestPhase, Cancel
<1>2. ASSUME NEW t \in Tasks, NEW p, CleanAsync(t, p) \/ RebuildAsync(t, p)
      PROVE  CallbackInv'
  <2>1. /\ state[t] = "new" /\ Kind[t] # "build"
        /\ Enqueue(t) \/ AnswerAtOnce(t)
        /\ UNCHANGED <<activity, current>> /\ phase' = [phase EXCEPT ![t] = p]
    BY <1>2 DEF CleanAsync, RebuildAsync
  <2>2. \A u \in Tasks : u # t => toClean'[u] = toClean[u]
    BY <1>2 DEF CleanAsync, RebuildAsync, TypeOK
  <2> QED
    BY <2>1, <2>2, AcceptedKeepsInv
<1>3. ASSUME NEW t \in Tasks, ExecuteAsync(t)
      PROVE  CallbackInv'
  <2>1. /\ state[t] = "new" /\ toClean' = toClean
        /\ UNCHANGED <<activity, current>> /\ phase' = [phase EXCEPT ![t] = requested]
    BY <1>3 DEF ExecuteAsync
  <2>2. CASE requested = 0
    <3>1. AnswerAtOnce(t) /\ ~Enqueue(t)
      BY <1>3, <2>1, <2>2 DEF ExecuteAsync, AnswerAtOnce, Enqueue, TypeOK
    <3> QED
      BY <2>1, <3>1, AcceptedKeepsInv
  <2>3. CASE requested # 0
    BY <1>3, <2>1, <2>3, AcceptedKeepsInv DEF ExecuteAsync
  <2> QED
    BY <2>2, <2>3
<1>4. ASSUME NEW t \in Tasks, Unpause(t) \/ StageReturns(t)
      PROVE  CallbackInv'
  <2>1. /\ Running(t) /\ activity \in {"paused", "executing", "answered"}
        /\ UNCHANGED phase
    BY <1>4 DEF Unpause, StageReturns
  <2>2. Kind[t] \in {"build", "rebuild"} /\ phase[t] # 0 /\ current # None
    BY <2>1 DEF CallbackInv, CallbackFindsItsTask
  <2>3. \A u \in Tasks : Running(u) => u = t
    BY <2>1 DEF QueueInv, SingleFlight
  <2>4. EndsOrWalks(t)
    <3>1. ASSUME NEW comp, NEW ok \in BOOLEAN, StageExecuted(t, comp, ok)
          PROVE  EndsOrWalks(t)
      BY <2>1, <3>1, StageExecutedEndsOrWalks
    <3>2. CASE TaskContinues(t, "executing", flushes) /\ UNCHANGED current
      BY <2>1, <2>2, <3>2 DEF TaskContinues, EndsOrWalks
    <3>3. (t \notin cancelled) \in BOOLEAN
      OBVIOUS
    <3>4. CASE Unpause(t)
      <4>1. PICK comp : \/ StageExecuted(t, comp, t \notin cancelled)
                        \/ TaskContinues(t, "executing", flushes) /\ UNCHANGED current
        BY <3>4, Zenon DEF Unpause
      <4> QED
        BY <3>1, <3>2, <3>3, <4>1
    <3>5. CASE StageReturns(t)
      BY <3>1, <3>5 DEF StageReturns
    <3> QED
      BY <1>4, <3>4, <3>5
  <2> QED
    BY <2>2, <2>3, <2>4, EndsOrWalksKeepsInv
<1>5. ASSUME NEW t \in Tasks, CleanReturns(t)
      PROVE  CallbackInv'
  <2>1. Kind[t] = "clean" /\ Running(t) /\ UNCHANGED phase
    BY <1>5 DEF CleanReturns, CallbackInv, CallbackFindsItsTask
  <2>2. \A u \in Tasks : Running(u) => u = t
    BY <2>1 DEF QueueInv, SingleFlight
  <2>3. CASE TaskCompleted(t, "error", FALSE, flushes)
    <3>1. "error" \in Answers /\ state' = [state EXCEPT ![t] = "error"]
      BY <2>3 DEF TaskCompleted, Answers
    <3> QED
      BY <2>1, <2>2, <2>3, <3>1, TaskCompletedEnds, EndsOrWalksKeepsInv
  <2>4. CASE TickClean(t, toClean[t] \ {current}, flushes)
    BY <2>1, <2>2, <2>4, TickCleanKeepsInv
  <2> QED
    BY <1>5, <2>3, <2>4 DEF CleanReturns
<1>6. ASSUME NEW t \in Tasks, ReapReturns(t)
      PROVE  CallbackInv'
  <2>1. Kind[t] = "rebuild" /\ Running(t) /\ UNCHANGED phase
    BY <1>6 DEF ReapReturns, CallbackInv, CallbackFindsItsTask
  <2>2. \A u \in Tasks : Running(u) => u = t
    BY <2>1 DEF QueueInv, SingleFlight
  <2>3. ASSUME NEW answer \in Answers, TaskCompleted(t, answer, FALSE, flushes)
        PROVE  CallbackInv'
    <3>1. state' = [state EXCEPT ![t] = answer]
      BY <2>3 DEF TaskCompleted
    <3> QED
      BY <2>1, <2>2, <2>3, <3>1, TaskCompletedEnds, EndsOrWalksKeepsInv
  <2>4. CASE phase[t] # 0 /\ TickExecute(t, completed, bindings, position, flushes)
    BY <2>1, <2>2, <2>4, TickExecuteEndsOrWalks, EndsOrWalksKeepsInv
  <2> QED
    BY <1>6, <2>3, <2>4 DEF ReapReturns, Answers
<1>7. ASSUME NEW ps, InvalidatePhase(ps)
      PROVE  CallbackInv'
  BY <1>7, ElsewhereKeepsInv DEF InvalidatePhase
<1>8. ASSUME NEW now, Reshape(now)
      PROVE  CallbackInv'
  BY <1>8, ElsewhereKeepsInv DEF Reshape
<1>9. CASE FlushNothing
  BY <1>9, ElsewhereKeepsInv DEF FlushNothing
<1>10. CASE FlushFails
  <2>1. \A t \in Tasks : ~Running(t)
    BY <1>10 DEF FlushFails, QueueInv, SingleFlight
  <2>2. \A t \in Tasks : ~Running(t)' /\ state'[t] # "queued"
    BY <1>10, <2>1 DEF FlushFails, Running, TypeOK
  <2> QED
    BY <2>2 DEF CallbackInv, CallbackFindsItsTask, Running
<1>11. CASE FlushStarts
  <2> DEFINE t == Head(queue)
  <2>1. t \in Tasks /\ state[t] = "queued" /\ UNCHANGED phase
    BY <1>11, HeadOfQueue DEF FlushStarts, QueueInv
  <2>2. \A u \in Tasks : Running(u) => u = t
    BY <1>11 DEF FlushStarts, QueueInv, SingleFlight
  <2>3. CASE Kind[t] = "build" /\ TickExecute(t, completed, bindings, -1, flushes - 1)
    <3>1. EndsOrWalks(t)
      BY <2>1, <2>3, TickExecuteEndsOrWalks
    <3>2. phase[t] # 0
      BY <2>1, <2>3 DEF CallbackInv
    <3> QED
      BY <2>1, <2>2, <2>3, <3>1, <3>2, EndsOrWalksKeepsInv
  <2>4. CASE Kind[t] = "clean" /\ TickClean(t, toClean[t], flushes - 1)
    BY <2>1, <2>2, <2>4, TickCleanKeepsInv
  <2>5. CASE Kind[t] = "rebuild" /\ TickRebuild(t, flushes - 1)
    <3>1. state' = [state EXCEPT ![t] = "running"] /\ activity' = "reaping"
      BY <2>5 DEF TickRebuild, TaskContinues
    <3>2. \A u \in Tasks : /\ Running(u)' => u = t
                           /\ state'[u] = "queued" => state[u] = "queued"
      BY <2>1, <2>2, <3>1 DEF TypeOK, Running
    <3> QED
      BY <2>1, <2>5, <3>1, <3>2 DEF CallbackInv, CallbackFindsItsTask, Running
  <2> QED
    BY <1>11, <2>3, <2>4, <2>5 DEF FlushStarts
<1>12. CASE UNCHANGED vars
  BY <1>12, ElsewhereKeepsInv DEF vars
<1> QED
  BY <1>1, <1>2, <1>3, <1>4, <1>5, <1>6, <1>7, <1>8, <1>9, <1>10, <1>11, <1>12
  DEF Next, Callback, DoFlush, Connect, Disconnect, Load, Unload

LEMMA CallbackInvCorrect == Spec => []CallbackInv
<1>1. Init => CallbackInv
  BY DEF Init, CallbackInv, CallbackFindsItsTask, Running
<1> QED
  BY <1>1, CallbackInvNext, TypeCorrect, QueueInvCorrect, PTL DEF Spec

(* A callback finds the task it expects: the assertions in clean_cb,        *)
(* reaper_cb and tick_execute about the task cannot fail.                   *)
THEOREM CallbacksCorrect == Spec => []CallbackFindsItsTask
<1>1. CallbackInv => CallbackFindsItsTask
  BY DEF CallbackInv
<1> QED
  BY <1>1, CallbackInvCorrect, PTL
-----------------------------------------------------------------------------
(* Cancellation. *)

(* The task t has been answered with an error, or waits for the same stage. *)
Stops(t) ==
  \/ state' = [state EXCEPT ![t] = "error"]
  \/ state' = [state EXCEPT ![t] = "running"] /\ UNCHANGED current

LEMMA TickExecuteStops ==
  ASSUME NEW t \in Tasks \cap cancelled, NEW comp, NEW binds, NEW pos, NEW pending,
         TickExecute(t, comp, binds, pos, pending)
  PROVE  Stops(t)
BY DEF TickExecute, WalkEnds, TaskCompleted, Stops

LEMMA StageExecutedStops ==
  ASSUME NEW t \in Tasks \cap cancelled, NEW comp, NEW ok \in BOOLEAN, StageExecuted(t, comp, ok)
  PROVE  Stops(t)
<1>1. CASE ok
  BY <1>1, TickExecuteStops DEF StageExecuted
<1>2. CASE ~ok
  BY <1>2 DEF StageExecuted, TaskCompleted, Stops
<1> QED
  BY <1>1, <1>2

(* A callback of a cancelled task makes it stop. *)
LEMMA CallbackStops ==
  ASSUME NEW t \in Tasks \cap cancelled, Callback(t)
  PROVE  Running(t) /\ Stops(t)
<1>1. ASSUME Unpause(t) PROVE Running(t) /\ Stops(t)
  <2>1. PICK comp : \/ StageExecuted(t, comp, t \notin cancelled)
                    \/ TaskContinues(t, "executing", flushes) /\ UNCHANGED current
    BY <1>1, Zenon DEF Unpause
  <2>2. CASE StageExecuted(t, comp, t \notin cancelled)
    <3>1. (t \notin cancelled) \in BOOLEAN
      OBVIOUS
    <3> QED
      BY <1>1, <2>2, <3>1, StageExecutedStops DEF Unpause
  <2>3. CASE TaskContinues(t, "executing", flushes) /\ UNCHANGED current
    BY <1>1, <2>3 DEF Unpause, TaskContinues, Stops
  <2> QED
    BY <2>1, <2>2, <2>3
<1>2. ASSUME StageReturns(t) PROVE Running(t) /\ Stops(t)
  <2>1. PICK ok \in BOOLEAN : StageExecuted(t, completed, ok)
    BY <1>2 DEF StageReturns
  <2> QED
    BY <1>2, <2>1, StageExecutedStops DEF StageReturns
<1>3. ASSUME CleanReturns(t) PROVE Running(t) /\ Stops(t)
  BY <1>3 DEF CleanReturns, TaskCompleted, Stops
<1>4. ASSUME ReapReturns(t) PROVE Running(t) /\ Stops(t)
  <2>1. CASE TickExecute(t, completed, bindings, position, flushes)
    BY <1>4, <2>1, TickExecuteStops DEF ReapReturns
  <2>2. CASE TaskCompleted(t, "error", FALSE, flushes)
    BY <1>4, <2>2 DEF ReapReturns, TaskCompleted, Stops
  <2> QED
    BY <1>4, <2>1, <2>2 DEF ReapReturns
<1> QED
  BY <1>1, <1>2, <1>3, <1>4 DEF Callback

(* A cancelled task that is started may begin to clean, or to remove files. *)
LEMMA StartIsNoSuccess ==
  ASSUME TypeOK, QueueInv, NEW t \in Tasks \cap cancelled, FlushStarts, Head(queue) = t
  PROVE  state'[t] \in {"error", "running"}
<1>1. CASE TickExecute(t, completed, bindings, -1, flushes - 1)
  BY <1>1, TickExecuteStops DEF Stops, TypeOK
<1>2. CASE TickClean(t, toClean[t], flushes - 1)
  BY <1>2 DEF TickClean, TaskCompleted, TaskContinues, TypeOK
<1>3. CASE TickRebuild(t, flushes - 1)
  BY <1>3 DEF TickRebuild, TaskContinues, TypeOK
<1> QED
  BY <1>1, <1>2, <1>3 DEF FlushStarts

StopsNext(t) ==
  state[t] \in {"queued", "running"} =>
    /\ state'[t] # "ok"
    /\ Running(t) /\ state'[t] = "running" => current' = current

(* Nothing that happens to the others makes it go on. *)
LEMMA OthersLetStop ==
  ASSUME NEW t \in Tasks, state'[t] = state[t], ~Running(t) \/ UNCHANGED current
  PROVE  StopsNext(t)
BY DEF StopsNext, Running

LEMMA CancelledStopsNext ==
  ASSUME TypeOK, QueueInv, [Next]_vars, NEW t \in Tasks \cap cancelled
  PROVE  StopsNext(t)
<1> USE DEF workVars, taskVars
<1>1. ASSUME NEW u \in Tasks, NEW p, RequestPhase(u, p) \/ Cancel(u)
      PROVE  StopsNext(t)
  BY <1>1, OthersLetStop DEF RequestPhase, Cancel
<1>2. ASSUME NEW u \in Tasks, NEW p, CleanAsync(u, p) \/ RebuildAsync(u, p) \/ ExecuteAsync(u)
      PROVE  StopsNext(t)
  <2>1. state[u] = "new" /\ (Enqueue(u) \/ AnswerAtOnce(u)) /\ UNCHANGED current
    BY <1>2 DEF CleanAsync, RebuildAsync, ExecuteAsync
  <2>2. CASE u = t
    BY <2>1, <2>2 DEF StopsNext
  <2>3. CASE u # t
    BY <2>1, <2>3, OthersLetStop DEF Enqueue, AnswerAtOnce, TypeOK
  <2> QED
    BY <2>2, <2>3
<1>3. ASSUME NEW u \in Tasks, Callback(u)
      PROVE  StopsNext(t)
  <2>1. CASE u = t
    BY <1>3, <2>1, CallbackStops DEF StopsNext, Stops, TypeOK
  <2>2. CASE u # t
    <3>1. CallbackWorks(u)
      BY <1>3, CallbackWorksOf
    <3>2. ~Running(t)
      BY <2>2, <3>1 DEF CallbackWorks, QueueInv, SingleFlight
    <3>3. state'[t] = state[t]
      BY <2>2, <3>1, WorkedState DEF CallbackWorks, TypeOK
    <3> QED
      BY <3>2, <3>3, OthersLetStop
  <2> QED
    BY <2>1, <2>2
<1>4. ASSUME NEW ps, InvalidatePhase(ps)
      PROVE  StopsNext(t)
  BY <1>4, OthersLetStop DEF InvalidatePhase
<1>5. ASSUME NEW now, Reshape(now)
      PROVE  StopsNext(t)
  BY <1>5, OthersLetStop DEF Reshape
<1>6. CASE FlushNothing
  BY <1>6, OthersLetStop DEF FlushNothing
<1>7. CASE FlushFails
  BY <1>7 DEF FlushFails, StopsNext, TypeOK
<1>8. CASE FlushStarts
  <2>1. ~Running(t)
    BY <1>8 DEF FlushStarts, QueueInv, SingleFlight
  <2>2. CASE Head(queue) = t
    BY <1>8, <2>1, <2>2, StartIsNoSuccess DEF StopsNext
  <2>3. CASE Head(queue) # t
    <3>1. FlushWorks
      BY <1>8, TickExecuteWorks, TickCleanWorks, TickRebuildWorks DEF FlushStarts, FlushWorks
    <3>2. Head(queue) \in Tasks
      BY <3>1, HeadOfQueue DEF FlushWorks, QueueInv
    <3>3. state'[t] = state[t]
      <4>1. flushes - 1 \in Nat /\ Worked(Head(queue), flushes - 1)
        BY <3>1 DEF FlushWorks, TypeOK
      <4>2. \E fate : state' = [state EXCEPT ![Head(queue)] = fate]
        BY <3>2, <4>1, WorkedState
      <4> QED
        BY <2>3, <3>2, <4>2 DEF TypeOK
    <3> QED
      BY <2>1, <3>3, OthersLetStop
  <2> QED
    BY <2>2, <2>3
<1>9. CASE UNCHANGED vars
  BY <1>9, OthersLetStop DEF vars
<1> QED
  BY <1>1, <1>2, <1>3, <1>4, <1>5, <1>6, <1>7, <1>8, <1>9
  DEF Next, DoFlush, Connect, Disconnect, Load, Unload

(* A task that was cancelled while it waited or was worked on is not        *)
(* answered with success, and starts no further stage.                      *)
THEOREM CancelledCorrect == Spec => CancelledTasksStop
<1>1. TypeOK /\ QueueInv /\ [Next]_vars =>
        [\A t \in Tasks \cap cancelled : StopsNext(t)]_vars
  BY CancelledStopsNext
<1>2. Spec => [][\A t \in Tasks \cap cancelled : StopsNext(t)]_vars
  BY <1>1, TypeCorrect, QueueInvCorrect, PTL DEF Spec
<1> QED
  BY <1>2 DEF CancelledTasksStop, StopsNext
=============================================================================
